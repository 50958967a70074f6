\* Two purchases compete for two codes: every interleaving of their requests.
SPECIFICATION Spec
CONSTANTS
    Tickets = {t1, t2}
    Codes = {c1, c2}
    NoCode = NoCode
    NoTicket = NoTicket
    Pumps = {1}
    MaxCodeAttempts = 6
    LookupMayFail = TRUE
SYMMETRY Symmetry
INVARIANTS
    TypeOK
    OpenCodesUnique
    FundedBeforeGas
    RedeemedOnce
    PaidTicketRedeemable
    ConfirmedWasFilled
PROPERTIES
    ImplementsLedger
