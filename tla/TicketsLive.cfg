\* Deliveries of one payment with a database that answers the lookup; pumps break down and come back.
SPECIFICATION FairSpec
CONSTANTS
    Tickets = {t1}
    Codes = {c1}
    NoCode = NoCode
    NoTicket = NoTicket
    Pumps = {1, 2}
    MaxCodeAttempts = 6
    LookupMayFail = FALSE
PROPERTIES
    ChargedIsConfirmed
    PumpNeverReassigned
