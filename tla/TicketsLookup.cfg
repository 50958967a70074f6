\* The same deliveries when the admin lookup may fail.
SPECIFICATION FairSpec
CONSTANTS
    Tickets = {t1}
    Codes = {c1}
    NoCode = NoCode
    NoTicket = NoTicket
    Pumps = {1}
    MaxCodeAttempts = 6
    LookupMayFail = TRUE
PROPERTIES
    ChargedIsConfirmed
