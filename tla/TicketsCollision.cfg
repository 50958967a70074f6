\* Two purchases that draw the same code.
SPECIFICATION Spec
CONSTANTS
    Tickets = {t1, t2}
    Codes = {c1, c2}
    NoCode = NoCode
    NoTicket = NoTicket
    Pumps = {1}
    MaxCodeAttempts = 6
    LookupMayFail = FALSE
INVARIANTS
    CollisionIsRetried
