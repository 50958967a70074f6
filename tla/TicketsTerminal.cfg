\* A filled or void ticket and the two confirmations of its payment.
SPECIFICATION Spec
CONSTANTS
    Tickets = {t1}
    Codes = {c1}
    NoCode = NoCode
    NoTicket = NoTicket
    Pumps = {1}
    MaxCodeAttempts = 6
    LookupMayFail = FALSE
PROPERTIES
    TerminalStaysTerminal
