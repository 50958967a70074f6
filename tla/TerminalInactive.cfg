\* A member who is deactivated while a session is live.
SPECIFICATION Spec
CONSTANTS
    Staff = {cashier, operator}
    Operators = {operator}
    Pumps = {p1}
    Tokens = {k1, k2}
    Shifts = {s1, s2}
    NoPump = NoPump
    NoOne = NoOne
    NoShift = NoShift
    MaxRequests = 2
PROPERTIES
    InactiveIsRefused
