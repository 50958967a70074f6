\* Sessions that share a shift, one of which ends it.
SPECIFICATION Spec
CONSTANTS
    Staff = {cashier, operator}
    Operators = {operator}
    Pumps = {p1}
    Tokens = {k1, k2}
    Shifts = {s1, s2}
    NoPump = NoPump
    NoOne = NoOne
    NoShift = NoShift
    MaxRequests = 2
PROPERTIES
    AdmittedOnOpenShift
