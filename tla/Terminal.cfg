\* Three logins of a cashier and an operator at one pump.
SPECIFICATION Spec
CONSTANTS
    Staff = {cashier, operator}
    Operators = {operator}
    Pumps = {p1}
    Tokens = {k1, k2, k3}
    Shifts = {s1, s2}
    NoPump = NoPump
    NoOne = NoOne
    NoShift = NoShift
    MaxRequests = 2
SYMMETRY Symmetry
INVARIANTS
    TypeOK
    OneOpenShiftPerMember
    SessionMatchesShift
    PumpSharedOnlyByRace
PROPERTIES
    ImplementsShiftBook
