\* Attempts at one PIN; verifications of, and a lookup for, one phone number; visits from one
\* address; requests of two plants for one connection of a server, which may stop.
SPECIFICATION Spec
CONSTANTS
    Attempts = {a1, a2}
    MaxPINAttempts = 3
    LockoutTTL = 1
    AttemptWindow = 3
    MaxDeaths = 2
    Lookups = {l1}
    Verifies = {v1, v2}
    Codes = {c1, c2}
    NoCode = NoCode
    MaxVerifyAttempts = 2
    CodeTTL = 2
    VerifyLockoutTTL = 1
    ResendCooldown = 1
    MaxFaults = 1
    Visits = {v1, v2, v3}
    RateMax = 3
    RateWindow = 3
    MaxRateFaults = 1
    Requests = {r1, r2, r3}
    Tenants = {x, y}
    Conns = {d1}
    NoTenant = NoTenant
    NoRequest = NoRequest
INVARIANTS
    SecretsTypeOK
    AttemptsLimited
    WrongPerCodeBounded
    AdmittedBounded
    PlantsApart
PROPERTIES
    LockEnds
    BlockEnds
    ShutdownEnds
CHECK_DEADLOCK FALSE
