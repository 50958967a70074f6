\* One code, two verifications at once, no fault.
SPECIFICATION CodeSpec
CONSTANTS
    Lookups = {l1}
    Verifies = {v1, v2}
    Codes = {c1, c2}
    NoCode = NoCode
    MaxVerifyAttempts = 3
    CodeTTL = 4
    VerifyLockoutTTL = 2
    ResendCooldown = 1
    MaxFaults = 0
INVARIANTS
    AcceptedOnce
