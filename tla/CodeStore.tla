------------------------------ MODULE CodeStore ------------------------------
(***************************************************************************)
(* The one-time codes with which the customers of one plant look up the    *)
(* receipts of one phone number: the code, a resend cooldown, a counter of *)
(* wrong codes and a lock, four Redis keys with a TTL.  RequestCode and    *)
(* VerifyCode read and write them one command at a time, several at once.  *)
(* The lock does not delete the counter, and a new code does not either.   *)
(*                                                                         *)
(* Time is a Tick, which waits for a failure that is being recorded, as in *)
(* PinLimiter.                                                             *)
(***************************************************************************)
EXTENDS Integers, FiniteSets

CONSTANTS
    Lookups,           \* the RequestCode calls that may be in flight
    Verifies,          \* the VerifyCode calls that may be in flight
    Codes,             \* codes; one is drawn again only when nobody knows it any more
    NoCode,            \* no key
    MaxVerifyAttempts, \* wrong codes that lock the phone number
    CodeTTL,           \* in ticks, as are the next two
    VerifyLockoutTTL,
    ResendCooldown,
    MaxFaults          \* bound: commands that fail, requests or servers that die

ASSUME VerifiesAssumption == IsFiniteSet(Verifies)
ASSUME NoCodeAssumption == NoCode \notin Codes
ASSUME MaxVerifyAttemptsAssumption == MaxVerifyAttempts \in Nat \ {0, 1}
ASSUME TTLsAssumption ==
    CodeTTL \in Nat \ {0} /\ VerifyLockoutTTL \in Nat \ {0} /\ ResendCooldown \in Nat \ {0}

ASSUME MaxFaultsAssumption == MaxFaults \in Nat

VARIABLES
    code,       \* receipt_code:<plant>:<phone>
    codeTTL,    \* its TTL
    cooldown,   \* the TTL of receipt_code_cooldown, 0 for no key
    fails,      \* receipt_code_fail, 0 for no key
    failTTL,    \* its TTL
    codeLock,   \* the TTL of receipt_code_lock, 0 for no key
    asking,     \* asking[l]: whether lookup l has taken the cooldown
    verifying,  \* verifying[v]: what verification v does next
    got,        \* got[v]: the code its GET returned
    faults,     \* history: commands that failed, requests that died
    wrong,      \* history: wrong codes compared with the one stored last
    accepted    \* history: accepted[c]: how many verifications c has passed

keyVars == <<code, codeTTL, cooldown, fails, failTTL, codeLock>>
codeVars == <<keyVars, asking, verifying, got, faults, wrong, accepted>>

----------------------------------------------------------------------------
(* RequestCode. *)

\* SETNX of the cooldown key.  While it is there, the handler shows the form again.
TakeCooldown(l) ==
    /\ asking[l] = FALSE
    /\ cooldown = 0
    /\ cooldown' = ResendCooldown
    /\ asking' = [asking EXCEPT ![l] = TRUE]
    /\ UNCHANGED <<code, codeTTL, fails, failTTL, codeLock, verifying, got, faults, wrong, accepted>>

\* A code is drawn, stored and sent.
StoreCode(l, c) ==
    /\ asking[l] = TRUE
    /\ c # code /\ \A v \in Verifies : got[v] # c
    /\ code' = c
    /\ codeTTL' = CodeTTL
    /\ asking' = [asking EXCEPT ![l] = FALSE]
    /\ wrong' = 0
    /\ accepted' = [accepted EXCEPT ![c] = 0]
    /\ UNCHANGED <<cooldown, fails, failTTL, codeLock, verifying, got, faults>>

\* The request dies with the cooldown taken and no code stored.
LookupDies(l) ==
    /\ asking[l] = TRUE
    /\ faults < MaxFaults
    /\ faults' = faults + 1
    /\ asking' = [asking EXCEPT ![l] = FALSE]
    /\ UNCHANGED <<keyVars, verifying, got, wrong, accepted>>

----------------------------------------------------------------------------
(* VerifyCode. *)

Then(v, to, c) ==
    /\ verifying' = [verifying EXCEPT ![v] = to]
    /\ got' = [got EXCEPT ![v] = c]

\* Mutant: the lock is not looked at.
NeverLocked == TRUE

\* EXISTS finds no lock key.
NotLocked == codeLock = 0

CheckLock(v) ==
    /\ verifying[v] = "idle"
    /\ NotLocked
    /\ Then(v, "reading", NoCode)
    /\ UNCHANGED <<keyVars, asking, faults, wrong, accepted>>

\* GET, and the comparison with what the customer typed.
ReadCode(v) ==
    /\ verifying[v] = "reading"
    /\ \/ /\ code = NoCode
          /\ Then(v, "idle", NoCode)
          /\ UNCHANGED wrong
       \/ /\ code # NoCode
          /\ Then(v, "right", code)
          /\ UNCHANGED wrong
       \/ /\ code # NoCode
          /\ Then(v, "wrong", NoCode)
          /\ wrong' = wrong + 1
    /\ UNCHANGED <<keyVars, asking, faults, accepted>>

\* What recordFailure does with INCR's answer.
AfterFail(n) ==
    CASE n = 1 -> "expiring" [] n >= MaxVerifyAttempts -> "locking" [] OTHER -> "idle"

\* INCR.  Bound: the model counts no further than where every further failure locks as well.
IncrFails(v) ==
    /\ verifying[v] = "wrong"
    /\ fails' = IF fails < MaxVerifyAttempts THEN fails + 1 ELSE fails
    /\ Then(v, AfterFail(fails'), NoCode)
    /\ UNCHANGED <<code, codeTTL, cooldown, failTTL, codeLock, asking, faults, wrong, accepted>>

ExpireFails(v) ==
    /\ verifying[v] = "expiring"
    /\ failTTL' = IF fails > 0 THEN CodeTTL ELSE 0
    /\ Then(v, "idle", NoCode)
    /\ UNCHANGED <<code, codeTTL, cooldown, fails, codeLock, asking, faults, wrong, accepted>>

PhoneLockedFor == VerifyLockoutTTL

LockPhone(v) ==
    /\ verifying[v] = "locking"
    /\ codeLock' = PhoneLockedFor
    /\ Then(v, "idle", NoCode)
    /\ UNCHANGED <<code, codeTTL, cooldown, fails, failTTL, asking, faults, wrong, accepted>>

\* An error of a DEL is ignored: the keys keep what they hold.
Unless(A, keys) ==
    \/ A /\ UNCHANGED faults
    \/ faults < MaxFaults /\ faults' = faults + 1 /\ UNCHANGED keys

\* DEL of the code key, whichever code it holds by now.
DeleteCode(v) ==
    /\ verifying[v] = "right"
    /\ Unless(code' = NoCode /\ codeTTL' = 0, <<code, codeTTL>>)
    /\ Then(v, "used", got[v])
    /\ UNCHANGED <<cooldown, fails, failTTL, codeLock, asking, wrong, accepted>>

\* DEL of the counter; the code has been accepted, and a session is created.
Accept(v) ==
    /\ verifying[v] = "used"
    /\ Unless(fails' = 0 /\ failTTL' = 0, <<fails, failTTL>>)
    /\ accepted' = [accepted EXCEPT ![got[v]] = @ + 1]
    /\ Then(v, "idle", NoCode)
    /\ UNCHANGED <<code, codeTTL, cooldown, codeLock, asking, wrong>>

\* Any other command fails, or the request or the server dies.
VerifyDies(v) ==
    /\ verifying[v] # "idle"
    /\ faults < MaxFaults
    /\ faults' = faults + 1
    /\ Then(v, "idle", NoCode)
    /\ UNCHANGED <<keyVars, asking, wrong, accepted>>

----------------------------------------------------------------------------
Lessen(ttl) == IF ttl > 0 THEN ttl - 1 ELSE 0

RecordingFailure(v) == verifying[v] \in {"expiring", "locking"}

\* A counter whose EXPIRE was lost has no TTL and stays.
CodeTick ==
    /\ codeTTL + cooldown + failTTL + codeLock > 0
    /\ \A v \in Verifies : ~RecordingFailure(v)
    /\ codeTTL' = Lessen(codeTTL)
    /\ code' = IF codeTTL <= 1 THEN NoCode ELSE code
    /\ cooldown' = Lessen(cooldown)
    /\ failTTL' = Lessen(failTTL)
    /\ fails' = IF failTTL = 1 THEN 0 ELSE fails
    /\ codeLock' = Lessen(codeLock)
    /\ UNCHANGED <<asking, verifying, got, faults, wrong, accepted>>

CodeInit ==
    /\ code = NoCode
    /\ codeTTL = 0
    /\ cooldown = 0
    /\ fails = 0
    /\ failTTL = 0
    /\ codeLock = 0
    /\ asking = [l \in Lookups |-> FALSE]
    /\ verifying = [v \in Verifies |-> "idle"]
    /\ got = [v \in Verifies |-> NoCode]
    /\ faults = 0
    /\ wrong = 0
    /\ accepted = [c \in Codes |-> 0]

CodeNext ==
    \/ CodeTick
    \/ \E l \in Lookups :
        \/ TakeCooldown(l)
        \/ \E c \in Codes : StoreCode(l, c)
        \/ LookupDies(l)
    \/ \E v \in Verifies :
        \/ CheckLock(v)
        \/ ReadCode(v)
        \/ IncrFails(v)
        \/ ExpireFails(v)
        \/ LockPhone(v)
        \/ DeleteCode(v)
        \/ Accept(v)
        \/ VerifyDies(v)

CodeSpec == CodeInit /\ [][CodeNext]_codeVars

----------------------------------------------------------------------------
(* Properties. *)

CodeTypeOK ==
    /\ code \in Codes \cup {NoCode}
    /\ codeTTL \in 0..CodeTTL
    /\ cooldown \in 0..ResendCooldown
    /\ fails \in 0..MaxVerifyAttempts
    /\ failTTL \in 0..CodeTTL
    /\ codeLock \in 0..VerifyLockoutTTL
    /\ asking \in [Lookups -> BOOLEAN]
    /\ verifying \in [Verifies -> {"idle", "reading", "right", "wrong", "expiring",
                                   "locking", "used"}]
    /\ got \in [Verifies -> Codes \cup {NoCode}]
    /\ faults \in 0..MaxFaults
    /\ wrong \in Nat
    /\ accepted \in [Codes -> Nat]

\* Without faults, a code is compared with a bounded number of wrong ones in its life.
\* The failures that do not lock are MaxVerifyAttempts - 1 for each counter: the one an
\* older code left, less the one failure at least that it counted before; the one after it,
\* and one for each other verification that still deletes a counter in the name of an older
\* code.  The others come in batches of those past CheckLock: one before the first lock, one
\* for each lock that ends before the code does.
WrongPerCodeBounded ==
    LET n == Cardinality(Verifies)
    IN  faults = 0 => wrong <= (n + 1) * (MaxVerifyAttempts - 1) - 1
                                + n * ((CodeTTL - 1) \div VerifyLockoutTTL + 1)

\* VerifyCode "consumes the code on a successful match (one-time use -- a second attempt
\* with the same code fails even if it hasn't expired yet)".
AcceptedOnce == \A c \in Codes : accepted[c] <= 1
=============================================================================
