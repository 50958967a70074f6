----------------------------- MODULE PinLimiter -----------------------------
(***************************************************************************)
(* The lockout of one member's terminal PIN: a counter of failures and a   *)
(* lock, two Redis keys with a TTL, which the PIN handler reads and writes *)
(* one command at a time while other attempts for the same member do too.  *)
(* A server may die between two commands.                                  *)
(*                                                                         *)
(* Time is a Tick that takes one unit off every TTL.  The commands with    *)
(* which RecordFailure follows its INCR take no time: a Tick waits for     *)
(* them, for they come milliseconds apart and the shortest TTL is 20s.     *)
(***************************************************************************)
EXTENDS Integers, FiniteSets

CONSTANTS
    Attempts,        \* the requests for this member that may be in flight
    MaxPINAttempts,  \* recorded failures that lock the member out
    LockoutTTL,      \* how long, in ticks
    AttemptWindow,   \* attemptWindow: the counter's TTL, from the first failure
    MaxDeaths        \* bound: requests or servers that die under way

ASSUME AttemptsAssumption == IsFiniteSet(Attempts)
ASSUME MaxPINAttemptsAssumption == MaxPINAttempts \in Nat \ {0, 1}
ASSUME LockoutTTLAssumption == LockoutTTL \in Nat \ {0}
ASSUME AttemptWindowAssumption == AttemptWindow \in Nat \ {0}
ASSUME MaxDeathsAssumption == MaxDeaths \in Nat

VARIABLES
    pinFails,   \* pin_attempts:<user>, 0 for no key
    pinWindow,  \* its TTL, 0 for none
    pinLock,    \* the TTL of pin_locked:<user>, 0 for no key
    trying,     \* trying[a]: what attempt a does next
    pinGuesses, \* history: wrong PINs compared since the counter was last deleted
    pinDeaths,  \* history: attempts that died
    leaked      \* history: attempts that died between INCR and EXPIRE of the counter there is

pinVars == <<pinFails, pinWindow, pinLock, trying, pinGuesses, pinDeaths, leaked>>

Goes(a, to) == trying' = [trying EXCEPT ![a] = to]

\* Mutant: the lock is only looked at when the screen is drawn.
BeginUnlocked(a) == TRUE

\* Locked finds no lock with time left.
Unlocked(a) == pinLock = 0

BeginPIN(a) ==
    /\ trying[a] = "idle"
    /\ Unlocked(a)
    /\ Goes(a, "comparing")
    /\ UNCHANGED <<pinFails, pinWindow, pinLock, pinGuesses, pinDeaths, leaked>>

\* The user is read and the PIN compared with the hash.
ComparePIN(a) ==
    /\ trying[a] = "comparing"
    /\ \/ /\ Goes(a, "right")
          /\ UNCHANGED pinGuesses
       \/ /\ Goes(a, "wrong")
          /\ pinGuesses' = pinGuesses + 1
    /\ UNCHANGED <<pinFails, pinWindow, pinLock, pinDeaths, leaked>>

\* The counter is deleted, by Reset or after a lockout.
DeleteCounter ==
    /\ pinFails' = 0
    /\ pinWindow' = 0
    /\ pinGuesses' = 0
    /\ leaked' = {}

\* Reset, and the login goes on.
ResetPIN(a) ==
    /\ trying[a] = "right"
    /\ DeleteCounter
    /\ Goes(a, "idle")
    /\ UNCHANGED <<pinLock, pinDeaths>>

\* Mutants: the lock comes one failure late; the window is never set.
AfterIncrLate(n) ==
    CASE n = 1 -> "expiring" [] n > MaxPINAttempts -> "locking" [] OTHER -> "idle"
AfterIncrForever(n) == IF n >= MaxPINAttempts THEN "locking" ELSE "idle"

\* What RecordFailure does with INCR's answer.
AfterIncr(n) ==
    CASE n = 1 -> "expiring" [] n >= MaxPINAttempts -> "locking" [] OTHER -> "idle"

IncrPIN(a) ==
    /\ trying[a] = "wrong"
    /\ pinFails' = pinFails + 1
    /\ Goes(a, AfterIncr(pinFails + 1))
    /\ UNCHANGED <<pinWindow, pinLock, pinGuesses, pinDeaths, leaked>>

\* EXPIRE does nothing to a key that was deleted meanwhile.
ExpirePIN(a) ==
    /\ trying[a] = "expiring"
    /\ pinWindow' = IF pinFails > 0 THEN AttemptWindow ELSE 0
    /\ leaked' = {}
    /\ Goes(a, "idle")
    /\ UNCHANGED <<pinFails, pinLock, pinGuesses, pinDeaths>>

\* Mutant: for as long as failures add up.
LockedForWindow == AttemptWindow

LockedFor == LockoutTTL

LockPIN(a) ==
    /\ trying[a] = "locking"
    /\ pinLock' = LockedFor
    /\ Goes(a, "clearing")
    /\ UNCHANGED <<pinFails, pinWindow, pinGuesses, pinDeaths, leaked>>

ClearPIN(a) ==
    /\ trying[a] = "clearing"
    /\ DeleteCounter
    /\ Goes(a, "idle")
    /\ UNCHANGED <<pinLock, pinDeaths>>

\* The request is given up, a command fails or the server dies.
PINDies(a) ==
    /\ trying[a] # "idle"
    /\ pinDeaths < MaxDeaths
    /\ pinDeaths' = pinDeaths + 1
    /\ leaked' = IF trying[a] = "expiring" THEN leaked \cup {a} ELSE leaked
    /\ Goes(a, "idle")
    /\ UNCHANGED <<pinFails, pinWindow, pinLock, pinGuesses>>

Recording(a) == trying[a] \in {"expiring", "locking", "clearing"}

Less(ttl) == IF ttl > 0 THEN ttl - 1 ELSE 0

PINTick ==
    /\ pinWindow > 0 \/ pinLock > 0
    /\ \A a \in Attempts : ~Recording(a)
    /\ pinLock' = Less(pinLock)
    /\ \/ /\ pinWindow = 1
          /\ DeleteCounter
       \/ /\ pinWindow # 1
          /\ pinWindow' = Less(pinWindow)
          /\ UNCHANGED <<pinFails, pinGuesses, leaked>>
    /\ UNCHANGED <<trying, pinDeaths>>

PINInit ==
    /\ pinFails = 0
    /\ pinWindow = 0
    /\ pinLock = 0
    /\ trying = [a \in Attempts |-> "idle"]
    /\ pinGuesses = 0
    /\ pinDeaths = 0
    /\ leaked = {}

PINStep(a) ==
    \/ BeginPIN(a)
    \/ ComparePIN(a)
    \/ ResetPIN(a)
    \/ IncrPIN(a)
    \/ ExpirePIN(a)
    \/ LockPIN(a)
    \/ ClearPIN(a)
    \/ PINDies(a)

PINNext == PINTick \/ \E a \in Attempts : PINStep(a)

PINSpec == PINInit /\ [][PINNext]_pinVars

----------------------------------------------------------------------------
(* Properties. *)

PINTypeOK ==
    /\ pinFails \in Nat
    /\ pinWindow \in 0..AttemptWindow
    /\ pinLock \in 0..LockoutTTL
    /\ trying \in [Attempts -> {"idle", "comparing", "right", "wrong", "expiring",
                                "locking", "clearing"}]
    /\ pinGuesses \in Nat
    /\ pinDeaths \in 0..MaxDeaths
    /\ leaked \subseteq Attempts

\* As long as no attempt dies, a lockout comes after at most MaxPINAttempts wrong PINs
\* and one for every other attempt that was let in before the lock was there.
GuessesBounded ==
    pinDeaths = 0 => pinGuesses <= MaxPINAttempts - 1 + Cardinality(Attempts)

\* A counter without a TTL, which would add up failures however far apart, is one whose
\* first failure is still being recorded or died while it was.
CounterExpires ==
    pinFails > 0 /\ pinWindow = 0 => leaked # {} \/ \E a \in Attempts : trying[a] = "expiring"

\* Concurrent attempts neither gain guesses nor lose the member its fresh start: the wrong PINs
\* before a lockout are bounded, and what was counted is forgotten after AttemptWindow.
AttemptsLimited == GuessesBounded /\ CounterExpires

\* A lock ends although the member keeps trying: "a locked-out user shouldn't get a fresh
\* 20-second window just by retrying".
LockEnds == pinLock > 0 ~> pinLock = 0
=============================================================================
