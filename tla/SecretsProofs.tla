---------------------------- MODULE SecretsProofs ----------------------------
(***************************************************************************)
(* Proofs about what Redis keeps for a while and about the server's        *)
(* connections, for any number of attempts, visits, requests and plants    *)
(* and any TTLs: first each part of MCSecrets by itself, then their        *)
(* composition.                                                            *)
(***************************************************************************)
EXTENDS MCSecrets, FiniteSetTheorems, TLAPS

----------------------------------------------------------------------------
(* The PIN limiter.                                                         *)
(*                                                                         *)
(* GuessesBounded is not inductive.  PINInv adds where the wrong PINs are: *)
(* each has been counted or belongs to an attempt that has yet to count it *)
(* (GuessesCounted), and the counter is above MaxPINAttempts - 1 only by   *)
(* attempts that are about to lock or to clear it (FailsBounded).  An      *)
(* attempt is one or the other, which gives the bound.                     *)

AttemptsAt(t, P) == {a \in Attempts : t[a] \in P}

Lockers == AttemptsAt(trying, {"locking", "clearing"})
Guessers == AttemptsAt(trying, {"wrong"})

FailsBounded == pinDeaths = 0 => pinFails <= MaxPINAttempts - 1 + Cardinality(Lockers)

GuessesCounted == pinDeaths = 0 => pinGuesses <= pinFails + Cardinality(Guessers)

PINInv == PINTypeOK /\ FailsBounded /\ GuessesCounted

----------------------------------------------------------------------------
\* The attempts at some stages are finitely many.
LEMMA AttemptsAtFinite ==
    ASSUME NEW t, NEW P
    PROVE  IsFiniteSet(AttemptsAt(t, P)) /\ Cardinality(AttemptsAt(t, P)) \in Nat
BY AttemptsAssumption, FS_Subset, FS_CardinalityType DEF AttemptsAt

LEMMA InitPINInv == PINInit => PINInv
<1> SUFFICES ASSUME PINInit PROVE PINInv
  OBVIOUS
<1>1. PINTypeOK
  BY MaxDeathsAssumption, AttemptWindowAssumption, LockoutTTLAssumption DEF PINInit, PINTypeOK
<1>2. Cardinality(Lockers) \in Nat /\ Cardinality(Guessers) \in Nat
  BY AttemptsAtFinite DEF Lockers, Guessers
<1> QED
  BY <1>1, <1>2, MaxPINAttemptsAssumption DEF PINInit, PINInv, FailsBounded, GuessesCounted

\* A step keeps the types.
LEMMA TypeStep == PINTypeOK /\ [PINNext]_pinVars => PINTypeOK'
<1> SUFFICES ASSUME PINTypeOK, [PINNext]_pinVars PROVE PINTypeOK'
  OBVIOUS
<1> USE MaxDeathsAssumption, AttemptWindowAssumption, LockoutTTLAssumption DEF PINTypeOK
<1>1. CASE PINTick
  BY <1>1 DEF PINTick, DeleteCounter, Less
<1>2. ASSUME NEW a \in Attempts, BeginPIN(a) PROVE PINTypeOK'
  BY <1>2 DEF BeginPIN, Goes
<1>3. ASSUME NEW a \in Attempts, ComparePIN(a) PROVE PINTypeOK'
  BY <1>3 DEF ComparePIN, Goes
<1>4. ASSUME NEW a \in Attempts, ResetPIN(a) PROVE PINTypeOK'
  BY <1>4 DEF ResetPIN, DeleteCounter, Goes
<1>5. ASSUME NEW a \in Attempts, IncrPIN(a) PROVE PINTypeOK'
  <2>1. AfterIncr(pinFails + 1) \in {"expiring", "locking", "idle"}
    BY DEF AfterIncr
  <2> QED BY <1>5, <2>1 DEF IncrPIN, Goes
<1>6. ASSUME NEW a \in Attempts, ExpirePIN(a) PROVE PINTypeOK'
  BY <1>6 DEF ExpirePIN, Goes
<1>7. ASSUME NEW a \in Attempts, LockPIN(a) PROVE PINTypeOK'
  BY <1>7 DEF LockPIN, LockedFor, Goes
<1>8. ASSUME NEW a \in Attempts, ClearPIN(a) PROVE PINTypeOK'
  BY <1>8 DEF ClearPIN, DeleteCounter, Goes
<1>9. ASSUME NEW a \in Attempts, PINDies(a) PROVE PINTypeOK'
  BY <1>9 DEF PINDies, Goes
<1>10. CASE UNCHANGED pinVars
  BY <1>10 DEF pinVars
<1> QED
  BY <1>1, <1>2, <1>3, <1>4, <1>5, <1>6, <1>7, <1>8, <1>9, <1>10 DEF PINNext, PINStep

\* The two counts after an attempt has moved.
LEMMA Counts ==
    ASSUME PINTypeOK, NEW a \in Attempts, NEW to, Goes(a, to)
    PROVE  /\ trying[a] \notin {"locking", "clearing"} /\ to = "locking" =>
                  Cardinality(Lockers') = Cardinality(Lockers) + 1
           /\ (trying[a] \in {"locking", "clearing"} <=> to \in {"locking", "clearing"}) =>
                  Lockers' = Lockers
           /\ trying[a] # "wrong" /\ to = "wrong" =>
                  Cardinality(Guessers') = Cardinality(Guessers) + 1
           /\ trying[a] = "wrong" /\ to # "wrong" =>
                  Cardinality(Guessers') = Cardinality(Guessers) - 1
           /\ trying[a] # "wrong" /\ to # "wrong" => Guessers' = Guessers
<1> USE DEF PINTypeOK, Goes, Lockers, Guessers, AttemptsAt
<1>1. IsFiniteSet(Lockers) /\ IsFiniteSet(Guessers) /\ Cardinality(Guessers) \in Nat
  BY AttemptsAtFinite
<1>2. ASSUME trying[a] \notin {"locking", "clearing"}, to = "locking"
      PROVE  Cardinality(Lockers') = Cardinality(Lockers) + 1
  <2>1. Lockers' = Lockers \cup {a} /\ a \notin Lockers
    BY <1>2
  <2> HIDE DEF Lockers
  <2> QED BY <1>1, <2>1, FS_AddElement
<1>3. ASSUME trying[a] \in {"locking", "clearing"} <=> to \in {"locking", "clearing"}
      PROVE  Lockers' = Lockers
  BY <1>3
<1>4. ASSUME trying[a] # "wrong", to = "wrong"
      PROVE  Cardinality(Guessers') = Cardinality(Guessers) + 1
  <2>1. Guessers' = Guessers \cup {a} /\ a \notin Guessers
    BY <1>4
  <2> HIDE DEF Guessers
  <2> QED BY <1>1, <2>1, FS_AddElement
<1>5. ASSUME trying[a] = "wrong", to # "wrong"
      PROVE  Cardinality(Guessers') = Cardinality(Guessers) - 1
  <2>1. Guessers' = Guessers \ {a} /\ a \in Guessers
    BY <1>5
  <2> HIDE DEF Guessers
  <2> QED BY <1>1, <2>1, FS_RemoveElement
<1>6. ASSUME trying[a] # "wrong", to # "wrong" PROVE Guessers' = Guessers
  BY <1>6
<1> HIDE DEF Lockers, Guessers
<1> QED BY <1>2, <1>3, <1>4, <1>5, <1>6

LEMMA StepPINInv == PINInv /\ [PINNext]_pinVars => PINInv'
<1> SUFFICES ASSUME PINInv, [PINNext]_pinVars PROVE PINInv'
  OBVIOUS
<1>type. PINTypeOK /\ PINTypeOK'
  BY TypeStep DEF PINInv
<1>nat. /\ Cardinality(Lockers) \in Nat /\ Cardinality(Lockers') \in Nat
        /\ Cardinality(Guessers) \in Nat /\ Cardinality(Guessers') \in Nat
  <2>1. Lockers' = AttemptsAt(trying', {"locking", "clearing"})
    BY DEF Lockers, AttemptsAt
  <2>2. Guessers' = AttemptsAt(trying', {"wrong"})
    BY DEF Guessers, AttemptsAt
  <2> QED BY <2>1, <2>2, AttemptsAtFinite DEF Lockers, Guessers
<1>nums. /\ pinFails \in Nat /\ pinGuesses \in Nat /\ pinDeaths \in Nat
         /\ pinFails' \in Nat /\ pinGuesses' \in Nat /\ pinDeaths' \in Nat
         /\ MaxPINAttempts \in Nat /\ MaxPINAttempts > 1
  BY <1>type, MaxPINAttemptsAssumption, MaxDeathsAssumption DEF PINTypeOK
<1>old. /\ pinDeaths = 0 => pinFails <= MaxPINAttempts - 1 + Cardinality(Lockers)
        /\ pinDeaths = 0 => pinGuesses <= pinFails + Cardinality(Guessers)
  BY DEF PINInv, FailsBounded, GuessesCounted
<1> SUFFICES ASSUME pinDeaths' = 0
             PROVE  /\ pinFails' <= MaxPINAttempts - 1 + Cardinality(Lockers')
                    /\ pinGuesses' <= pinFails' + Cardinality(Guessers')
  BY <1>type DEF PINInv, FailsBounded, GuessesCounted
<1> DEFINE Goal == /\ pinFails' <= MaxPINAttempts - 1 + Cardinality(Lockers')
                   /\ pinGuesses' <= pinFails' + Cardinality(Guessers')
<1> HIDE DEF Goal
\* A counter that is deleted leaves nothing to bound.
<1>del. ASSUME DeleteCounter PROVE Goal
  BY <1>del, <1>nat, <1>nums DEF DeleteCounter, Goal
<1>1. ASSUME PINTick PROVE Goal
  <2>1. CASE pinWindow = 1 /\ DeleteCounter
    BY <2>1, <1>del
  <2>2. CASE UNCHANGED <<pinFails, pinGuesses>>
    <3>1. Lockers' = Lockers /\ Guessers' = Guessers /\ pinDeaths = 0
      BY <1>1 DEF PINTick, Lockers, Guessers, AttemptsAt
    <3> QED BY <2>2, <3>1, <1>old DEF Goal
  <2> QED BY <1>1, <2>1, <2>2 DEF PINTick
<1>2. ASSUME NEW a \in Attempts, BeginPIN(a) PROVE Goal
  <2>1. Lockers' = Lockers /\ Guessers' = Guessers
    BY <1>2, <1>type, Counts DEF BeginPIN
  <2> QED BY <1>2, <2>1, <1>old DEF BeginPIN, Goal
<1>3. ASSUME NEW a \in Attempts, ComparePIN(a) PROVE Goal
  <2>1. pinFails' = pinFails /\ pinDeaths = 0
    BY <1>3 DEF ComparePIN
  <2>2. CASE Goes(a, "right") /\ pinGuesses' = pinGuesses
    <3>1. Lockers' = Lockers /\ Guessers' = Guessers
      BY <1>3, <2>2, <1>type, Counts DEF ComparePIN
    <3> QED BY <2>1, <2>2, <3>1, <1>old DEF Goal
  <2>3. CASE Goes(a, "wrong") /\ pinGuesses' = pinGuesses + 1
    <3>1. /\ Lockers' = Lockers
          /\ Cardinality(Guessers') = Cardinality(Guessers) + 1
      BY <1>3, <2>3, <1>type, Counts DEF ComparePIN
    <3> QED BY <2>1, <2>3, <3>1, <1>old, <1>nat, <1>nums DEF Goal
  <2> QED BY <1>3, <2>2, <2>3 DEF ComparePIN
<1>4. ASSUME NEW a \in Attempts, ResetPIN(a) PROVE Goal
  BY <1>4, <1>del DEF ResetPIN
<1>5. ASSUME NEW a \in Attempts, IncrPIN(a) PROVE Goal
  <2> DEFINE to == AfterIncr(pinFails + 1)
  <2>1. /\ to \in {"expiring", "locking", "idle"}
        /\ pinFails + 1 >= MaxPINAttempts => to = "locking"
    BY <1>nums DEF AfterIncr
  <2>2. trying[a] = "wrong" /\ Goes(a, to) /\ pinFails' = pinFails + 1
        /\ pinGuesses' = pinGuesses /\ pinDeaths = 0
    BY <1>5 DEF IncrPIN
  <2>3. Cardinality(Guessers') = Cardinality(Guessers) - 1
    BY <2>1, <2>2, <1>type, Counts
  <2>4. to = "locking" => Cardinality(Lockers') = Cardinality(Lockers) + 1
    BY <2>1, <2>2, <1>type, Counts
  <2>5. pinFails' <= MaxPINAttempts - 1 + Cardinality(Lockers')
    BY <2>1, <2>2, <2>4, <1>old, <1>nat, <1>nums
  <2> QED BY <2>2, <2>3, <2>5, <1>old, <1>nat, <1>nums DEF Goal
<1>6. ASSUME NEW a \in Attempts, ExpirePIN(a) PROVE Goal
  <2>1. Lockers' = Lockers /\ Guessers' = Guessers
    BY <1>6, <1>type, Counts DEF ExpirePIN
  <2> QED BY <1>6, <2>1, <1>old DEF ExpirePIN, Goal
<1>7. ASSUME NEW a \in Attempts, LockPIN(a) PROVE Goal
  <2>1. Lockers' = Lockers /\ Guessers' = Guessers
    BY <1>7, <1>type, Counts DEF LockPIN
  <2> QED BY <1>7, <2>1, <1>old DEF LockPIN, Goal
<1>8. ASSUME NEW a \in Attempts, ClearPIN(a) PROVE Goal
  BY <1>8, <1>del DEF ClearPIN
<1>9. ASSUME NEW a \in Attempts, PINDies(a) PROVE Goal
  BY <1>9, <1>nums DEF PINDies
<1>10. ASSUME UNCHANGED pinVars PROVE Goal
  <2>1. Lockers' = Lockers /\ Guessers' = Guessers
    BY <1>10 DEF pinVars, Lockers, Guessers, AttemptsAt
  <2> QED BY <1>10, <2>1, <1>old DEF pinVars, Goal
<1>11. Goal
  BY <1>1, <1>2, <1>3, <1>4, <1>5, <1>6, <1>7, <1>8, <1>9, <1>10 DEF PINNext, PINStep
<1> QED BY <1>11 DEF Goal

\* Every variable of the limiter keeps its type.
THEOREM PINTypes == PINSpec => []PINTypeOK
<1>1. PINInit => PINTypeOK
  BY InitPINInv DEF PINInv
<1> QED BY <1>1, TypeStep, PTL DEF PINSpec

\* Unless an attempt dies, at most MaxPINAttempts - 1 wrong PINs and one for each attempt
\* that is in flight are compared before a lockout, for any number of attempts at once.
THEOREM PINGuessesBounded == PINSpec => []GuessesBounded
<1>1. PINInv => GuessesBounded
  <2> SUFFICES ASSUME PINInv, pinDeaths = 0
               PROVE  pinGuesses <= MaxPINAttempts - 1 + Cardinality(Attempts)
    BY DEF GuessesBounded
  <2>1. /\ IsFiniteSet(Lockers) /\ Cardinality(Lockers) \in Nat
        /\ IsFiniteSet(Guessers) /\ Cardinality(Guessers) \in Nat
    BY AttemptsAtFinite DEF Lockers, Guessers
  <2>2. Lockers \cap Guessers = {} /\ Lockers \cup Guessers \subseteq Attempts
    BY DEF Lockers, Guessers, AttemptsAt
  <2>3. Cardinality(Lockers \cup Guessers) = Cardinality(Lockers) + Cardinality(Guessers)
    <3>1. Cardinality(Lockers \cup Guessers)
            = Cardinality(Lockers) + Cardinality(Guessers) - Cardinality(Lockers \cap Guessers)
      BY <2>1, FS_Union
    <3>2. Cardinality(Lockers \cap Guessers) = 0
      BY <2>2, FS_EmptySet
    <3> QED BY <3>1, <3>2, <2>1
  <2>4. Cardinality(Lockers \cup Guessers) <= Cardinality(Attempts)
    BY <2>2, AttemptsAssumption, FS_Subset
  <2>5. Cardinality(Attempts) \in Nat
    BY AttemptsAssumption, FS_CardinalityType
  <2>6. /\ pinFails <= MaxPINAttempts - 1 + Cardinality(Lockers)
        /\ pinGuesses <= pinFails + Cardinality(Guessers)
        /\ pinFails \in Nat /\ pinGuesses \in Nat
    BY DEF PINInv, FailsBounded, GuessesCounted, PINTypeOK
  <2> QED BY <2>1, <2>3, <2>4, <2>5, <2>6, MaxPINAttemptsAssumption
<1> QED BY <1>1, InitPINInv, StepPINInv, PTL DEF PINSpec

\* A failure counter always gets its TTL, unless the attempt that created it dies between
\* INCR and EXPIRE.
THEOREM PINCounterExpires == PINSpec => []CounterExpires
<1>1. PINInit => PINTypeOK /\ CounterExpires
  BY InitPINInv DEF PINInit, PINInv, CounterExpires
<1>2. PINTypeOK /\ CounterExpires /\ [PINNext]_pinVars => CounterExpires'
  <2> SUFFICES ASSUME PINTypeOK, CounterExpires, [PINNext]_pinVars,
                      pinFails' > 0, pinWindow' = 0, leaked' = {}
               PROVE  \E a \in Attempts : trying'[a] = "expiring"
    BY DEF CounterExpires
  <2> USE AttemptWindowAssumption DEF PINTypeOK, Goes
  <2>old. pinFails > 0 /\ pinWindow = 0 /\ leaked = {} => \E b \in Attempts : trying[b] = "expiring"
    BY DEF CounterExpires
  <2>1. CASE PINTick
    BY <2>1, <2>old DEF PINTick, DeleteCounter, Less
  <2>2. ASSUME NEW a \in Attempts, BeginPIN(a) \/ ComparePIN(a) \/ LockPIN(a)
        PROVE  \E b \in Attempts : trying'[b] = "expiring"
    <3>1. pinFails > 0 /\ pinWindow = 0 /\ leaked = {}
      BY <2>2 DEF BeginPIN, ComparePIN, LockPIN
    <3>2. PICK b \in Attempts : trying[b] = "expiring"
      BY <3>1, <2>old
    <3>3. trying'[b] = "expiring"
      BY <2>2, <3>2 DEF BeginPIN, ComparePIN, LockPIN
    <3> QED BY <3>3
  <2>3. ASSUME NEW a \in Attempts, ResetPIN(a) \/ ClearPIN(a) PROVE FALSE
    BY <2>3 DEF ResetPIN, ClearPIN, DeleteCounter
  <2>4. ASSUME NEW a \in Attempts, IncrPIN(a)
        PROVE  \E b \in Attempts : trying'[b] = "expiring"
    <3>1. CASE pinFails = 0
      BY <2>4, <3>1, MaxPINAttemptsAssumption DEF IncrPIN, AfterIncr
    <3>2. CASE pinFails > 0
      <4>1. PICK b \in Attempts : trying[b] = "expiring"
        BY <2>4, <3>2, <2>old DEF IncrPIN
      <4>2. trying'[b] = "expiring"
        BY <2>4, <4>1 DEF IncrPIN
      <4> QED BY <4>2
    <3> QED BY <3>1, <3>2
  <2>5. ASSUME NEW a \in Attempts, ExpirePIN(a) PROVE FALSE
    BY <2>5 DEF ExpirePIN
  <2>6. ASSUME NEW a \in Attempts, PINDies(a)
        PROVE  \E b \in Attempts : trying'[b] = "expiring"
    <3>1. pinFails > 0 /\ pinWindow = 0 /\ leaked = {} /\ trying[a] # "expiring"
      BY <2>6 DEF PINDies
    <3>2. PICK b \in Attempts : trying[b] = "expiring"
      BY <3>1, <2>old
    <3>3. trying'[b] = "expiring"
      BY <2>6, <3>1, <3>2 DEF PINDies
    <3> QED BY <3>3
  <2>7. CASE UNCHANGED pinVars
    BY <2>7, <2>old DEF pinVars
  <2> QED
    BY <2>1, <2>2, <2>3, <2>4, <2>5, <2>6, <2>7 DEF PINNext, PINStep
<1> QED BY <1>1, <1>2, TypeStep, PTL DEF PINSpec

\* Of any number of concurrent attempts, none of which dies: the guesses before a lockout are
\* bounded; and whatever dies, a counter without a TTL has an attempt to blame for it.
THEOREM PINAttemptsLimited == PINSpec => []AttemptsLimited
<1>1. GuessesBounded /\ CounterExpires => AttemptsLimited
  BY DEF AttemptsLimited
<1> QED BY <1>1, PINGuessesBounded, PINCounterExpires, PTL

----------------------------------------------------------------------------
(* The receipt codes. *)

LEMMA CodeTypesStep == CodeTypeOK /\ [CodeNext]_codeVars => CodeTypeOK'
<1> SUFFICES ASSUME CodeTypeOK, [CodeNext]_codeVars PROVE CodeTypeOK'
  OBVIOUS
<1> USE NoCodeAssumption, TTLsAssumption, MaxFaultsAssumption, MaxVerifyAttemptsAssumption
    DEF CodeTypeOK, Then, keyVars
<1>1. CASE CodeTick
  BY <1>1 DEF CodeTick, Lessen
<1>2. ASSUME NEW l \in Lookups, TakeCooldown(l) PROVE CodeTypeOK'
  BY <1>2 DEF TakeCooldown
<1>3. ASSUME NEW l \in Lookups, NEW c \in Codes, StoreCode(l, c) PROVE CodeTypeOK'
  BY <1>3 DEF StoreCode
<1>4. ASSUME NEW l \in Lookups, LookupDies(l) PROVE CodeTypeOK'
  BY <1>4 DEF LookupDies
<1>5. ASSUME NEW v \in Verifies, CheckLock(v) PROVE CodeTypeOK'
  BY <1>5 DEF CheckLock
<1>6. ASSUME NEW v \in Verifies, ReadCode(v) PROVE CodeTypeOK'
  BY <1>6 DEF ReadCode
<1>7. ASSUME NEW v \in Verifies, IncrFails(v) PROVE CodeTypeOK'
  <2>1. fails' \in 0..MaxVerifyAttempts
    BY <1>7 DEF IncrFails
  <2>2. AfterFail(fails') \in {"expiring", "locking", "idle"}
    BY <2>1 DEF AfterFail
  <2> QED BY <1>7, <2>1, <2>2 DEF IncrFails
<1>8. ASSUME NEW v \in Verifies, ExpireFails(v) PROVE CodeTypeOK'
  BY <1>8 DEF ExpireFails
<1>9. ASSUME NEW v \in Verifies, LockPhone(v) PROVE CodeTypeOK'
  BY <1>9 DEF LockPhone, PhoneLockedFor
<1>10. ASSUME NEW v \in Verifies, DeleteCode(v) PROVE CodeTypeOK'
  BY <1>10 DEF DeleteCode, Unless
<1>11. ASSUME NEW v \in Verifies, Accept(v) PROVE CodeTypeOK'
  <2>1. accepted' = [accepted EXCEPT ![got[v]] = accepted[got[v]] + 1]
    BY <1>11 DEF Accept
  <2>2. accepted' \in [Codes -> Nat]
    <3>1. CASE got[v] \in Codes
      BY <2>1, <3>1
    <3>2. CASE got[v] \notin Codes
      BY <2>1, <3>2
    <3> QED BY <3>1, <3>2
  <2> QED BY <1>11, <2>2 DEF Accept, Unless
<1>12. ASSUME NEW v \in Verifies, VerifyDies(v) PROVE CodeTypeOK'
  BY <1>12 DEF VerifyDies
<1>13. CASE UNCHANGED codeVars
  BY <1>13 DEF codeVars
<1> QED BY <1>1, <1>2, <1>3, <1>4, <1>5, <1>6, <1>7, <1>8, <1>9, <1>10, <1>11, <1>12, <1>13 DEF CodeNext

\* The four keys keep within their TTLs, and only a code that was drawn is stored or held.
THEOREM CodeTypes == CodeSpec => []CodeTypeOK
<1>1. CodeInit => CodeTypeOK
  BY NoCodeAssumption, TTLsAssumption, MaxFaultsAssumption, MaxVerifyAttemptsAssumption
     DEF CodeInit, CodeTypeOK
<1> QED BY <1>1, CodeTypesStep, PTL DEF CodeSpec

----------------------------------------------------------------------------
(* The wrong codes that one code is compared with.  They are counted in shares of          *)
(* MaxVerifyAttempts - 1, one for each counter that may still serve the code, and in       *)
(* rounds of Cardinality(Verifies), one for each time that the lock has let go.            *)

Share == MaxVerifyAttempts - 1
Everybody == Cardinality(Verifies)

\* How many verifications are at the stages P.
CountAt(P) == Cardinality({v \in Verifies : verifying[v] \in P})

Shares(k) == k * Share
Rounds(k) == Everybody * k

\* How often a lock could have come and gone in the code's life, and will have by the end
\* of the lock there is.
Elapsed == CodeTTL - codeTTL
LocksGone == Elapsed \div VerifyLockoutTTL
LocksBegun == (Elapsed + codeLock) \div VerifyLockoutTTL

\* The counter will expire before the code does, and somebody may count into a new one.
CounterIsOld == fails > 0 /\ failTTL < codeTTL /\ CountAt({"expiring"}) = 0

\* What the failures that do not lock come to: another counter for each verification
\* that does not go on to delete one; what an old counter leaves room for; this counter.
Unlocking(used, old, n) ==
    Shares(Everybody - 1 - used) + ((IF old THEN 0 ELSE Share) + (IF n < Share THEN n ELSE Share))

\* The wrong codes there may have been: those that did not lock; a round for each lock that is
\* gone and, of a lock that holds, those who are back from it; those about to be counted or
\* to lock.
Allowance ==
    Unlocking(CountAt({"used"}), CounterIsOld, fails)
        + (Rounds(LocksGone) + (IF LocksBegun = LocksGone THEN 0 ELSE CountAt({"idle"})))
        + CountAt({"wrong", "locking"})

\* A counter has its TTL, or somebody is about to give it one.
CounterIsTimed == fails > 0 /\ failTTL = 0 => \E v \in Verifies : verifying[v] = "expiring"

WrongIsAllowed ==
    /\ CountAt({"used"}) = Everybody => wrong = 0
    /\ CountAt({"used"}) < Everybody => wrong < Allowance

WrongInv ==
    /\ CodeTypeOK
    /\ code # NoCode => codeTTL > 0
    /\ faults = 0 => CounterIsTimed
    /\ faults = 0 /\ code # NoCode => WrongIsAllowed
    /\ WrongPerCodeBounded

\* Facts of arithmetic.
LEMMA Division ==
    ASSUME NEW l \in Nat \ {0}
    PROVE  /\ \A a \in Nat : a \div l \in Nat
           /\ \A a, b \in Nat : a <= b => a \div l <= b \div l
           /\ \A a \in Nat : (a + l) \div l = a \div l + 1
           /\ \A a \in Nat : a < l => a \div l = 0
OBVIOUS

LEMMA SumsGrow ==
    /\ \A a, b \in Nat : a + b \in Nat
    /\ \A a, b, c, d \in Nat : a <= c /\ b <= d => a + b <= c + d
OBVIOUS

LEMMA SumsArePositive ==
    \A s, c, f, t, k, d \in Nat : c > 0 \/ f > 0 => 0 < s + (c + f) + (t + k) + d
OBVIOUS

LEMMA EverybodyIsNatural == Everybody \in Nat /\ Share \in Nat \ {0}
BY VerifiesAssumption, MaxVerifyAttemptsAssumption, FS_CardinalityType DEF Everybody, Share

LEMMA SharesAdd ==
    /\ \A k \in Nat : Shares(k) \in Nat /\ Shares(k + 1) = Shares(k) + Share
    /\ \A j, k \in Nat : j <= k => Shares(j) <= Shares(k)
BY EverybodyIsNatural DEF Shares

LEMMA RoundsAdd ==
    /\ \A k \in Nat : Rounds(k) \in Nat /\ Rounds(k + 1) = Rounds(k) + Everybody
    /\ \A j, k \in Nat : j <= k => Rounds(j) <= Rounds(k)
BY EverybodyIsNatural DEF Rounds

\* The verifications at some stages are some of them, and those at others are others.
LEMMA Counted ==
    /\ \A P : CountAt(P) \in Nat /\ CountAt(P) <= Everybody
    /\ \A P, Q : P \cap Q = {} => CountAt(P) + CountAt(Q) <= Everybody
    /\ \A P : (\A v \in Verifies : verifying[v] \notin P) <=> CountAt(P) = 0
<1> DEFINE S(P) == {v \in Verifies : verifying[v] \in P}
<1>1. \A P : IsFiniteSet(S(P)) /\ Cardinality(S(P)) \in Nat /\ Cardinality(S(P)) <= Everybody
  <2> TAKE P
  <2>1. S(P) \subseteq Verifies
    OBVIOUS
  <2> HIDE DEF S
  <2> QED BY <2>1, VerifiesAssumption, FS_Subset, FS_CardinalityType DEF Everybody
<1>2. ASSUME NEW P, NEW Q, P \cap Q = {}
      PROVE  Cardinality(S(P)) + Cardinality(S(Q)) <= Everybody
  <2>1. S(P) \cap S(Q) = {} /\ S(P) \cup S(Q) \subseteq Verifies
    BY <1>2
  <2> HIDE DEF S
  <2>2. Cardinality(S(P) \cup S(Q)) = Cardinality(S(P)) + Cardinality(S(Q)) - Cardinality(S(P) \cap S(Q))
    BY <1>1, FS_Union
  <2>3. Cardinality(S(P) \cap S(Q)) = 0
    BY <2>1, FS_EmptySet
  <2>4. Cardinality(S(P) \cup S(Q)) <= Everybody
    BY <2>1, VerifiesAssumption, FS_Subset DEF Everybody
  <2> QED BY <1>1, <2>2, <2>3, <2>4
<1>3. ASSUME NEW P PROVE S(P) = {} <=> Cardinality(S(P)) = 0
  <2> HIDE DEF S
  <2> QED BY <1>1, FS_EmptySet
<1>4. \A P : CountAt(P) = Cardinality(S(P))
  BY DEF CountAt
<1>5. ASSUME NEW P PROVE (\A v \in Verifies : verifying[v] \notin P) <=> S(P) = {}
  OBVIOUS
<1> HIDE DEF S
<1> QED BY <1>1, <1>2, <1>3, <1>4, <1>5

\* A verification that moves leaves its stage and enters the next.
LEMMA CountMoves ==
    ASSUME CodeTypeOK, NEW v \in Verifies, NEW to, NEW c, Then(v, to, c), NEW P
    PROVE  CountAt(P)' = CountAt(P) + (IF to \in P THEN 1 ELSE 0)
                                    - (IF verifying[v] \in P THEN 1 ELSE 0)
<1> DEFINE S == {w \in Verifies : verifying[w] \in P}
           T == {w \in Verifies : verifying'[w] \in P}
<1>1. IsFiniteSet(S) /\ Cardinality(S) \in Nat
  <2>1. S \subseteq Verifies
    OBVIOUS
  <2> HIDE DEF S
  <2> QED BY <2>1, VerifiesAssumption, FS_Subset, FS_CardinalityType
<1>2. CountAt(P) = Cardinality(S) /\ CountAt(P)' = Cardinality(T)
  BY DEF CountAt
<1>3. verifying' = [verifying EXCEPT ![v] = to] /\ verifying \in [Verifies -> {"idle", "reading", "right", "wrong", "expiring", "locking", "used"}]
  BY DEF Then, CodeTypeOK
<1>4. CASE to \in P <=> verifying[v] \in P
  <2>1. T = S
    BY <1>3, <1>4
  <2> HIDE DEF S, T
  <2> QED BY <1>1, <1>2, <1>4, <2>1
<1>5. CASE to \in P /\ verifying[v] \notin P
  <2>1. T = S \cup {v} /\ v \notin S
    BY <1>3, <1>5
  <2> HIDE DEF S, T
  <2>2. Cardinality(T) = Cardinality(S) + 1
    BY <1>1, <2>1, FS_AddElement
  <2> QED BY <1>1, <1>2, <1>5, <2>2
<1>6. CASE to \notin P /\ verifying[v] \in P
  <2>1. T = S \ {v} /\ v \in S
    BY <1>3, <1>6
  <2> HIDE DEF S, T
  <2>2. Cardinality(T) = Cardinality(S) - 1
    BY <1>1, <2>1, FS_RemoveElement
  <2> QED BY <1>1, <1>2, <1>6, <2>2
<1> QED BY <1>4, <1>5, <1>6

\* A lock that is set or that a tick shortens ends in the next round at the latest.
LEMMA LocksFollow ==
    CodeTypeOK =>
           /\ LocksGone \in Nat /\ LocksBegun \in {LocksGone, LocksGone + 1}
           /\ codeLock = 0 => LocksBegun = LocksGone
<1> SUFFICES ASSUME CodeTypeOK
             PROVE  /\ LocksGone \in Nat /\ LocksBegun \in {LocksGone, LocksGone + 1}
                    /\ codeLock = 0 => LocksBegun = LocksGone
  OBVIOUS
<1>1. Elapsed \in Nat /\ codeLock \in Nat /\ codeLock <= VerifyLockoutTTL
      /\ VerifyLockoutTTL \in Nat \ {0}
  BY TTLsAssumption DEF CodeTypeOK, Elapsed
<1>2. /\ LocksGone \in Nat /\ LocksBegun \in Nat
      /\ LocksGone <= LocksBegun /\ LocksBegun <= LocksGone + 1
  <2>1. Elapsed + codeLock \in Nat /\ Elapsed <= Elapsed + codeLock
        /\ Elapsed + VerifyLockoutTTL \in Nat /\ Elapsed + codeLock <= Elapsed + VerifyLockoutTTL
    BY <1>1
  <2> QED BY <1>1, <2>1, Division DEF LocksGone, LocksBegun
<1>3. codeLock = 0 => LocksBegun = LocksGone
  BY <1>1 DEF LocksGone, LocksBegun
<1> QED BY <1>2, <1>3

\* The bound of WrongPerCodeBounded.
CodeWorst == (Everybody + 1) * Share - 1 + Everybody * ((CodeTTL - 1) \div VerifyLockoutTTL + 1)

LEMMA CodeWorstIsNatural == CodeWorst \in Nat
<1> DEFINE last == (CodeTTL - 1) \div VerifyLockoutTTL
<1>1. last + 1 \in Nat /\ Everybody \in Nat /\ Share \in Nat \ {0}
  <2>1. CodeTTL - 1 \in Nat /\ VerifyLockoutTTL \in Nat \ {0}
    BY TTLsAssumption
  <2> QED BY <2>1, EverybodyIsNatural, Division
<1>2. Rounds(last + 1) \in Nat
  BY <1>1 DEF Rounds
<1>3. Shares(Everybody) \in Nat /\ Shares(Everybody + 1) = Shares(Everybody) + Share
  BY <1>1, SharesAdd
<1>4. CodeWorst = Shares(Everybody + 1) - 1 + Rounds(last + 1)
  BY DEF CodeWorst, Shares, Rounds
<1> HIDE DEF last
<1> QED BY <1>1, <1>2, <1>3, <1>4

\* What is allowed is within what the code's whole life allows.
LEMMA AllowanceBounded ==
    CodeTypeOK /\ codeTTL > 0 /\ CountAt({"used"}) < Everybody =>
        /\ Allowance \in Nat
        /\ Allowance - 1 <= CodeWorst
<1> SUFFICES ASSUME CodeTypeOK, codeTTL > 0, CountAt({"used"}) < Everybody
             PROVE  /\ Allowance \in Nat
                    /\ Allowance - 1 <= CodeWorst
  OBVIOUS
<1>1. /\ LocksGone \in Nat /\ LocksBegun \in {LocksGone, LocksGone + 1}
      /\ LocksGone <= (CodeTTL - 1) \div VerifyLockoutTTL
      /\ (CodeTTL - 1) \div VerifyLockoutTTL \in Nat
  <2>1. /\ Elapsed \in Nat /\ Elapsed <= CodeTTL - 1 /\ CodeTTL - 1 \in Nat
        /\ VerifyLockoutTTL \in Nat \ {0}
    BY TTLsAssumption DEF CodeTypeOK, Elapsed
  <2> QED BY <2>1, LocksFollow, Division DEF LocksGone
<1> DEFINE used == CountAt({"used"})
           due == CountAt({"wrong", "locking"})
           back == IF LocksBegun = LocksGone THEN 0 ELSE CountAt({"idle"})
           last == (CodeTTL - 1) \div VerifyLockoutTTL
<1>2. used \in Nat /\ due \in Nat /\ back \in Nat /\ due + back <= Everybody
  <2>1. {"wrong", "locking"} \cap {"idle"} = {}
    OBVIOUS
  <2> QED BY <2>1, Counted, EverybodyIsNatural
<1>3. /\ Rounds(LocksGone) \in Nat /\ Rounds(last) \in Nat
      /\ Rounds(LocksGone) <= Rounds(last)
      /\ Rounds(last + 1) = Rounds(last) + Everybody
  BY <1>1, RoundsAdd
<1>4. /\ Shares(Everybody - 1 - used) \in Nat /\ Shares(Everybody - 1) \in Nat
      /\ Shares(Everybody - 1 - used) <= Shares(Everybody - 1)
      /\ Shares(Everybody) = Shares(Everybody - 1) + Share
      /\ Shares(Everybody + 1) = Shares(Everybody) + Share
  <2>1. Everybody - 1 \in Nat /\ Everybody - 1 - used \in Nat /\ Everybody - 1 - used <= Everybody - 1
    BY <1>2, EverybodyIsNatural
  <2>2. (Everybody - 1) + 1 = Everybody
    BY EverybodyIsNatural
  <2> QED BY <2>1, <2>2, SharesAdd, EverybodyIsNatural
<1>5. /\ (IF CounterIsOld THEN 0 ELSE Share) \in 0 .. Share
      /\ (IF fails < Share THEN fails ELSE Share) \in 0 .. Share
  BY EverybodyIsNatural DEF CodeTypeOK
<1>6. Allowance = Shares(Everybody - 1 - used)
                    + ((IF CounterIsOld THEN 0 ELSE Share) + (IF fails < Share THEN fails ELSE Share))
                    + (Rounds(LocksGone) + back) + due
  BY DEF Allowance, Unlocking
<1>7. Allowance \in Nat /\ Allowance <= Shares(Everybody + 1) + Rounds(last + 1)
  <2> HIDE DEF used, due, back, last
  <2> QED BY <1>2, <1>3, <1>4, <1>5, <1>6, EverybodyIsNatural
<1>8. CodeWorst = Shares(Everybody + 1) - 1 + Rounds(last + 1)
  BY DEF CodeWorst, Shares, Rounds
<1>9. Shares(Everybody + 1) \in Nat /\ Rounds(last + 1) \in Nat
  <2> HIDE DEF last
  <2> QED BY <1>3, <1>4, EverybodyIsNatural
<1> HIDE DEF last
<1> QED BY <1>7, <1>8, <1>9

\* A code that is there has a TTL.
LEMMA CodeLives ==
    CodeTypeOK /\ (code # NoCode => codeTTL > 0) /\ [CodeNext]_codeVars =>
        (code # NoCode => codeTTL > 0)'
<1> SUFFICES ASSUME CodeTypeOK, code # NoCode => codeTTL > 0, [CodeNext]_codeVars, code' # NoCode
             PROVE  codeTTL' > 0
  OBVIOUS
<1> USE TTLsAssumption DEF CodeTypeOK, keyVars
<1>1. CASE CodeTick
  BY <1>1 DEF CodeTick, Lessen
<1>2. ASSUME NEW l \in Lookups, NEW c \in Codes, StoreCode(l, c) PROVE codeTTL' > 0
  BY <1>2 DEF StoreCode
<1>3. ASSUME NEW l \in Lookups, TakeCooldown(l) \/ LookupDies(l) PROVE codeTTL' > 0
  BY <1>3 DEF TakeCooldown, LookupDies
<1>4. ASSUME NEW v \in Verifies, DeleteCode(v) PROVE codeTTL' > 0
  BY <1>4 DEF DeleteCode, Unless
<1>5. ASSUME NEW v \in Verifies,
             \/ CheckLock(v) \/ ReadCode(v) \/ IncrFails(v) \/ ExpireFails(v) \/ LockPhone(v)
             \/ Accept(v) \/ VerifyDies(v)
      PROVE  codeTTL' > 0
  BY <1>5 DEF CheckLock, ReadCode, IncrFails, ExpireFails, LockPhone, Accept, VerifyDies
<1>6. CASE UNCHANGED codeVars
  BY <1>6 DEF codeVars
<1> QED BY <1>1, <1>2, <1>3, <1>4, <1>5, <1>6 DEF CodeNext

\* A fault is never forgotten.
LEMMA FaultsStay == CodeTypeOK /\ [CodeNext]_codeVars /\ faults' = 0 => faults = 0
BY MaxFaultsAssumption DEF CodeTypeOK, CodeNext, CodeTick, TakeCooldown, StoreCode, LookupDies,
   CheckLock, ReadCode, IncrFails, ExpireFails, LockPhone, DeleteCode, Accept, VerifyDies, Unless,
   codeVars

LEMMA TimedStays ==
    CodeTypeOK /\ CounterIsTimed /\ [CodeNext]_codeVars /\ faults' = 0 => CounterIsTimed'
<1> SUFFICES ASSUME CodeTypeOK, CounterIsTimed, [CodeNext]_codeVars, faults' = 0,
                    fails' > 0, failTTL' = 0
             PROVE  \E v \in Verifies : verifying'[v] = "expiring"
  BY DEF CounterIsTimed
<1> USE TTLsAssumption, MaxVerifyAttemptsAssumption, MaxFaultsAssumption DEF CodeTypeOK, Then, keyVars
<1>1. ASSUME CodeTick PROVE FALSE
  <2>1. fails > 0 /\ failTTL = 0
    BY <1>1 DEF CodeTick, Lessen
  <2> QED BY <1>1, <2>1 DEF CodeTick, CounterIsTimed, RecordingFailure
<1>2. ASSUME NEW l \in Lookups, TakeCooldown(l) \/ (\E c \in Codes : StoreCode(l, c))
      PROVE  \E v \in Verifies : verifying'[v] = "expiring"
  BY <1>2 DEF StoreCode, TakeCooldown, CounterIsTimed
<1>3. ASSUME NEW l \in Lookups, LookupDies(l) PROVE FALSE
  BY <1>3 DEF LookupDies
<1>4. ASSUME NEW v \in Verifies,
             CheckLock(v) \/ ReadCode(v) \/ LockPhone(v) \/ DeleteCode(v)
      PROVE  \E w \in Verifies : verifying'[w] = "expiring"
  <2>1. fails > 0 /\ failTTL = 0
    BY <1>4 DEF CheckLock, ReadCode, LockPhone, DeleteCode
  <2>2. PICK w \in Verifies : verifying[w] = "expiring"
    BY <2>1 DEF CounterIsTimed
  <2>3. verifying'[w] = "expiring"
    BY <1>4, <2>2 DEF CheckLock, ReadCode, LockPhone, DeleteCode
  <2> QED BY <2>3
<1>5. ASSUME NEW v \in Verifies, IncrFails(v)
      PROVE  \E w \in Verifies : verifying'[w] = "expiring"
  <2>1. CASE fails = 0
    BY <1>5, <2>1 DEF IncrFails, AfterFail
  <2>2. CASE fails > 0
    <3>1. PICK w \in Verifies : verifying[w] = "expiring"
      BY <1>5, <2>2 DEF IncrFails, CounterIsTimed
    <3>2. verifying'[w] = "expiring"
      BY <1>5, <3>1 DEF IncrFails
    <3> QED BY <3>2
  <2> QED BY <2>1, <2>2
<1>6. ASSUME NEW v \in Verifies, ExpireFails(v) \/ Accept(v) PROVE FALSE
  BY <1>6 DEF ExpireFails, Accept, Unless
<1>7. ASSUME NEW v \in Verifies, VerifyDies(v) PROVE FALSE
  BY <1>7 DEF VerifyDies
<1>8. CASE UNCHANGED codeVars
  BY <1>8 DEF codeVars, CounterIsTimed
<1> QED BY <1>1, <1>2, <1>3, <1>4, <1>5, <1>6, <1>7, <1>8 DEF CodeNext

\* What the stages of a verification that moves add to and take from the counts.
LEMMA WrongStays ==
    /\ CodeTypeOK /\ CodeTypeOK' /\ CounterIsTimed
    /\ code # NoCode => codeTTL > 0 /\ WrongIsAllowed
    /\ [CodeNext]_codeVars
    /\ faults' = 0 /\ code' # NoCode /\ codeTTL' > 0
    => WrongIsAllowed'
<1> SUFFICES ASSUME CodeTypeOK, CodeTypeOK', CounterIsTimed,
                    code # NoCode => codeTTL > 0 /\ WrongIsAllowed,
                    [CodeNext]_codeVars, faults' = 0, code' # NoCode, codeTTL' > 0
             PROVE  WrongIsAllowed'
  OBVIOUS
<1> DEFINE U == CountAt({"used"})
           D == CountAt({"wrong", "locking"})
           B == CountAt({"idle"})
           X == CountAt({"expiring"})
<1>nat. /\ U \in Nat /\ D \in Nat /\ B \in Nat /\ X \in Nat
        /\ U <= Everybody /\ B <= Everybody
        /\ U' \in Nat /\ D' \in Nat /\ B' \in Nat /\ X' \in Nat
        /\ U' <= Everybody /\ B' <= Everybody
  <2>1. U \in Nat /\ D \in Nat /\ B \in Nat /\ X \in Nat /\ U <= Everybody /\ B <= Everybody
    BY Counted
  <2>2. (\A P : CountAt(P) \in Nat /\ CountAt(P) <= Everybody)'
    BY Counted, PTL
  <2>3. U' \in Nat /\ D' \in Nat /\ B' \in Nat /\ X' \in Nat /\ U' <= Everybody /\ B' <= Everybody
    BY <2>2
  <2> QED BY <2>1, <2>3
<1>nums. /\ Everybody \in Nat /\ Share \in Nat \ {0} /\ MaxVerifyAttempts = Share + 1
         /\ fails \in Nat /\ fails' \in Nat /\ failTTL \in Nat /\ failTTL' \in Nat
         /\ codeTTL \in Nat /\ codeTTL' \in Nat /\ wrong \in Nat /\ wrong' \in Nat
         /\ faults = 0 /\ Share' = Share /\ Everybody' = Everybody
  BY EverybodyIsNatural, FaultsStay, MaxVerifyAttemptsAssumption DEF CodeTypeOK, Share, Everybody
<1>locks. /\ LocksGone \in Nat /\ LocksBegun \in {LocksGone, LocksGone + 1}
          /\ codeLock = 0 => LocksBegun = LocksGone
          /\ LocksGone' \in Nat /\ LocksBegun' \in {LocksGone', LocksGone' + 1}
          /\ codeLock' = 0 => LocksBegun' = LocksGone'
  <2>1. (/\ LocksGone \in Nat /\ LocksBegun \in {LocksGone, LocksGone + 1}
         /\ codeLock = 0 => LocksBegun = LocksGone)'
    BY LocksFollow, PTL
  <2> QED BY <2>1, LocksFollow
<1> DEFINE S == Shares(Everybody - 1 - U)
           C == IF CounterIsOld THEN 0 ELSE Share
           F == IF fails < Share THEN fails ELSE Share
           R == Rounds(LocksGone)
           K == IF LocksBegun = LocksGone THEN 0 ELSE B
           Goal == (U' = Everybody => wrong' = 0) /\ (U' < Everybody => wrong' < S' + (C' + F') + (R' + K') + D')
<1>goal. Goal => WrongIsAllowed'
  BY DEF WrongIsAllowed, Allowance, Unlocking
<1>old. code # NoCode => /\ U = Everybody => wrong = 0
                         /\ U < Everybody => wrong < S + (C + F) + (R + K) + D
  BY DEF WrongIsAllowed, Allowance, Unlocking
<1>terms. /\ U < Everybody => S \in Nat
          /\ U' < Everybody => S' \in Nat
          /\ U' < Everybody /\ U' = U - 1 /\ U < Everybody => S' = S + Share
          /\ U' = U => S' = S
          /\ R \in Nat /\ R' \in Nat
          /\ LocksGone' = LocksGone => R' = R
          /\ LocksGone' = LocksGone + 1 => R' = R + Everybody
  <2>1. U < Everybody => Everybody - 1 - U \in Nat
    BY <1>nat, <1>nums
  <2>2. U' < Everybody => Everybody - 1 - U' \in Nat
    BY <1>nat, <1>nums
  <2>3. U' = U - 1 => Everybody - 1 - U' = (Everybody - 1 - U) + 1
    BY <1>nat, <1>nums
  <2>4. S' = Shares(Everybody - 1 - U')
    BY DEF Shares, Share, Everybody
  <2>5. R' = Rounds(LocksGone')
    BY DEF Rounds, Everybody
  <2> HIDE DEF U
  <2>6. (U < Everybody => S \in Nat) /\ (U' < Everybody => S' \in Nat)
    BY <2>1, <2>2, <2>4, SharesAdd
  <2>7. U' < Everybody /\ U' = U - 1 /\ U < Everybody => S' = S + Share
    BY <2>1, <2>3, <2>4, SharesAdd
  <2>8. U' = U => S' = S
    BY <2>4
  <2>9. R \in Nat /\ R' \in Nat /\ (LocksGone' = LocksGone => R' = R)
        /\ (LocksGone' = LocksGone + 1 => R' = R + Everybody)
    BY <2>5, <1>locks, RoundsAdd
  <2> QED BY <2>6, <2>7, <2>8, <2>9
<1>bits. /\ C \in Nat /\ C' \in Nat /\ C <= Share /\ F \in Nat /\ F' \in Nat
         /\ K \in Nat /\ K' \in Nat /\ K <= Everybody
  BY <1>nat, <1>nums, <1>locks
\* With the lock and the code's TTL as they were, only the stages matter.
<1>same. ASSUME UNCHANGED <<codeTTL, codeLock>>
         PROVE  LocksGone' = LocksGone /\ LocksBegun' = LocksBegun
  BY <1>same DEF LocksGone, LocksBegun, Elapsed
<1>old2. CounterIsOld <=> fails > 0 /\ failTTL < codeTTL /\ X = 0
  BY DEF CounterIsOld
<1>new2. CounterIsOld' <=> fails' > 0 /\ failTTL' < codeTTL' /\ X' = 0
  BY DEF CounterIsOld
<1> HIDE DEF S, C, F, R, K, U, D, B, X, Goal
\* Nothing moves and nothing else changes but the keys of a lookup.
<1>0. ASSUME UNCHANGED <<codeTTL, codeLock, fails, failTTL, verifying, wrong, code>> PROVE Goal
  <2>1. U' = U /\ D' = D /\ B' = B /\ X' = X
    BY <1>0 DEF U, D, B, X, CountAt
  <2>2. C' = C /\ F' = F /\ K' = K /\ R' = R /\ S' = S
    BY <1>0, <2>1, <1>same, <1>old2, <1>new2, <1>terms DEF C, F, K
  <2> QED BY <1>0, <2>1, <2>2, <1>old DEF Goal
<1>1. ASSUME CodeTick PROVE Goal
  <2>1. UNCHANGED verifying /\ wrong' = wrong /\ code # NoCode
    BY <1>1 DEF CodeTick
  <2>2. U' = U /\ D' = D /\ B' = B /\ X' = X
    BY <2>1 DEF U, D, B, X, CountAt
  <2>3. X = 0
    <3>1. \A v \in Verifies : verifying[v] \notin {"expiring"}
      BY <1>1 DEF CodeTick, RecordingFailure
    <3> QED BY <3>1, Counted DEF X
  <2>4. /\ codeTTL > 0 /\ codeTTL' = codeTTL - 1 /\ codeLock \in Nat
        /\ codeLock' = IF codeLock > 0 THEN codeLock - 1 ELSE 0
        /\ failTTL' = IF failTTL > 0 THEN failTTL - 1 ELSE 0
        /\ fails' = IF failTTL = 1 THEN 0 ELSE fails
    BY <1>1, <2>1, <1>nums DEF CodeTick, Lessen, CodeTypeOK
  <2>5. /\ LocksGone' \in {LocksGone, LocksGone + 1}
        /\ codeLock > 0 => LocksBegun' = LocksBegun
    <3>1. /\ Elapsed \in Nat /\ Elapsed' = Elapsed + 1 /\ VerifyLockoutTTL \in Nat \ {0}
          /\ codeLock > 0 => Elapsed' + codeLock' = Elapsed + codeLock
      BY <2>4, TTLsAssumption DEF Elapsed, CodeTypeOK
    <3>2. /\ LocksGone' = (Elapsed + 1) \div VerifyLockoutTTL
          /\ LocksGone <= LocksGone' /\ LocksGone' <= LocksGone + 1
      <4>1. Elapsed + 1 \in Nat /\ Elapsed <= Elapsed + 1
            /\ Elapsed + VerifyLockoutTTL \in Nat /\ Elapsed + 1 <= Elapsed + VerifyLockoutTTL
        BY <3>1
      <4> QED BY <3>1, <4>1, Division DEF LocksGone
    <3>3. codeLock > 0 => LocksBegun' = LocksBegun
      BY <3>1 DEF LocksBegun
    <3> QED BY <3>2, <3>3, <1>locks
\* The round of a lock that ends pays for those who are back from it.
  <2>6. R + K <= R' + K'
    <3>1. CASE LocksGone' = LocksGone /\ codeLock > 0
      BY <2>2, <2>5, <3>1, <1>terms, <1>bits DEF K
    <3>2. CASE LocksGone' = LocksGone /\ codeLock = 0
      BY <2>4, <3>2, <1>terms, <1>bits, <1>locks DEF K
    <3>3. CASE LocksGone' = LocksGone + 1
      <4>1. K' = 0
        BY <2>4, <2>5, <3>3, <1>locks DEF K
      <4> QED BY <3>3, <4>1, <1>terms, <1>bits, <1>nums
    <3> QED BY <2>4, <2>5, <3>1, <3>2, <3>3
\* The share of a counter that expires was not counted yet, for the counter is older than the code.
  <2>7. C + F <= C' + F'
    <3>1. fails > 0 => failTTL # 0
      <4>1. \A v \in Verifies : verifying[v] # "expiring"
        BY <1>1 DEF CodeTick, RecordingFailure
      <4> QED BY <4>1, <1>nums DEF CounterIsTimed
    <3>2. CASE failTTL = 1
      BY <2>2, <2>3, <2>4, <3>2, <1>old2, <1>new2, <1>nums DEF C, F
    <3>3. CASE failTTL # 1
      BY <2>2, <2>3, <2>4, <3>1, <3>3, <1>old2, <1>new2, <1>nums DEF C, F
    <3> QED BY <3>2, <3>3
  <2>8. S' = S
    BY <2>2, <1>terms
  <2>9. CASE U < Everybody
    <3>1. wrong < S + (C + F) + (R + K) + D
      BY <2>1, <2>9, <1>old
    <3>2. S \in Nat /\ R \in Nat /\ R' \in Nat
      BY <2>9, <1>terms
    <3>3. /\ S + (C + F) + (R + K) + D \in Nat /\ S' + (C' + F') + (R' + K') + D' \in Nat
          /\ S + (C + F) + (R + K) + D <= S' + (C' + F') + (R' + K') + D'
      <4> DEFINE Q == C + F
                 W == R + K
      <4>1. Q \in Nat /\ Q' \in Nat /\ W \in Nat /\ W' \in Nat
        BY <3>2, <1>bits, SumsGrow
      <4>2. Q <= Q' /\ W <= W' /\ S <= S
        BY <2>6, <2>7, <3>2
      <4> HIDE DEF Q, W
      <4>3. S + Q \in Nat /\ S + Q' \in Nat /\ S + Q <= S + Q'
        BY <3>2, <4>1, <4>2, SumsGrow
      <4>4. S + Q + W \in Nat /\ S + Q' + W' \in Nat /\ S + Q + W <= S + Q' + W'
        BY <4>1, <4>2, <4>3, SumsGrow
      <4>5. /\ S + Q + W + D \in Nat /\ S + Q' + W' + D \in Nat
            /\ S + Q + W + D <= S + Q' + W' + D
        BY <4>4, <1>nat, SumsGrow
      <4>6. S' + Q' + W' + D' = S + Q' + W' + D
        BY <2>2, <2>8
      <4> QED BY <4>5, <4>6 DEF Q, W
    <3>4. wrong' < S' + (C' + F') + (R' + K') + D'
      BY <2>1, <3>1, <3>3, <1>nums
    <3> QED BY <2>2, <2>9, <3>4, <1>nat, <1>nums DEF Goal
  <2> QED BY <2>1, <2>2, <2>9, <1>old, <1>nat, <1>nums DEF Goal
<1>2. ASSUME NEW l \in Lookups, TakeCooldown(l) PROVE Goal
  BY <1>2, <1>0 DEF TakeCooldown
<1>3. ASSUME NEW l \in Lookups, NEW c \in Codes, StoreCode(l, c) PROVE Goal
  \* An old counter has counted a failure: the code starts with room for at least one.
  <2>1. CounterIsOld' => F' > 0
    <3>1. CounterIsOld' => fails' > 0
      BY <1>new2
    <3> QED BY <3>1, <1>nums DEF F
  <2>2. ~CounterIsOld' => C' > 0
    BY <1>nums DEF C
  <2>3. C' > 0 \/ F' > 0
    BY <2>1, <2>2
  <2>4. wrong' = 0
    BY <1>3 DEF StoreCode
  <2>5. CASE U' < Everybody
    <3>1. /\ S' \in Nat /\ C' \in Nat /\ F' \in Nat
          /\ R' \in Nat /\ K' \in Nat /\ D' \in Nat
      BY <2>5, <1>terms, <1>bits, <1>nat
    <3>2. 0 < S' + (C' + F') + (R' + K') + D'
      BY <2>3, <3>1, SumsArePositive
    <3> QED BY <2>4, <3>2 DEF Goal
  <2>6. CASE ~(U' < Everybody)
    BY <2>4, <2>6 DEF Goal
  <2> QED BY <2>5, <2>6
<1>4. ASSUME NEW l \in Lookups, LookupDies(l) PROVE FALSE
  BY <1>4, <1>nums DEF LookupDies
\* What the stages of a verification that moves add to and take from the counts.
<1>moves. ASSUME NEW v \in Verifies, NEW to, NEW c, Then(v, to, c)
          PROVE  /\ U' = U + (IF to = "used" THEN 1 ELSE 0) - (IF verifying[v] = "used" THEN 1 ELSE 0)
                 /\ D' = D + (IF to \in {"wrong", "locking"} THEN 1 ELSE 0)
                           - (IF verifying[v] \in {"wrong", "locking"} THEN 1 ELSE 0)
                 /\ B' = B + (IF to = "idle" THEN 1 ELSE 0) - (IF verifying[v] = "idle" THEN 1 ELSE 0)
                 /\ X' = X + (IF to = "expiring" THEN 1 ELSE 0)
                           - (IF verifying[v] = "expiring" THEN 1 ELSE 0)
                 /\ verifying[v] # "used" => U < Everybody
                 /\ verifying[v] = "expiring" => X > 0
  <2>1. /\ CountAt({"used"})' = CountAt({"used"}) + (IF to \in {"used"} THEN 1 ELSE 0)
                                  - (IF verifying[v] \in {"used"} THEN 1 ELSE 0)
        /\ CountAt({"wrong", "locking"})' = CountAt({"wrong", "locking"})
                                  + (IF to \in {"wrong", "locking"} THEN 1 ELSE 0)
                                  - (IF verifying[v] \in {"wrong", "locking"} THEN 1 ELSE 0)
        /\ CountAt({"idle"})' = CountAt({"idle"}) + (IF to \in {"idle"} THEN 1 ELSE 0)
                                  - (IF verifying[v] \in {"idle"} THEN 1 ELSE 0)
        /\ CountAt({"expiring"})' = CountAt({"expiring"}) + (IF to \in {"expiring"} THEN 1 ELSE 0)
                                  - (IF verifying[v] \in {"expiring"} THEN 1 ELSE 0)
    BY <1>moves, CountMoves
  <2>2. verifying[v] # "used" => U < Everybody
    <3> SUFFICES ASSUME verifying[v] # "used" PROVE U < Everybody
      OBVIOUS
    <3>1. {"used"} \cap {verifying[v]} = {}
      OBVIOUS
    <3>2. CountAt({verifying[v]}) \in Nat /\ CountAt({verifying[v]}) # 0
      BY Counted
    <3>3. CountAt({"used"}) + CountAt({verifying[v]}) <= Everybody
      BY <3>1, Counted
    <3> QED BY <3>2, <3>3, <1>nat, <1>nums DEF U
  <2>3. verifying[v] = "expiring" => CountAt({"expiring"}) # 0
    BY Counted
  <2> QED BY <2>1, <2>2, <2>3, <1>nat DEF U, D, B, X
<1>5. ASSUME NEW v \in Verifies, CheckLock(v) PROVE Goal
  <2>1. U' = U /\ D' = D /\ X' = X
    BY <1>5, <1>moves, <1>nat DEF CheckLock
  <2>2. K = 0 /\ K' = 0 /\ R' = R /\ S' = S
    BY <1>5, <2>1, <1>same, <1>terms, <1>locks DEF CheckLock, NotLocked, keyVars, K
  <2>3. C' = C /\ F' = F
    BY <1>5, <2>1, <1>old2, <1>new2 DEF CheckLock, keyVars, C, F
  <2> QED BY <1>5, <2>1, <2>2, <2>3, <1>old DEF CheckLock, keyVars, Goal
<1>6. ASSUME NEW v \in Verifies, ReadCode(v) PROVE Goal
  <2>1. /\ U' = U /\ X' = X /\ B' = B /\ U < Everybody
        /\ wrong' - wrong = D' - D /\ code' = code
    BY <1>6, <1>moves, <1>nat, <1>nums DEF ReadCode, keyVars
  <2>2. K' = K /\ R' = R /\ S' = S
    BY <1>6, <2>1, <1>same, <1>terms DEF ReadCode, keyVars, K
  <2>3. C' = C /\ F' = F
    BY <1>6, <2>1, <1>old2, <1>new2 DEF ReadCode, keyVars, C, F
  <2> QED BY <2>1, <2>2, <2>3, <1>old, <1>terms, <1>bits, <1>nat, <1>nums DEF Goal
<1>7. ASSUME NEW v \in Verifies, IncrFails(v) PROVE Goal
  <2> DEFINE to == AfterFail(fails')
  <2>1. /\ verifying[v] = "wrong" /\ Then(v, to, NoCode)
        /\ fails' = (IF fails < MaxVerifyAttempts THEN fails + 1 ELSE fails)
        /\ UNCHANGED <<codeTTL, codeLock, failTTL, wrong, code>>
    BY <1>7 DEF IncrFails
  <2>2. /\ to \in {"expiring", "locking", "idle"} /\ (to = "expiring" <=> fails = 0)
        /\ fails' > 0 /\ (to # "locking" => fails < Share)
    <3>1. /\ MaxVerifyAttempts \in Nat /\ MaxVerifyAttempts > 1 /\ fails <= MaxVerifyAttempts
          /\ fails' \in Nat
      BY <1>nums, MaxVerifyAttemptsAssumption DEF CodeTypeOK
    <3>2. CASE fails = 0
      <4>1. fails' = 1
        BY <2>1, <3>1, <3>2
      <4>2. AfterFail(1) = "expiring"
        BY <3>1 DEF AfterFail
      <4>3. to = "expiring"
        BY <4>1, <4>2
      <4> HIDE DEF to
      <4> QED BY <3>2, <4>1, <4>3, <1>nums
    <3>3. CASE fails > 0 /\ fails < Share
      BY <2>1, <3>1, <3>3, <1>nums DEF AfterFail
    <3>4. CASE fails >= Share /\ fails > 0
      BY <2>1, <3>1, <3>4, <1>nums DEF AfterFail
    <3> HIDE DEF to
    <3> QED BY <3>2, <3>3, <3>4, <1>nums
  <2>3. /\ U' = U /\ U < Everybody
        /\ X' = X + (IF to = "expiring" THEN 1 ELSE 0)
        /\ D' = D - (IF to = "locking" THEN 0 ELSE 1)
        /\ B' >= B
    <3> HIDE DEF to
    <3> QED BY <2>1, <2>2, <1>moves, <1>nat
  <2> HIDE DEF to
  <2>4. K' >= K /\ R' = R /\ S' = S
    BY <2>1, <2>3, <1>same, <1>terms, <1>nat DEF K
  <2>5. C' = C
    BY <2>1, <2>2, <2>3, <1>old2, <1>new2, <1>nat, <1>nums DEF C
  <2>6. F' >= F /\ (to # "locking" => F' = F + 1)
    BY <2>1, <2>2, <1>nums DEF F
  <2> QED BY <2>1, <2>3, <2>4, <2>5, <2>6, <1>old, <1>terms, <1>bits, <1>nat, <1>nums DEF Goal
<1>8. ASSUME NEW v \in Verifies, ExpireFails(v) PROVE Goal
  <2>1. U' = U /\ U < Everybody /\ D' = D /\ B' >= B /\ X > 0
    BY <1>8, <1>moves, <1>nat DEF ExpireFails
  <2>2. K' >= K /\ R' = R /\ S' = S
    BY <1>8, <2>1, <1>same, <1>terms, <1>nat DEF ExpireFails, K
  <2>3. C' = C /\ F' = F
    <3>1. codeTTL <= CodeTTL /\ CodeTTL \in Nat
      BY TTLsAssumption DEF CodeTypeOK
    <3> QED BY <1>8, <2>1, <3>1, <1>old2, <1>new2, <1>nat, <1>nums DEF ExpireFails, C, F
  <2> QED BY <1>8, <2>1, <2>2, <2>3, <1>old, <1>terms, <1>bits, <1>nat, <1>nums DEF ExpireFails, Goal
<1>9. ASSUME NEW v \in Verifies, LockPhone(v) PROVE Goal
  <2>1. U' = U /\ U < Everybody /\ D' = D - 1 /\ B' = B + 1 /\ X' = X
    BY <1>9, <1>moves, <1>nat DEF LockPhone
  <2>2. LocksGone' = LocksGone /\ LocksBegun' = LocksGone + 1
    <3>1. Elapsed \in Nat /\ Elapsed' = Elapsed /\ codeLock' = VerifyLockoutTTL
          /\ VerifyLockoutTTL \in Nat \ {0}
      BY <1>9, TTLsAssumption DEF LockPhone, PhoneLockedFor, Elapsed, CodeTypeOK
    <3>2. (Elapsed + VerifyLockoutTTL) \div VerifyLockoutTTL = Elapsed \div VerifyLockoutTTL + 1
      BY <3>1, Division
    <3> QED BY <3>1, <3>2 DEF LocksGone, LocksBegun
  <2>3. K' = B + 1 /\ K <= B /\ R' = R /\ S' = S
    BY <2>1, <2>2, <1>locks, <1>terms, <1>nat DEF K
  <2>4. C' = C /\ F' = F
    BY <1>9, <2>1, <1>old2, <1>new2 DEF LockPhone, C, F
  <2> QED BY <1>9, <2>1, <2>3, <2>4, <1>old, <1>terms, <1>bits, <1>nat, <1>nums DEF LockPhone, Goal
<1>10. ASSUME NEW v \in Verifies, DeleteCode(v) PROVE FALSE
  BY <1>10, <1>nums DEF DeleteCode, Unless
<1>11. ASSUME NEW v \in Verifies, Accept(v) PROVE Goal
  <2>1. U' = U - 1 /\ D' = D /\ B' >= B /\ X' = X /\ verifying[v] = "used"
    BY <1>11, <1>moves, <1>nat DEF Accept
  <2>2. /\ fails' = 0 /\ failTTL' = 0
        /\ UNCHANGED <<codeTTL, codeLock, wrong, code>>
    BY <1>11, <1>nums DEF Accept, Unless
  <2>3. K' >= K /\ R' = R
    BY <2>1, <2>2, <1>same, <1>terms, <1>nat DEF K
  <2>4. C' = Share /\ F' = 0 /\ F <= Share
    <3>1. ~CounterIsOld'
      BY <2>2, <1>new2
    <3> QED BY <2>2, <3>1, <1>nums DEF C, F
  <2>5. CASE U = Everybody
    <3>1. wrong' = 0
      BY <2>2, <2>5, <1>old
    <3>2. U' < Everybody
      BY <2>1, <2>5, <1>nat, <1>nums
    <3>3. /\ S' \in Nat /\ C' \in Nat /\ F' \in Nat
          /\ R' \in Nat /\ K' \in Nat /\ D' \in Nat
      BY <3>2, <1>terms, <1>bits, <1>nat
    <3>4. C' > 0
      BY <2>4, <1>nums
    <3>5. 0 < S' + (C' + F') + (R' + K') + D'
      BY <3>3, <3>4, SumsArePositive
    <3> QED BY <2>1, <2>5, <3>1, <3>2, <3>5, <1>nat, <1>nums DEF Goal
  <2>6. CASE U < Everybody
    BY <2>1, <2>2, <2>3, <2>4, <2>6, <1>old, <1>terms, <1>bits, <1>nat, <1>nums DEF Goal
  <2> QED BY <2>5, <2>6, <1>nat, <1>nums
<1>12. ASSUME NEW v \in Verifies, VerifyDies(v) PROVE FALSE
  BY <1>12, <1>nums DEF VerifyDies
<1>13. ASSUME UNCHANGED codeVars PROVE Goal
  BY <1>13, <1>0 DEF codeVars, keyVars
<1>14. Goal
  BY <1>1, <1>2, <1>3, <1>4, <1>5, <1>6, <1>7, <1>8, <1>9, <1>10, <1>11, <1>12, <1>13 DEF CodeNext
<1> QED BY <1>14, <1>goal

LEMMA InitWrongInv == CodeInit => WrongInv
<1> SUFFICES ASSUME CodeInit PROVE WrongInv
  OBVIOUS
<1>1. CodeTypeOK
  BY NoCodeAssumption, TTLsAssumption, MaxFaultsAssumption, MaxVerifyAttemptsAssumption
     DEF CodeInit, CodeTypeOK
<1>2. WrongPerCodeBounded
  <2>1. CodeWorst \in Nat
    BY CodeWorstIsNatural
  <2> QED BY <2>1 DEF WrongPerCodeBounded, CodeInit, CodeWorst, Everybody, Share
<1> QED BY <1>1, <1>2 DEF CodeInit, WrongInv, CounterIsTimed

LEMMA StepWrongInv == WrongInv /\ [CodeNext]_codeVars => WrongInv'
<1> SUFFICES ASSUME WrongInv, [CodeNext]_codeVars PROVE WrongInv'
  OBVIOUS
<1>1. CodeTypeOK /\ CodeTypeOK' /\ (code' # NoCode => codeTTL' > 0)
  BY CodeTypesStep, CodeLives DEF WrongInv
<1>2. faults' = 0 => faults = 0 /\ CounterIsTimed /\ CounterIsTimed'
  BY <1>1, FaultsStay, TimedStays DEF WrongInv
<1>3. faults' = 0 /\ code' # NoCode => WrongIsAllowed'
  BY <1>1, <1>2, WrongStays DEF WrongInv
<1>4. ASSUME faults' = 0 PROVE wrong' <= CodeWorst
  <2>1. CodeWorst \in Nat /\ CodeWorst' = CodeWorst
    BY CodeWorstIsNatural DEF CodeWorst, Everybody, Share
  <2>2. CASE code' # NoCode
    <3>1. CountAt({"used"})' \in Nat /\ CountAt({"used"})' <= Everybody
      <4>1. (\A P : CountAt(P) \in Nat /\ CountAt(P) <= Everybody)'
        BY Counted, PTL
      <4> QED BY <4>1
    <3>2. CASE CountAt({"used"})' = Everybody
      <4>1. wrong' = 0
        BY <1>3, <1>4, <2>2, <3>2 DEF WrongIsAllowed, Everybody
      <4> QED BY <2>1, <4>1
    <3>3. CASE CountAt({"used"})' < Everybody
      <4>1. wrong' < Allowance'
        BY <1>3, <1>4, <2>2, <3>3 DEF WrongIsAllowed, Everybody
      <4>2. (CodeTypeOK /\ codeTTL > 0 /\ CountAt({"used"}) < Everybody =>
               Allowance \in Nat /\ Allowance - 1 <= CodeWorst)'
        BY AllowanceBounded, PTL
      <4>3. Allowance' \in Nat /\ Allowance' - 1 <= CodeWorst
        BY <1>1, <2>1, <2>2, <3>3, <4>2 DEF Everybody
      <4>4. wrong' \in Nat
        BY <1>1 DEF CodeTypeOK
      <4>5. \A w, a, b \in Nat : w < a /\ a - 1 <= b => w <= b
        OBVIOUS
      <4>6. wrong' <= CodeWorst
        BY <2>1, <4>1, <4>3, <4>4, <4>5
      <4> QED BY <4>6
    <3> QED BY <3>1, <3>2, <3>3, EverybodyIsNatural
  <2>3. CASE code' = NoCode
    <3>1. wrong' = wrong
      BY <2>3, NoCodeAssumption
         DEF CodeNext, CodeTick, TakeCooldown, StoreCode, LookupDies, CheckLock, ReadCode, IncrFails,
             ExpireFails, LockPhone, DeleteCode, Accept, VerifyDies, codeVars, keyVars
    <3> QED BY <1>2, <1>4, <3>1 DEF WrongInv, WrongPerCodeBounded, CodeWorst, Share, Everybody
  <2> QED BY <2>2, <2>3
<1> QED BY <1>1, <1>2, <1>3, <1>4 DEF WrongInv, WrongPerCodeBounded, CodeWorst, Share, Everybody

\* Unless a command is lost, the wrong codes that one code is compared with are bounded, for any
\* number of verifications at once and any TTLs.
THEOREM WrongPerCode == CodeSpec => []WrongPerCodeBounded
<1>1. WrongInv => WrongPerCodeBounded
  BY DEF WrongInv
<1> QED BY <1>1, InitWrongInv, StepWrongInv, PTL DEF CodeSpec

----------------------------------------------------------------------------
(* The rate limit. *)

RateInv == RateTypeOK /\ letIn <= rateCount /\ AdmittedBounded

LEMMA RateStepKeeps == RateInv /\ [RateNext]_rateVars => RateInv'
<1> SUFFICES ASSUME RateInv, [RateNext]_rateVars PROVE RateInv'
  OBVIOUS
<1> USE RateMaxAssumption, RateWindowAssumption, MaxRateFaultsAssumption
    DEF RateInv, RateTypeOK, CountBound
<1>1. CASE RateTick
  BY <1>1 DEF RateTick, AdmittedBounded
<1>2. ASSUME NEW v \in Visits, Incr(v) PROVE RateInv'
  <2>1. rateCount' \in 0 .. CountBound /\ rateCount <= rateCount'
    BY <1>2 DEF Incr
  <2>2. letIn' \in Nat /\ letIn' <= rateCount' /\ letIn' <= RateMax
    BY <1>2 DEF Incr, Admitted, AdmittedBounded
  <2>3. /\ visiting'[v] = IF rateCount' = 1 THEN "expire" ELSE "idle"
        /\ \A w \in Visits : w # v => visiting'[w] = visiting[w]
        /\ visiting[v] = "idle"
        /\ visiting' \in [Visits -> {"idle", "expire"}]
    BY <1>2 DEF Incr, StartsWindow
  <2>4. rateCount' = 1 \/ rateCount > 0
    BY <1>2 DEF Incr
  <2>5. AdmittedBounded'
    BY <1>2, <2>2, <2>3, <2>4 DEF Incr, AdmittedBounded
  <2> QED BY <1>2, <2>1, <2>2, <2>3, <2>5 DEF Incr
<1>3. ASSUME NEW v \in Visits, RateExpire(v) PROVE RateInv'
  BY <1>3 DEF RateExpire, AdmittedBounded
<1>4. ASSUME NEW v \in Visits, RateExpireFails(v) PROVE RateInv'
  BY <1>4 DEF RateExpireFails, AdmittedBounded
<1>5. CASE UNCHANGED rateVars
  BY <1>5 DEF rateVars, AdmittedBounded
<1> QED BY <1>1, <1>2, <1>3, <1>4, <1>5 DEF RateNext, RateStep

LEMMA RateInvHolds == RateSpec => []RateInv
<1>1. RateInit => RateInv
  <2> SUFFICES ASSUME RateInit PROVE RateInv
    OBVIOUS
  <2>1. RateTypeOK
    <3>1. stuck \in BOOLEAN
      BY DEF RateInit
    <3>2. /\ 0 \in 0 .. CountBound /\ 0 \in 0 .. RateWindow /\ 0 \in 0 .. MaxRateFaults
      BY RateMaxAssumption, RateWindowAssumption, MaxRateFaultsAssumption DEF CountBound
    <3> QED BY <3>1, <3>2 DEF RateInit, RateTypeOK
  <2>2. letIn <= rateCount /\ AdmittedBounded
    BY RateMaxAssumption DEF RateInit, AdmittedBounded
  <2> QED BY <2>1, <2>2 DEF RateInv
<1> QED BY <1>1, RateStepKeeps, PTL DEF RateSpec

\* The rate limit's counter and TTL keep their types, whatever faults there are.
THEOREM RateTypes == RateSpec => []RateTypeOK
<1>1. RateInv => RateTypeOK
  BY DEF RateInv
<1> QED BY <1>1, RateInvHolds, PTL

\* One counter admits no more than the limit, and lacks a TTL only while its EXPIRE is under
\* way or when that was lost.
THEOREM AdmissionsBounded == RateSpec => []AdmittedBounded
<1>1. RateInv => AdmittedBounded
  BY DEF RateInv
<1> QED BY <1>1, RateInvHolds, PTL

----------------------------------------------------------------------------
(* Transactions of plants. *)

HeldByRunning ==
    /\ \A c \in Conns : heldBy[c] # NoRequest => at[heldBy[c]] \in Holding
    /\ process = "closed" => \A c \in Conns : heldBy[c] = NoRequest

\* Only a transaction that has its scope carries a plant, and that of its request.
ScopeFits ==
    \A c \in Conns : setting[c] # NoTenant =>
        heldBy[c] # NoRequest /\ at[heldBy[c]] \in {"work", "commit"} /\ setting[c] = tenant[heldBy[c]]

ReachedOwn == \A r \in Requests : reached[r] \subseteq {tenant[r]} /\ (at[r] = "idle" => reached[r] = {})

ServerInv == ServerTypeOK /\ HeldByRunning /\ ScopeFits /\ ReachedOwn

\* Steps that give r's connections back to the pool with nothing on them.
LEMMA EndingKeeps ==
    ASSUME ServerInv, NEW r \in Requests, NEW to \in {"acquire", "reply", "failed"}, NEW from \in Holding,
           Moves(r, from, to), EndTransaction(r), UNCHANGED <<process, tenant, reached>>,
           second' \subseteq Requests
    PROVE  ServerInv'
<1> USE ServerAssumption DEF ServerInv
<1>1. at[r] = from /\ at' = [at EXCEPT ![r] = to] /\ process # "exited"
  BY DEF Moves, Running
<1>2. /\ heldBy' = [c \in Conns |-> IF heldBy[c] = r THEN NoRequest ELSE heldBy[c]]
      /\ setting' = [c \in Conns |-> IF heldBy[c] = r THEN NoTenant ELSE setting[c]]
  BY DEF EndTransaction, Released, AfterTransaction
<1>3. ServerTypeOK'
  BY <1>1, <1>2 DEF ServerTypeOK, Holding, Ended
<1>4. \A q \in Requests : q # r => at'[q] = at[q]
  BY <1>1 DEF ServerTypeOK
<1>5. HeldByRunning'
  BY <1>2, <1>4 DEF ServerTypeOK, HeldByRunning
<1>6. ScopeFits'
  BY <1>2, <1>4 DEF ServerTypeOK, ScopeFits
<1>7. ReachedOwn'
  BY <1>1, <1>4 DEF ServerTypeOK, ReachedOwn
<1> QED BY <1>3, <1>5, <1>6, <1>7

\* Steps of r that leave the connections alone.
LEMMA MovingKeeps ==
    ASSUME ServerInv, NEW r \in Requests, NEW from, NEW to,
           Moves(r, from, to), UNCHANGED <<process, tenant, second, heldBy, setting, reached>>,
           to \in Ended \cup Holding \cup {"lookup", "acquire", "reply"}, to # "idle",
           from \in Holding => to \in Holding,
           from \notin {"work", "commit"}
    PROVE  ServerInv'
<1> USE ServerAssumption DEF ServerInv
<1>1. at[r] = from /\ at' = [at EXCEPT ![r] = to]
  BY DEF Moves
<1>2. at'[r] = to /\ \A q \in Requests : q # r => at'[q] = at[q]
  BY <1>1 DEF ServerTypeOK
<1>3. ServerTypeOK'
  BY <1>1 DEF ServerTypeOK
<1>4. HeldByRunning'
  BY <1>1, <1>2 DEF ServerTypeOK, HeldByRunning
<1>5. ScopeFits'
  BY <1>1, <1>2 DEF ServerTypeOK, ScopeFits
<1>6. ReachedOwn'
  BY <1>2 DEF ServerTypeOK, ReachedOwn
<1> QED BY <1>3, <1>4, <1>5, <1>6

LEMMA RequestStepKeeps ==
    ASSUME ServerInv, NEW r \in Requests, RequestStep(r)
    PROVE  ServerInv'
<1> USE ServerAssumption DEF ServerInv
<1>1. CASE LookupEnds(r)
  BY <1>1, MovingKeeps DEF LookupEnds, Ended, Holding
<1>2. CASE Acquire(r)
  <2>1. PICK c \in Conns : heldBy[c] = NoRequest /\ heldBy' = [heldBy EXCEPT ![c] = r]
    BY <1>2 DEF Acquire
  <2>2. /\ at[r] = "acquire" /\ at' = [at EXCEPT ![r] = "begin"] /\ process # "closed"
        /\ UNCHANGED <<process, tenant, second, setting, reached>>
    BY <1>2 DEF Acquire, Moves
  <2>3. at'[r] = "begin" /\ \A q \in Requests : q # r => at'[q] = at[q]
    BY <2>2 DEF ServerTypeOK
  <2>4. heldBy'[c] = r /\ \A d \in Conns : d # c => heldBy'[d] = heldBy[d]
    BY <2>1 DEF ServerTypeOK
  <2>5. \A d \in Conns : heldBy[d] # r
    BY <2>2 DEF HeldByRunning, Holding
  <2>6. ServerTypeOK'
    BY <2>1, <2>2 DEF ServerTypeOK, Holding
  <2>7. HeldByRunning'
    BY <2>2, <2>3, <2>4 DEF ServerTypeOK, HeldByRunning, Holding
  <2>8. ScopeFits'
    BY <2>1, <2>2, <2>3, <2>4, <2>5 DEF ServerTypeOK, ScopeFits
  <2>9. ReachedOwn'
    BY <2>2, <2>3 DEF ServerTypeOK, ReachedOwn
  <2> QED BY <2>6, <2>7, <2>8, <2>9
<1>3. CASE AcquireFails(r)
  BY <1>3, MovingKeeps DEF AcquireFails, Ended, Holding
<1>4. CASE Begin(r)
  BY <1>4, MovingKeeps DEF Begin, Holding
<1>5. CASE BeginFails(r)
  <2>1. \A c \in Conns : heldBy[c] = r => setting[c] = NoTenant
    BY <1>5 DEF BeginFails, Moves, ScopeFits
  <2>2. setting' = [c \in Conns |-> IF heldBy[c] = r THEN AfterTransaction(setting[c]) ELSE setting[c]]
    BY <1>5, <2>1 DEF BeginFails, AfterTransaction, ServerTypeOK
  <2>3. EndTransaction(r) /\ Moves(r, "begin", "failed")
    BY <1>5, <2>2 DEF EndTransaction, BeginFails, ReleasedUnbegun
  <2>4. UNCHANGED <<process, tenant, reached>> /\ second' \subseteq Requests
    BY <1>5 DEF BeginFails, ServerTypeOK
  <2>5. "begin" \in Holding
    BY DEF Holding
  <2> QED BY <2>3, <2>4, <2>5, EndingKeeps
<1>6. CASE SetScope(r)
  <2>1. /\ at[r] = "scope" /\ at' = [at EXCEPT ![r] = "work"]
        /\ setting' = [c \in Conns |-> IF heldBy[c] = r THEN tenant[r] ELSE setting[c]]
        /\ UNCHANGED <<process, tenant, second, heldBy, reached>>
    BY <1>6 DEF SetScope, Moves
  <2>2. at'[r] = "work" /\ \A q \in Requests : q # r => at'[q] = at[q]
    BY <2>1 DEF ServerTypeOK
  <2>3. ServerTypeOK'
    BY <2>1 DEF ServerTypeOK, Holding
  <2>4. HeldByRunning'
    BY <2>1, <2>2 DEF ServerTypeOK, HeldByRunning, Holding
  <2>5. ScopeFits'
    BY <2>1, <2>2 DEF ServerTypeOK, ScopeFits
  <2>6. ReachedOwn'
    BY <2>1, <2>2 DEF ServerTypeOK, ReachedOwn
  <2> QED BY <2>3, <2>4, <2>5, <2>6
<1>7. CASE Work(r)
  <2>1. /\ at[r] = "work" /\ at' = [at EXCEPT ![r] = "commit"]
        /\ reached' = [reached EXCEPT ![r] = @ \cup Visible(r)]
        /\ UNCHANGED <<process, tenant, second, heldBy, setting>>
    BY <1>7 DEF Work, Moves
  <2>2. at'[r] = "commit" /\ \A q \in Requests : q # r => at'[q] = at[q]
    BY <2>1 DEF ServerTypeOK
  <2>3. Visible(r) \subseteq {tenant[r]} /\ Visible(r) \subseteq Tenants
    BY DEF Visible, ScopeFits, ServerTypeOK
  <2>4. ServerTypeOK'
    BY <2>1, <2>3 DEF ServerTypeOK, Holding
  <2>5. HeldByRunning'
    BY <2>1, <2>2 DEF ServerTypeOK, HeldByRunning, Holding
  <2>6. ScopeFits'
    BY <2>1, <2>2 DEF ServerTypeOK, ScopeFits
  <2>7. ReachedOwn'
    BY <2>1, <2>2, <2>3 DEF ServerTypeOK, ReachedOwn
  <2> QED BY <2>4, <2>5, <2>6, <2>7
<1>8. CASE Commit(r)
  <2>1. \E to \in {"acquire", "reply", "failed"} : Moves(r, "commit", to)
    BY <1>8 DEF Commit
  <2>2. EndTransaction(r) /\ UNCHANGED <<process, tenant, reached>> /\ second' \subseteq Requests
    BY <1>8 DEF Commit, ServerTypeOK
  <2>3. "commit" \in Holding
    BY DEF Holding
  <2> QED BY <2>1, <2>2, <2>3, EndingKeeps
<1>9. CASE TransactionFails(r)
  <2>1. PICK from \in {"scope", "work", "commit"} : Moves(r, from, "failed")
    BY <1>9 DEF TransactionFails
  <2>2. EndTransaction(r) /\ UNCHANGED <<process, tenant, reached>> /\ second' \subseteq Requests
    BY <1>9 DEF TransactionFails, ServerTypeOK
  <2>3. from \in Holding
    BY DEF Holding
  <2> QED BY <2>1, <2>2, <2>3, EndingKeeps
<1>10. CASE Reply(r)
  BY <1>10, MovingKeeps DEF Reply, Ended, Holding
<1> QED BY <1>1, <1>2, <1>3, <1>4, <1>5, <1>6, <1>7, <1>8, <1>9, <1>10 DEF RequestStep

\* What main does, and the end of the process.
LEMMA ProcessKeeps ==
    ASSUME ServerInv, Opens \/ OpenFails \/ Signal \/ Killed \/ ShutdownStep
    PROVE  ServerInv'
<1> USE ServerAssumption DEF ServerInv
<1>1. CASE Opens \/ OpenFails \/ Signal \/ ShutdownReturns \/ CloseApp
  <2>1. UNCHANGED <<at, tenant, second, heldBy, setting, reached>>
    BY <1>1 DEF Opens, OpenFails, Signal, ShutdownReturns, CloseApp
  <2>2. ServerTypeOK'
    BY <1>1, <2>1 DEF Opens, OpenFails, Signal, ShutdownReturns, CloseApp, ServerTypeOK, Dependencies,
         After
  <2>3. process' = "closed" => \A c \in Conns : heldBy[c] = NoRequest
    BY <1>1 DEF Opens, OpenFails, Signal, ShutdownReturns, CloseApp, Dependencies, After
  <2> QED BY <2>1, <2>2, <2>3 DEF HeldByRunning, ScopeFits, ReachedOwn
<1>2. \A r \in Requests : Cut[r] \in Ended /\ (Cut[r] = "idle" => at[r] = "idle")
  BY DEF Cut, Ended
<1>3. CASE Exit
  <2>1. /\ process' = "exited" /\ at' = Cut
        /\ UNCHANGED <<tenant, second, heldBy, setting, reached>>
        /\ \A c \in Conns : heldBy[c] = NoRequest
    BY <1>3 DEF Exit, HeldByRunning
  <2>2. ServerTypeOK'
    BY <1>2, <2>1 DEF ServerTypeOK, Cut
  <2> QED BY <1>2, <2>1, <2>2 DEF HeldByRunning, ScopeFits, ReachedOwn
<1>4. CASE Killed
  <2>1. /\ process' = "exited" /\ at' = Cut
        /\ heldBy' = [c \in Conns |-> NoRequest] /\ setting' = [c \in Conns |-> NoTenant]
        /\ UNCHANGED <<tenant, second, reached>>
    BY <1>4 DEF Killed
  <2>2. ServerTypeOK'
    BY <1>2, <2>1 DEF ServerTypeOK, Cut
  <2> QED BY <1>2, <2>1, <2>2 DEF HeldByRunning, ScopeFits, ReachedOwn
<1> QED BY <1>1, <1>3, <1>4 DEF ShutdownStep

LEMMA ServerInvHolds == ServerSpec => []ServerInv
<1>1. ServerInit => ServerInv
  BY ServerAssumption DEF ServerInit, ServerInv, ServerTypeOK, HeldByRunning, ScopeFits, ReachedOwn,
       Dependencies, Ended
<1>2. ServerInv /\ [ServerNext]_serverVars => ServerInv'
  <2> SUFFICES ASSUME ServerInv, [ServerNext]_serverVars PROVE ServerInv'
    OBVIOUS
  <2>1. ASSUME NEW r \in Requests, NEW p \in Tenants, Arrive(r, p) PROVE ServerInv'
    <3>1. /\ at[r] = "idle" /\ at' = [at EXCEPT ![r] = "lookup"]
          /\ tenant' = [tenant EXCEPT ![r] = p]
          /\ UNCHANGED <<process, second, heldBy, setting, reached>>
      BY <2>1 DEF Arrive, Moves
    <3>2. at'[r] = "lookup" /\ \A q \in Requests : q # r => at'[q] = at[q] /\ tenant'[q] = tenant[q]
      BY <3>1 DEF ServerInv, ServerTypeOK
    <3>3. \A c \in Conns : heldBy[c] # r
      BY <3>1, ServerAssumption DEF ServerInv, HeldByRunning, Holding
    <3>4. ServerTypeOK'
      BY <3>1 DEF ServerInv, ServerTypeOK
    <3>5. HeldByRunning'
      BY <3>1, <3>2, <3>3 DEF ServerInv, ServerTypeOK, HeldByRunning
    <3>6. ScopeFits'
      BY <3>1, <3>2, <3>3 DEF ServerInv, ServerTypeOK, ScopeFits
    <3>7. ReachedOwn'
      BY <3>1, <3>2 DEF ServerInv, ServerTypeOK, ReachedOwn
    <3> QED BY <3>4, <3>5, <3>6, <3>7 DEF ServerInv
  <2>2. CASE UNCHANGED serverVars
    BY <2>2 DEF serverVars, ServerInv, ServerTypeOK, HeldByRunning, ScopeFits, ReachedOwn
  <2> QED BY <2>1, <2>2, RequestStepKeeps, ProcessKeeps DEF ServerNext
<1> QED BY <1>1, <1>2, PTL DEF ServerSpec

\* Every process, request and connection keeps its type.
THEOREM ServerTypes == ServerSpec => []ServerTypeOK
<1>1. ServerInv => ServerTypeOK
  BY DEF ServerInv
<1> QED BY <1>1, ServerInvHolds, PTL

\* However the plants' requests share the connections, none reaches a row of another plant, and
\* no connection in the pool carries a plant.
THEOREM PlantsStayApart == ServerSpec => []PlantsApart
<1>1. ServerInv => PlantsApart
  BY DEF ServerInv, ScopeFits, ReachedOwn, PlantsApart
<1> QED BY <1>1, ServerInvHolds, PTL

----------------------------------------------------------------------------
(* What the liveness of the run rests on, apart from fairness: for as long as a lock, a block   *)
(* or a shutdown lasts, every step brings its end closer or leaves what it waits for as it was. *)

\* How many steps attempt a, at this stage, has before it at most.
AttemptSteps(step) == CASE step = "comparing" -> 4
                        [] step = "wrong" -> 3
                        [] step = "locking" -> 2
                        [] step \in {"right", "expiring", "clearing"} -> 1
                        [] OTHER -> 0

\* While a lock is there, a step is the passing of its time, or brings one of the attempts that
\* came before it nearer to its end.
LockNears ==
    \/ trying' = trying /\ pinLock' = pinLock - 1
    \/ \E a \in Attempts : /\ AttemptSteps(trying'[a]) < AttemptSteps(trying[a])
                           /\ \A b \in Attempts \ {a} : trying'[b] = trying[b]

LockRunsOut == [][pinLock > 0 => LockNears]_pinVars

\* A lock is not renewed for ever: it lets nobody in, and each attempt it found on its way sets
\* it again at most once.
THEOREM LocksRunOut == PINSpec => LockRunsOut
<1>1. PINTypeOK /\ [PINNext]_pinVars => [pinLock > 0 => LockNears]_pinVars
  <2> SUFFICES ASSUME PINTypeOK, PINNext, pinLock > 0 PROVE LockNears
    OBVIOUS
  <2>1. CASE PINTick
    BY <2>1 DEF PINTick, Less, LockNears
  <2>2. ASSUME NEW a \in Attempts, PINStep(a)
        PROVE  /\ AttemptSteps(trying'[a]) < AttemptSteps(trying[a])
               /\ \A b \in Attempts \ {a} : trying'[b] = trying[b]
    <3>1. PICK to : Goes(a, to) /\ AttemptSteps(to) < AttemptSteps(trying[a])
      <4>1. AfterIncr(pinFails + 1) \in {"expiring", "locking", "idle"}
        BY DEF AfterIncr
      <4>2. /\ AttemptSteps("comparing") = 4 /\ AttemptSteps("wrong") = 3
            /\ AttemptSteps("locking") = 2 /\ AttemptSteps("right") = 1
            /\ AttemptSteps("expiring") = 1 /\ AttemptSteps("clearing") = 1
            /\ AttemptSteps("idle") = 0
        BY DEF AttemptSteps
      <4>3. CASE PINDies(a)
        BY <4>2, <4>3 DEF PINDies, PINTypeOK
      <4> QED BY <2>2, <4>1, <4>2, <4>3 DEF PINStep, BeginPIN, Unlocked, ComparePIN, ResetPIN,
                 IncrPIN, ExpirePIN, LockPIN, ClearPIN
    <3> QED BY <3>1 DEF Goes, PINTypeOK
  <2> QED BY <2>1, <2>2 DEF PINNext, LockNears
<1> QED BY <1>1, PINTypes, PTL DEF PINSpec, LockRunsOut

\* The visits that are about to give the counter its TTL.
Timing == {v \in Visits : visiting[v] = "expire"}

\* While an address is blocked, a step is the passing of its time, an EXPIRE that was under way
\* before, or nothing to its counter's TTL.
BlockNears ==
    \/ Timing' = Timing /\ rateTTL' \in {rateTTL, rateTTL - 1}
    \/ Timing' \subseteq Timing /\ Timing' # Timing

BlockRunsOut == [][Limited => BlockNears]_rateVars

\* A block is not prolonged by trying: no visit to a blocked address gives its counter a TTL
\* again.
THEOREM BlocksRunOut == RateSpec => BlockRunsOut
<1>1. RateTypeOK /\ [RateNext]_rateVars => [Limited => BlockNears]_rateVars
  <2> SUFFICES ASSUME RateTypeOK, RateNext, Limited PROVE BlockNears
    OBVIOUS
  <2>1. CASE RateTick
    BY <2>1 DEF RateTick, Timing, BlockNears
  <2>2. ASSUME NEW v \in Visits, Incr(v) PROVE Timing' = Timing /\ rateTTL' = rateTTL
    <3>1. rateCount' # 1
      BY <2>2, RateMaxAssumption DEF Incr, Limited, RateTypeOK, CountBound
    <3> QED BY <2>2, <3>1 DEF Incr, StartsWindow, Timing, RateTypeOK
  <2>3. ASSUME NEW v \in Visits, RateExpire(v) \/ RateExpireFails(v)
        PROVE  Timing' \subseteq Timing /\ Timing' # Timing
    <3>1. v \in Timing /\ v \notin Timing'
      BY <2>3 DEF RateExpire, RateExpireFails, Timing, RateTypeOK
    <3>2. Timing' \subseteq Timing
      BY <2>3 DEF RateExpire, RateExpireFails, Timing, RateTypeOK
    <3> QED BY <3>1, <3>2
  <2> QED BY <2>1, <2>2, <2>3 DEF RateNext, RateStep, BlockNears
<1> QED BY <1>1, RateTypes, PTL DEF RateSpec, BlockRunsOut

\* How many steps a request at this stage has before it at most when the pool is closing.
RequestSteps(step) == CASE step = "lookup" -> 7
                        [] step = "begin" -> 6
                        [] step = "scope" -> 5
                        [] step = "work" -> 4
                        [] step = "commit" -> 3
                        [] step = "acquire" -> 2
                        [] step = "reply" -> 1
                        [] OTHER -> 0

\* While the pools close, a step of main is the next of its own, and one of a request brings
\* that request nearer to its end.
ShutdownNears ==
    \/ process' = "exited"
    \/ process = "closing" /\ process' = "closed" /\ at' = at
    \/ /\ process' = process
       /\ \E r \in Requests : /\ RequestSteps(at'[r]) < RequestSteps(at[r])
                              /\ \A q \in Requests \ {r} : at'[q] = at[q]

ShuttingDown == process \in {"closing", "closed"}

ShutdownRunsOut == [][ShuttingDown => ShutdownNears]_serverVars

\* What the closing of AppDB waits for are requests that have a step to take.
ShutdownWaits ==
    process = "closing" =>
        \A c \in Conns : heldBy[c] # NoRequest => RequestSteps(at[heldBy[c]]) > 0

\* A shutdown waits for requests alone, and for what only runs out: none comes, none gets a
\* connection any more, and none has a third transaction.
THEOREM ShutdownsRunOut == ServerSpec => []ShutdownWaits /\ ShutdownRunsOut
<1> USE DEF RequestSteps
<1>1. ServerInv => ShutdownWaits
  BY DEF ServerInv, HeldByRunning, Holding, ShutdownWaits
<1>2. ServerTypeOK /\ [ServerNext]_serverVars => [ShuttingDown => ShutdownNears]_serverVars
  <2> SUFFICES ASSUME ServerTypeOK, ServerNext, ShuttingDown PROVE ShutdownNears
    OBVIOUS
  <2> USE DEF ShuttingDown
  <2>1. CASE Opens \/ OpenFails \/ Signal \/ Killed \/ ShutdownStep
    BY <2>1 DEF Opens, OpenFails, Signal, Killed, ShutdownStep, ShutdownReturns, CloseApp, Exit,
       Dependencies, ShutdownNears
  <2>2. ASSUME NEW r \in Requests, NEW p \in Tenants, Arrive(r, p) PROVE FALSE
    BY <2>2 DEF Arrive
  <2>3. ASSUME NEW r \in Requests, RequestStep(r)
        PROVE  /\ process' = process
               /\ RequestSteps(at'[r]) < RequestSteps(at[r])
               /\ \A q \in Requests \ {r} : at'[q] = at[q]
    <3>1. PICK from, to : Moves(r, from, to) /\ RequestSteps(to) < RequestSteps(from)
      BY <2>3 DEF RequestStep, LookupEnds, Acquire, AcquireFails, Begin, BeginFails, SetScope, Work,
         Commit, TransactionFails, Reply
    <3>2. process' = process
      BY <2>3 DEF RequestStep, LookupEnds, Acquire, AcquireFails, Begin, BeginFails, SetScope, Work,
         Commit, TransactionFails, Reply
    <3> QED BY <3>1, <3>2 DEF Moves, ServerTypeOK
  <2> QED BY <2>1, <2>2, <2>3 DEF ServerNext, ShutdownNears
<1> QED BY <1>1, <1>2, ServerInvHolds, ServerTypes, PTL DEF ServerSpec, ShutdownRunsOut

----------------------------------------------------------------------------
(* The composition. *)

\* What is explored together is, of each part, the part's own specification: its steps
\* are those of the part, and all others leave it alone.
THEOREM SecretsCompose == Spec => PINSpec /\ CodeSpec /\ RateSpec /\ ServerSpec
<1>1. Init => PINInit /\ CodeInit /\ RateInit /\ ServerInit
  BY DEF Init
<1>2. [Next]_vars => /\ [PINNext]_pinVars /\ [CodeNext]_codeVars
                     /\ [RateNext]_rateVars /\ [ServerNext]_serverVars
  BY DEF Next, PINPart, CodePart, RatePart, ServerPart, vars
<1> QED BY <1>1, <1>2, PTL DEF Spec, PINSpec, CodeSpec, RateSpec, ServerSpec

\* Every variable of the four keeps its type.
THEOREM SecretsTypes == Spec => []SecretsTypeOK
<1>1. PINTypeOK /\ CodeTypeOK /\ RateTypeOK /\ ServerTypeOK => SecretsTypeOK
  BY DEF SecretsTypeOK
<1> QED BY <1>1, SecretsCompose, PINTypes, CodeTypes, RateTypes, ServerTypes, PTL

\* The four parts keep what they promise when they are composed.
THEOREM SecretsKept ==
    Spec => [](AttemptsLimited /\ WrongPerCodeBounded /\ AdmittedBounded /\ PlantsApart)
BY SecretsCompose, PINAttemptsLimited, WrongPerCode, AdmissionsBounded, PlantsStayApart, PTL

\* In the composition too nothing puts off the end of a lock, a block or a shutdown.
THEOREM NothingIsPutOff == Spec => LockRunsOut /\ BlockRunsOut /\ ShutdownRunsOut
BY SecretsCompose, LocksRunOut, BlocksRunOut, ShutdownsRunOut, PTL
=============================================================================
