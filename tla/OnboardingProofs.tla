-------------------------- MODULE OnboardingProofs --------------------------
(***************************************************************************)
(* Proofs, for any number of forms, requests, slugs and founding spots, of *)
(* the invariants of Onboarding that its run checks on small instances.    *)
(***************************************************************************)
EXTENDS Onboarding, TLAPS

\* The ranks handed out are the first ones.
RanksAreFirst == \E k \in 0 .. FoundingSpots : Ranks = 1 .. k

RanksDiffer == \A f, g \in Plants : rank[f] = rank[g] /\ rank[f] # 0 => f = g

\* Whoever counted holds the lock, and the claim is still the next rank.
ClaimIsNext ==
    \A f \in Forms :
        /\ creating[f] \in {"idle", "lock", "count"} => claim[f] = 0
        /\ creating[f] = "count" => founder = f
        /\ creating[f] = "insert" /\ claim[f] # 0 => founder = f /\ Ranks = 1 .. (claim[f] - 1)

PlantsAreCreated == \A f \in Plants : creating[f] = "created"

RankInv ==
    /\ OnboardingTypeOK
    /\ RanksAreFirst
    /\ RanksDiffer
    /\ ClaimIsNext
    /\ PlantsAreCreated
    /\ RefusedOnlyIfTaken

USE DEF Forms, Statuses

----------------------------------------------------------------------------
(* Ranks. *)

\* MAX of the first k ranks is k.
LEMMA ClaimedIsLast ==
    ASSUME NEW k \in Nat, Ranks = 1 .. k
    PROVE  Claimed = k
<1>1. CASE k = 0
  BY <1>1 DEF Claimed
<1>2. CASE k # 0
  <2>1. k \in Ranks /\ \A n \in Ranks : n <= k
    BY <1>2
  <2>2. \A m \in Ranks : (\A n \in Ranks : n <= m) => m = k
    BY <2>1
  <2>3. (CHOOSE m \in Ranks : \A n \in Ranks : n <= m) = k
    BY <2>1, <2>2
  <2> QED BY <2>1, <2>3 DEF Claimed
<1> QED BY <1>1, <1>2

LEMMA InitHolds == OnboardingInit => RankInv
<1> SUFFICES ASSUME OnboardingInit PROVE RankInv
  OBVIOUS
<1> USE OnboardingFormsAssumption, FoundingSpotsAssumption DEF OnboardingInit
<1>1. Plants = {} /\ Ranks = {}
  BY DEF Plants, Ranks
<1>2. OnboardingTypeOK
  BY <1>1 DEF OnboardingTypeOK
<1>3. RanksAreFirst
  <2>1. 0 \in 0 .. FoundingSpots /\ 1 .. 0 = {}
    OBVIOUS
  <2> QED BY <1>1, <2>1 DEF RanksAreFirst
<1>4. ClaimIsNext
  BY DEF ClaimIsNext
<1> QED BY <1>1, <1>2, <1>3, <1>4 DEF RankInv, RanksDiffer, PlantsAreCreated, RefusedOnlyIfTaken

\* A step that changes no row and no claim: it leaves the ranks as they are.
LEMMA RanksStay ==
    ASSUME RankInv, OnboardingTypeOK', Plants' = Plants, UNCHANGED <<slugOf, rank, formVars>>
    PROVE  RankInv'
<1>1. Ranks' = Ranks /\ TakenSlugs' = TakenSlugs
  BY DEF Ranks, TakenSlugs
<1> QED BY <1>1 DEF RankInv, RanksAreFirst, RanksDiffer, ClaimIsNext, PlantsAreCreated,
         RefusedOnlyIfTaken, formVars

\* A step of form f that changes no row.
LEMMA FormStepKeepsRanks ==
    ASSUME RankInv, NEW f \in Forms, UNCHANGED <<rowVars, settleVars, reviewVars>>,
           \/ \E s \in Slugs : SignupSubmit(f, s) \/ AdminCreatePlant(f, s)
           \/ BankVerificationFails(f)
           \/ LockFounding(f)
           \/ CountFounding(f)
           \/ RefusePlant(f)
           \/ CreateFails(f)
    PROVE  RankInv'
<1> USE OnboardingFormsAssumption, FoundingSpotsAssumption
<1>1. Plants' = Plants /\ Ranks' = Ranks /\ TakenSlugs' = TakenSlugs
  BY DEF Plants, Ranks, TakenSlugs, rowVars
<1>2. PICK k \in 0 .. FoundingSpots : Ranks = 1 .. k
  BY DEF RankInv, RanksAreFirst
<1>3. NextRank(Claimed) \in 0 .. FoundingSpots /\ (NextRank(Claimed) # 0 => NextRank(Claimed) = k + 1)
  BY <1>2, ClaimedIsLast DEF NextRank
<1>a. RanksAreFirst' /\ RanksDiffer'
  BY <1>1 DEF RankInv, RanksAreFirst, RanksDiffer, rowVars
<1>4. ASSUME NEW s \in Slugs, SignupSubmit(f, s) \/ AdminCreatePlant(f, s)
      PROVE  RankInv'
  <2>1. Begin(f, s)
    BY <1>4 DEF SignupSubmit, AdminCreatePlant
  <2>2. AfterReserved(f, s) \in {"reserved", "lock", "insert"}
    BY DEF AfterReserved
  <2>3. OnboardingTypeOK'
    BY <1>1, <2>1, <2>2 DEF RankInv, OnboardingTypeOK, Begin, rowVars, settleVars, reviewVars
  <2>4. ClaimIsNext' /\ PlantsAreCreated' /\ RefusedOnlyIfTaken'
    BY <1>1, <2>1, <2>2 DEF RankInv, OnboardingTypeOK, ClaimIsNext, PlantsAreCreated, RefusedOnlyIfTaken, Begin
  <2> QED BY <1>a, <2>3, <2>4 DEF RankInv
<1>5. CASE BankVerificationFails(f)
  <2>3. OnboardingTypeOK'
    BY <1>1, <1>5 DEF RankInv, OnboardingTypeOK, BankVerificationFails, rowVars, settleVars, reviewVars
  <2>4. ClaimIsNext' /\ PlantsAreCreated' /\ RefusedOnlyIfTaken'
    BY <1>1, <1>5 DEF RankInv, OnboardingTypeOK, ClaimIsNext, PlantsAreCreated, RefusedOnlyIfTaken, BankVerificationFails
  <2> QED BY <1>a, <2>3, <2>4 DEF RankInv
<1>6. CASE LockFounding(f)
  <2>3. OnboardingTypeOK'
    BY <1>1, <1>6 DEF RankInv, OnboardingTypeOK, LockFounding, rowVars, settleVars, reviewVars
  <2>4. ClaimIsNext' /\ PlantsAreCreated' /\ RefusedOnlyIfTaken'
    BY <1>1, <1>6 DEF RankInv, OnboardingTypeOK, ClaimIsNext, PlantsAreCreated, RefusedOnlyIfTaken, LockFounding, LockIsFree
  <2> QED BY <1>a, <2>3, <2>4 DEF RankInv
<1>7. CASE CountFounding(f)
  <2>3. OnboardingTypeOK'
    BY <1>1, <1>3, <1>7 DEF RankInv, OnboardingTypeOK, CountFounding, rowVars, settleVars, reviewVars
  <2>4. ClaimIsNext' /\ PlantsAreCreated' /\ RefusedOnlyIfTaken'
    BY <1>1, <1>2, <1>3, <1>7 DEF RankInv, OnboardingTypeOK, ClaimIsNext, PlantsAreCreated, RefusedOnlyIfTaken, CountFounding
  <2> QED BY <1>a, <2>3, <2>4 DEF RankInv
<1>8. CASE RefusePlant(f)
  <2>1. wish[f] \in TakenSlugs
    <3>1. claim[f] = 0 \/ claim[f] \notin Ranks
      BY <1>8 DEF RefusePlant, RankInv, ClaimIsNext, OnboardingTypeOK
    <3> QED BY <1>8, <3>1 DEF RefusePlant, Insertable, RankInv, OnboardingTypeOK
  <2>2. /\ creating' = [creating EXCEPT ![f] = "taken"]
        /\ Unlock(f)
        /\ UNCHANGED <<wish, claim>>
    BY <1>8 DEF RefusePlant
  <2>3. OnboardingTypeOK'
    BY <1>1, <2>2 DEF RankInv, OnboardingTypeOK, Unlock, rowVars, settleVars, reviewVars
  <2>4. ClaimIsNext' /\ PlantsAreCreated' /\ RefusedOnlyIfTaken'
    BY <1>1, <1>8, <2>1, <2>2 DEF RankInv, OnboardingTypeOK, ClaimIsNext, PlantsAreCreated, RefusedOnlyIfTaken, Unlock, RefusePlant
  <2> QED BY <1>a, <2>3, <2>4 DEF RankInv
<1>9. CASE CreateFails(f)
  <2>2. /\ creating' = [creating EXCEPT ![f] = "failed"]
        /\ creating[f] \in {"lock", "count", "insert"}
        /\ wish' = [wish EXCEPT ![f] = None]
        /\ claim' = [claim EXCEPT ![f] = 0]
        /\ Unlock(f)
    BY <1>9 DEF CreateFails
  <2>3. OnboardingTypeOK'
    BY <1>1, <2>2 DEF RankInv, OnboardingTypeOK, Unlock, rowVars, settleVars, reviewVars
  <2>4. ClaimIsNext' /\ PlantsAreCreated' /\ RefusedOnlyIfTaken'
    BY <1>1, <2>2 DEF RankInv, OnboardingTypeOK, ClaimIsNext, PlantsAreCreated, RefusedOnlyIfTaken, Unlock
  <2> QED BY <1>a, <2>3, <2>4 DEF RankInv
<1> QED BY <1>4, <1>5, <1>6, <1>7, <1>8, <1>9

\* The plant that is inserted takes the next rank, or none.
LEMMA InsertKeepsRanks ==
    ASSUME RankInv, NEW f \in Forms, InsertPlant(f)
    PROVE  RankInv'
<1> USE OnboardingFormsAssumption, FoundingSpotsAssumption
<1>1. /\ creating[f] = "insert"
      /\ Insertable(f)
      /\ slugOf' = [slugOf EXCEPT ![f] = wish[f]]
      /\ rank' = [rank EXCEPT ![f] = claim[f]]
      /\ plant' = [plant EXCEPT ![f] = IF f \in Signups THEN "provisioning" ELSE "active"]
      /\ subaccount' = [subaccount EXCEPT ![f] = IF f \in Signups THEN None ELSE f]
      /\ creating' = [creating EXCEPT ![f] = "created"]
      /\ Unlock(f)
      /\ UNCHANGED <<wish, claim, settleVars, reviewVars>>
  BY DEF InsertPlant
<1>2. OnboardingTypeOK /\ f \notin Plants
  BY <1>1 DEF RankInv, PlantsAreCreated
<1>3. Plants' = Plants \cup {f}
  BY <1>1, <1>2 DEF OnboardingTypeOK, Plants
<1>4. \A g \in Plants : rank'[g] = rank[g] /\ slugOf'[g] = slugOf[g]
  BY <1>1, <1>2 DEF OnboardingTypeOK, Plants
<1>5. rank'[f] = claim[f] /\ claim[f] \in 0 .. FoundingSpots /\ slugOf'[f] = wish[f]
  BY <1>1, <1>2 DEF OnboardingTypeOK
<1>6. Ranks' = IF claim[f] = 0 THEN Ranks ELSE Ranks \cup {claim[f]}
  <2>1. Ranks' = {rank'[g] : g \in Plants'} \ {0}
    BY DEF Ranks
  <2> QED BY <2>1, <1>2, <1>3, <1>4, <1>5 DEF Ranks
<1>7. TakenSlugs \subseteq TakenSlugs'
  <2>1. TakenSlugs' = {slugOf'[g] : g \in Plants'}
    BY DEF TakenSlugs
  <2> QED BY <2>1, <1>3, <1>4 DEF TakenSlugs
<1>8. claim[f] = 0 \/ Ranks = 1 .. (claim[f] - 1)
  BY <1>1 DEF RankInv, ClaimIsNext
<1>9. OnboardingTypeOK'
  BY <1>1, <1>2, <1>3, <1>5 DEF OnboardingTypeOK, Insertable, Unlock, settleVars, reviewVars
<1>10. RanksAreFirst'
  <2>1. CASE claim[f] = 0
    BY <2>1, <1>6 DEF RankInv, RanksAreFirst
  <2>2. CASE claim[f] # 0
    <3>1. Ranks' = 1 .. claim[f]
      BY <2>2, <1>5, <1>6, <1>8
    <3> QED BY <3>1, <1>5 DEF RanksAreFirst
  <2> QED BY <2>1, <2>2
<1>11. RanksDiffer'
  <2> SUFFICES ASSUME NEW g \in Plants', NEW h \in Plants', rank'[g] = rank'[h], rank'[g] # 0
               PROVE  g = h
    BY DEF RanksDiffer
  <2>1. \A p \in Plants : rank[p] # 0 => rank[p] \in Ranks
    BY DEF Ranks
  <2>2. claim[f] = 0 \/ claim[f] \notin Ranks
    BY <1>1 DEF Insertable
  <2> QED BY <2>1, <2>2, <1>3, <1>4, <1>5 DEF RankInv, RanksDiffer
<1>12. ClaimIsNext'
  <2> SUFFICES ASSUME NEW g \in Forms
               PROVE  /\ creating'[g] \in {"idle", "lock", "count"} => claim'[g] = 0
                      /\ creating'[g] = "count" => founder' = g
                      /\ creating'[g] = "insert" /\ claim'[g] # 0 =>
                           founder' = g /\ Ranks' = 1 .. (claim'[g] - 1)
    BY DEF ClaimIsNext
  <2>1. CASE g = f
    BY <2>1, <1>1, <1>2 DEF OnboardingTypeOK
  <2>2. CASE g # f
    <3>1. creating'[g] = creating[g] /\ claim'[g] = claim[g]
      BY <2>2, <1>1, <1>2 DEF OnboardingTypeOK
    <3>2. founder = g => founder' = g /\ claim[f] = 0
      BY <2>2, <1>1 DEF Unlock, RankInv, ClaimIsNext
    <3> QED BY <3>1, <3>2, <1>6 DEF RankInv, ClaimIsNext
  <2> QED BY <2>1, <2>2
<1>13. PlantsAreCreated'
  BY <1>1, <1>2, <1>3 DEF OnboardingTypeOK, RankInv, PlantsAreCreated, Plants
<1>14. RefusedOnlyIfTaken'
  BY <1>1, <1>2, <1>7 DEF OnboardingTypeOK, RankInv, RefusedOnlyIfTaken
<1> QED BY <1>9, <1>10, <1>11, <1>12, <1>13, <1>14 DEF RankInv

LEMMA SettleKeepsRanks ==
    ASSUME RankInv, NEW q \in Settlings, SettleStep(q)
    PROVE  RankInv' /\ Plants' = Plants
<1> USE OnboardingFormsAssumption
<1>1. Plants' = Plants /\ UNCHANGED <<slugOf, rank, formVars>>
  BY DEF SettleStep, CreateSubaccount, SetSettlement, SettlementFails, Plants, rowVars
<1>2. OnboardingTypeOK'
  <2> USE <1>1 DEF RankInv, OnboardingTypeOK, rowVars, formVars, reviewVars
  <2>1. ASSUME NEW p \in Forms, CreateSubaccount(q, p)
        PROVE  OnboardingTypeOK'
    BY <2>1 DEF CreateSubaccount
  <2>2. CASE SetSettlement(q)
    BY <2>2 DEF SetSettlement, SettlingEnds, Plants
  <2>3. CASE SettlementFails(q)
    BY <2>3 DEF SettlementFails, SettlingEnds
  <2> QED BY <2>1, <2>2, <2>3 DEF SettleStep
<1> QED BY <1>1, <1>2, RanksStay

LEMMA ReviewKeepsRanks ==
    ASSUME RankInv, NEW r \in StatusForms, ReviewStep(r)
    PROVE  RankInv' /\ Plants' = Plants
<1> USE OnboardingFormsAssumption, AskedStatusesAssumption
<1>1. Plants' = Plants /\ UNCHANGED <<slugOf, rank, formVars>>
  <2>1. CASE SetStatus(r)
    BY <2>1 DEF SetStatus, Plants, RankInv, OnboardingTypeOK
  <2>2. CASE ~SetStatus(r)
    BY <2>2 DEF ReviewStep, AskStatus, LoadNotice, LoadNoticeFails, NotifyApproved, StatusFails, Plants, rowVars
  <2> QED BY <2>1, <2>2
<1>2. OnboardingTypeOK'
  <2> USE <1>1 DEF RankInv, OnboardingTypeOK, rowVars, formVars, settleVars
  <2>1. ASSUME NEW p \in Forms, NEW st \in AskedStatuses, AskStatus(r, p, st)
        PROVE  OnboardingTypeOK'
    BY <2>1 DEF AskStatus
  <2>2. CASE LoadNotice(r)
    BY <2>2 DEF LoadNotice, Plants
  <2>3. CASE LoadNoticeFails(r)
    BY <2>3 DEF LoadNoticeFails
  <2>4. CASE SetStatus(r)
    BY <2>4, SMTT(30) DEF SetStatus, Ends, GoesOn, Plants
  <2>5. CASE NotifyApproved(r)
    BY <2>5 DEF NotifyApproved
  <2>6. CASE StatusFails(r)
    BY <2>6 DEF StatusFails, Ends
  <2> QED BY <2>1, <2>2, <2>3, <2>4, <2>5, <2>6 DEF ReviewStep
<1> QED BY <1>1, <1>2, RanksStay

LEMMA StepKeepsRanks == RankInv /\ [OnboardingNext]_onboardingVars => RankInv'
<1> SUFFICES ASSUME RankInv, [OnboardingNext]_onboardingVars PROVE RankInv'
  OBVIOUS
<1>1. ASSUME NEW f \in Forms, CreateStep(f) PROVE RankInv'
  <2>1. CASE InsertPlant(f)
    BY <2>1, InsertKeepsRanks
  <2>2. CASE ~InsertPlant(f)
    <3>1. UNCHANGED <<rowVars, settleVars, reviewVars>>
      BY <1>1, <2>2 DEF CreateStep, SignupSubmit, AdminCreatePlant, Begin, BankVerificationFails,
            LockFounding, CountFounding, RefusePlant, CreateFails
    <3> QED BY <1>1, <2>2, <3>1, FormStepKeepsRanks DEF CreateStep
  <2> QED BY <2>1, <2>2
<1>2. CASE UNCHANGED onboardingVars
  <2>1. OnboardingTypeOK' /\ Plants' = Plants
    BY <1>2 DEF onboardingVars, rowVars, formVars, settleVars, reviewVars, RankInv,
                OnboardingTypeOK, Plants
  <2> QED BY <1>2, <2>1, RanksStay DEF onboardingVars, rowVars
<1> QED BY <1>1, <1>2, SettleKeepsRanks, ReviewKeepsRanks DEF OnboardingNext

LEMMA RankInvHolds == OnboardingSpec => []RankInv
  BY InitHolds, StepKeepsRanks, PTL DEF OnboardingSpec

\* Every form, every request and every row has its type, and what requests refer to exists.
THEOREM OnboardingTypes == OnboardingSpec => []OnboardingTypeOK
<1>1. RankInv => OnboardingTypeOK
  BY DEF RankInv
<1> QED BY <1>1, RankInvHolds, PTL

\* The founding ranks are 1, 2, ... up to at most the last spot, each of one plant, for any
\* number of applications and spots.
THEOREM FoundingRanks == OnboardingSpec => []FoundingRanksDense
<1>1. RankInv => FoundingRanksDense
  <2> SUFFICES ASSUME RankInv PROVE FoundingRanksDense
    OBVIOUS
  <2>1. PICK k \in 0 .. FoundingSpots : Ranks = 1 .. k
    BY DEF RankInv, RanksAreFirst
  <2>2. \A f \in Plants : rank[f] \in 0 .. FoundingSpots /\ (rank[f] # 0 => rank[f] \in Ranks)
    BY DEF RankInv, OnboardingTypeOK, Ranks, Plants
  <2>3. \A f \in Plants : \A n \in 1 .. rank[f] : n \in Ranks
    BY <2>1, <2>2, FoundingSpotsAssumption
  <2>4. \A f \in Plants : rank[f] <= FoundingSpots
    BY <2>2, FoundingSpotsAssumption
  <2> QED BY <2>3, <2>4 DEF RankInv, RanksDiffer, FoundingRanksDense
<1> QED BY <1>1, RankInvHolds, PTL

\* A form is answered "that name is taken" only when a plant has the name, and never because
\* of a founding rank.
THEOREM RefusedForItsName == OnboardingSpec => []RefusedOnlyIfTaken
<1>1. RankInv => RefusedOnlyIfTaken
  BY DEF RankInv
<1> QED BY <1>1, RankInvHolds, PTL

----------------------------------------------------------------------------
(* The refinement.  FirstComers knows applications only, so no other plant *)
(* may have a rank; and an application that was counted too late has to    *)
(* know that no rank is left, which holds since it has the lock.           *)

ClaimIsTheirs ==
    /\ \A f \in AdminForms : claim[f] = 0 /\ rank[f] = 0 /\ creating[f] \notin {"lock", "count"}
    /\ \A f \in Signups : creating[f] = "insert" =>
         founder = f /\ (claim[f] = 0 => Ranks = 1 .. FoundingSpots)

InTurn == RankInv /\ ClaimIsTheirs

LEMMA ClaimStaysTheirs ==
    RankInv /\ ClaimIsTheirs /\ [OnboardingNext]_onboardingVars => ClaimIsTheirs'
<1> SUFFICES ASSUME RankInv, ClaimIsTheirs, [OnboardingNext]_onboardingVars PROVE ClaimIsTheirs'
  OBVIOUS
<1> USE OnboardingFormsAssumption, FoundingSpotsAssumption
<1>0. OnboardingTypeOK
  BY DEF RankInv
<1>1. ASSUME UNCHANGED <<rank, formVars>>, Plants' = Plants PROVE ClaimIsTheirs'
  BY <1>1 DEF ClaimIsTheirs, Ranks, formVars
<1>2. ASSUME NEW f \in Forms, CreateStep(f) PROVE ClaimIsTheirs'
  <2>1. CASE InsertPlant(f)
    <3>1. /\ creating[f] = "insert" /\ creating' = [creating EXCEPT ![f] = "created"]
          /\ rank' = [rank EXCEPT ![f] = claim[f]] /\ claim' = claim /\ Unlock(f)
      BY <2>1 DEF InsertPlant
    <3>2. \A g \in AdminForms : claim'[g] = 0 /\ rank'[g] = 0 /\ creating'[g] \notin {"lock", "count"}
      BY <1>0, <3>1 DEF ClaimIsTheirs, OnboardingTypeOK
    <3>3. ASSUME NEW g \in Signups, creating'[g] = "insert"
          PROVE  founder' = g /\ (claim'[g] = 0 => Ranks' = 1 .. FoundingSpots)
      <4>1. g # f /\ creating[g] = "insert" /\ founder = g
        BY <1>0, <3>1, <3>3 DEF ClaimIsTheirs, OnboardingTypeOK
      <4>2. f \notin Signups /\ claim[f] = 0 /\ founder' = g
        BY <4>1, <3>1 DEF ClaimIsTheirs, Unlock
      <4>3. Plants' = Plants \cup {f} /\ f \notin Plants
        BY <1>0, <2>1 DEF InsertPlant, OnboardingTypeOK, Plants, RankInv, PlantsAreCreated
      <4>4. Ranks' = {rank'[p] : p \in Plants'} \ {0}
        BY DEF Ranks
      <4>5. Ranks' = Ranks
        BY <1>0, <3>1, <4>2, <4>3, <4>4 DEF Ranks, OnboardingTypeOK, Plants
      <4> QED BY <3>1, <4>1, <4>2, <4>5 DEF ClaimIsTheirs
    <3> QED BY <3>2, <3>3 DEF ClaimIsTheirs
  <2>2. CASE CountFounding(f)
    <3>1. /\ creating[f] = "count" /\ creating' = [creating EXCEPT ![f] = "insert"]
          /\ claim' = [claim EXCEPT ![f] = NextRank(Claimed)]
          /\ founder' = founder /\ rank' = rank /\ Plants' = Plants
      BY <2>2 DEF CountFounding, rowVars, Plants
    <3>2. founder = f /\ f \in Signups
      BY <3>1 DEF RankInv, ClaimIsNext, ClaimIsTheirs
    <3>3. Ranks' = Ranks
      BY <3>1 DEF Ranks
    <3>4. NextRank(Claimed) = 0 => Ranks = 1 .. FoundingSpots
      <4>1. PICK k \in 0 .. FoundingSpots : Ranks = 1 .. k
        BY DEF RankInv, RanksAreFirst
      <4> QED BY <4>1, ClaimedIsLast DEF NextRank
    <3> QED BY <1>0, <3>1, <3>2, <3>3, <3>4 DEF ClaimIsTheirs, OnboardingTypeOK
  <2>3. ASSUME UNCHANGED rowVars,
               \/ \E s \in Slugs : SignupSubmit(f, s) \/ AdminCreatePlant(f, s)
               \/ BankVerificationFails(f)
               \/ LockFounding(f)
               \/ RefusePlant(f)
               \/ CreateFails(f)
        PROVE  ClaimIsTheirs'
    <3>1. rank' = rank /\ Ranks' = Ranks
      BY <2>3 DEF rowVars, Ranks, Plants
    <3>2. ASSUME NEW s \in Slugs, SignupSubmit(f, s) PROVE ClaimIsTheirs'
      <4>1. /\ f \in Signups /\ creating' = [creating EXCEPT ![f] = AfterReserved(f, s)]
            /\ AfterReserved(f, s) # "insert" /\ UNCHANGED <<claim, founder>>
        BY <3>2 DEF SignupSubmit, Begin, AfterReserved
      <4> QED BY <1>0, <3>1, <4>1 DEF ClaimIsTheirs, OnboardingTypeOK
    <3>3. ASSUME NEW s \in Slugs, AdminCreatePlant(f, s) PROVE ClaimIsTheirs'
      <4>1. /\ f \in AdminForms /\ f \notin Signups
            /\ creating' = [creating EXCEPT ![f] = AfterReserved(f, s)]
            /\ AfterReserved(f, s) \notin {"lock", "count"} /\ UNCHANGED <<claim, founder>>
        BY <3>3 DEF AdminCreatePlant, Begin, AfterReserved
      <4> QED BY <1>0, <3>1, <4>1 DEF ClaimIsTheirs, OnboardingTypeOK
    <3>4. CASE LockFounding(f)
      <4>1. /\ creating[f] = "lock" /\ creating' = [creating EXCEPT ![f] = "count"]
            /\ founder = None /\ claim' = claim
        BY <3>4 DEF LockFounding, LockIsFree
      <4>2. f \in Signups /\ \A g \in Signups : creating[g] # "insert"
        BY <4>1 DEF ClaimIsTheirs
      <4> QED BY <1>0, <3>1, <4>1, <4>2 DEF ClaimIsTheirs, OnboardingTypeOK
    <3>5. CASE BankVerificationFails(f) \/ RefusePlant(f) \/ CreateFails(f)
      <4>1. /\ \E how \in {"failed", "taken"} : creating' = [creating EXCEPT ![f] = how]
            /\ claim' = claim \/ claim' = [claim EXCEPT ![f] = 0]
            /\ founder' = founder \/ (founder = f /\ founder' = None)
        BY <3>5 DEF BankVerificationFails, RefusePlant, CreateFails, Unlock
      <4> QED BY <1>0, <3>1, <4>1 DEF ClaimIsTheirs, OnboardingTypeOK
    <3> QED BY <2>3, <3>2, <3>3, <3>4, <3>5
  <2>4. InsertPlant(f) \/ CountFounding(f) \/ UNCHANGED rowVars
    BY <1>2 DEF CreateStep, SignupSubmit, AdminCreatePlant, Begin, BankVerificationFails,
          LockFounding, CountFounding, RefusePlant, CreateFails
  <2> QED BY <1>2, <2>1, <2>2, <2>3, <2>4 DEF CreateStep
<1>3. ASSUME NEW q \in Settlings, SettleStep(q) PROVE ClaimIsTheirs'
  <2>1. UNCHANGED <<rank, formVars>> /\ Plants' = Plants
    BY <1>3 DEF SettleStep, CreateSubaccount, SetSettlement, SettlementFails, Plants, rowVars
  <2> QED BY <1>1, <2>1
<1>4. ASSUME NEW r \in StatusForms, ReviewStep(r) PROVE ClaimIsTheirs'
  <2>1. UNCHANGED <<rank, formVars>>
    BY <1>4 DEF ReviewStep, AskStatus, LoadNotice, LoadNoticeFails, SetStatus, NotifyApproved,
          StatusFails, rowVars
  <2> QED BY <1>1, <1>4, <2>1, ReviewKeepsRanks
<1>5. CASE UNCHANGED onboardingVars
  BY <1>1, <1>5 DEF onboardingVars, rowVars, Plants
<1> QED BY <1>2, <1>3, <1>4, <1>5 DEF OnboardingNext

\* The least of the ranks that are left is the next one.
LEMMA NextFreeIsNext ==
    ASSUME NEW k \in 0 .. FoundingSpots, Founders!Given = 1 .. k
    PROVE  Founders!NextFree = IF k < FoundingSpots THEN k + 1 ELSE 0
<1> USE FoundingSpotsAssumption
<1>1. Founders!Free = (k + 1) .. FoundingSpots
  BY DEF Founders!Free
<1>2. CASE k < FoundingSpots
  <2>1. k + 1 \in Founders!Free /\ \A o \in Founders!Free : k + 1 <= o
    BY <1>1, <1>2
  <2>2. \A s \in Founders!Free : (\A o \in Founders!Free : s <= o) => s = k + 1
    BY <1>1, <2>1
  <2>3. (CHOOSE s \in Founders!Free : \A o \in Founders!Free : s <= o) = k + 1
    BY <2>1, <2>2
  <2> QED BY <1>2, <2>1, <2>3 DEF Founders!NextFree
<1>3. CASE k = FoundingSpots
  <2>1. Founders!Free = {}
    BY <1>1, <1>3
  <2> QED BY <1>3, <2>1 DEF Founders!NextFree
<1> QED BY <1>2, <1>3

\* The ranks of applications are all the ranks there are.
LEMMA GivenAreRanks == InTurn => Founders!Given = Ranks
<1> SUFFICES ASSUME InTurn PROVE Founders!Given = Ranks
  OBVIOUS
<1>1. \A f \in Plants : rank[f] # 0 => f \in Signups
  BY DEF InTurn, ClaimIsTheirs, Plants
<1>2. Founders!Given = {[f \in Signups |-> rank[f]][n] : n \in Plants \cap Signups} \ {0}
  BY DEF Founders!Given
<1>3. \A n \in Plants \cap Signups : [f \in Signups |-> rank[f]][n] = rank[n]
  OBVIOUS
<1> QED BY <1>1, <1>2, <1>3 DEF Ranks

LEMMA StepIsInTurn == InTurn /\ [OnboardingNext]_onboardingVars => [Founders!Next]_(Founders!vars)
<1> SUFFICES ASSUME InTurn, [OnboardingNext]_onboardingVars PROVE [Founders!Next]_(Founders!vars)
  OBVIOUS
<1>0. OnboardingTypeOK
  BY DEF InTurn, RankInv
<1> DEFINE ranks == [f \in Signups |-> rank[f]]
<1>1. ASSUME Plants' = Plants, rank' = rank PROVE UNCHANGED Founders!vars
  BY <1>1 DEF Founders!vars
<1>2. ASSUME NEW f \in Forms, InsertPlant(f) PROVE [Founders!Next]_(Founders!vars)
  <2>1. /\ creating[f] = "insert" /\ rank' = [rank EXCEPT ![f] = claim[f]]
        /\ f \notin Plants /\ Plants' = Plants \cup {f}
    BY <1>0, <1>2 DEF InsertPlant, OnboardingTypeOK, Plants, InTurn, RankInv, PlantsAreCreated
  <2>2. CASE f \in Signups
    <3>1. PICK k \in 0 .. FoundingSpots : Ranks = 1 .. k
      BY DEF InTurn, RankInv, RanksAreFirst
    <3>2. claim[f] = IF k < FoundingSpots THEN k + 1 ELSE 0
      <4>1. claim[f] \in 0 .. FoundingSpots
        BY <1>0 DEF OnboardingTypeOK
      <4>2. claim[f] # 0 => Ranks = 1 .. (claim[f] - 1)
        BY <2>1 DEF InTurn, RankInv, ClaimIsNext
      <4>3. claim[f] = 0 => Ranks = 1 .. FoundingSpots
        BY <2>1, <2>2 DEF InTurn, ClaimIsTheirs
      <4>4. \A i, j \in Nat : 1 .. i = 1 .. j => i = j
        <5> SUFFICES ASSUME NEW i \in Nat, NEW j \in Nat, 1 .. i = 1 .. j PROVE i = j
          OBVIOUS
        <5>1. (i # 0 => i \in 1 .. j) /\ (j # 0 => j \in 1 .. i)
          OBVIOUS
        <5> QED BY <5>1
      <4> QED BY <3>1, <4>1, <4>2, <4>3, <4>4, FoundingSpotsAssumption
    <3>3. claim[f] = Founders!NextFree
      BY <3>1, <3>2, GivenAreRanks, NextFreeIsNext
    <3>4. ranks' = [ranks EXCEPT ![f] = claim[f]]
      BY <1>0, <2>1, <2>2 DEF OnboardingTypeOK
    <3>5. Founders!Register(f)
      BY <2>1, <2>2, <3>3, <3>4 DEF Founders!Register
    <3> QED BY <2>2, <3>5 DEF Founders!Next
  <2>3. CASE f \notin Signups
    <3>1. (Plants \cap Signups)' = Plants \cap Signups /\ ranks' = ranks
      BY <1>0, <2>1, <2>3 DEF OnboardingTypeOK
    <3> QED BY <3>1 DEF Founders!vars
  <2> QED BY <2>2, <2>3
<1>3. ASSUME NEW f \in Forms, CreateStep(f), ~InsertPlant(f) PROVE Plants' = Plants /\ rank' = rank
  BY <1>3 DEF CreateStep, SignupSubmit, AdminCreatePlant, Begin, BankVerificationFails,
        LockFounding, CountFounding, RefusePlant, CreateFails, rowVars, Plants
<1>4. ASSUME NEW q \in Settlings, SettleStep(q) PROVE Plants' = Plants /\ rank' = rank
  BY <1>4 DEF SettleStep, CreateSubaccount, SetSettlement, SettlementFails, Plants, rowVars
<1>5. ASSUME NEW r \in StatusForms, ReviewStep(r) PROVE Plants' = Plants /\ rank' = rank
  <2>1. rank' = rank
    BY <1>5 DEF ReviewStep, AskStatus, LoadNotice, LoadNoticeFails, SetStatus, NotifyApproved,
          StatusFails, rowVars
  <2> QED BY <1>5, <2>1, ReviewKeepsRanks DEF InTurn
<1>6. CASE UNCHANGED onboardingVars
  BY <1>1, <1>6 DEF onboardingVars, rowVars, Plants
<1> QED BY <1>1, <1>2, <1>3, <1>4, <1>5, <1>6 DEF OnboardingNext

\* Applications get the founding ranks one by one, each the next that is left, and keep them; a
\* form is refused for its name alone.
THEOREM RanksGoInTurn == OnboardingSpec => RanksInTurn
<1>1. OnboardingInit => ClaimIsTheirs
  BY OnboardingFormsAssumption DEF OnboardingInit, ClaimIsTheirs
<1>2. OnboardingSpec => []ClaimIsTheirs
  BY <1>1, RankInvHolds, ClaimStaysTheirs, PTL DEF OnboardingSpec
<1>3. OnboardingInit => Founders!Init
  <2> SUFFICES ASSUME OnboardingInit PROVE Founders!Init
    OBVIOUS
  <2>1. Plants \cap Signups = {}
    BY DEF OnboardingInit, Plants
  <2>2. [f \in Signups |-> rank[f]] = [n \in Signups |-> 0]
    BY DEF OnboardingInit
  <2> QED BY <2>1, <2>2 DEF Founders!Init
<1>4. RankInv /\ ClaimIsTheirs /\ [OnboardingNext]_onboardingVars => [Founders!Next]_(Founders!vars)
  BY StepIsInTurn DEF InTurn
<1>5. OnboardingSpec => Founders!Spec
  BY <1>2, <1>3, <1>4, RankInvHolds, PTL DEF OnboardingSpec, Founders!Spec
<1>6. OnboardingSpec => [][RefusedOnlyIfTaken']_onboardingVars
  BY RefusedForItsName, PTL
<1> QED BY <1>5, <1>6 DEF RanksInTurn

----------------------------------------------------------------------------
(* Settlement. *)

\* Between the guard and the UPDATE the plant keeps its subaccount.
Settled ==
    /\ ActiveIsSettled
    /\ \A r \in StatusForms :
         review[r] \in {"load", "set"} /\ asked[r] = "active" => subaccount[reviewed[r]] # None

\* A step that changes no status: no subaccount is ever taken away.
LEMMA SettledStays ==
    ASSUME Settled, RankInv, Plants' = Plants, UNCHANGED <<plant, reviewVars>>,
           \A p \in Plants : subaccount[p] # None => subaccount'[p] # None
    PROVE  Settled'
<1>1. \A r \in StatusForms : review[r] \in {"load", "set"} => reviewed[r] \in Plants
  BY DEF RankInv, OnboardingTypeOK
<1> QED BY <1>1 DEF Settled, ActiveIsSettled, reviewVars

LEMMA CreateKeepsSettled ==
    ASSUME RankInv, Settled, NEW f \in Forms, CreateStep(f)
    PROVE  Settled'
<1> USE OnboardingFormsAssumption
<1>1. CASE InsertPlant(f)
  <2>1. f \notin Plants
    BY <1>1 DEF InsertPlant, RankInv, PlantsAreCreated
  <2>2. /\ plant' = [plant EXCEPT ![f] = IF f \in Signups THEN "provisioning" ELSE "active"]
        /\ subaccount' = [subaccount EXCEPT ![f] = IF f \in Signups THEN None ELSE f]
        /\ UNCHANGED reviewVars
    BY <1>1 DEF InsertPlant
  <2>3. ActiveIsSettled'
    BY <2>1, <2>2 DEF Settled, ActiveIsSettled, RankInv, OnboardingTypeOK, Plants
  <2>4. \A r \in StatusForms : review[r] \in {"load", "set"} => reviewed[r] \in Plants
    BY DEF RankInv, OnboardingTypeOK
  <2>5. \A p \in Plants : subaccount'[p] = subaccount[p]
    BY <2>1, <2>2 DEF RankInv, OnboardingTypeOK, Plants
  <2> QED BY <2>2, <2>3, <2>4, <2>5 DEF Settled, reviewVars
<1>2. CASE ~InsertPlant(f)
  <2>1. UNCHANGED <<rowVars, settleVars, reviewVars>>
    BY <1>2 DEF CreateStep, SignupSubmit, AdminCreatePlant, Begin, BankVerificationFails,
          LockFounding, CountFounding, RefusePlant, CreateFails
  <2>2. Plants' = Plants
    BY <2>1 DEF rowVars, Plants
  <2> QED BY <2>1, <2>2, SettledStays DEF rowVars
<1> QED BY <1>1, <1>2

LEMMA SettleKeepsSettled ==
    ASSUME RankInv, Settled, NEW q \in Settlings, SettleStep(q)
    PROVE  Settled'
<1> USE OnboardingFormsAssumption
<1>1. Plants' = Plants
  BY SettleKeepsRanks
<1>2. UNCHANGED <<plant, reviewVars>>
  BY DEF SettleStep, CreateSubaccount, SetSettlement, SettlementFails, rowVars
<1>3. \A p \in Plants : subaccount[p] # None => subaccount'[p] # None
  BY DEF SettleStep, CreateSubaccount, SetSettlement, SettlementFails, rowVars, RankInv, OnboardingTypeOK, Plants
<1> QED BY <1>1, <1>2, <1>3, SettledStays

LEMMA ReviewKeepsSettled ==
    ASSUME RankInv, Settled, NEW r \in StatusForms, ReviewStep(r)
    PROVE  Settled'
<1> USE OnboardingFormsAssumption
<1>1. Plants' = Plants
  BY ReviewKeepsRanks
<1>2. subaccount' = subaccount
  BY DEF ReviewStep, AskStatus, LoadNotice, LoadNoticeFails, SetStatus, NotifyApproved, StatusFails, rowVars
<1> USE <1>1, <1>2 DEF Settled, RankInv, OnboardingTypeOK
<1>3. ASSUME NEW p \in Forms, NEW st \in AskedStatuses, AskStatus(r, p, st)
      PROVE  Settled'
  BY <1>3 DEF AskStatus, MayBecome, ActiveIsSettled, rowVars
<1>4. CASE LoadNotice(r)
  BY <1>4 DEF LoadNotice, ActiveIsSettled, rowVars
<1>5. CASE LoadNoticeFails(r)
  BY <1>5 DEF LoadNoticeFails, ActiveIsSettled, rowVars
<1>6. CASE SetStatus(r)
  <2>1. ActiveIsSettled'
    BY <1>6 DEF SetStatus, ActiveIsSettled, Plants
  <2>2. \A o \in StatusForms : o # r => review'[o] = review[o] /\ asked'[o] = asked[o] /\ reviewed'[o] = reviewed[o]
    BY <1>6 DEF SetStatus, Ends, GoesOn
  <2>3. review'[r] \notin {"load", "set"}
    BY <1>6 DEF SetStatus, Ends, GoesOn
  <2> QED BY <2>1, <2>2, <2>3
<1>7. CASE NotifyApproved(r)
  BY <1>7 DEF NotifyApproved, ActiveIsSettled, rowVars
<1>8. CASE StatusFails(r)
  BY <1>8 DEF StatusFails, Ends, ActiveIsSettled, rowVars
<1> QED BY <1>3, <1>4, <1>5, <1>6, <1>7, <1>8 DEF ReviewStep

\* No plant is ever active without a subaccount: the guard is evaluated before the status is
\* read, let alone set, and still holds then.
THEOREM ActiveAreSettled == OnboardingSpec => []ActiveIsSettled
<1>1. OnboardingInit => Settled
  BY DEF OnboardingInit, Settled, ActiveIsSettled, Plants
<1>2. RankInv /\ Settled /\ [OnboardingNext]_onboardingVars => Settled'
  <2> SUFFICES ASSUME RankInv, Settled, [OnboardingNext]_onboardingVars PROVE Settled'
    OBVIOUS
  <2>1. CASE UNCHANGED onboardingVars
    BY <2>1 DEF onboardingVars, rowVars, reviewVars, Settled, ActiveIsSettled, Plants
  <2> QED BY <2>1, CreateKeepsSettled, SettleKeepsSettled, ReviewKeepsSettled DEF OnboardingNext
<1>3. Settled => ActiveIsSettled
  BY DEF Settled
<1> QED BY <1>1, <1>2, <1>3, RankInvHolds, PTL DEF OnboardingSpec

----------------------------------------------------------------------------
(* Notices of approval. *)

Approved(r) == review[r] = "notify" \/ r \in told
WasPutBack(r) == reviewed[r] \in putBack

\* Where each request stands: what it has read and what it has changed.
Standing ==
    /\ \A r \in told : review[r] = "done"
    /\ \A r \in StatusForms :
         /\ Approved(r) => reviewed[r] \in Plants
         /\ review[r] \in {"idle", "load"} => previous[r] = "none"
         /\ Approved(r) => WasPutBack(r) \/ plant[reviewed[r]] # "provisioning"

\* Who read "provisioning" after an approval of the same plant had been made read it before
\* that, or the plant was put back.
ReadBefore ==
    \A r, o \in StatusForms :
        r # o /\ Approved(r) /\ review[o] = "set" /\ previous[o] = "provisioning" /\ reviewed[r] = reviewed[o] =>
            WasPutBack(r) \/ r \in meanwhile[o]

Raced ==
    \A r, o \in StatusForms :
        r # o /\ Approved(r) /\ Approved(o) /\ reviewed[r] = reviewed[o] =>
            WasPutBack(r) \/ r \in meanwhile[o] \/ o \in meanwhile[r]

Noticed == Standing /\ ReadBefore /\ Raced

\* Forms and settlements leave the requests alone and take no plant back to provisioning.
LEMMA NoticedStays ==
    ASSUME RankInv, Noticed, UNCHANGED reviewVars, Plants \subseteq Plants',
           \A p \in Plants : plant'[p] = plant[p]
    PROVE  Noticed'
BY DEF Noticed, Standing, ReadBefore, Raced, Approved, WasPutBack, reviewVars

LEMMA ReviewKeepsNoticed ==
    ASSUME RankInv, Noticed, NEW r \in StatusForms, ReviewStep(r)
    PROVE  Noticed'
<1> USE OnboardingFormsAssumption DEF RankInv, OnboardingTypeOK, Approved, WasPutBack
<1>a. Plants' = Plants
  BY ReviewKeepsRanks
<1>1. ASSUME NEW p \in Forms, NEW st \in AskedStatuses, AskStatus(r, p, st)
      PROVE  Noticed'
  <2> USE <1>1, <1>a DEF AskStatus, rowVars, Noticed
  <2>0. r \notin told
    BY DEF Standing
  <2>1. Standing'
    BY <2>0 DEF Standing
  <2>2. ReadBefore'
    BY <2>0 DEF ReadBefore
  <2>3. Raced'
    BY <2>0 DEF Raced
  <2> QED BY <2>1, <2>2, <2>3
<1>2. CASE LoadNotice(r)
  <2> USE <1>2, <1>a DEF LoadNotice, rowVars, Noticed
  <2>0. r \notin told
    BY DEF Standing
  <2>1. Standing'
    BY <2>0 DEF Standing
  <2>2. ReadBefore'
    BY <2>0 DEF ReadBefore, Standing
  <2>3. Raced'
    BY <2>0 DEF Raced
  <2> QED BY <2>1, <2>2, <2>3
<1>3. CASE LoadNoticeFails(r)
  <2> USE <1>3, <1>a DEF LoadNoticeFails, rowVars, Noticed
  <2>0. r \notin told /\ previous[r] = "none"
    BY DEF Standing
  <2>1. Standing'
    BY <2>0 DEF Standing
  <2>2. ReadBefore'
    BY <2>0 DEF ReadBefore
  <2>3. Raced'
    BY <2>0 DEF Raced
  <2> QED BY <2>1, <2>2, <2>3
<1>4. CASE SetStatus(r)
  <2>0. r \notin told /\ review[r] = "set" /\ told' = told
    BY <1>4 DEF SetStatus, Noticed, Standing
  <2>1. \A o \in StatusForms : o # r =>
          /\ review'[o] = review[o] /\ asked'[o] = asked[o]
          /\ reviewed'[o] = reviewed[o] /\ previous'[o] = previous[o]
          /\ review[o] = "set" => meanwhile'[o] = meanwhile[o] \cup {r}
          /\ review[o] # "set" => meanwhile'[o] = meanwhile[o]
    BY <1>4 DEF SetStatus, Ends, GoesOn
  <2>2. /\ review'[r] \in {"notify", "done"}
        /\ meanwhile'[r] = meanwhile[r]
        /\ review'[r] = "notify" =>
             reviewed'[r] = reviewed[r] /\ previous[r] = "provisioning" /\ asked[r] = "active"
    BY <1>4 DEF SetStatus, Ends, GoesOn, ShouldNotify
  <2>3. /\ plant' = [plant EXCEPT ![reviewed[r]] = asked[r]]
        /\ putBack \subseteq putBack'
        /\ asked[r] = "provisioning" => reviewed[r] \in putBack'
        /\ reviewed[r] \in Plants
    BY <1>4 DEF SetStatus
  <2>4. Standing'
    <3>1. \A o \in told' : review'[o] = "done"
      BY <2>0, <2>1 DEF Noticed, Standing
    <3>2. ASSUME NEW o \in StatusForms
          PROVE  /\ Approved(o)' => reviewed'[o] \in Plants'
                 /\ review'[o] \in {"idle", "load"} => previous'[o] = "none"
                 /\ Approved(o)' => WasPutBack(o)' \/ plant'[reviewed'[o]] # "provisioning"
      <4>1. CASE o = r
        BY <4>1, <2>0, <2>2, <2>3, <1>a DEF Plants
      <4>2. CASE o # r
        BY <4>2, <2>0, <2>1, <2>3, <1>a DEF Plants, Noticed, Standing
      <4> QED BY <4>1, <4>2
    <3> QED BY <3>1, <3>2 DEF Standing
  <2>5. ReadBefore'
    <3> SUFFICES ASSUME NEW a \in StatusForms, NEW o \in StatusForms, a # o, Approved(a)',
                        review'[o] = "set", previous'[o] = "provisioning", reviewed'[a] = reviewed'[o]
                 PROVE  WasPutBack(a)' \/ a \in meanwhile'[o]
      BY DEF ReadBefore
    <3>1. o # r
      BY <2>2
    <3> QED BY <3>1, <2>0, <2>1, <2>3 DEF Noticed, ReadBefore
  <2>6. Raced'
    <3> SUFFICES ASSUME NEW a \in StatusForms, NEW o \in StatusForms, a # o, Approved(a)', Approved(o)',
                        reviewed'[a] = reviewed'[o]
                 PROVE  WasPutBack(a)' \/ a \in meanwhile'[o] \/ o \in meanwhile'[a]
      BY DEF Raced
    <3>1. CASE a # r /\ o # r
      BY <3>1, <2>0, <2>1, <2>3 DEF Noticed, Raced
    <3>2. CASE a = r
      BY <3>2, <2>0, <2>1, <2>2, <2>3 DEF Noticed, ReadBefore
    <3>3. CASE o = r
      BY <3>3, <2>0, <2>1, <2>2, <2>3 DEF Noticed, ReadBefore
    <3> QED BY <3>1, <3>2, <3>3
  <2> QED BY <2>4, <2>5, <2>6 DEF Noticed
<1>5. CASE NotifyApproved(r)
  <2> USE <1>5, <1>a DEF NotifyApproved, rowVars, Noticed
  <2>1. Standing'
    BY DEF Standing
  <2>2. ReadBefore'
    BY DEF ReadBefore
  <2>3. Raced'
    BY DEF Raced
  <2> QED BY <2>1, <2>2, <2>3
<1>6. CASE StatusFails(r)
  <2> USE <1>6, <1>a DEF StatusFails, Ends, rowVars, Noticed
  <2>0. r \notin told
    BY DEF Standing
  <2>1. Standing'
    BY <2>0 DEF Standing
  <2>2. ReadBefore'
    BY <2>0 DEF ReadBefore
  <2>3. Raced'
    BY <2>0 DEF Raced
  <2> QED BY <2>1, <2>2, <2>3
<1> QED BY <1>1, <1>2, <1>3, <1>4, <1>5, <1>6 DEF ReviewStep

\* Two notices of one approval need a plant that was put back, or two requests of which one
\* set the status between the other's SELECT and UPDATE.
THEOREM NoticesTwiceOnlyByRace == OnboardingSpec => []NoticeTwiceOnlyByRace
<1>1. OnboardingInit => Noticed
  BY DEF OnboardingInit, Noticed, Standing, ReadBefore, Raced, Approved
<1>2. RankInv /\ Noticed /\ [OnboardingNext]_onboardingVars => Noticed'
  <2> SUFFICES ASSUME RankInv, Noticed, [OnboardingNext]_onboardingVars PROVE Noticed'
    OBVIOUS
  <2>1. ASSUME NEW f \in Forms, CreateStep(f) PROVE Noticed'
    <3>1. CASE InsertPlant(f)
      <4>1. f \notin Plants
        BY <3>1 DEF InsertPlant, RankInv, PlantsAreCreated
      <4>2. Plants \subseteq Plants' /\ \A p \in Plants : plant'[p] = plant[p]
        BY <3>1, <4>1 DEF InsertPlant, RankInv, OnboardingTypeOK, Plants
      <4> QED BY <3>1, <4>2, NoticedStays DEF InsertPlant
    <3>2. CASE ~InsertPlant(f)
      <4>1. UNCHANGED <<rowVars, reviewVars>>
        BY <2>1, <3>2 DEF CreateStep, SignupSubmit, AdminCreatePlant, Begin, BankVerificationFails,
              LockFounding, CountFounding, RefusePlant, CreateFails
      <4> QED BY <4>1, NoticedStays DEF rowVars, Plants
    <3> QED BY <3>1, <3>2
  <2>2. ASSUME NEW q \in Settlings, SettleStep(q) PROVE Noticed'
    <3>1. UNCHANGED <<plant, reviewVars>>
      BY <2>2 DEF SettleStep, CreateSubaccount, SetSettlement, SettlementFails, rowVars
    <3> QED BY <3>1, NoticedStays DEF Plants
  <2>3. CASE UNCHANGED onboardingVars
    BY <2>3, NoticedStays DEF onboardingVars, rowVars, Plants
  <2> QED BY <2>1, <2>2, <2>3, ReviewKeepsNoticed DEF OnboardingNext
<1>3. RankInv /\ Noticed => NoticeTwiceOnlyByRace
  BY DEF RankInv, OnboardingTypeOK, Noticed, Raced, Approved, WasPutBack, NoticeTwiceOnlyByRace
<1> QED BY <1>1, <1>2, <1>3, RankInvHolds, PTL DEF OnboardingSpec

=============================================================================
