----------------------------- MODULE Onboarding -----------------------------
(***************************************************************************)
(* How a plant comes to the platform: applications of the public form and  *)
(* plants an administrator creates, the founding ranks, the Paystack       *)
(* subaccount, and the administrators' status changes with the notice of   *)
(* approval.  A plant is known by the form that created its row.           *)
(*                                                                         *)
(* plants.Create runs in one READ COMMITTED transaction.  Its INSERTs and  *)
(* its COMMIT are one step: until it commits nobody sees the row, and      *)
(* whoever inserts the same slug waits for it.                             *)
(***************************************************************************)
EXTENDS Integers, FiniteSets

CONSTANTS
    Signups,        \* submissions of the public form
    AdminForms,     \* submissions of the administrator's form
    Settlings,      \* requests to create a plant's subaccount
    StatusForms,    \* requests to change a plant's status
    Slugs,
    ReservedSlugs,  \* the table reserved_slugs
    FoundingSpots,
    AskedStatuses,  \* bound: the statuses administrators ask for
    None            \* NULL, or nobody

ASSUME OnboardingFormsAssumption ==
    /\ Signups \cap AdminForms = {}
    /\ None \notin Signups \cup AdminForms \cup Settlings \cup StatusForms \cup Slugs

ASSUME AskedStatusesAssumption ==
    AskedStatuses \subseteq {"provisioning", "active", "suspended", "closed"}

ASSUME FoundingSpotsAssumption == FoundingSpots \in Nat \ {0}

Forms == Signups \cup AdminForms
Statuses == {"provisioning", "active", "suspended", "closed"}

VARIABLES
    slugOf,     \* slugOf[f]: the slug of the plant form f created, None for no row
    rank,       \* its founding_rank, 0 for NULL
    plant,      \* its status, "none" for no row
    subaccount, \* its paystack_subaccount_code: the request that had it created, or None
    creating,   \* creating[f]: what form f does next, or how it ended
    wish,       \* wish[f]: the slug it asks for
    claim,      \* claim[f]: the rank it means to insert, 0 for none
    founder,    \* who holds pg_advisory_xact_lock(7710001)
    settling,   \* settling[q]: what subaccount request q does next
    settled,    \* settled[q]: its plant
    review,     \* review[r]: what status request r does next
    reviewed,   \* reviewed[r]: its plant
    asked,      \* asked[r]: the status it asks for
    previous,   \* previous[r]: the status loadPlantApprovalNotification read
    meanwhile,  \* history: meanwhile[r]: the requests that set the status after r read it and before r set it
    told,       \* history: the status requests that sent the notice of approval
    putBack     \* history: the plants somebody set to provisioning

rowVars == <<slugOf, rank, plant, subaccount>>
formVars == <<creating, wish, claim, founder>>
settleVars == <<settling, settled>>
reviewVars == <<review, reviewed, asked, previous, meanwhile, told, putBack>>
onboardingVars == <<rowVars, formVars, settleVars, reviewVars>>

Plants == {f \in Forms : plant[f] # "none"}
TakenSlugs == {slugOf[f] : f \in Plants}
Ranks == {rank[f] : f \in Plants} \ {0}

----------------------------------------------------------------------------
(* The forms. *)

\* Create looks the slug up among the reserved ones; only an application then goes on to claim
\* a founding spot.
AfterReserved(f, s) == IF s \in ReservedSlugs THEN "reserved" ELSE IF f \in Signups THEN "lock" ELSE "insert"

Begin(f, s) ==
    /\ creating[f] = "idle"
    /\ creating' = [creating EXCEPT ![f] = AfterReserved(f, s)]
    /\ wish' = [wish EXCEPT ![f] = s]
    /\ UNCHANGED <<rowVars, claim, founder, settleVars, reviewVars>>

\* An application: fields and rate limit are passed, and settlement is left to the review.
SignupSubmit(f, s) == f \in Signups /\ Begin(f, s)

\* An administrator's form: Paystack resolves the account and creates the subaccount
\* before anybody looks whether the slug is free ...
AdminCreatePlant(f, s) == f \in AdminForms /\ Begin(f, s)

\* ... or does not.
BankVerificationFails(f) ==
    /\ f \in AdminForms
    /\ creating[f] = "idle"
    /\ creating' = [creating EXCEPT ![f] = "failed"]
    /\ UNCHANGED <<rowVars, wish, claim, founder, settleVars, reviewVars>>

\* Mutant: the founding rank is counted without the advisory lock.
NoLock(f) == TRUE

\* Who may take the advisory lock.
LockIsFree(f) == founder = None

LockFounding(f) ==
    /\ creating[f] = "lock"
    /\ LockIsFree(f)
    /\ founder' = f
    /\ creating' = [creating EXCEPT ![f] = "count"]
    /\ UNCHANGED <<rowVars, wish, claim, settleVars, reviewVars>>

\* COALESCE(MAX(founding_rank), 0).
Claimed == IF Ranks = {} THEN 0 ELSE CHOOSE m \in Ranks : \A n \in Ranks : n <= m

\* Mutant: one founding spot too many.
NextRankOffByOne(claimed) == IF claimed <= FoundingSpots THEN claimed + 1 ELSE 0

NextRank(claimed) == IF claimed < FoundingSpots THEN claimed + 1 ELSE 0

CountFounding(f) ==
    /\ creating[f] = "count"
    /\ claim' = [claim EXCEPT ![f] = NextRank(Claimed)]
    /\ creating' = [creating EXCEPT ![f] = "insert"]
    /\ UNCHANGED <<rowVars, wish, founder, settleVars, reviewVars>>

\* The unique indexes on the slug and on the rank, and the CHECK on the rank.
Insertable(f) ==
    /\ wish[f] \notin TakenSlugs
    /\ claim[f] = 0 \/ claim[f] \notin Ranks
    /\ claim[f] \in 0 .. FoundingSpots

Unlock(f) == founder' = IF founder = f THEN None ELSE founder

\* The plant, its owner and its price are inserted and the transaction commits.
InsertPlant(f) ==
    /\ creating[f] = "insert"
    /\ Insertable(f)
    /\ slugOf' = [slugOf EXCEPT ![f] = wish[f]]
    /\ rank' = [rank EXCEPT ![f] = claim[f]]
    /\ plant' = [plant EXCEPT ![f] = IF f \in Signups THEN "provisioning" ELSE "active"]
    /\ subaccount' = [subaccount EXCEPT ![f] = IF f \in Signups THEN None ELSE f]
    /\ creating' = [creating EXCEPT ![f] = "created"]
    /\ Unlock(f)
    /\ UNCHANGED <<wish, claim, settleVars, reviewVars>>

\* A violated constraint: the form shows "that name is taken".
RefusePlant(f) ==
    /\ creating[f] = "insert"
    /\ ~Insertable(f)
    /\ creating' = [creating EXCEPT ![f] = "taken"]
    /\ Unlock(f)
    /\ UNCHANGED <<rowVars, wish, claim, settleVars, reviewVars>>

\* Any statement, or the COMMIT, may fail, and the server may die: the transaction is rolled back.
CreateFails(f) ==
    /\ creating[f] \in {"lock", "count", "insert"}
    /\ creating' = [creating EXCEPT ![f] = "failed"]
    /\ wish' = [wish EXCEPT ![f] = None]
    /\ claim' = [claim EXCEPT ![f] = 0]
    /\ Unlock(f)
    /\ UNCHANGED <<rowVars, settleVars, reviewVars>>

----------------------------------------------------------------------------
(* The subaccount of an application. *)

\* Paystack resolves the account the row names and creates a subaccount, whether or not
\* the plant has one.
CreateSubaccount(q, p) ==
    /\ settling[q] = "idle"
    /\ p \in Plants
    /\ settling' = [settling EXCEPT ![q] = "save"]
    /\ settled' = [settled EXCEPT ![q] = p]
    /\ UNCHANGED <<rowVars, formVars, reviewVars>>

SettlingEnds(q) ==
    /\ settling' = [settling EXCEPT ![q] = "done"]
    /\ settled' = [settled EXCEPT ![q] = None]

SetSettlement(q) ==
    /\ settling[q] = "save"
    /\ subaccount' = [subaccount EXCEPT ![settled[q]] = q]
    /\ SettlingEnds(q)
    /\ UNCHANGED <<slugOf, rank, plant, formVars, reviewVars>>

\* The UPDATE fails, or the server dies: the subaccount exists at Paystack only.
SettlementFails(q) ==
    /\ settling[q] = "save"
    /\ SettlingEnds(q)
    /\ UNCHANGED <<rowVars, formVars, reviewVars>>

----------------------------------------------------------------------------
(* Status changes. *)

\* Mutant: the subaccount is looked for only when an application is approved.
MayBecomeAfterReview(p, st) ==
    st = "active" /\ plant[p] = "provisioning" => subaccount[p] # None

\* Only a plant with a subaccount may be made active.
MayBecome(p, st) == st = "active" => subaccount[p] # None

AskStatus(r, p, st) ==
    /\ review[r] = "idle"
    /\ p \in Plants
    /\ MayBecome(p, st)
    /\ reviewed' = [reviewed EXCEPT ![r] = p]
    /\ asked' = [asked EXCEPT ![r] = st]
    /\ review' = [review EXCEPT ![r] = "load"]
    /\ UNCHANGED <<rowVars, formVars, settleVars, previous, meanwhile, told, putBack>>

\* The previous status is read for the notice.  If that fails, the change goes on without one.
LoadNotice(r) ==
    /\ review[r] = "load"
    /\ previous' = [previous EXCEPT ![r] = plant[reviewed[r]]]
    /\ review' = [review EXCEPT ![r] = "set"]
    /\ UNCHANGED <<rowVars, formVars, settleVars, reviewed, asked, meanwhile, told, putBack>>

LoadNoticeFails(r) ==
    /\ review[r] = "load"
    /\ review' = [review EXCEPT ![r] = "set"]
    /\ UNCHANGED <<rowVars, formVars, settleVars, reviewed, asked, previous, meanwhile, told, putBack>>

\* Mutant: every plant that becomes active is told that it was approved.
NotifyWhenActive(r) == asked[r] = "active"

ShouldNotify(r) == previous[r] = "provisioning" /\ asked[r] = "active"

\* A request that ends without a notice leaves nothing behind.
Ends(r) ==
    /\ review' = [review EXCEPT ![r] = "done"]
    /\ reviewed' = [reviewed EXCEPT ![r] = None]
    /\ asked' = [asked EXCEPT ![r] = "none"]
    /\ previous' = [previous EXCEPT ![r] = "none"]

GoesOn(r) == review' = [review EXCEPT ![r] = "notify"] /\ UNCHANGED <<reviewed, asked, previous>>

\* The UPDATE names the plant by id alone.
SetStatus(r) ==
    /\ review[r] = "set"
    /\ plant' = [plant EXCEPT ![reviewed[r]] = asked[r]]
    /\ IF ShouldNotify(r) THEN GoesOn(r) ELSE Ends(r)
    /\ meanwhile' = [o \in StatusForms |->
                       IF review[o] = "set" /\ o # r THEN meanwhile[o] \cup {r} ELSE meanwhile[o]]
    /\ putBack' = IF asked[r] = "provisioning" THEN putBack \cup {reviewed[r]} ELSE putBack
    /\ UNCHANGED <<slugOf, rank, subaccount, formVars, settleVars, told>>

NotifyApproved(r) ==
    /\ review[r] = "notify"
    /\ told' = told \cup {r}
    /\ review' = [review EXCEPT ![r] = "done"]
    /\ UNCHANGED <<rowVars, formVars, settleVars, reviewed, asked, previous, meanwhile, putBack>>

\* The UPDATE fails, or the server dies before the change or before the notice.
StatusFails(r) ==
    /\ review[r] \in {"load", "set", "notify"}
    /\ Ends(r)
    /\ UNCHANGED <<rowVars, formVars, settleVars, meanwhile, told, putBack>>

----------------------------------------------------------------------------
OnboardingInit ==
    /\ slugOf = [f \in Forms |-> None]
    /\ rank = [f \in Forms |-> 0]
    /\ plant = [f \in Forms |-> "none"]
    /\ subaccount = [f \in Forms |-> None]
    /\ creating = [f \in Forms |-> "idle"]
    /\ wish = [f \in Forms |-> None]
    /\ claim = [f \in Forms |-> 0]
    /\ founder = None
    /\ settling = [q \in Settlings |-> "idle"]
    /\ settled = [q \in Settlings |-> None]
    /\ review = [r \in StatusForms |-> "idle"]
    /\ reviewed = [r \in StatusForms |-> None]
    /\ asked = [r \in StatusForms |-> "none"]
    /\ previous = [r \in StatusForms |-> "none"]
    /\ meanwhile = [r \in StatusForms |-> {}]
    /\ told = {}
    /\ putBack = {}

CreateStep(f) ==
    \/ \E s \in Slugs : SignupSubmit(f, s) \/ AdminCreatePlant(f, s)
    \/ BankVerificationFails(f)
    \/ LockFounding(f)
    \/ CountFounding(f)
    \/ InsertPlant(f)
    \/ RefusePlant(f)
    \/ CreateFails(f)

SettleStep(q) ==
    \/ \E p \in Forms : CreateSubaccount(q, p)
    \/ SetSettlement(q)
    \/ SettlementFails(q)

ReviewStep(r) ==
    \/ \E p \in Forms, st \in AskedStatuses : AskStatus(r, p, st)
    \/ LoadNotice(r)
    \/ LoadNoticeFails(r)
    \/ SetStatus(r)
    \/ NotifyApproved(r)
    \/ StatusFails(r)

OnboardingNext ==
    \/ \E f \in Forms : CreateStep(f)
    \/ \E q \in Settlings : SettleStep(q)
    \/ \E r \in StatusForms : ReviewStep(r)

OnboardingSpec == OnboardingInit /\ [][OnboardingNext]_onboardingVars

----------------------------------------------------------------------------
(* Properties. *)

OnboardingTypeOK ==
    /\ slugOf \in [Forms -> Slugs \cup {None}]
    /\ rank \in [Forms -> 0 .. FoundingSpots]
    /\ plant \in [Forms -> Statuses \cup {"none"}]
    /\ subaccount \in [Forms -> Forms \cup Settlings \cup {None}]
    /\ creating \in [Forms -> {"idle", "lock", "count", "insert", "created", "taken",
                               "reserved", "failed"}]
    /\ wish \in [Forms -> Slugs \cup {None}]
    /\ claim \in [Forms -> 0 .. FoundingSpots]
    /\ founder \in Forms \cup {None}
    /\ settling \in [Settlings -> {"idle", "save", "done"}]
    /\ settled \in [Settlings -> Forms \cup {None}]
    /\ \A q \in Settlings : settling[q] = "save" => settled[q] \in Plants
    /\ review \in [StatusForms -> {"idle", "load", "set", "notify", "done"}]
    /\ reviewed \in [StatusForms -> Forms \cup {None}]
    /\ asked \in [StatusForms -> Statuses \cup {"none"}]
    /\ previous \in [StatusForms -> Statuses \cup {"none"}]
    /\ \A r \in StatusForms : review[r] \notin {"idle", "done"} => reviewed[r] \in Plants /\ asked[r] # "none"
    /\ meanwhile \in [StatusForms -> SUBSET StatusForms]
    /\ told \subseteq StatusForms
    /\ putBack \subseteq Forms

\* "The first 50" (migration 0009): no two plants have one founding rank, the ranks start at 1,
\* leave no gap and stop at the last spot, however applications and plants created by
\* administrators interleave and fail.
FoundingRanksDense ==
    /\ \A f, g \in Plants : rank[f] = rank[g] /\ rank[f] # 0 => f = g
    /\ \A f \in Plants : \A n \in 1 .. rank[f] : n \in Ranks
    /\ \A f \in Plants : rank[f] <= FoundingSpots

\* The form says that a name is taken only if a plant has it: no application is lost to the
\* founding rank of another.
RefusedOnlyIfTaken == \A f \in Forms : creating[f] = "taken" => wish[f] \in TakenSlugs

Founders == INSTANCE FirstComers WITH
                Newcomers <- Signups, Spots <- FoundingSpots,
                registered <- Plants \cap Signups, spot <- [f \in Signups |-> rank[f]]

\* The race for the founding ranks costs nobody a spot or a plant: applications are registered one
\* by one, each with the next free rank if any remain, which it keeps; and a step that refuses a form
\* does so for its name alone.
RanksInTurn == Founders!Spec /\ [][RefusedOnlyIfTaken']_onboardingVars

\* "A plant must never exist without a real settlement path already attached": at least not an
\* active one, which can sell.
ActiveIsSettled == \A p \in Plants : plant[p] = "active" => subaccount[p] # None

\* An owner gets a second notice of approval only if somebody put the plant back to
\* provisioning, or from two approvals of which one was made while the other was being made.
NoticeTwiceOnlyByRace ==
    \A r, o \in told :
        r # o /\ reviewed[r] = reviewed[o] =>
            reviewed[r] \in putBack \/ r \in meanwhile[o] \/ o \in meanwhile[r]
=============================================================================
