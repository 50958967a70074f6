----------------------------- MODULE RateLimit ------------------------------
(***************************************************************************)
(* checkIPRateLimit for one address and one form: a Redis counter that its *)
(* first INCR gives a TTL, with a command of its own.  Every visit passes  *)
(* through it; errors let the visit in.                                    *)
(***************************************************************************)
EXTENDS Integers

CONSTANTS
    Visits,        \* the submissions of this address that may be in flight
    RateMax,       \* how many the window admits
    RateWindow,    \* its length, in ticks
    MaxRateFaults  \* bound: commands that fail and servers that die

ASSUME RateMaxAssumption == RateMax \in Nat \ {0}
ASSUME RateWindowAssumption == RateWindow \in Nat \ {0}
ASSUME MaxRateFaultsAssumption == MaxRateFaults \in Nat

VARIABLES
    rateCount,   \* the counter, 0 for no key
    rateTTL,     \* its TTL, 0 for none
    visiting,    \* visiting[v]: what visit v does next
    letIn,       \* history: visits that were admitted by their number since the counter began
    rateFaults,  \* history: faults so far
    stuck        \* history: a fault kept the counter there is from its TTL

rateVars == <<rateCount, rateTTL, visiting, letIn, rateFaults, stuck>>

\* Bound: the counter is counted no further than this.
CountBound == RateMax + 2

Limited == rateCount >= RateMax

\* Mutant: one more is admitted.
AdmitsOneMore(n) == n <= RateMax + 1

Admitted(n) == n <= RateMax

\* Mutant: every visit starts the window anew.
EveryVisit(n) == TRUE

\* Whose INCR is followed by an EXPIRE.
StartsWindow(n) == n = 1

\* INCR answers the number of the visit.  If it fails, the visit is let in and nothing changes.
Incr(v) ==
    /\ visiting[v] = "idle"
    /\ rateCount' = IF rateCount < CountBound THEN rateCount + 1 ELSE rateCount
    /\ visiting' = [visiting EXCEPT ![v] = IF StartsWindow(rateCount') THEN "expire" ELSE "idle"]
    /\ letIn' = IF Admitted(rateCount') THEN letIn + 1 ELSE letIn
    /\ UNCHANGED <<rateTTL, rateFaults, stuck>>

RateExpire(v) ==
    /\ visiting[v] = "expire"
    /\ rateTTL' = RateWindow
    /\ visiting' = [visiting EXCEPT ![v] = "idle"]
    /\ UNCHANGED <<rateCount, letIn, rateFaults, stuck>>

\* The EXPIRE fails, or the server dies before it: no later visit repeats it.
RateExpireFails(v) ==
    /\ visiting[v] = "expire"
    /\ rateFaults < MaxRateFaults
    /\ rateFaults' = rateFaults + 1
    /\ stuck' = TRUE
    /\ visiting' = [visiting EXCEPT ![v] = "idle"]
    /\ UNCHANGED <<rateCount, rateTTL, letIn>>

\* Time waits for an EXPIRE that follows its INCR: they are milliseconds apart.
RateTick ==
    /\ rateTTL > 0
    /\ \A v \in Visits : visiting[v] # "expire"
    /\ rateTTL' = rateTTL - 1
    /\ IF rateTTL = 1 THEN rateCount' = 0 /\ letIn' = 0 ELSE UNCHANGED <<rateCount, letIn>>
    /\ UNCHANGED <<visiting, rateFaults, stuck>>

RateInit ==
    /\ rateCount = 0
    /\ rateTTL = 0
    /\ visiting = [v \in Visits |-> "idle"]
    /\ letIn = 0
    /\ rateFaults = 0
    /\ stuck = FALSE

RateStep(v) == Incr(v) \/ RateExpire(v) \/ RateExpireFails(v)

RateNext == RateTick \/ \E v \in Visits : RateStep(v)

RateSpec == RateInit /\ [][RateNext]_rateVars

----------------------------------------------------------------------------
(* Properties. *)

RateTypeOK ==
    /\ rateCount \in 0 .. CountBound
    /\ rateTTL \in 0 .. RateWindow
    /\ visiting \in [Visits -> {"idle", "expire"}]
    /\ letIn \in Nat
    /\ rateFaults \in 0 .. MaxRateFaults
    /\ stuck \in BOOLEAN

\* "Caps how many times a single IP can hit" a form: no more visits than the limit draw an
\* admitting number from one counter, and a counter without a TTL is one whose EXPIRE is under
\* way or was lost.
AdmittedBounded ==
    /\ letIn <= RateMax
    /\ rateCount > 0 /\ rateTTL = 0 => stuck \/ \E v \in Visits : visiting[v] = "expire"

\* An address that has used up its window is admitted again, however often it tries meanwhile,
\* unless a fault has kept its counter from a TTL: then it never is.
BlockEnds == Limited ~> ~Limited \/ stuck
=============================================================================
