------------------------------ MODULE Reviews -------------------------------
(***************************************************************************)
(* The review a customer is asked for when the gas flows.  Each time the   *)
(* ticket's filling starts, the request is found or made in the same       *)
(* transaction, and its link goes out by SMS once that has committed.  The *)
(* ticket's row is locked until then, so fillings do not overlap; a ticket *)
(* that MarkPaid has opened again is filled again.                         *)
(***************************************************************************)
EXTENDS Naturals

CONSTANTS
    Fills,     \* fillings of the ticket that start
    Answers,   \* submissions of the review page
    NoReview   \* no row, no link, no answer

ASSUME NoReviewAssumption == NoReview \notin Fills \cup Answers

VARIABLES
    request,    \* the row of plant_reviews: the filling whose token it has
    held,       \* the answer it holds, NoReview while submitted_at is NULL
    filling,    \* filling[f]: what filling f does next, or how it ended
    link,       \* link[f]: the token in its message
    sent,       \* the links that went out
    answering,  \* answering[a]: what answer a does next, or how it ended
    opened      \* opened[a]: its link

reviewsVars == <<request, held, filling, link, sent, answering, opened>>

\* Whoever holds the ticket's row lock.
Filler == {f \in Fills : filling[f] = "commit"}

\* Mutant: the message has the token that was just drawn, whether or not it was stored.
OwnToken(f) == f

\* EnsureRequest answers the stored request, and makes one only if there is none.
StoredToken(f) == IF request = NoReview THEN f ELSE request

EnsureRequest(f) ==
    /\ filling[f] = "idle"
    /\ Filler = {}
    /\ filling' = [filling EXCEPT ![f] = "commit"]
    /\ link' = [link EXCEPT ![f] = StoredToken(f)]
    /\ UNCHANGED <<request, held, sent, answering, opened>>

CommitFill(f) ==
    /\ filling[f] = "commit"
    /\ request' = IF request = NoReview THEN f ELSE request
    /\ filling' = [filling EXCEPT ![f] = "notify"]
    /\ UNCHANGED <<held, link, sent, answering, opened>>

\* The audit entry or the COMMIT fails: the request is rolled back with the filling.
FillFails(f) ==
    /\ filling[f] = "commit"
    /\ filling' = [filling EXCEPT ![f] = "failed"]
    /\ link' = [link EXCEPT ![f] = NoReview]
    /\ UNCHANGED <<request, held, sent, answering, opened>>

NotifyDispensing(f) ==
    /\ filling[f] = "notify"
    /\ sent' = sent \cup {link[f]}
    /\ filling' = [filling EXCEPT ![f] = "done"]
    /\ UNCHANGED <<request, held, link, answering, opened>>

\* The message is sent after the answer: it may be lost with the server.
NotifyLost(f) ==
    /\ filling[f] = "notify"
    /\ filling' = [filling EXCEPT ![f] = "done"]
    /\ UNCHANGED <<request, held, link, sent, answering, opened>>

\* The page opens for a request that has no answer yet.
OpenReview(a, k) ==
    /\ answering[a] = "idle"
    /\ k \in sent
    /\ opened' = [opened EXCEPT ![a] = k]
    /\ answering' = [answering EXCEPT ![a] = IF k = request /\ held = NoReview THEN "submit" ELSE "closed"]
    /\ UNCHANGED <<request, held, filling, link, sent>>

\* Mutant: the UPDATE takes every answer.
TakesEvery(a) == opened[a] = request

\* UPDATE ... WHERE token = $2 AND submitted_at IS NULL.
Takes(a) == opened[a] = request /\ held = NoReview

SubmitReview(a) ==
    /\ answering[a] = "submit"
    /\ held' = IF Takes(a) THEN a ELSE held
    /\ answering' = [answering EXCEPT ![a] = IF Takes(a) THEN "thanked" ELSE "already"]
    /\ UNCHANGED <<request, filling, link, sent, opened>>

ReviewsInit ==
    /\ request = NoReview
    /\ held = NoReview
    /\ filling = [f \in Fills |-> "idle"]
    /\ link = [f \in Fills |-> NoReview]
    /\ sent = {}
    /\ answering = [a \in Answers |-> "idle"]
    /\ opened = [a \in Answers |-> NoReview]

FillStep(f) ==
    \/ EnsureRequest(f)
    \/ CommitFill(f)
    \/ FillFails(f)
    \/ NotifyDispensing(f)
    \/ NotifyLost(f)

ReviewsNext ==
    \/ \E f \in Fills : FillStep(f)
    \/ \E a \in Answers, k \in Fills : OpenReview(a, k)
    \/ \E a \in Answers : SubmitReview(a)

ReviewsSpec == ReviewsInit /\ [][ReviewsNext]_reviewsVars

----------------------------------------------------------------------------
(* Properties. *)

ReviewsTypeOK ==
    /\ request \in Fills \cup {NoReview}
    /\ held \in Answers \cup {NoReview}
    /\ filling \in [Fills -> {"idle", "commit", "failed", "notify", "done"}]
    /\ link \in [Fills -> Fills \cup {NoReview}]
    /\ sent \subseteq Fills
    /\ answering \in [Answers -> {"idle", "submit", "closed", "thanked", "already"}]
    /\ opened \in [Answers -> Fills \cup {NoReview}]

\* Every link a customer gets is that of the stored request, however often the ticket is filled
\* and whatever fails, and whoever was thanked for an answer still finds it there.
ReviewKept ==
    /\ \A k \in sent : k = request
    /\ \A a \in Answers : answering[a] = "thanked" <=> held = a
=============================================================================
