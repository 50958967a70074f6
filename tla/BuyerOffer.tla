----------------------------- MODULE BuyerOffer -----------------------------
(***************************************************************************)
(* Gas buyers who register: one row for a phone number, and for the first  *)
(* OfferSpots of them a rank in the first-order offer.  Signup runs in one *)
(* transaction under an advisory lock; nothing but the lock keeps two      *)
(* ranks apart.                                                            *)
(***************************************************************************)
EXTENDS Integers, FiniteSets

CONSTANTS
    BuyerForms,  \* submissions of the buyers' form
    Phones,      \* normalised phone numbers
    OfferSpots,
    NoForm       \* nobody, or no number

ASSUME NoFormAssumption == NoForm \notin BuyerForms \cup Phones
ASSUME OfferSpotsAssumption == OfferSpots \in Nat \ {0}

VARIABLES
    listed,     \* the phone numbers with a row in buyer_signups
    offerRank,  \* offer_rank of a listed number, 0 for NULL
    buying,     \* buying[b]: what form b does next, or how it ended
    phone,      \* phone[b]: the number it gives
    offer,      \* offer[b]: the rank it means to insert, then the one it is answered
    buyerLock   \* who holds pg_advisory_xact_lock(7710002)

buyerVars == <<listed, offerRank, buying, phone, offer, buyerLock>>

OfferRanks == {offerRank[p] : p \in listed} \ {0}

\* The fields are valid and the rate limit is passed.
BuyerSubmit(b, p) ==
    /\ buying[b] = "idle"
    /\ buying' = [buying EXCEPT ![b] = "lock"]
    /\ phone' = [phone EXCEPT ![b] = p]
    /\ UNCHANGED <<listed, offerRank, offer, buyerLock>>

\* Mutant: the offer is counted without the advisory lock.
NoBuyerLock(b) == TRUE

\* Who may take the advisory lock.
BuyerLockIsFree(b) == buyerLock = NoForm

LockOffer(b) ==
    /\ buying[b] = "lock"
    /\ BuyerLockIsFree(b)
    /\ buyerLock' = b
    /\ buying' = [buying EXCEPT ![b] = "look"]
    /\ UNCHANGED <<listed, offerRank, phone, offer>>

ReleaseOffer(b) == buyerLock' = IF buyerLock = b THEN NoForm ELSE buyerLock

\* The number is listed already: nothing is stored, and no rank is answered.
AlreadyListed(b) ==
    /\ buying[b] = "look"
    /\ phone[b] \in listed
    /\ buying' = [buying EXCEPT ![b] = "listed"]
    /\ ReleaseOffer(b)
    /\ UNCHANGED <<listed, offerRank, phone, offer>>

CountOffer(b) ==
    /\ buying[b] = "look"
    /\ phone[b] \notin listed
    /\ LET claimed == Cardinality({p \in listed : offerRank[p] # 0})
       IN  offer' = [offer EXCEPT ![b] = IF claimed < OfferSpots THEN claimed + 1 ELSE 0]
    /\ buying' = [buying EXCEPT ![b] = "insert"]
    /\ UNCHANGED <<listed, offerRank, phone, buyerLock>>

\* The INSERT and the COMMIT; phone_key is unique.
InsertBuyer(b) ==
    /\ buying[b] = "insert"
    /\ phone[b] \notin listed
    /\ listed' = listed \cup {phone[b]}
    /\ offerRank' = [offerRank EXCEPT ![phone[b]] = offer[b]]
    /\ buying' = [buying EXCEPT ![b] = "created"]
    /\ ReleaseOffer(b)
    /\ UNCHANGED <<phone, offer>>

\* A statement or the COMMIT fails, or the server dies.
BuyerFails(b) ==
    /\ buying[b] \in {"lock", "look", "insert"}
    /\ buying' = [buying EXCEPT ![b] = "failed"]
    /\ ReleaseOffer(b)
    /\ UNCHANGED <<listed, offerRank, phone, offer>>

BuyerInit ==
    /\ listed = {}
    /\ offerRank = [p \in Phones |-> 0]
    /\ buying = [b \in BuyerForms |-> "idle"]
    /\ phone = [b \in BuyerForms |-> NoForm]
    /\ offer = [b \in BuyerForms |-> 0]
    /\ buyerLock = NoForm

BuyerStep(b) ==
    \/ \E p \in Phones : BuyerSubmit(b, p)
    \/ LockOffer(b)
    \/ AlreadyListed(b)
    \/ CountOffer(b)
    \/ InsertBuyer(b)
    \/ BuyerFails(b)

BuyerNext == \E b \in BuyerForms : BuyerStep(b)

BuyerSpec == BuyerInit /\ [][BuyerNext]_buyerVars

----------------------------------------------------------------------------
(* Properties. *)

BuyerTypeOK ==
    /\ listed \subseteq Phones
    /\ offerRank \in [Phones -> Nat]
    /\ buying \in [BuyerForms -> {"idle", "lock", "look", "insert", "created", "listed", "failed"}]
    /\ phone \in [BuyerForms -> Phones \cup {NoForm}]
    /\ \A b \in BuyerForms : buying[b] # "idle" => phone[b] \in Phones
    /\ offer \in [BuyerForms -> Nat]
    /\ buyerLock \in BuyerForms \cup {NoForm}

\* "The first 50 gas buyers who register get the first-order offer" (migration 0009): the ranks
\* are those from 1 up to at most the last spot, and no two buyers have one.
OfferRanksDense ==
    /\ \A p, q \in listed : offerRank[p] = offerRank[q] /\ offerRank[p] # 0 => p = q
    /\ \A p \in listed : \A n \in 1 .. offerRank[p] : n \in OfferRanks
    /\ \A p \in listed : offerRank[p] <= OfferSpots

\* The rank a buyer was answered is the one stored.
AnsweredAsStored ==
    \A b \in BuyerForms : buying[b] = "created" => phone[b] \in listed /\ offerRank[phone[b]] = offer[b]

FirstBuyers == INSTANCE FirstComers WITH
                   Newcomers <- Phones, Spots <- OfferSpots,
                   registered <- listed, spot <- offerRank

\* However sign-ups race, buyers are listed one by one, each with the next free rank if any remain,
\* which it keeps and which is the one it was answered.
OffersInTurn == FirstBuyers!Spec /\ []AnsweredAsStored
=============================================================================
