------------------------------- MODULE Prices -------------------------------
(***************************************************************************)
(* The price history of a plant.  Every change inserts a row; the current  *)
(* price is the row with the latest effective_from, which defaults to      *)
(* now(): the time at which the transaction of the change BEGAN.  Prices   *)
(* are known by the form that set them.                                    *)
(***************************************************************************)
EXTENDS Naturals

CONSTANTS
    PriceForms,  \* submissions of the "Set new rate" form
    NoPrice      \* no row

ASSUME NoPriceAssumption == NoPrice \notin PriceForms

VARIABLES
    pricing,        \* pricing[f]: what form f does next, or how it ended
    effectiveFrom,  \* effectiveFrom[f]: the time its transaction began
    clock,          \* the last time given out: no two transactions begin at once
    priced,         \* the forms whose row is committed
    lastPriced,     \* history: the last of them to commit
    pricedSince     \* history: pricedSince[f]: the forms that committed while f was under way

priceVars == <<pricing, effectiveFrom, clock, priced, lastPriced, pricedSince>>

\* The permission is looked up, and the transaction begins.
BeginPrice(f) ==
    /\ pricing[f] = "idle"
    /\ pricing' = [pricing EXCEPT ![f] = "insert"]
    /\ clock' = clock + 1
    /\ effectiveFrom' = [effectiveFrom EXCEPT ![f] = clock']
    /\ UNCHANGED <<priced, lastPriced, pricedSince>>

\* The row and its audit entry are committed.
SetPrice(f) ==
    /\ pricing[f] = "insert"
    /\ pricing' = [pricing EXCEPT ![f] = "set"]
    /\ priced' = priced \cup {f}
    /\ lastPriced' = f
    /\ pricedSince' = [g \in PriceForms |->
                         IF pricing[g] = "insert" /\ g # f THEN pricedSince[g] \cup {f} ELSE pricedSince[g]]
    /\ UNCHANGED <<effectiveFrom, clock>>

SetPriceFails(f) ==
    /\ pricing[f] = "insert"
    /\ pricing' = [pricing EXCEPT ![f] = "failed"]
    /\ UNCHANGED <<effectiveFrom, clock, priced, lastPriced, pricedSince>>

\* Mutant: the rows come in the order of their insertion.
FirstPriceFirst(f) == \A g \in priced : effectiveFrom[f] <= effectiveFrom[g]

\* ORDER BY effective_from DESC LIMIT 1.
LatestPriceFirst(f) == \A g \in priced : effectiveFrom[g] <= effectiveFrom[f]

\* What loadCurrentPrice answers every page and every sale.
CurrentPrice == IF priced = {} THEN NoPrice ELSE CHOOSE f \in priced : LatestPriceFirst(f)

PriceInit ==
    /\ pricing = [f \in PriceForms |-> "idle"]
    /\ effectiveFrom = [f \in PriceForms |-> 0]
    /\ clock = 0
    /\ priced = {}
    /\ lastPriced = NoPrice
    /\ pricedSince = [f \in PriceForms |-> {}]

PriceStep(f) == BeginPrice(f) \/ SetPrice(f) \/ SetPriceFails(f)

PriceNext == \E f \in PriceForms : PriceStep(f)

PriceSpec == PriceInit /\ [][PriceNext]_priceVars

----------------------------------------------------------------------------
(* Properties. *)

PriceTypeOK ==
    /\ pricing \in [PriceForms -> {"idle", "insert", "set", "failed"}]
    /\ effectiveFrom \in [PriceForms -> 0 .. clock]
    /\ clock \in Nat
    /\ priced \subseteq PriceForms
    /\ lastPriced \in priced \cup {NoPrice}
    /\ pricedSince \in [PriceForms -> SUBSET PriceForms]

\* "Every price this function writes takes effect immediately" (prices.Set): the price committed
\* last is the current one, unless a price that was committed while it was under way is: that
\* one began later, and keeps it from ever taking effect.
TakesEffectUnlessRace ==
    lastPriced # NoPrice => CurrentPrice \in {lastPriced} \cup pricedSince[lastPriced]
=============================================================================
