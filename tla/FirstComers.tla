---------------------------- MODULE FirstComers ----------------------------
(***************************************************************************)
(* What the launch program promises (migration 0009), of the founding      *)
(* plants and of the buyers' first-order offer: each newcomer is given the *)
(* next free spot "if any remain" (plants.CreateParams), and keeps it.     *)
(* There are no requests, no locks and no counts here: a newcomer is       *)
(* registered and given a spot in one step, and nothing else ever happens. *)
(***************************************************************************)
EXTENDS Integers

CONSTANTS
    Newcomers,
    Spots       \* how many there are

VARIABLES
    registered, \* who has come
    spot        \* spot[n]: the spot of newcomer n, or 0

vars == <<registered, spot>>

Given == {spot[n] : n \in registered} \ {0}
Free == (1 .. Spots) \ Given
NextFree == IF Free = {} THEN 0 ELSE CHOOSE s \in Free : \A o \in Free : s <= o

Init ==
    /\ registered = {}
    /\ spot = [n \in Newcomers |-> 0]

Register(n) ==
    /\ n \notin registered
    /\ registered' = registered \cup {n}
    /\ spot' = [spot EXCEPT ![n] = NextFree]

Next == \E n \in Newcomers : Register(n)

Spec == Init /\ [][Next]_vars
=============================================================================
