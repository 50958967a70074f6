----------------------------- MODULE ShiftBook ------------------------------
(***************************************************************************)
(* What the terminal promises the owner, without logins, sessions or       *)
(* requests: a book of shifts.  An entry is made for a member who has none *)
(* open, and stays as it was made: its member and its pump are never       *)
(* changed.  It is finished once, and its cash is counted at that moment   *)
(* and at no other.                                                        *)
(***************************************************************************)
EXTENDS Integers

CONSTANTS Staff, Pumps, Shifts, NoPump

VARIABLES
    open,      \* the entries of shifts that go on
    finished,  \* those of shifts that are over
    counts     \* counts[s]: how often the cash of shift s was counted

vars == <<open, finished, counts>>

Init ==
    /\ open = {}
    /\ finished = {}
    /\ counts = [s \in Shifts |-> 0]

\* The shifts that the book has no entry of yet.
Unused == {s \in Shifts : \A e \in open \cup finished : e.shift # s}

NewEntries == [shift : Unused, member : Staff, pump : Pumps \cup {NoPump}]

\* A member who has no open shift begins a new one.
Begin(e) ==
    /\ \A d \in open : d.member # e.member
    /\ open' = open \cup {e}
    /\ UNCHANGED <<finished, counts>>

\* An open shift is counted and finished.
Finish(e) ==
    /\ counts' = [counts EXCEPT ![e.shift] = @ + 1]
    /\ open' = open \ {e}
    /\ finished' = finished \cup {e}

Next ==
    \/ \E e \in NewEntries : Begin(e)
    \/ \E e \in open : Finish(e)

Spec == Init /\ [][Next]_vars
=============================================================================
