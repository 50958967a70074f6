---------------------------- MODULE TerminalBook ----------------------------
(* The terminal keeps the book of shifts. *)
EXTENDS Terminal

Entry(s) == [shift |-> s, member |-> member[s], pump |-> station[s]]

EntriesOf(status) == {Entry(s) : s \in {r \in Shifts : state[r] = status}}

Book == INSTANCE ShiftBook WITH
            Staff <- Staff, Pumps <- Pumps, Shifts <- Shifts, NoPump <- NoPump,
            open <- EntriesOf("open"), finished <- EntriesOf("closed"), counts <- closings

\* However logins, retries and requests of one member's sessions interleave, and whatever dies
\* between two of their commands, every step is one of the book or leaves it alone: a shift
\* begins once for a member who has none, keeps its member and its pump, and is closed and
\* counted in one step, once.
ImplementsShiftBook == Book!Spec
=============================================================================
