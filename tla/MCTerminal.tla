----------------------------- MODULE MCTerminal -----------------------------
(* Terminal on small instances. *)
EXTENDS TerminalBook, TLC

\* Logins and rows are interchangeable.
Symmetry == Permutations(Tokens) \cup Permutations(Shifts)
=============================================================================
