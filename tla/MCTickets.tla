----------------------------- MODULE MCTickets -----------------------------
(* Tickets on small instances, and the ledger it is shown to implement. *)
EXTENDS TicketsLedger, TLC

\* Tickets and codes are interchangeable; pumps are ordered.
Symmetry == Permutations(Tickets) \cup Permutations(Codes)
=============================================================================
