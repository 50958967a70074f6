--------------------------- MODULE TicketsLedger ---------------------------
(* The ticket table implements the ledger. *)
EXTENDS Tickets

CONSTANT NoTicket

ASSUME NoTicketAssumption == NoTicket \notin Tickets

\* The money the plant received: Paystack's successful charges and the cash sales.
money == {t \in Tickets : Funded(t) /\ status[t] # "none"}

gas == {t \in Tickets : starts[t] > 0}

Holds(t, c) == Open(t) /\ code[t] = c

\* A code's holder is the row the partial unique index keeps it for.
holder == [c \in Codes |-> IF \E t \in Tickets : Holds(t, c)
                             THEN CHOOSE t \in Tickets : Holds(t, c)
                             ELSE NoTicket]

Ledger == INSTANCE GasLedger WITH
              Tickets <- Tickets, Codes <- Codes, NoTicket <- NoTicket,
              money <- money, gas <- gas, holder <- holder

\* Whatever requests do to the table, and however they interleave, every step of it is a
\* step of the ledger or leaves it alone.
ImplementsLedger == Ledger!Spec
=============================================================================
