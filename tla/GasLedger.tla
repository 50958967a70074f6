----------------------------- MODULE GasLedger -----------------------------
(***************************************************************************)
(* What the ticket table promises, without rows, requests or Paystack.     *)
(* Money comes in for a ticket once and for all.  A redemption code names  *)
(* at most one ticket at a time and a ticket has at most one code; a code  *)
(* changes hands only by becoming free in between.  Gas leaves the plant   *)
(* only for a ticket that has been paid for and that holds a code when     *)
(* dispensing starts.                                                      *)
(***************************************************************************)
CONSTANTS Tickets, Codes, NoTicket

VARIABLES
    money,   \* the tickets money was received for
    gas,     \* the tickets gas was released for
    holder   \* holder[c]: the ticket code c redeems, or NoTicket

vars == <<money, gas, holder>>

Init ==
    /\ money = {}
    /\ gas = {}
    /\ holder = [c \in Codes |-> NoTicket]

\* Code c is free and t has none: c now redeems t.
Claimable(c, t) == holder[c] = NoTicket /\ \A d \in Codes : holder[d] # t

Claim(c, t) ==
    /\ Claimable(c, t)
    /\ holder' = [holder EXCEPT ![c] = t]
    /\ UNCHANGED <<money, gas>>

\* Money arrives for t through the payment gateway.
Receive(t) ==
    /\ money' = money \cup {t}
    /\ UNCHANGED <<gas, holder>>

\* A cash sale: money and code in one transaction.
SellForCash(c, t) ==
    /\ Claimable(c, t)
    /\ holder' = [holder EXCEPT ![c] = t]
    /\ money' = money \cup {t}
    /\ UNCHANGED gas

\* Gas is released for a paid ticket that holds a code.
Release(t) ==
    /\ t \in money
    /\ \E c \in Codes : holder[c] = t
    /\ gas' = gas \cup {t}
    /\ UNCHANGED <<money, holder>>

\* Some tickets are closed or voided and their codes are free again.
FreeCodes(C) ==
    /\ holder' = [c \in Codes |-> IF c \in C THEN NoTicket ELSE holder[c]]
    /\ UNCHANGED <<money, gas>>

Next ==
    \/ \E t \in Tickets :
        \/ Receive(t)
        \/ Release(t)
        \/ \E c \in Codes : Claim(c, t) \/ SellForCash(c, t)
    \/ \E C \in SUBSET Codes : FreeCodes(C)

Spec == Init /\ [][Next]_vars
=============================================================================
