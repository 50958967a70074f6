---------------------------- MODULE LedgerProofs ----------------------------
(***************************************************************************)
(* Proof that Tickets implements GasLedger.                                *)
(*                                                                         *)
(* OpenCodesUnique makes the holder of a code well defined.  Each action   *)
(* of Tickets is shown to be one of four things to the ledger: nothing, a  *)
(* claim of a free code, a release of codes, or money or gas for a ticket. *)
(***************************************************************************)
EXTENDS TicketsLedger, TicketsProofs

\* A row has a code, and Paystack hears of a ticket only after its row is there.
RowHasCode == \A t \in Tickets : status[t] # "none" => code[t] \in Codes
ChargedHasRow == \A t \in Tickets : paystack[t] # "none" => status[t] # "none"

LedgerInv == TicketInv /\ RowHasCode /\ ChargedHasRow

LEMMA LedgerInvInit == Init => LedgerInv
<1>1. Init => RowHasCode /\ ChargedHasRow
  BY DEF Init, RowHasCode, ChargedHasRow
<1> QED BY <1>1, TicketInvInit DEF LedgerInv

\* Rows stay, keep their code, and are there before Initialize.
LEMMA RowsStay ==
    ASSUME LedgerInv, [Next]_vars
    PROVE  RowHasCode' /\ ChargedHasRow'
<1> USE DEF LedgerInv, TicketInv, TypeOK, RowHasCode, ChargedHasRow
<1>1. ASSUME NEW t \in Tickets, NEW c \in Codes, InsertTicket(t, c)
      PROVE  RowHasCode' /\ ChargedHasRow'
  BY <1>1 DEF InsertTicket, payVars
<1>2. ASSUME UNCHANGED <<code, paystack>>,
             \A u \in Tickets : status[u] # "none" <=> status'[u] # "none"
      PROVE  RowHasCode' /\ ChargedHasRow'
  BY <1>2
<1>3. ASSUME NEW t \in Tickets, Purchasing(t) PROVE RowHasCode' /\ ChargedHasRow'
  BY <1>1, <1>2, <1>3 DEF Purchasing, BeginPurchase, InsertCollides, InsertRefused,
                          PurchaseDies, rowVars, payVars
<1>4. ASSUME NEW t \in Tickets, Paying(t) PROVE RowHasCode' /\ ChargedHasRow'
  <2>1. ASSUME NEW x, status[t] # "none", paystack' = [paystack EXCEPT ![t] = x],
               UNCHANGED <<status, code>>
        PROVE  RowHasCode' /\ ChargedHasRow'
    BY <2>1
  <2>2. ASSUME NEW outcome \in {"checkout", "failed"}, Initialize(t, outcome)
        PROVE  RowHasCode' /\ ChargedHasRow'
    BY <2>1, <2>2 DEF Initialize, rowVars
  <2>3. ASSUME NEW outcome \in {"success", "mismatch"}, Charge(t, outcome)
        PROVE  RowHasCode' /\ ChargedHasRow'
    BY <2>1, <2>3 DEF Charge, rowVars
  <2>4. ASSUME NEW v \in Via, FinishConfirm(t, v)
        PROVE  RowHasCode' /\ ChargedHasRow'
    <3>1. status[t] # "none"
      BY <2>4 DEF FinishConfirm, SawIsCharged
    <3>2. UNCHANGED <<code, paystack>> /\ (status' = status \/ status' = [status EXCEPT ![t] = "paid"])
      BY <2>4 DEF FinishConfirm
    <3> QED BY <3>1, <3>2, <1>2
  <2> QED BY <1>2, <1>4, <2>2, <2>3, <2>4 DEF Paying, DeliverWebhook, LookupFails, Callback,
                                              ConfirmFails, rowVars
<1>5. ASSUME NEW t \in Tickets, Serving(t) PROVE RowHasCode' /\ ChargedHasRow'
  BY <1>2, <1>5 DEF Serving, Redeem, StartDispensing, CloseFilled, VoidTicket,
                    ConfirmReceived, SetConfirmedAt, ConfirmReceivedFails, rowVars, payVars
<1>6. ASSUME NEW p \in Pumps, BulkCloseFilled(p) PROVE RowHasCode' /\ ChargedHasRow'
  BY <1>2, <1>6 DEF BulkCloseFilled, payVars
<1>7. ASSUME NEW p \in Pumps, UpsertPump(p) PROVE RowHasCode' /\ ChargedHasRow'
  BY <1>2, <1>7 DEF UpsertPump, rowVars, payVars
<1>8. CASE UNCHANGED vars
  BY <1>2, <1>8 DEF vars, rowVars, payVars
<1> QED BY <1>3, <1>4, <1>5, <1>6, <1>7, <1>8 DEF Next

LEMMA LedgerInvStep == LedgerInv /\ [Next]_vars => LedgerInv'
BY RowsStay, TicketInvStep DEF LedgerInv

----------------------------------------------------------------------------
(* The holder of a code, before and after a step. *)

\* The index makes the holder the one open ticket under the code.
LEMMA HolderOf ==
    ASSUME OpenCodesUnique, NEW c \in Codes
    PROVE  /\ \A t \in Tickets : Holds(t, c) => holder[c] = t
           /\ (\A t \in Tickets : ~Holds(t, c)) => holder[c] = NoTicket
<1> USE DEF Holds, Open
<1> DEFINE h == CHOOSE t \in Tickets : Holds(t, c)
<1>1. ASSUME NEW t \in Tickets, Holds(t, c)
      PROVE  holder[c] = t
  <2>1. h \in Tickets /\ Holds(h, c)
    BY <1>1
  <2>2. h = t
    <3> HIDE DEF h
    <3> QED BY <1>1, <2>1 DEF OpenCodesUnique
  <2>3. holder[c] = h
    BY <1>1 DEF holder
  <2> QED BY <2>2, <2>3
<1>2. ASSUME \A t \in Tickets : ~Holds(t, c)
      PROVE  holder[c] = NoTicket
  BY <1>2 DEF holder
<1> QED BY <1>1, <1>2

LEMMA HolderOfNext ==
    ASSUME OpenCodesUnique', NEW c \in Codes
    PROVE  /\ \A t \in Tickets : Holds(t, c)' => holder'[c] = t
           /\ (\A t \in Tickets : ~Holds(t, c)') => holder'[c] = NoTicket
<1> USE DEF Holds, Open
<1> DEFINE h == CHOOSE t \in Tickets : Holds(t, c)'
<1>1. ASSUME NEW t \in Tickets, Holds(t, c)'
      PROVE  holder'[c] = t
  <2>1. h \in Tickets /\ status'[h] \in OpenStatuses /\ code'[h] = c
    BY <1>1
  <2>2. h = t
    <3> HIDE DEF h
    <3> QED BY <1>1, <2>1 DEF OpenCodesUnique
  <2>3. holder'[c] = h
    BY <1>1 DEF holder
  <2> QED BY <2>2, <2>3
<1>2. ASSUME \A t \in Tickets : ~Holds(t, c)'
      PROVE  holder'[c] = NoTicket
  BY <1>2 DEF holder
<1> QED BY <1>1, <1>2

\* If the same tickets hold the same codes, the ledger sees no change of holder.
LEMMA HolderSame ==
    ASSUME OpenCodesUnique, OpenCodesUnique',
           \A t \in Tickets : \A c \in Codes : Holds(t, c)' <=> Holds(t, c)
    PROVE  holder' = holder
<1> USE DEF Holds, Open
<1>1. \A c \in Codes : holder'[c] = holder[c]
  BY HolderOf, HolderOfNext
<1> QED BY <1>1 DEF holder

\* A ticket that becomes open under a free code claims it.
LEMMA HolderClaims ==
    ASSUME OpenCodesUnique, OpenCodesUnique', NEW t \in Tickets, NEW c \in Codes,
           ~Open(t), CodeFree(t, c), Holds(t, c)',
           \A u \in Tickets \ {t} : \A d \in Codes : Holds(u, d)' <=> Holds(u, d)
    PROVE  Ledger!Claimable(c, t) /\ holder' = [holder EXCEPT ![c] = t]
<1> USE DEF Holds, Open
<1>1. \A u \in Tickets : ~Holds(u, c)
  BY DEF CodeFree
<1>2. holder[c] = NoTicket
  BY <1>1, HolderOf
<1>3. \A d \in Codes : ~Holds(t, d)
  OBVIOUS
<1>4. \A d \in Codes : holder[d] # t
  <2> SUFFICES ASSUME NEW d \in Codes, holder[d] = t
               PROVE  FALSE
    OBVIOUS
  <2>1. CASE \E u \in Tickets : Holds(u, d)
    BY <1>3, <2>1, HolderOf
  <2>2. CASE \A u \in Tickets : ~Holds(u, d)
    BY <2>2, HolderOf, NoTicketAssumption
  <2> QED BY <2>1, <2>2
<1>5. holder'[c] = t
  BY HolderOfNext
<1>6. ASSUME NEW d \in Codes \ {c}
      PROVE  holder'[d] = holder[d]
  <2>1. ~Holds(t, d)'
    OBVIOUS
  <2>2. \A u \in Tickets : Holds(u, d)' <=> Holds(u, d)
    BY <1>3, <2>1
  <2> QED BY <2>2, HolderOf, HolderOfNext
<1>7. holder' = [holder EXCEPT ![c] = t]
  <2>1. holder = [d \in Codes |-> holder[d]] /\ holder' = [d \in Codes |-> holder'[d]]
    BY DEF holder
  <2> QED BY <1>5, <1>6, <2>1
<1> QED BY <1>2, <1>4, <1>7 DEF Ledger!Claimable

\* The tickets of S let go of the codes they hold, and nothing else changes hands.
LEMMA HolderFrees ==
    ASSUME OpenCodesUnique, OpenCodesUnique', NEW S \in SUBSET Tickets,
           \A t \in Tickets : \A c \in Codes : Holds(t, c)' <=> Holds(t, c) /\ t \notin S
    PROVE  \E C \in SUBSET Codes :
              holder' = [c \in Codes |-> IF c \in C THEN NoTicket ELSE holder[c]]
<1> USE DEF Holds, Open
<1> DEFINE C == {c \in Codes : \E t \in S : Holds(t, c)}
<1>1. ASSUME NEW c \in C
      PROVE  holder'[c] = NoTicket
  <2>1. PICK t \in S : Holds(t, c)
    BY <1>1
  <2>2. \A u \in Tickets : Holds(u, c) => u = t
    BY <2>1, HolderOf
  <2>3. \A u \in Tickets : ~Holds(u, c)'
    BY <2>2
  <2> QED BY <2>3, HolderOfNext
<1>2. ASSUME NEW c \in Codes \ C
      PROVE  holder'[c] = holder[c]
  <2>1. \A t \in Tickets : Holds(t, c)' <=> Holds(t, c)
    OBVIOUS
  <2> QED BY <2>1, HolderOf, HolderOfNext
<1>3. holder' = [c \in Codes |-> IF c \in C THEN NoTicket ELSE holder[c]]
  <2>1. C \in SUBSET Codes /\ holder' = [c \in Codes |-> holder'[c]]
    BY DEF holder
  <2> HIDE DEF C
  <2> QED BY <1>1, <1>2, <2>1
<1>4. C \in SUBSET Codes
  OBVIOUS
<1> QED
  <2> HIDE DEF C
  <2> QED BY <1>3, <1>4

----------------------------------------------------------------------------
(* What a step of the table is to the ledger. *)

LedgerStep == [Ledger!Next]_(Ledger!vars)

\* A step that writes no status, code or start, and pays for no row, is a stutter.
LEMMA Stutters ==
    ASSUME LedgerInv, LedgerInv', UNCHANGED <<status, code, starts>>,
           \A t \in Tickets : status[t] # "none" =>
              UNCHANGED kind[t] /\ (paystack'[t] = "success" <=> paystack[t] = "success")
    PROVE  LedgerStep
<1>1. holder' = holder
  BY HolderSame DEF LedgerInv, TicketInv, Holds, Open
<1>2. money' = money
  BY DEF money, Funded
<1>3. gas' = gas
  BY DEF gas
<1> QED BY <1>1, <1>2, <1>3 DEF LedgerStep, Ledger!vars

\* A step that takes the tickets of S, and no other, out of the open statuses.
LEMMA Frees ==
    ASSUME LedgerInv, LedgerInv', NEW S \in SUBSET Tickets,
           UNCHANGED <<code, kind, paystack, starts>>,
           \A t \in Tickets \ S : status'[t] = status[t],
           \A t \in S : status[t] # "none" /\ status'[t] \in {"filled", "voided"}
    PROVE  LedgerStep
<1>1. \A t \in Tickets : \A c \in Codes : Holds(t, c)' <=> Holds(t, c) /\ t \notin S
  BY DEF Holds, Open, OpenStatuses
<1>2. PICK C \in SUBSET Codes :
              holder' = [c \in Codes |-> IF c \in C THEN NoTicket ELSE holder[c]]
  BY <1>1, HolderFrees DEF LedgerInv, TicketInv, Holds, Open
<1>3. money' = money
  BY DEF money, Funded
<1>4. gas' = gas
  BY DEF gas
<1> QED BY <1>2, <1>3, <1>4 DEF LedgerStep, Ledger!Next, Ledger!FreeCodes

\* INSERT: an online ticket claims its code, a cash ticket is sold under it.
LEMMA Inserts ==
    ASSUME LedgerInv, LedgerInv', NEW t \in Tickets, NEW c \in Codes, InsertTicket(t, c)
    PROVE  LedgerStep
<1> USE DEF LedgerInv, TicketInv
<1>1. status[t] = "none"
  BY DEF InsertTicket, RowIsBought
<1>2. /\ \A u \in Tickets \ {t} : status'[u] = status[u] /\ code'[u] = code[u]
      /\ code'[t] = c
      /\ status'[t] \in {"pending", "paid"}
      /\ UNCHANGED <<kind, paystack, starts>>
  BY DEF InsertTicket, TypeOK, payVars
<1>3. Ledger!Claimable(c, t) /\ holder' = [holder EXCEPT ![c] = t]
  <2>1. ~Open(t) /\ CodeFree(t, c)
    BY <1>1 DEF InsertTicket, Open, OpenStatuses
  <2>2. status'[t] \in OpenStatuses /\ code'[t] = c
    BY <1>2 DEF OpenStatuses
  <2> QED BY <1>2, <2>1, <2>2, HolderClaims DEF Holds, Open
<1>4. gas' = gas
  BY <1>2 DEF gas
<1>5. paystack[t] = "none"
  BY <1>1 DEF ChargedHasRow
<1>6. CASE kind[t] = "online"
  <2>1. money' = money
    BY <1>1, <1>2, <1>5, <1>6 DEF money, Funded
  <2> QED BY <1>3, <1>4, <2>1 DEF LedgerStep, Ledger!Next, Ledger!Claim
<1>7. CASE kind[t] = "cash"
  <2>1. money' = money \cup {t}
    BY <1>1, <1>2, <1>7 DEF money, Funded
  <2> QED BY <1>3, <1>4, <2>1 DEF LedgerStep, Ledger!Next, Ledger!SellForCash
<1> QED BY <1>6, <1>7 DEF InsertTicket

\* MarkPaid's UPDATE claims the code again if the ticket was void or filled.
LEMMA Confirms ==
    ASSUME LedgerInv, LedgerInv', NEW t \in Tickets, NEW v \in Via, FinishConfirm(t, v)
    PROVE  LedgerStep
<1> USE DEF LedgerInv, TicketInv
<1>1. UNCHANGED <<code, kind, paystack, starts>> /\ status[t] # "none"
  BY DEF FinishConfirm, SawIsCharged
<1>2. CASE saw[t][v] = "settled"
  <2>1. status' = status
    BY <1>2 DEF FinishConfirm
  <2> QED BY <1>1, <2>1, Stutters
<1>3. CASE saw[t][v] = "pending"
  <2>1. /\ CodeFree(t, code[t])
        /\ status'[t] = "paid"
        /\ \A u \in Tickets \ {t} : status'[u] = status[u]
    BY <1>3 DEF FinishConfirm, TypeOK
  <2>2. money' = money
    BY <1>1, <2>1 DEF money, Funded
  <2>3. gas' = gas
    BY <1>1 DEF gas
  <2>4. CASE Open(t)
    <3>1. holder' = holder
      BY <1>1, <2>1, <2>4, HolderSame DEF Holds, Open, OpenStatuses
    <3> QED BY <2>2, <2>3, <3>1 DEF LedgerStep, Ledger!vars
  <2>5. CASE ~Open(t)
    <3>1. code[t] \in Codes
      BY <1>1 DEF RowHasCode
    <3>2. status'[t] \in OpenStatuses /\ code'[t] = code[t]
      BY <1>1, <2>1 DEF OpenStatuses
    <3>3. Ledger!Claimable(code[t], t) /\ holder' = [holder EXCEPT ![code[t]] = t]
      BY <1>1, <2>1, <2>5, <3>1, <3>2, HolderClaims DEF Holds, Open
    <3> QED BY <2>2, <2>3, <3>1, <3>3 DEF LedgerStep, Ledger!Next, Ledger!Claim
  <2> QED BY <2>4, <2>5
<1> QED BY <1>2, <1>3 DEF FinishConfirm

\* The fill releases gas for a ticket that is paid for and holds its code.
LEMMA Releases ==
    ASSUME LedgerInv, LedgerInv', NEW t \in Tickets, StartDispensing(t)
    PROVE  LedgerStep
<1> USE DEF LedgerInv, TicketInv
<1>1. /\ UNCHANGED <<code, kind, paystack>>
      /\ status[t] = "paid" /\ status'[t] = "dispensing"
      /\ \A u \in Tickets \ {t} : status'[u] = status[u] /\ starts'[u] = starts[u]
      /\ starts'[t] = starts[t] + 1 /\ starts[t] \in Nat
  BY DEF StartDispensing, TypeOK, payVars
<1>2. t \in money
  BY <1>1 DEF FundedBeforeGas, SettledStatuses, money
<1>3. money' = money
  BY <1>1 DEF money, Funded
<1>4. gas' = gas \cup {t}
  BY <1>1 DEF gas
<1>5. holder' = holder
  BY <1>1, HolderSame DEF Holds, Open, OpenStatuses
<1>6. code[t] \in Codes /\ holder[code[t]] = t
  <2>1. code[t] \in Codes
    BY <1>1 DEF RowHasCode
  <2>2. Holds(t, code[t])
    BY <1>1 DEF Holds, Open, OpenStatuses
  <2> QED BY <2>1, <2>2, HolderOf
<1> QED BY <1>2, <1>3, <1>4, <1>5, <1>6 DEF LedgerStep, Ledger!Next, Ledger!Release

----------------------------------------------------------------------------
(* Every step of the table is a step of the ledger. *)

LEMMA PurchasingLedger ==
    ASSUME LedgerInv, LedgerInv', NEW t \in Tickets, Purchasing(t)
    PROVE  LedgerStep
<1> USE DEF rowVars, payVars, history
<1>1. ASSUME NEW k \in {"online", "cash"}, BeginPurchase(t, k)
      PROVE  LedgerStep
  <2>1. status[t] = "none"
    BY <1>1 DEF BeginPurchase, LedgerInv, TicketInv, RowIsBought
  <2>2. \A u \in Tickets \ {t} : kind'[u] = kind[u]
    BY <1>1 DEF BeginPurchase, LedgerInv, TicketInv, TypeOK
  <2> QED BY <1>1, <2>1, <2>2, Stutters DEF BeginPurchase
<1>2. ASSUME NEW c \in Codes, InsertTicket(t, c)
      PROVE  LedgerStep
  BY <1>2, Inserts
<1>3. CASE UNCHANGED <<status, code, starts, kind, paystack>>
  BY <1>3, Stutters
<1> QED BY <1>1, <1>2, <1>3, Purchasing(t) DEF Purchasing, InsertCollides, InsertRefused,
                                               PurchaseDies

LEMMA PayingLedger ==
    ASSUME LedgerInv, LedgerInv', NEW t \in Tickets, Paying(t)
    PROVE  LedgerStep
<1> USE DEF rowVars, payVars, history
<1>0. TypeOK
  BY DEF LedgerInv, TicketInv
\* Initialize and a charge of another amount: Paystack holds no money for the ticket.
<1>1. ASSUME NEW x \in {"checkout", "failed", "mismatch"}, paystack[t] # "success",
             paystack' = [paystack EXCEPT ![t] = x], UNCHANGED <<status, code, starts, kind>>
      PROVE  LedgerStep
  <2>1. \A u \in Tickets : paystack'[u] = "success" <=> paystack[u] = "success"
    BY <1>0, <1>1 DEF TypeOK
  <2> QED BY <1>1, <2>1, Stutters
<1>2. ASSUME NEW outcome \in {"checkout", "failed"}, Initialize(t, outcome)
      PROVE  LedgerStep
  BY <1>1, <1>2 DEF Initialize
<1>3. CASE Charge(t, "mismatch")
  BY <1>1, <1>3 DEF Charge
<1>4. CASE Charge(t, "success")
  <2>1. /\ UNCHANGED <<status, code, starts, kind>>
        /\ paystack' = [paystack EXCEPT ![t] = "success"]
        /\ status[t] # "none"
    BY <1>4 DEF Charge, LedgerInv, ChargedHasRow
  <2>2. money' = money \cup {t}
    BY <1>0, <2>1 DEF money, Funded, TypeOK
  <2>3. gas' = gas
    BY <2>1 DEF gas
  <2>4. holder' = holder
    BY <2>1, HolderSame DEF LedgerInv, TicketInv, Holds, Open
  <2> QED BY <2>2, <2>3, <2>4 DEF LedgerStep, Ledger!Next, Ledger!Receive
<1>5. ASSUME NEW v \in Via, FinishConfirm(t, v)
      PROVE  LedgerStep
  BY <1>5, Confirms
<1>6. CASE UNCHANGED <<status, code, starts, kind, paystack>>
  BY <1>6, Stutters
<1> QED BY <1>2, <1>3, <1>4, <1>5, <1>6, Paying(t) DEF Paying, DeliverWebhook, LookupFails,
                                                       Callback, ConfirmFails

LEMMA ServingLedger ==
    ASSUME LedgerInv, LedgerInv', NEW t \in Tickets, Serving(t)
    PROVE  LedgerStep
<1> USE DEF rowVars, payVars, history
<1>1. CASE StartDispensing(t)
  BY <1>1, Releases
<1>2. ASSUME NEW x \in {"filled", "voided"}, status[t] # "none",
             status' = [status EXCEPT ![t] = x], UNCHANGED <<code, kind, paystack, starts>>
      PROVE  LedgerStep
  <2> DEFINE S == {t}
  <2>1. S \in SUBSET Tickets /\ \A u \in S : status[u] # "none" /\ status'[u] = x
    BY <1>2 DEF LedgerInv, TicketInv, TypeOK
  <2>2. \A u \in Tickets \ S : status'[u] = status[u]
    BY <1>2 DEF LedgerInv, TicketInv, TypeOK
  <2> HIDE DEF S
  <2> QED BY <1>2, <2>1, <2>2, Frees
<1>3. CASE CloseFilled(t)
  <2>1. status[t] # "none"
    BY <1>3 DEF CloseFilled
  <2> QED BY <1>2, <1>3, <2>1 DEF CloseFilled
<1>4. CASE VoidTicket(t)
  <2>1. status[t] # "none"
    BY <1>4 DEF VoidTicket
  <2> QED BY <1>2, <1>4, <2>1 DEF VoidTicket
<1>5. CASE UNCHANGED <<status, code, starts, kind, paystack>>
  BY <1>5, Stutters
<1> QED BY <1>1, <1>3, <1>4, <1>5, Serving(t) DEF Serving, Redeem, ConfirmReceived,
                                                  SetConfirmedAt, ConfirmReceivedFails

LEMMA NextLedger == LedgerInv /\ LedgerInv' /\ [Next]_vars => LedgerStep
<1> SUFFICES ASSUME LedgerInv, LedgerInv', [Next]_vars
             PROVE  LedgerStep
  OBVIOUS
<1>1. ASSUME NEW t \in Tickets, Purchasing(t) \/ Paying(t) \/ Serving(t)
      PROVE  LedgerStep
  BY <1>1, PurchasingLedger, PayingLedger, ServingLedger
<1>2. ASSUME NEW p \in Pumps, BulkCloseFilled(p)
      PROVE  LedgerStep
  <2> DEFINE S == {t \in Tickets : pump[t] = p /\ status[t] = "dispensing"}
  <2>1. /\ S \in SUBSET Tickets
        /\ \A t \in S : status[t] # "none" /\ status'[t] = "filled"
        /\ \A t \in Tickets \ S : status'[t] = status[t]
    BY <1>2 DEF BulkCloseFilled
  <2>2. UNCHANGED <<code, kind, paystack, starts>>
    BY <1>2 DEF BulkCloseFilled, payVars, history
  <2> HIDE DEF S
  <2> QED BY <2>1, <2>2, Frees
<1>3. ASSUME NEW p \in Pumps, UpsertPump(p)
      PROVE  LedgerStep
  BY <1>3, Stutters DEF UpsertPump, rowVars, payVars, history
<1>4. CASE UNCHANGED vars
  BY <1>4, Stutters DEF vars, rowVars, payVars, history
<1> QED BY <1>1, <1>2, <1>3, <1>4 DEF Next

LEMMA InitLedger == Init => Ledger!Init
<1> SUFFICES ASSUME Init
             PROVE  Ledger!Init
  OBVIOUS
<1>1. money = {} /\ gas = {}
  BY DEF Init, money, gas
<1>2. holder = [c \in Codes |-> NoTicket]
  BY DEF Init, holder, Holds, Open, OpenStatuses
<1> QED BY <1>1, <1>2 DEF Ledger!Init

\* The table implements the ledger, for every number of tickets, codes and pumps: gas
\* leaves only for money and under a code its ticket holds, a code redeems one ticket at
\* a time and becomes free before it redeems another.
THEOREM TicketsImplementLedger == Spec => ImplementsLedger
<1>1. Spec => []LedgerInv
  BY LedgerInvInit, LedgerInvStep, PTL DEF Spec
<1>2. LedgerInv /\ LedgerInv' /\ [Next]_vars => [Ledger!Next]_(Ledger!vars)
  BY NextLedger DEF LedgerStep
<1> QED BY <1>1, <1>2, InitLedger, PTL DEF Spec, ImplementsLedger, Ledger!Spec
=============================================================================
