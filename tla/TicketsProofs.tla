--------------------------- MODULE TicketsProofs ---------------------------
(***************************************************************************)
(* Proofs, for every set of tickets, codes and pumps, of the invariants of *)
(* Tickets that its runs check on two tickets.                             *)
(***************************************************************************)
EXTENDS Tickets, FiniteSetTheorems, WellFoundedInduction, TLAPS

----------------------------------------------------------------------------
(* Type correctness. *)

\* Every pump AssignLeastBusy may leave a ticket with is a pump or NULL.
LEMMA AssignmentType ==
    ASSUME TypeOK, NEW t \in Tickets
    PROVE  Assignment(t) \subseteq Pumps \cup {NoPump}
  BY DEF TypeOK, Assignment, Candidates, LeastBusy

\* MarkPaid's SELECT leaves one of the values its switch tells apart.
LEMMA ReadStatusType ==
    ASSUME TypeOK, NEW t \in Tickets, NEW v \in Via, ReadStatus(t, v)
    PROVE  saw' \in [Tickets -> [Via -> {"none", "pending", "settled"}]]
  BY DEF TypeOK, ReadStatus

LEMMA PurchasingType ==
    ASSUME TypeOK, NEW t \in Tickets, Purchasing(t)
    PROVE  TypeOK'
<1> USE DEF TypeOK, rowVars, payVars, deskVars, history
<1>1. ASSUME NEW k \in {"online", "cash"}, BeginPurchase(t, k)
      PROVE  TypeOK'
  BY <1>1 DEF BeginPurchase
<1>2. ASSUME NEW c \in Codes, InsertTicket(t, c)
      PROVE  TypeOK'
  <2>1. Assignment(t) \subseteq Pumps \cup {NoPump}
    BY AssignmentType
  <2>2. status' \in [Tickets -> Status] /\ pump' \in [Tickets -> Pumps \cup {NoPump}]
    <3>1. PICK s \in {"pending", "paid"} : status' = [status EXCEPT ![t] = s]
      BY <1>2 DEF InsertTicket
    <3>2. PICK p \in Pumps \cup {NoPump} : pump' = pump \/ pump' = [pump EXCEPT ![t] = p]
      BY <1>2, <2>1 DEF InsertTicket
    <3> QED BY <3>1, <3>2 DEF Status
  <2>3. overtaken' \subseteq Tickets
    BY <1>2 DEF InsertTicket
  <2> QED BY <1>2, <2>2, <2>3 DEF InsertTicket
<1>3. ASSUME NEW c \in Codes, InsertCollides(t, c)
      PROVE  TypeOK'
  BY <1>3 DEF InsertCollides
<1>4. CASE InsertRefused(t)
  BY <1>4 DEF InsertRefused
<1>5. CASE PurchaseDies(t)
  BY <1>5 DEF PurchaseDies
<1> QED BY <1>1, <1>2, <1>3, <1>4, <1>5 DEF Purchasing

LEMMA PayingType ==
    ASSUME TypeOK, NEW t \in Tickets, Paying(t)
    PROVE  TypeOK'
<1> USE DEF TypeOK, rowVars, payVars, deskVars, history
<1>1. ASSUME NEW outcome \in {"checkout", "failed"}, Initialize(t, outcome)
      PROVE  TypeOK'
  BY <1>1 DEF Initialize
<1>2. ASSUME NEW outcome \in {"success", "mismatch"}, Charge(t, outcome)
      PROVE  TypeOK'
  BY <1>2 DEF Charge
<1>3. CASE DeliverWebhook(t)
  <2>1. CASE Confirmable(t) /\ ReadStatus(t, "webhook") /\ UNCHANGED event
    <3>1. saw' \in [Tickets -> [Via -> {"none", "pending", "settled"}]]
      BY <2>1, ReadStatusType DEF Via
    <3> QED BY <1>3, <2>1, <3>1 DEF DeliverWebhook
  <2>2. CASE UNCHANGED saw
    BY <1>3, <2>2 DEF DeliverWebhook
  <2> QED BY <1>3, <2>1, <2>2 DEF DeliverWebhook
<1>4. CASE LookupFails(t)
  BY <1>4 DEF LookupFails
<1>5. CASE Callback(t)
  <2>1. saw' \in [Tickets -> [Via -> {"none", "pending", "settled"}]]
    BY <1>5, ReadStatusType DEF Callback, Via
  <2> QED BY <1>5, <2>1 DEF Callback
<1>6. ASSUME NEW v \in Via, FinishConfirm(t, v)
      PROVE  TypeOK'
  <2>1. Assignment(t) \subseteq Pumps \cup {NoPump}
    BY AssignmentType
  <2>2. pump' \in [Tickets -> Pumps \cup {NoPump}]
    BY <1>6, <2>1 DEF FinishConfirm
  <2>3. status' \in [Tickets -> Status] /\ overwritten' \subseteq Tickets
    BY <1>6 DEF FinishConfirm, Status
  <2>4. saw' \in [Tickets -> [Via -> {"none", "pending", "settled"}]]
    BY <1>6 DEF FinishConfirm
  <2>5. event' \in [Tickets -> {"none", "due", "acked"}]
    BY <1>6 DEF FinishConfirm
  <2> QED BY <1>6, <2>2, <2>3, <2>4, <2>5 DEF FinishConfirm
<1>7. ASSUME NEW v \in Via, ConfirmFails(t, v)
      PROVE  TypeOK'
  BY <1>7 DEF ConfirmFails
<1> QED BY <1>1, <1>2, <1>3, <1>4, <1>5, <1>6, <1>7 DEF Paying

LEMMA ServingType ==
    ASSUME TypeOK, NEW t \in Tickets, Serving(t)
    PROVE  TypeOK'
<1> USE DEF TypeOK, rowVars, payVars, deskVars, history, Status
<1>1. CASE Redeem(t)
  BY <1>1 DEF Redeem
<1>2. CASE StartDispensing(t)
  BY <1>2 DEF StartDispensing
<1>3. CASE CloseFilled(t)
  BY <1>3 DEF CloseFilled
<1>4. CASE VoidTicket(t)
  BY <1>4 DEF VoidTicket
<1>5. CASE ConfirmReceived(t)
  BY <1>5 DEF ConfirmReceived
<1>6. CASE SetConfirmedAt(t)
  BY <1>6 DEF SetConfirmedAt
<1>7. CASE ConfirmReceivedFails(t)
  BY <1>7 DEF ConfirmReceivedFails
<1> QED BY <1>1, <1>2, <1>3, <1>4, <1>5, <1>6, <1>7 DEF Serving

LEMMA TypeStep == TypeOK /\ [Next]_vars => TypeOK'
<1> SUFFICES ASSUME TypeOK, [Next]_vars
             PROVE  TypeOK'
  OBVIOUS
<1>1. ASSUME NEW t \in Tickets, Purchasing(t) \/ Paying(t) \/ Serving(t)
      PROVE  TypeOK'
  BY <1>1, PurchasingType, PayingType, ServingType
<1>2. ASSUME NEW p \in Pumps, UpsertPump(p)
      PROVE  TypeOK'
  BY <1>2 DEF UpsertPump, TypeOK, rowVars, payVars, deskVars, history
<1>3. ASSUME NEW p \in Pumps, BulkCloseFilled(p)
      PROVE  TypeOK'
  BY <1>3 DEF BulkCloseFilled, TypeOK, Status, payVars, deskVars, history
<1>4. CASE UNCHANGED vars
  BY <1>4 DEF vars, TypeOK, rowVars, payVars, deskVars, history
<1> QED BY <1>1, <1>2, <1>3, <1>4 DEF Next

\* Every variable keeps its type: no handler writes a status, a pump or a code the
\* schema's constraints would refuse.
THEOREM TypeCorrect == Spec => []TypeOK
<1>1. Init => TypeOK
  BY DEF Init, TypeOK, Status, NoPump
<1> QED BY <1>1, TypeStep, PTL DEF Spec

----------------------------------------------------------------------------
(* The inductive invariant.  What the runs check is not inductive by itself: *)
(* a confirmation between its SELECT and its UPDATE must already rest on a   *)
(* charge, a Confirm between its two statements on a filled ticket, and the  *)
(* redeemable ticket must be the youngest while it is pending or dispensing. *)

\* A row and its history exist only after the purchase committed.
RowIsBought ==
    \A t \in Tickets : buying[t] # "done" => status[t] = "none" /\ starts[t] = 0

\* Whoever is about to mark a row paid was told by Paystack that it is.
SawIsCharged ==
    \A t \in Tickets : \A v \in Via :
        saw[t][v] # "none" => paystack[t] = "success" /\ status[t] # "none"

\* An open ticket is the youngest under its code, outside the two exceptions.
OpenIsYoungest ==
    \A t \in Tickets \ (overwritten \cup overtaken) : Open(t) => Youngest(t)

\* A Confirm under way was told that the ticket is filled.
ConfirmingIsFilled ==
    \A t \in (confirmed \cup confirming) \ overwritten : status[t] = "filled"

TicketInv ==
    /\ TypeOK
    /\ RowIsBought
    /\ SawIsCharged
    /\ OpenCodesUnique
    /\ FundedBeforeGas
    /\ RedeemedOnce
    /\ OpenIsYoungest
    /\ ConfirmingIsFilled

LEMMA TicketInvInit == Init => TicketInv
<1> SUFFICES ASSUME Init
             PROVE  TicketInv
  OBVIOUS
<1>1. TypeOK
  BY DEF Init, TypeOK, Status, NoPump
<1>2. RowIsBought /\ SawIsCharged /\ FundedBeforeGas /\ RedeemedOnce
  BY DEF Init, RowIsBought, SawIsCharged, FundedBeforeGas, RedeemedOnce, SettledStatuses
<1>3. OpenCodesUnique /\ OpenIsYoungest /\ ConfirmingIsFilled
  BY DEF Init, OpenCodesUnique, OpenIsYoungest, ConfirmingIsFilled, Open, OpenStatuses
<1> QED BY <1>1, <1>2, <1>3 DEF TicketInv

\* The conjuncts of the invariant that speak of the rows alone.
LEMMA RowsUnchanged ==
    ASSUME TicketInv, TypeOK',
           UNCHANGED <<status, code, kind, born, paystack, starts, overwritten, overtaken>>
    PROVE  /\ OpenCodesUnique' /\ RedeemedOnce' /\ OpenIsYoungest' /\ FundedBeforeGas'
           /\ UNCHANGED buying => RowIsBought'
           /\ UNCHANGED saw => SawIsCharged'
           /\ UNCHANGED <<confirmed, confirming>> => ConfirmingIsFilled'
<1> USE DEF TicketInv
<1>1. OpenCodesUnique'
  BY DEF OpenCodesUnique, Open
<1>2. RedeemedOnce' /\ FundedBeforeGas'
  BY DEF RedeemedOnce, FundedBeforeGas, Funded
<1>3. OpenIsYoungest'
  BY DEF OpenIsYoungest, Open, Youngest
<1>4. UNCHANGED buying => RowIsBought'
  BY DEF RowIsBought
<1>5. UNCHANGED saw => SawIsCharged'
  BY DEF SawIsCharged
<1>6. UNCHANGED <<confirmed, confirming>> => ConfirmingIsFilled'
  BY DEF ConfirmingIsFilled
<1> QED BY <1>1, <1>2, <1>3, <1>4, <1>5, <1>6

LEMMA PurchasingInv ==
    ASSUME TicketInv, NEW t \in Tickets, Purchasing(t)
    PROVE  TicketInv'
<1> USE DEF rowVars, payVars, deskVars, history
<1>0. TypeOK /\ TypeOK'
  BY PurchasingType DEF TicketInv
<1>1. ASSUME NEW k \in {"online", "cash"}, BeginPurchase(t, k)
      PROVE  TicketInv'
  <2>1. status[t] = "none" /\ starts[t] = 0
    BY <1>1 DEF BeginPurchase, TicketInv, RowIsBought
  <2>2. \A u \in Tickets : status'[u] = status[u] /\ code'[u] = code[u]
                          /\ (u # t => born'[u] = born[u] /\ kind'[u] = kind[u])
    BY <1>0, <1>1 DEF BeginPurchase, TypeOK
  <2>3. FundedBeforeGas'
    BY <1>1, <2>1, <2>2 DEF BeginPurchase, TicketInv, FundedBeforeGas, Funded, SettledStatuses
  <2>4. OpenIsYoungest'
    BY <1>1, <2>1, <2>2 DEF BeginPurchase, TicketInv, OpenIsYoungest, Youngest, Open,
                            OpenStatuses
  <2>5. RowIsBought' /\ SawIsCharged'
    BY <1>0, <1>1, <2>1 DEF BeginPurchase, TicketInv, RowIsBought, SawIsCharged, TypeOK
  <2>6. OpenCodesUnique' /\ RedeemedOnce' /\ ConfirmingIsFilled'
    BY <1>1 DEF BeginPurchase, TicketInv, OpenCodesUnique, Open, RedeemedOnce,
                ConfirmingIsFilled
  <2> QED BY <1>0, <2>3, <2>4, <2>5, <2>6 DEF TicketInv
<1>2. ASSUME NEW c \in Codes, InsertTicket(t, c)
      PROVE  TicketInv'
  <2>1. status[t] = "none" /\ starts[t] = 0
    BY <1>2 DEF InsertTicket, TicketInv, RowIsBought
  <2>2. /\ \A u \in Tickets \ {t} : status'[u] = status[u] /\ code'[u] = code[u]
        /\ code'[t] = c
        /\ status'[t] \in {"pending", "paid"}
        /\ status'[t] = "paid" => kind[t] = "cash"
        /\ \A u \in Tickets \ {t} : Open(u) => code[u] # c
    BY <1>0, <1>2 DEF InsertTicket, TypeOK, CodeFree
  <2>3. OpenCodesUnique'
    BY <2>2 DEF TicketInv, OpenCodesUnique, Open
  <2>4. FundedBeforeGas'
    BY <1>2, <2>1, <2>2 DEF InsertTicket, TicketInv, FundedBeforeGas, Funded,
                            SettledStatuses
  <2>5. RedeemedOnce'
    BY <1>2, <2>1, <2>2 DEF InsertTicket, TicketInv, RedeemedOnce
  <2>6. OpenIsYoungest'
    <3> SUFFICES ASSUME NEW u \in Tickets \ (overwritten' \cup overtaken'), Open(u)',
                        NEW w \in Tickets, status'[w] # "none", code'[w] = code'[u]
                 PROVE  born'[w] <= born'[u]
      BY DEF OpenIsYoungest, Youngest
    <3>1. UNCHANGED <<born, overwritten>> /\ overtaken \subseteq overtaken'
      BY <1>2 DEF InsertTicket
    <3>2. CASE u = t /\ w # t
      <4>1. ~(born[w] > born[t])
        BY <1>2, <2>2, <3>2, <3>1 DEF InsertTicket
      <4> QED BY <1>0, <3>1, <3>2, <4>1 DEF TypeOK
    <3>3. CASE u # t
      <4>1. w # t
        BY <2>2, <3>3 DEF Open
      <4> QED BY <2>2, <3>1, <3>3, <4>1 DEF TicketInv, OpenIsYoungest, Youngest, Open
    <3>4. CASE u = w
      BY <1>0, <3>1, <3>4 DEF TypeOK
    <3> QED BY <3>2, <3>3, <3>4
  <2>7. RowIsBought'
    BY <1>0, <1>2, <2>2 DEF InsertTicket, TicketInv, RowIsBought, TypeOK
  <2>8. SawIsCharged'
    BY <1>0, <1>2 DEF InsertTicket, TicketInv, SawIsCharged, TypeOK
  <2>9. ConfirmingIsFilled'
    BY <1>0, <1>2, <2>1, <2>2 DEF InsertTicket, TicketInv, ConfirmingIsFilled, TypeOK
  <2> QED BY <1>0, <2>3, <2>4, <2>5, <2>6, <2>7, <2>8, <2>9 DEF TicketInv
<1>3. ASSUME NEW b \in {"aborted", "refused", "died"}, buying[t] # "done",
             buying' = [buying EXCEPT ![t] = b],
             UNCHANGED <<status, code, kind, born, paystack, saw, confirmed, confirming,
                         starts, overwritten, overtaken>>
      PROVE  TicketInv'
  <2>1. RowIsBought' /\ SawIsCharged'
    BY <1>0, <1>3 DEF TicketInv, RowIsBought, SawIsCharged, TypeOK
  <2> QED BY <1>0, <1>3, <2>1, RowsUnchanged DEF TicketInv
<1>4. ASSUME NEW c \in Codes, InsertCollides(t, c)
      PROVE  TicketInv'
  BY <1>3, <1>4 DEF InsertCollides
<1>5. CASE InsertRefused(t)
  <2>1. buying[t] # "done"
    BY <1>5 DEF InsertRefused
  <2> QED BY <1>3, <1>5, <2>1 DEF InsertRefused
<1>6. CASE PurchaseDies(t)
  BY <1>3, <1>6 DEF PurchaseDies
<1> QED BY <1>1, <1>2, <1>4, <1>5, <1>6 DEF Purchasing

LEMMA PayingInv ==
    ASSUME TicketInv, NEW t \in Tickets, Paying(t)
    PROVE  TicketInv'
<1> USE DEF rowVars, payVars, deskVars, history
<1>0. TypeOK /\ TypeOK'
  BY PayingType DEF TicketInv
\* Initialize and Charge: t was not charged before, and stays funded if it was.
<1>1. ASSUME NEW x \in {"checkout", "failed", "success", "mismatch"}, paystack[t] # "success",
             paystack' = [paystack EXCEPT ![t] = x],
             UNCHANGED <<status, code, kind, born, buying, saw, confirmed, confirming,
                         starts, overwritten, overtaken>>
      PROVE  TicketInv'
  <2>1. \A u \in Tickets : Funded(u) => Funded(u)'
    BY <1>0, <1>1 DEF Funded, TypeOK
  <2>2. FundedBeforeGas'
    BY <1>1, <2>1 DEF TicketInv, FundedBeforeGas
  <2>3. SawIsCharged'
    BY <1>0, <1>1 DEF TicketInv, SawIsCharged, TypeOK
  <2>4. OpenCodesUnique' /\ RedeemedOnce' /\ RowIsBought' /\ ConfirmingIsFilled'
    BY <1>1 DEF TicketInv, OpenCodesUnique, Open, RedeemedOnce, RowIsBought,
                ConfirmingIsFilled
  <2>5. OpenIsYoungest'
    BY <1>1 DEF TicketInv, OpenIsYoungest, Open, Youngest
  <2> QED BY <1>0, <2>2, <2>3, <2>4, <2>5 DEF TicketInv
<1>2. ASSUME NEW outcome \in {"checkout", "failed"}, Initialize(t, outcome)
      PROVE  TicketInv'
  BY <1>1, <1>2 DEF Initialize
<1>3. ASSUME NEW outcome \in {"success", "mismatch"}, Charge(t, outcome)
      PROVE  TicketInv'
  BY <1>1, <1>3 DEF Charge
\* The requests that only read, or forget what they read.
<1>4. ASSUME SawIsCharged',
             UNCHANGED <<status, code, kind, born, paystack, buying, confirmed, confirming,
                         starts, overwritten, overtaken>>
      PROVE  TicketInv'
  BY <1>0, <1>4, RowsUnchanged DEF TicketInv
<1>5. ASSUME NEW v \in Via, Confirmable(t), ReadStatus(t, v), UNCHANGED <<paystack, status>>
      PROVE  SawIsCharged'
  <2>1. status[t] # "none"
    BY <1>5 DEF Confirmable, SettledStatuses
  <2> QED BY <1>0, <1>5, <2>1 DEF TicketInv, SawIsCharged, ReadStatus, Confirmable, TypeOK
<1>6. CASE DeliverWebhook(t)
  <2>1. SawIsCharged'
    BY <1>5, <1>6 DEF DeliverWebhook, TicketInv, SawIsCharged, Via
  <2> QED BY <1>4, <1>6, <2>1 DEF DeliverWebhook
<1>7. CASE LookupFails(t)
  <2>1. SawIsCharged'
    BY <1>7 DEF LookupFails, TicketInv, SawIsCharged
  <2> QED BY <1>4, <1>7, <2>1 DEF LookupFails
<1>8. CASE Callback(t)
  <2>1. SawIsCharged'
    BY <1>5, <1>8 DEF Callback, Via
  <2> QED BY <1>4, <1>8, <2>1 DEF Callback
<1>9. ASSUME NEW v \in Via, ConfirmFails(t, v)
      PROVE  TicketInv'
  <2>1. SawIsCharged'
    BY <1>0, <1>9 DEF ConfirmFails, TicketInv, SawIsCharged, TypeOK
  <2> QED BY <1>4, <1>9, <2>1 DEF ConfirmFails
\* MarkPaid's UPDATE and commit.
<1>10. ASSUME NEW v \in Via, FinishConfirm(t, v)
       PROVE  TicketInv'
  <2>1. /\ paystack[t] = "success" /\ status[t] # "none"
        /\ UNCHANGED <<code, kind, confirmed, confirming, born, buying, paystack, starts,
                       overtaken>>
    BY <1>10 DEF FinishConfirm, TicketInv, SawIsCharged
  <2>2. SawIsCharged'
    BY <1>0, <1>10, <2>1 DEF FinishConfirm, TicketInv, SawIsCharged, TypeOK
  <2>3. CASE saw[t][v] = "settled"
    <3>1. UNCHANGED <<status, overwritten>>
      BY <1>10, <2>3 DEF FinishConfirm
    <3> QED BY <1>4, <2>1, <2>2, <3>1
  <2>4. CASE saw[t][v] = "pending"
    <3>1. /\ CodeFree(t, code[t])
          /\ status'[t] = "paid"
          /\ \A u \in Tickets \ {t} : status'[u] = status[u]
          /\ overwritten \subseteq overwritten'
          /\ t \in overwritten' \/ status[t] \in {"pending", "paid"}
      BY <1>0, <1>10, <2>4 DEF FinishConfirm, TypeOK
    <3>2. OpenCodesUnique'
      BY <2>1, <3>1 DEF TicketInv, OpenCodesUnique, Open, CodeFree
    <3>3. FundedBeforeGas'
      BY <2>1, <3>1 DEF TicketInv, FundedBeforeGas, Funded
    <3>4. RedeemedOnce'
      BY <2>1, <3>1 DEF TicketInv, RedeemedOnce
    <3>5. OpenIsYoungest'
      <4>1. \A u \in Tickets : status'[u] # "none" => status[u] # "none" \/ u = t
        BY <3>1
      <4>2. \A u \in Tickets \ (overwritten' \cup overtaken') :
               Open(u)' => Open(u) /\ u \notin overwritten \cup overtaken
        BY <2>1, <3>1 DEF Open, OpenStatuses
      <4> QED BY <2>1, <4>1, <4>2 DEF TicketInv, OpenIsYoungest, Youngest
    <3>6. RowIsBought'
      BY <2>1, <3>1 DEF TicketInv, RowIsBought
    <3>7. ConfirmingIsFilled'
      BY <2>1, <3>1 DEF TicketInv, ConfirmingIsFilled, TypeOK
    <3> QED BY <1>0, <2>2, <3>2, <3>3, <3>4, <3>5, <3>6, <3>7 DEF TicketInv
  <2> QED BY <1>0, <1>10, <2>3, <2>4 DEF FinishConfirm, TypeOK
<1> QED BY <1>2, <1>3, <1>6, <1>7, <1>8, <1>9, <1>10 DEF Paying

\* What a ticket that is closed as x was before.
ClosedFrom(x) == IF x = "filled" THEN {"dispensing"} ELSE {"pending", "paid"}

\* The tickets of S leave the open statuses, filled or void.
LEMMA ClosingInv ==
    ASSUME TicketInv, TypeOK', NEW S \in SUBSET Tickets, NEW x \in {"filled", "voided"},
           \A u \in Tickets \ S : status'[u] = status[u],
           \A u \in S : status'[u] = x /\ status[u] \in ClosedFrom(x),
           UNCHANGED <<code, kind, born, buying, paystack, saw, confirmed, confirming,
                       starts, overwritten, overtaken>>
    PROVE  TicketInv'
<1> USE DEF TicketInv, ClosedFrom
<1>1. \A u \in Tickets : /\ status'[u] \in OpenStatuses => status[u] \in OpenStatuses
                        /\ status'[u] # "none" <=> status[u] # "none"
  BY DEF OpenStatuses
<1>2. OpenCodesUnique'
  BY <1>1 DEF OpenCodesUnique, Open
<1>3. FundedBeforeGas'
  BY DEF FundedBeforeGas, Funded, SettledStatuses
<1>4. RedeemedOnce'
  BY DEF RedeemedOnce
<1>5. OpenIsYoungest'
  BY <1>1 DEF OpenIsYoungest, Youngest, Open
<1>6. RowIsBought' /\ SawIsCharged'
  BY <1>1 DEF RowIsBought, SawIsCharged
<1>7. ConfirmingIsFilled'
  BY DEF ConfirmingIsFilled, TypeOK
<1> QED BY <1>2, <1>3, <1>4, <1>5, <1>6, <1>7

LEMMA ServingInv ==
    ASSUME TicketInv, NEW t \in Tickets, Serving(t)
    PROVE  TicketInv'
<1> USE DEF rowVars, payVars, deskVars, history
<1>0. TypeOK /\ TypeOK'
  BY ServingType DEF TicketInv
<1>1. CASE Redeem(t)
  BY <1>0, <1>1, RowsUnchanged DEF Redeem, TicketInv
<1>2. CASE StartDispensing(t)
  <2>1. /\ status[t] = "paid" /\ status'[t] = "dispensing"
        /\ \A u \in Tickets \ {t} : status'[u] = status[u] /\ starts'[u] = starts[u]
        /\ starts'[t] = starts[t] + 1
    BY <1>0, <1>2 DEF StartDispensing, TypeOK
  <2>2. OpenCodesUnique'
    BY <1>2, <2>1 DEF StartDispensing, TicketInv, OpenCodesUnique, Open, OpenStatuses
  <2>3. FundedBeforeGas'
    BY <1>2, <2>1 DEF StartDispensing, TicketInv, FundedBeforeGas, Funded, SettledStatuses
  <2>4. RedeemedOnce'
    BY <1>2, <2>1 DEF StartDispensing, TicketInv, RedeemedOnce
  <2>5. OpenIsYoungest'
    BY <1>2, <2>1 DEF StartDispensing, TicketInv, OpenIsYoungest, Youngest, Open,
                      OpenStatuses
  <2>6. RowIsBought'
    BY <1>2, <2>1 DEF StartDispensing, TicketInv, RowIsBought
  <2>7. SawIsCharged' /\ ConfirmingIsFilled'
    BY <1>2, <2>1 DEF StartDispensing, TicketInv, SawIsCharged, ConfirmingIsFilled
  <2> QED BY <1>0, <2>2, <2>3, <2>4, <2>5, <2>6, <2>7 DEF TicketInv
<1>3. CASE CloseFilled(t)
  <2>1. status[t] = "dispensing"
    BY <1>3 DEF CloseFilled
  <2>2. status'[t] = "filled" /\ \A u \in Tickets \ {t} : status'[u] = status[u]
    BY <1>0, <1>3 DEF CloseFilled, TypeOK
  <2>3. UNCHANGED <<code, kind, born, buying, paystack, saw, confirmed, confirming,
                    starts, overwritten, overtaken>>
    BY <1>3 DEF CloseFilled
  <2> DEFINE S == {t}
  <2>4. S \in SUBSET Tickets /\ \A u \in S : u = t
    OBVIOUS
  <2>5. \A u \in Tickets \ S : status'[u] = status[u]
    BY <2>2
  <2>6. \A u \in S : status'[u] = "filled" /\ status[u] \in ClosedFrom("filled")
    BY <2>1, <2>2 DEF ClosedFrom
  <2> QED
    <3> HIDE DEF S
    <3> QED BY <1>0, <2>3, <2>4, <2>5, <2>6, ClosingInv
<1>4. CASE VoidTicket(t)
  <2>1. status[t] \in {"pending", "paid"}
    BY <1>4 DEF VoidTicket
  <2>2. status'[t] = "voided" /\ \A u \in Tickets \ {t} : status'[u] = status[u]
    BY <1>0, <1>4 DEF VoidTicket, TypeOK
  <2>3. UNCHANGED <<code, kind, born, buying, paystack, saw, confirmed, confirming,
                    starts, overwritten, overtaken>>
    BY <1>4 DEF VoidTicket
  <2> DEFINE S == {t}
  <2>4. S \in SUBSET Tickets /\ \A u \in S : u = t
    OBVIOUS
  <2>5. \A u \in Tickets \ S : status'[u] = status[u]
    BY <2>2
  <2>6. \A u \in S : status'[u] = "voided" /\ status[u] \in ClosedFrom("voided")
    BY <2>1, <2>2 DEF ClosedFrom
  <2> QED
    <3> HIDE DEF S
    <3> QED BY <1>0, <2>3, <2>4, <2>5, <2>6, ClosingInv
<1>5. CASE ConfirmReceived(t)
  <2>1. ConfirmingIsFilled'
    BY <1>5 DEF ConfirmReceived, TicketInv, ConfirmingIsFilled
  <2> QED BY <1>0, <1>5, <2>1, RowsUnchanged DEF ConfirmReceived, TicketInv
<1>6. CASE SetConfirmedAt(t)
  <2>1. ConfirmingIsFilled'
    BY <1>6 DEF SetConfirmedAt, TicketInv, ConfirmingIsFilled
  <2> QED BY <1>0, <1>6, <2>1, RowsUnchanged DEF SetConfirmedAt, TicketInv
<1>7. CASE ConfirmReceivedFails(t)
  <2>1. ConfirmingIsFilled'
    BY <1>7 DEF ConfirmReceivedFails, TicketInv, ConfirmingIsFilled
  <2> QED BY <1>0, <1>7, <2>1, RowsUnchanged DEF ConfirmReceivedFails, TicketInv
<1> QED BY <1>1, <1>2, <1>3, <1>4, <1>5, <1>6, <1>7 DEF Serving

LEMMA BulkCloseInv ==
    ASSUME TicketInv, TypeOK', NEW p \in Pumps, BulkCloseFilled(p)
    PROVE  TicketInv'
<1> DEFINE S == {t \in Tickets : pump[t] = p /\ status[t] = "dispensing"}
<1>1. UNCHANGED <<code, kind, born, buying, paystack, saw, confirmed, confirming,
                  starts, overwritten, overtaken>>
  BY DEF BulkCloseFilled, payVars, deskVars, history
<1>2. \A u \in Tickets \ S : status'[u] = status[u]
  BY DEF BulkCloseFilled
<1>3. \A u \in S : status'[u] = "filled" /\ status[u] \in ClosedFrom("filled")
  BY DEF BulkCloseFilled, ClosedFrom
<1>4. S \in SUBSET Tickets
  OBVIOUS
<1> QED
  <2> HIDE DEF S
  <2> QED BY <1>1, <1>2, <1>3, <1>4, ClosingInv

LEMMA TicketInvStep == TicketInv /\ [Next]_vars => TicketInv'
<1> SUFFICES ASSUME TicketInv, [Next]_vars
             PROVE  TicketInv'
  OBVIOUS
<1>1. TypeOK'
  BY TypeStep DEF TicketInv
<1>2. ASSUME NEW t \in Tickets, Purchasing(t) \/ Paying(t) \/ Serving(t)
      PROVE  TicketInv'
  BY <1>2, PurchasingInv, PayingInv, ServingInv
<1>3. ASSUME NEW p \in Pumps, UpsertPump(p)
      PROVE  TicketInv'
  BY <1>1, <1>3, RowsUnchanged DEF UpsertPump, TicketInv, rowVars, payVars, deskVars, history
<1>4. ASSUME NEW p \in Pumps, BulkCloseFilled(p)
      PROVE  TicketInv'
  BY <1>1, <1>4, BulkCloseInv
<1>5. CASE UNCHANGED vars
  BY <1>1, <1>5, RowsUnchanged DEF vars, TicketInv, rowVars, payVars, deskVars, history
<1> QED BY <1>2, <1>3, <1>4, <1>5 DEF Next

LEMMA Invariance == Spec => []TicketInv
BY TicketInvInit, TicketInvStep, PTL DEF Spec

\* The partial unique index suffices: however requests interleave, no two tickets
\* that can still be redeemed share a code.
THEOREM CodesUnique == Spec => []OpenCodesUnique
<1>1. TicketInv => OpenCodesUnique
  BY DEF TicketInv
<1> QED BY <1>1, Invariance, PTL

\* No gas without money: a ticket is paid, dispensed or filled only when cash was
\* taken for it or Paystack holds a successful charge of its amount.
THEOREM GasIsFunded == Spec => []FundedBeforeGas
<1>1. TicketInv => FundedBeforeGas
  BY DEF TicketInv
<1> QED BY <1>1, Invariance, PTL

\* Gas is released at most once for a ticket MarkPaid did not bring back.
THEOREM GasReleasedOnce == Spec => []RedeemedOnce
<1>1. TicketInv => RedeemedOnce
  BY DEF TicketInv
<1> QED BY <1>1, Invariance, PTL

\* A paid ticket is found under its code, outside the two named exceptions.
THEOREM PaidIsRedeemable == Spec => []PaidTicketRedeemable
<1>1. TicketInv => PaidTicketRedeemable
  BY DEF TicketInv, OpenIsYoungest, PaidTicketRedeemable, Open, OpenStatuses
<1> QED BY <1>1, Invariance, PTL

\* Confirmed receipts are of filled tickets, outside MarkPaid's lost update.
THEOREM ConfirmedIsFilled == Spec => []ConfirmedWasFilled
<1>1. TicketInv => ConfirmedWasFilled
  BY DEF TicketInv, ConfirmingIsFilled, ConfirmedWasFilled
<1> QED BY <1>1, Invariance, PTL

\* The step gives t one of the pumps AssignLeastBusy allows.
Assigns(t) == \E p \in Assignment(t) : pump' = [pump EXCEPT ![t] = p]

\* AssignLeastBusy never moves a ticket that has a pump, whoever confirms it again.
THEOREM PumpStable == Spec => PumpNeverReassigned
<1>1. TypeOK /\ [Next]_vars => [\A t \in Tickets : pump[t] # NoPump => pump'[t] = pump[t]]_vars
  <2> SUFFICES ASSUME TypeOK, Next, NEW u \in Tickets, pump[u] # NoPump
               PROVE  pump'[u] = pump[u]
    OBVIOUS
  <2>1. ASSUME NEW t \in Tickets, Assigns(t)
        PROVE  pump'[u] = pump[u]
    BY <2>1 DEF Assigns, Assignment, TypeOK
  <2>2. Next => UNCHANGED pump \/ \E t \in Tickets : Assigns(t)
    BY DEF Next, Purchasing, Paying, Serving, BeginPurchase, InsertTicket, InsertCollides,
           InsertRefused, PurchaseDies, Initialize, Charge, DeliverWebhook, LookupFails,
           Callback, FinishConfirm, ConfirmFails, Redeem, StartDispensing, CloseFilled,
           VoidTicket, ConfirmReceived, SetConfirmedAt, ConfirmReceivedFails, UpsertPump,
           BulkCloseFilled, Assigns, rowVars
  <2> QED BY <2>1, <2>2
<1> QED BY <1>1, TypeCorrect, PTL DEF Spec, PumpNeverReassigned

----------------------------------------------------------------------------
(* What ChargedIsConfirmed rests on, apart from fairness: a payment that waits can always  *)
(* take its next step, and the last step settles it.                                       *)

\* The next step of t's webhook can be taken: a delivery that finds a match, or the UPDATE of
\* one that has, which neither the index nor the choice of a pump refuses.
WebhookGoesOn(t) ==
    /\ event[t] = "due"
    /\ \/ saw[t]["webhook"] = "none" /\ Confirmable(t)
       \/ saw[t]["webhook"] = "pending" /\ CodeFree(t, code[t]) /\ Assignment(t) # {}

\* A payment that Paystack holds for a pending ticket is on its way to be confirmed.
PaymentsComeThrough ==
    \A t \in Tickets : paystack[t] = "success" /\ status[t] = "pending" => WebhookGoesOn(t)

\* An event is acknowledged only when its ticket is not left pending, and who was told that a
\* ticket is settled was told for good.
EventIsDue ==
    /\ \A t \in Tickets : paystack[t] # "none" => status[t] # "none"
    /\ \A t \in Tickets : saw[t]["webhook"] = "settled" => status[t] # "pending"
    /\ ~LookupMayFail =>
         \A t \in Tickets : paystack[t] = "success" /\ status[t] = "pending" => event[t] = "due"

LEMMA EventIsDueStep == TicketInv /\ EventIsDue /\ [Next]_vars => EventIsDue'
<1> SUFFICES ASSUME TicketInv, EventIsDue, [Next]_vars PROVE EventIsDue'
  OBVIOUS
<1> USE DEF TicketInv, TypeOK
<1>1. ASSUME NEW t \in Tickets, Purchasing(t) PROVE EventIsDue'
  <2> USE DEF EventIsDue, rowVars, payVars
  <2>1. ASSUME NEW c \in Codes, InsertTicket(t, c) PROVE EventIsDue'
    <3>1. status[t] = "none" /\ UNCHANGED <<paystack, event, saw>>
      BY <2>1 DEF InsertTicket, RowIsBought
    <3>2. \A u \in Tickets \ {t} : status'[u] = status[u]
      BY <2>1 DEF InsertTicket
    <3>3. status'[t] # "none"
      BY <2>1 DEF InsertTicket
    <3>4. paystack[t] = "none" /\ saw[t]["webhook"] = "none"
      BY <3>1 DEF SawIsCharged, Via
    <3> QED BY <3>1, <3>2, <3>3, <3>4
  <2>2. CASE UNCHANGED <<status, paystack, event, saw>>
    BY <2>2
  <2> QED BY <1>1, <2>1, <2>2
       DEF Purchasing, BeginPurchase, InsertCollides, InsertRefused, PurchaseDies
<1>2. ASSUME NEW t \in Tickets, Paying(t) PROVE EventIsDue'
  <2> USE DEF EventIsDue, rowVars
  <2>1. ASSUME NEW outcome \in {"checkout", "failed"}, Initialize(t, outcome) PROVE EventIsDue'
    BY <2>1 DEF Initialize
  <2>2. ASSUME NEW outcome \in {"success", "mismatch"}, Charge(t, outcome) PROVE EventIsDue'
    BY <2>2 DEF Charge
  <2>3. CASE DeliverWebhook(t)
    <3>1. CASE Confirmable(t) /\ ReadStatus(t, "webhook") /\ UNCHANGED event
      BY <2>3, <3>1 DEF DeliverWebhook, ReadStatus, Via
    <3>2. CASE ~Confirmable(t) /\ UNCHANGED saw
      BY <2>3, <3>2 DEF DeliverWebhook, Confirmable
    <3> QED BY <2>3, <3>1, <3>2 DEF DeliverWebhook
  <2>4. CASE LookupFails(t)
    BY <2>4 DEF LookupFails
  <2>5. CASE Callback(t)
    BY <2>5 DEF Callback, ReadStatus, Via
  <2>6. ASSUME NEW v \in Via, FinishConfirm(t, v) PROVE EventIsDue'
    <3>1. /\ UNCHANGED paystack
          /\ \A u \in Tickets \ {t} : status'[u] = status[u] /\ event'[u] = event[u]
                                       /\ saw'[u] = saw[u]
          /\ saw'[t]["webhook"] \in {"none", saw[t]["webhook"]}
      BY <2>6 DEF FinishConfirm, Via
    <3>2. \/ status'[t] = "paid"
          \/ status'[t] = status[t] /\ saw[t][v] = "settled"
      BY <2>6 DEF FinishConfirm
    <3>3. event'[t] = event[t] \/ v = "webhook"
      BY <2>6 DEF FinishConfirm
\* The event may be acknowledged only if the ticket was, or has become, other than pending.
    <3>4. status'[t] = "pending" => status[t] = "pending" /\ event'[t] = event[t]
      BY <3>2, <3>3
    <3>5. \A u \in Tickets : /\ status'[u] = "none" => status[u] = "none"
                             /\ status'[u] = "pending" => status[u] = "pending" /\ event'[u] = event[u]
                             /\ saw'[u]["webhook"] \in {"none", saw[u]["webhook"]}
      BY <3>1, <3>2, <3>4
    <3> HIDE DEF TypeOK, TicketInv
    <3> QED BY <3>1, <3>5
  <2>7. ASSUME NEW v \in Via, ConfirmFails(t, v) PROVE EventIsDue'
    BY <2>7 DEF ConfirmFails, Via
  <2> QED BY <1>2, <2>1, <2>2, <2>3, <2>4, <2>5, <2>6, <2>7 DEF Paying
\* The terminal, the owner and the customer never leave a ticket pending that was not.
<1>3. ASSUME UNCHANGED <<paystack, event, saw>>,
             \A u \in Tickets : status'[u] = status[u] \/ status'[u] \notin {"none", "pending"}
      PROVE  EventIsDue'
  BY <1>3 DEF EventIsDue
<1>4. ASSUME NEW t \in Tickets, Serving(t) PROVE EventIsDue'
  <2>1. UNCHANGED <<paystack, event, saw>>
    BY <1>4 DEF Serving, Redeem, StartDispensing, CloseFilled, VoidTicket, ConfirmReceived,
            SetConfirmedAt, ConfirmReceivedFails, payVars
  <2>2. \A u \in Tickets : status'[u] = status[u] \/ status'[u] \notin {"none", "pending"}
    BY <1>4 DEF Serving, Redeem, StartDispensing, CloseFilled, VoidTicket, ConfirmReceived,
            SetConfirmedAt, ConfirmReceivedFails, rowVars
  <2> QED BY <1>3, <2>1, <2>2
<1>5. ASSUME NEW p \in Pumps, UpsertPump(p) \/ BulkCloseFilled(p) PROVE EventIsDue'
  <2>1. UNCHANGED <<paystack, event, saw>>
    BY <1>5 DEF UpsertPump, BulkCloseFilled, payVars
  <2>2. \A u \in Tickets : status'[u] = status[u] \/ status'[u] \notin {"none", "pending"}
    BY <1>5 DEF UpsertPump, BulkCloseFilled, rowVars
  <2> QED BY <1>3, <2>1, <2>2
<1>6. CASE UNCHANGED vars
  BY <1>3, <1>6 DEF vars, rowVars, payVars
<1> QED BY <1>1, <1>2, <1>4, <1>5, <1>6 DEF Next

\* Whatever is under way, AssignLeastBusy finds a pump if one works: of those that some
\* snapshot shows without tickets, the first.
LEMMA PumpIsFound == TypeOK => \A t \in Tickets : Assignment(t) # {}
<1> SUFFICES ASSUME TypeOK, working # {} PROVE Candidates # {}
  BY DEF Assignment
<1>1. working \subseteq Nat
  BY PumpsAssumption DEF TypeOK
<1>2. PICK p \in working : \A q \in working : ~(<<q, p>> \in OpToRel(<, Nat))
  BY <1>1, WFMin, NatLessThanWellFounded
<1>3. \A q \in working \ {p} : p < q
  <2> SUFFICES ASSUME NEW q \in working, q # p PROVE p < q
    OBVIOUS
  <2>1. <<q, p>> \in Nat \X Nat /\ <<q, p>> \notin OpToRel(<, Nat)
    BY <1>1, <1>2
  <2>2. ~(q < p)
    BY <2>1 DEF OpToRel
  <2> QED BY <1>1, <2>2
<1>4. \A q : BusyCount(q, Tickets) = 0
  BY FS_EmptySet DEF BusyCount
<1>5. p \in LeastBusy(Tickets)
  BY <1>3, <1>4 DEF LeastBusy
<1> QED BY <1>5 DEF Candidates

LEMMA EventsAreDue == Spec => []EventIsDue
<1>1. Init => EventIsDue
  BY DEF Init, EventIsDue, Via
<1> QED BY <1>1, EventIsDueStep, Invariance, PTL DEF Spec

\* If the webhook's lookup reaches its database, a successful charge of a pending ticket always
\* has a webhook that Paystack still delivers, and its next step can be taken: no other ticket's
\* code, no stale SELECT and no shortage of pumps can turn it away.
THEOREM PaymentsNotStranded == Spec => [](~LookupMayFail => PaymentsComeThrough)
<1>1. TicketInv /\ EventIsDue => (~LookupMayFail => PaymentsComeThrough)
  <2> SUFFICES ASSUME TicketInv, EventIsDue, ~LookupMayFail, NEW t \in Tickets,
                      paystack[t] = "success", status[t] = "pending"
               PROVE  WebhookGoesOn(t)
    BY DEF PaymentsComeThrough
  <2>1. event[t] = "due" /\ saw[t]["webhook"] \in {"none", "pending"}
    BY DEF EventIsDue, TicketInv, TypeOK, Via
  <2>2. CodeFree(t, code[t])
    BY DEF TicketInv, OpenCodesUnique, CodeFree, Open, OpenStatuses
  <2>3. Assignment(t) # {}
    BY PumpIsFound DEF TicketInv
  <2> QED BY <2>1, <2>2, <2>3 DEF WebhookGoesOn, Confirmable
<1> QED BY <1>1, EventsAreDue, Invariance, PTL

\* A confirmation by webhook that finishes leaves its ticket other than pending.
DeliverySettles == [][\A t \in Tickets : FinishConfirm(t, "webhook") => status'[t] # "pending"]_vars

\* A delivery that is not rolled back settles its ticket: what the SELECT called settled has
\* not become pending again.
THEOREM DeliveriesSettle == Spec => DeliverySettles
<1>1. TypeOK /\ EventIsDue =>
        [\A t \in Tickets : FinishConfirm(t, "webhook") => status'[t] # "pending"]_vars
  <2> SUFFICES ASSUME TypeOK, EventIsDue, NEW t \in Tickets, FinishConfirm(t, "webhook")
               PROVE  status'[t] # "pending"
    OBVIOUS
  <2>1. CASE saw[t]["webhook"] = "pending"
    BY <2>1 DEF FinishConfirm, TypeOK
  <2>2. CASE saw[t]["webhook"] = "settled"
    BY <2>2 DEF FinishConfirm, EventIsDue
  <2> QED BY <2>1, <2>2 DEF FinishConfirm
<1> QED BY <1>1, EventsAreDue, TypeCorrect, PTL DEF DeliverySettles
=============================================================================
