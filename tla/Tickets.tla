------------------------------ MODULE Tickets ------------------------------
(***************************************************************************)
(* The ticket table of one plant and everything that writes a row of it:   *)
(* the online checkout, the cash sale, the Paystack webhook and callback   *)
(* that confirm a payment, the terminal's redeem, fill and close, the      *)
(* owner's void and the customer's "confirm received".                     *)
(*                                                                         *)
(* Every handler runs one READ COMMITTED transaction.  A step of this      *)
(* module is one statement that another transaction can come in front of:  *)
(* a guarded UPDATE is one step (the row lock it takes is held to commit), *)
(* while MarkPaid and Confirm, which SELECT and then UPDATE without a      *)
(* guard, are two.  A request that fails or a server that crashes rolls    *)
(* its transaction back.                                                   *)
(***************************************************************************)
EXTENDS Integers, FiniteSets

CONSTANTS
    Tickets,          \* the purchases that may be attempted, one row each
    Codes,            \* the redemption codes (0000..9999 in the code)
    NoCode,           \* the code of a row that does not exist
    Pumps,            \* the plant's pumps, numbered in (sort_order, created_at) order
    MaxCodeAttempts,  \* maxCodeAttempts: how often Purchase draws a code
    LookupMayFail     \* whether the admin connection may fail in the webhook

ASSUME NoCodeAssumption == NoCode \notin Codes
ASSUME PumpsAssumption == Pumps \subseteq Nat \ {0}
ASSUME AttemptsAssumption == MaxCodeAttempts \in Nat \ {0}
ASSUME LookupAssumption == LookupMayFail \in BOOLEAN

VARIABLES
    status,      \* status[t]: the row's status, "none" while there is no row
    code,        \* code[t]: the row's redemption code
    kind,        \* kind[t]: bought "online", for "cash", or not yet at all
    pump,        \* pump[t]: pump_id, NoPump for NULL
    confirmed,   \* tickets whose confirmed_at is set
    working,     \* pumps whose status is 'working'
    born,        \* born[t]: created_at, the start of t's purchase transaction
    clock,       \* the database clock that now() reads
    buying,      \* buying[t]: where t's purchase transaction stands
    tries,       \* tries[t]: unique violations t's purchase has met
    paystack,    \* paystack[t]: the transaction Paystack holds under t's reference
    event,       \* event[t]: the charge.success webhook of t
    saw,         \* saw[t][v]: what MarkPaid's SELECT told request v
    onScreen,    \* tickets a terminal has been shown by Redeem
    confirming,  \* tickets between the SELECT and the UPDATE of a Confirm
    starts,      \* history: how often dispensing of t was started
    overwritten, \* history: tickets on which MarkPaid's UPDATE undid a later write
    overtaken    \* history: tickets created under a code a younger ticket used up

rowVars  == <<status, code, kind, pump, confirmed, born>>
payVars  == <<paystack, event, saw>>
deskVars == <<onScreen, confirming>>
history  == <<starts, overwritten, overtaken>>
vars == <<rowVars, working, clock, buying, tries, payVars, deskVars, history>>

NoPump == 0

\* The two requests that race to confirm one payment.
Via == {"webhook", "callback"}

Status == {"none", "pending", "paid", "dispensing", "filled", "voided"}

\* idx_tickets_open_code: the statuses in which a row holds its code.
OpenStatuses == {"pending", "paid", "dispensing"}

\* What MarkPaid and Redeem take for "money received, ticket in use or used".
SettledStatuses == {"paid", "dispensing", "filled"}

Open(t) == status[t] \in OpenStatuses

\* Mutants of CodeFree: the index of migration 0001, and one that forgets 'paid'.
CodeFree0001(t, c) ==
    \A u \in Tickets \ {t} : status[u] \in {"pending", "paid"} => code[u] # c
CodeFreeOfPending(t, c) ==
    \A u \in Tickets \ {t} : status[u] \in {"pending", "dispensing"} => code[u] # c

\* The partial unique index lets t hold code c.
CodeFree(t, c) == \A u \in Tickets \ {t} : Open(u) => code[u] # c

----------------------------------------------------------------------------
(* Pump assignment (internal/pumps). *)

\* p's paid and dispensing tickets, as a snapshot shows them: what another
\* transaction has not committed yet, it hides.
BusyCount(p, hidden) ==
    Cardinality({t \in Tickets \ hidden : pump[t] = p /\ status[t] \in {"paid", "dispensing"}})

LeastBusy(hidden) == {p \in working : \A q \in working \ {p} :
    \/ BusyCount(p, hidden) < BusyCount(q, hidden)
    \/ BusyCount(p, hidden) = BusyCount(q, hidden) /\ p < q}

\* The working pumps that are the least busy of some snapshot.
Candidates == UNION {LeastBusy(hidden) : hidden \in SUBSET Tickets}

\* Mutant: the UPDATE forgets "AND pump_id IS NULL".
AssignmentAnew(t) == IF working # {} THEN Candidates ELSE {NoPump}

\* The pumps AssignLeastBusy may leave t with: the one it has, the least
\* busy working one, or none.
Assignment(t) == CASE pump[t] # NoPump -> {pump[t]}
                   [] pump[t] = NoPump /\ working # {} -> Candidates
                   [] OTHER -> {NoPump}

\* The owner or a manager saves a pump as working or not working.
UpsertPump(p) ==
    /\ working' = IF p \in working THEN working \ {p} ELSE working \cup {p}
    /\ UNCHANGED <<rowVars, clock, buying, tries, payVars, deskVars, history>>

----------------------------------------------------------------------------
(* Purchase: CreatePending for the checkout, CreatePaidCash for the terminal. *)

\* The transaction opens, the plant is open and has a price.
BeginPurchase(t, k) ==
    /\ buying[t] = "idle"
    /\ buying' = [buying EXCEPT ![t] = "open"]
    /\ kind' = [kind EXCEPT ![t] = k]
    /\ clock' = clock + 1
    /\ born' = [born EXCEPT ![t] = clock]
    /\ UNCHANGED <<status, code, pump, confirmed, working, tries, payVars,
                   deskVars, history>>

\* The INSERT finds its code free; a cash sale is paid and given a pump at once.
InsertTicket(t, c) ==
    /\ buying[t] = "open"
    /\ CodeFree(t, c)
    /\ buying' = [buying EXCEPT ![t] = "done"]
    /\ code' = [code EXCEPT ![t] = c]
    /\ \/ /\ kind[t] = "online"
          /\ status' = [status EXCEPT ![t] = "pending"]
          /\ UNCHANGED pump
       \/ /\ kind[t] = "cash"
          /\ status' = [status EXCEPT ![t] = "paid"]
          /\ \E p \in Assignment(t) : pump' = [pump EXCEPT ![t] = p]
    /\ overtaken' = IF \E u \in Tickets : status[u] # "none" /\ code[u] = c /\ born[u] > born[t]
                      THEN overtaken \cup {t} ELSE overtaken
    /\ UNCHANGED <<kind, confirmed, working, born, clock, tries, payVars, deskVars,
                   starts, overwritten>>

\* The INSERT hits the index.  Postgres aborts the transaction.
InsertCollides(t, c) ==
    /\ buying[t] = "open"
    /\ tries[t] < MaxCodeAttempts
    /\ ~CodeFree(t, c)
    /\ tries' = [tries EXCEPT ![t] = @ + 1]
    /\ buying' = [buying EXCEPT ![t] = "aborted"]
    /\ UNCHANGED <<rowVars, working, clock, payVars, deskVars, history>>

\* Purchase returns an error: its attempts are used up, or the next INSERT is
\* refused because the transaction is aborted (25P02, not a unique violation).
InsertRefused(t) ==
    /\ \/ buying[t] = "aborted"
       \/ buying[t] = "open" /\ tries[t] = MaxCodeAttempts
    /\ buying' = [buying EXCEPT ![t] = "refused"]
    /\ UNCHANGED <<rowVars, working, clock, tries, payVars, deskVars, history>>

\* The request or the server dies before it commits.
PurchaseDies(t) ==
    /\ buying[t] = "open"
    /\ buying' = [buying EXCEPT ![t] = "died"]
    /\ UNCHANGED <<rowVars, working, clock, tries, payVars, deskVars, history>>

----------------------------------------------------------------------------
(* Paystack, as the code uses it. *)

\* After the commit the checkout is initialized, or that call fails.
Initialize(t, outcome) ==
    /\ status[t] # "none" /\ kind[t] = "online"
    /\ paystack[t] = "none"
    /\ paystack' = [paystack EXCEPT ![t] = outcome]
    /\ UNCHANGED <<rowVars, working, clock, buying, tries, event, saw, deskVars, history>>

\* The customer pays, the ticket's amount or another one; Paystack owes us a webhook.
Charge(t, outcome) ==
    /\ paystack[t] = "checkout"
    /\ paystack' = [paystack EXCEPT ![t] = outcome]
    /\ event' = [event EXCEPT ![t] = "due"]
    /\ UNCHANGED <<rowVars, working, clock, buying, tries, saw, deskVars, history>>

----------------------------------------------------------------------------
(* Confirmation of a payment. *)

\* Mutant: Verify's status is compared, its amount is not.
ConfirmableAnyAmount(t) ==
    paystack[t] \in {"success", "mismatch"} /\ status[t] \in {"pending"} \cup SettledStatuses

\* Verify's answer matches the ticket, and MarkPaid's SELECT goes on.
Confirmable(t) == paystack[t] = "success" /\ status[t] \in {"pending"} \cup SettledStatuses

ReadStatus(t, v) ==
    saw' = [saw EXCEPT ![t][v] = IF status[t] = "pending" THEN "pending" ELSE "settled"]

\* The webhook up to MarkPaid's SELECT.  A mismatch or a void ticket is acknowledged.
DeliverWebhook(t) ==
    /\ event[t] = "due" /\ saw[t]["webhook"] = "none"
    /\ \/ /\ Confirmable(t)
          /\ ReadStatus(t, "webhook")
          /\ UNCHANGED event
       \/ /\ ~Confirmable(t)
          /\ event' = [event EXCEPT ![t] = "acked"]
          /\ UNCHANGED saw
    /\ UNCHANGED <<rowVars, working, clock, buying, tries, paystack, deskVars, history>>

\* LookupPlantByReference fails for want of a database: the handler takes the
\* reference for unknown and acknowledges the event.
LookupFails(t) ==
    /\ LookupMayFail
    /\ event[t] = "due" /\ saw[t]["webhook"] = "none"
    /\ event' = [event EXCEPT ![t] = "acked"]
    /\ UNCHANGED <<rowVars, working, clock, buying, tries, paystack, saw, deskVars, history>>

\* The customer's browser lands on (or reloads) the callback page.
Callback(t) ==
    /\ Confirmable(t) /\ saw[t]["callback"] = "none"
    /\ ReadStatus(t, "callback")
    /\ UNCHANGED <<rowVars, working, clock, buying, tries, paystack, event, deskVars, history>>

\* The rest of the request: MarkPaid's UPDATE (by id alone), the pump, the commit.
\* The 200 that answers a webhook may be lost, and Paystack delivers again.
FinishConfirm(t, v) ==
    /\ saw[t][v] # "none"
    /\ \/ /\ saw[t][v] = "pending"
          /\ CodeFree(t, code[t])
          /\ status' = [status EXCEPT ![t] = "paid"]
          /\ overwritten' = IF status[t] \in {"pending", "paid"} THEN overwritten
                              ELSE overwritten \cup {t}
       \/ /\ saw[t][v] = "settled"
          /\ UNCHANGED <<status, overwritten>>
    /\ \E p \in Assignment(t) : pump' = [pump EXCEPT ![t] = p]
    /\ saw' = [saw EXCEPT ![t][v] = "none"]
    /\ \/ UNCHANGED event
       \/ v = "webhook" /\ event' = [event EXCEPT ![t] = "acked"]
    /\ UNCHANGED <<code, kind, confirmed, born, working, clock, buying, tries, paystack,
                   deskVars, starts, overtaken>>

\* Mutant: a failed transaction is answered with 200.
ConfirmFailsAcked(t, v) ==
    /\ saw[t][v] # "none"
    /\ saw' = [saw EXCEPT ![t][v] = "none"]
    /\ event' = IF v = "webhook" THEN [event EXCEPT ![t] = "acked"] ELSE event
    /\ UNCHANGED <<rowVars, working, clock, buying, tries, paystack, deskVars, history>>

\* The transaction fails (a database error, the index, a crash): 5xx, rolled back.
ConfirmFails(t, v) ==
    /\ saw[t][v] # "none"
    /\ saw' = [saw EXCEPT ![t][v] = "none"]
    /\ UNCHANGED <<rowVars, working, clock, buying, tries, paystack, event, deskVars, history>>

----------------------------------------------------------------------------
(* The terminal, the owner and the customer. *)

\* t is the youngest row under its code, the one Redeem looks at.
Youngest(t) == \A u \in Tickets : status[u] # "none" /\ code[u] = code[t] => born[u] <= born[t]

\* A cashier enters t's code and is shown t.
Redeem(t) ==
    /\ status[t] = "paid" /\ Youngest(t)
    /\ onScreen' = onScreen \cup {t}
    /\ UNCHANGED <<rowVars, working, clock, buying, tries, payVars, confirming, history>>

\* Mutants: the fill that also takes a ticket being dispensed, or a void one.
StartDispensingFrom(t, statuses) ==
    /\ t \in onScreen
    /\ status[t] \in statuses
    /\ status' = [status EXCEPT ![t] = "dispensing"]
    /\ starts' = [starts EXCEPT ![t] = @ + 1]
    /\ UNCHANGED <<code, kind, pump, confirmed, born, working, clock, buying, tries,
                   payVars, deskVars, overwritten, overtaken>>
StartDispensingTwice(t) == starts[t] < 2 /\ StartDispensingFrom(t, {"paid", "dispensing"})
StartDispensingVoided(t) == StartDispensingFrom(t, {"paid", "voided"})

StartDispensing(t) ==
    /\ t \in onScreen
    /\ status[t] = "paid"
    /\ status' = [status EXCEPT ![t] = "dispensing"]
    /\ starts' = [starts EXCEPT ![t] = @ + 1]
    /\ UNCHANGED <<code, kind, pump, confirmed, born, working, clock, buying, tries,
                   payVars, deskVars, overwritten, overtaken>>

CloseFilled(t) ==
    /\ status[t] = "dispensing"
    /\ status' = [status EXCEPT ![t] = "filled"]
    /\ UNCHANGED <<code, kind, pump, confirmed, born, working, clock, buying, tries,
                   payVars, deskVars, history>>

\* Every dispensing ticket of pump p is closed by one UPDATE.
BulkCloseFilled(p) ==
    /\ status' = [t \in Tickets |->
                    IF pump[t] = p /\ status[t] = "dispensing" THEN "filled" ELSE status[t]]
    /\ UNCHANGED <<code, kind, pump, confirmed, born, working, clock, buying, tries,
                   payVars, deskVars, history>>

\* Mutant: void tickets get a status of their own that no other handler knows.
VoidTicketCancelled(t) ==
    /\ status[t] \in {"pending", "paid"}
    /\ status' = [status EXCEPT ![t] = "cancelled"]
    /\ UNCHANGED <<code, kind, pump, confirmed, born, working, clock, buying, tries,
                   payVars, deskVars, history>>

VoidTicket(t) ==
    /\ status[t] \in {"pending", "paid"}
    /\ status' = [status EXCEPT ![t] = "voided"]
    /\ UNCHANGED <<code, kind, pump, confirmed, born, working, clock, buying, tries,
                   payVars, deskVars, history>>

\* Mutant: any ticket that left the counter can be confirmed.
ConfirmReceivedEarly(t) ==
    /\ status[t] \in {"dispensing", "filled"} /\ t \notin confirmed
    /\ confirming' = confirming \cup {t}
    /\ UNCHANGED <<rowVars, working, clock, buying, tries, payVars, onScreen, history>>

\* Confirm's SELECT finds a filled ticket that is not confirmed yet.
ConfirmReceived(t) ==
    /\ status[t] = "filled" /\ t \notin confirmed
    /\ confirming' = confirming \cup {t}
    /\ UNCHANGED <<rowVars, working, clock, buying, tries, payVars, onScreen, history>>

\* Its UPDATE, by reference alone.
SetConfirmedAt(t) ==
    /\ t \in confirming
    /\ confirming' = confirming \ {t}
    /\ confirmed' = confirmed \cup {t}
    /\ UNCHANGED <<status, code, kind, pump, born, working, clock, buying, tries, payVars,
                   onScreen, history>>

ConfirmReceivedFails(t) ==
    /\ t \in confirming
    /\ confirming' = confirming \ {t}
    /\ UNCHANGED <<rowVars, working, clock, buying, tries, payVars, onScreen, history>>

----------------------------------------------------------------------------
Init ==
    /\ status = [t \in Tickets |-> "none"]
    /\ code = [t \in Tickets |-> NoCode]
    /\ kind = [t \in Tickets |-> "none"]
    /\ pump = [t \in Tickets |-> NoPump]
    /\ confirmed = {}
    /\ working = Pumps
    /\ born = [t \in Tickets |-> 0]
    /\ clock = 1
    /\ buying = [t \in Tickets |-> "idle"]
    /\ tries = [t \in Tickets |-> 0]
    /\ paystack = [t \in Tickets |-> "none"]
    /\ event = [t \in Tickets |-> "none"]
    /\ saw = [t \in Tickets |-> [v \in Via |-> "none"]]
    /\ onScreen = {}
    /\ confirming = {}
    /\ starts = [t \in Tickets |-> 0]
    /\ overwritten = {}
    /\ overtaken = {}

Purchasing(t) ==
    \/ \E k \in {"online", "cash"} : BeginPurchase(t, k)
    \/ \E c \in Codes : InsertTicket(t, c)
    \/ \E c \in Codes : InsertCollides(t, c)
    \/ InsertRefused(t)
    \/ PurchaseDies(t)

Paying(t) ==
    \/ \E outcome \in {"checkout", "failed"} : Initialize(t, outcome)
    \/ \E outcome \in {"success", "mismatch"} : Charge(t, outcome)
    \/ DeliverWebhook(t)
    \/ LookupFails(t)
    \/ Callback(t)
    \/ \E v \in Via : FinishConfirm(t, v)
    \/ \E v \in Via : ConfirmFails(t, v)

Serving(t) ==
    \/ Redeem(t)
    \/ StartDispensing(t)
    \/ CloseFilled(t)
    \/ VoidTicket(t)
    \/ ConfirmReceived(t)
    \/ SetConfirmedAt(t)
    \/ ConfirmReceivedFails(t)

Next ==
    \/ \E t \in Tickets : Purchasing(t)
    \/ \E t \in Tickets : Paying(t)
    \/ \E t \in Tickets : Serving(t)
    \/ \E p \in Pumps : UpsertPump(p)
    \/ \E p \in Pumps : BulkCloseFilled(p)

Spec == Init /\ [][Next]_vars

\* Paystack keeps delivering an event until it is acknowledged, a request that
\* holds a row lock ends, and the database does not fail every delivery for ever.
Fairness ==
    \A t \in Tickets :
        /\ WF_vars(DeliverWebhook(t))
        /\ SF_vars(FinishConfirm(t, "webhook"))

FairSpec == Spec /\ Fairness

----------------------------------------------------------------------------
(* Properties. *)

TypeOK ==
    /\ status \in [Tickets -> Status]
    /\ code \in [Tickets -> Codes \cup {NoCode}]
    /\ kind \in [Tickets -> {"none", "online", "cash"}]
    /\ pump \in [Tickets -> Pumps \cup {NoPump}]
    /\ confirmed \subseteq Tickets
    /\ working \subseteq Pumps
    /\ born \in [Tickets -> Nat]
    /\ clock \in Nat
    /\ buying \in [Tickets -> {"idle", "open", "aborted", "refused", "died", "done"}]
    /\ tries \in [Tickets -> Nat]
    /\ paystack \in [Tickets -> {"none", "checkout", "failed", "success", "mismatch"}]
    /\ event \in [Tickets -> {"none", "due", "acked"}]
    /\ saw \in [Tickets -> [Via -> {"none", "pending", "settled"}]]
    /\ onScreen \subseteq Tickets
    /\ confirming \subseteq Tickets
    /\ starts \in [Tickets -> Nat]
    /\ overwritten \subseteq Tickets
    /\ overtaken \subseteq Tickets

\* No two tickets that can still be redeemed share a code, whatever MarkPaid's
\* unguarded UPDATE brings back to life and whatever codes were reused meanwhile.
OpenCodesUnique ==
    \A t, u \in Tickets : t # u /\ Open(t) /\ Open(u) => code[t] # code[u]

Funded(t) == kind[t] = "cash" \/ paystack[t] = "success"

\* A ticket counts as paid, and gas is released for it, only if cash was taken for
\* it or Paystack holds a successful charge of its amount: through stale reads,
\* duplicate webhooks, reloads of the callback and rolled-back transactions.
FundedBeforeGas ==
    \A t \in Tickets : status[t] \in SettledStatuses \/ starts[t] > 0 => Funded(t)

\* Unless MarkPaid's UPDATE undid a later write of the ticket, its gas is released
\* at most once, and a ticket that is pending, paid or void has released none.
RedeemedOnce ==
    \A t \in Tickets \ overwritten :
        /\ starts[t] <= 1
        /\ status[t] \in {"none", "pending", "paid", "voided"} => starts[t] = 0

\* A paid ticket is the one Redeem finds under its code, with two exceptions: MarkPaid
\* undid a write of it, or a purchase that began later used the code up before this
\* ticket's own transaction, begun earlier, inserted it (created_at is its start).
PaidTicketRedeemable ==
    \A t \in Tickets \ (overwritten \cup overtaken) : status[t] = "paid" => Youngest(t)

\* A receipt the customer confirmed is of a filled ticket, unless MarkPaid took the
\* ticket back to 'paid', before or between Confirm's SELECT and UPDATE.
ConfirmedWasFilled ==
    \A t \in confirmed \ overwritten : status[t] = "filled"

\* Duplicate and late confirmations never move a ticket to another pump.
PumpNeverReassigned ==
    [][\A t \in Tickets : pump[t] # NoPump => pump'[t] = pump[t]]_vars

\* A payment Paystack owes us an acknowledged webhook for does not stay pending:
\* deliveries fail, are rolled back and race with the callback and a void.
ChargedIsConfirmed ==
    \A t \in Tickets :
        paystack[t] = "success" /\ status[t] = "pending" ~> status[t] # "pending"

----------------------------------------------------------------------------
(* What comments in the code say, and the code does not keep. *)

\* MarkPaid: a call for an already-filled ticket "is a no-op", and one for a void ticket
\* "refuses ... rather than overwriting a terminal state".
TerminalStaysTerminal ==
    [][\A t \in Tickets : status[t] \in {"filled", "voided"} => status'[t] = status[t]]_vars

\* Purchase: "retrying with a freshly generated 4-digit code" on a collision: an
\* error means that every attempt collided.
CollisionIsRetried ==
    \A t \in Tickets : buying[t] = "refused" => tries[t] = MaxCodeAttempts
=============================================================================
