------------------------------ MODULE Managers ------------------------------
(***************************************************************************)
(* What the managers of a plant may do at the terminal.  Their session     *)
(* says only that they are managers: every handler asks the users table    *)
(* for the permission at the beginning of the transaction that writes.     *)
(* The transaction is READ COMMITTED, so the owner, or another manager,    *)
(* may take the permission away between the question and the COMMIT.       *)
(***************************************************************************)
EXTENDS Naturals

CONSTANTS
    Managers,      \* members with role = 'manager'
    ManagerForms,  \* requests of their terminals
    NoManager,
    BoxesFilled    \* bound: the ways in which the owner fills in the three boxes of a manager

ASSUME NoManagerAssumption == NoManager \notin Managers \cup ManagerForms

Permissions == {"can_edit_price", "can_manage_staff", "can_manage_pumps"}

ASSUME BoxesFilledAssumption == BoxesFilled \subseteq SUBSET Permissions

VARIABLES
    flags,      \* flags[m]: the permissions in m's row
    onDuty,     \* the managers with active = true
    managing,   \* managing[r]: what request r does next, or how it ended
    managerOf,  \* managerOf[r]: who sent it
    needs,      \* needs[r]: the permission it needs
    target,     \* target[r]: the member it (de)activates, NoManager for a price or a pump
    switchOn,   \* switchOn[r]: active, of the form
    audited,    \* the requests with an entry in activity_log
    wrote,      \* history: wrote[r]: was r's sender licensed when r was committed
    crossed     \* history: crossed[r]: did the sender's row change between r's question and its COMMIT

managerVars == <<flags, onDuty, managing, managerOf, needs, target, switchOn, audited, wrote, crossed>>

\* Mutant: a manager who was deactivated keeps the permissions of his row.
FlagOnly(m, p) == p \in flags[m]

\* SELECT the flag ... AND role = 'manager' AND active = TRUE.
TerminalManagerCan(m, p) == p \in flags[m] /\ m \in onDuty

\* The row of m is written by a transaction other than r's.
Crossing(m, r) ==
    crossed' = [q \in ManagerForms |-> crossed[q] \/ (q # r /\ managing[q] = "write" /\ managerOf[q] = m)]

\* The handler has seen role = manager in the session; the transaction begins with the question.
AskPermission(r, m, p) ==
    /\ managing[r] = "idle"
    /\ managing' = [managing EXCEPT ![r] = IF TerminalManagerCan(m, p) THEN "write" ELSE "forbidden"]
    /\ managerOf' = [managerOf EXCEPT ![r] = m]
    /\ needs' = [needs EXCEPT ![r] = p]

\* POST /terminal/price: prices.Set follows.
TerminalSetPrice(r, m) ==
    /\ AskPermission(r, m, "can_edit_price")
    /\ UNCHANGED <<flags, onDuty, target, switchOn, audited, wrote, crossed>>

\* POST /terminal/pumps: pumps.Upsert follows.
TerminalPump(r, m) ==
    /\ AskPermission(r, m, "can_manage_pumps")
    /\ UNCHANGED <<flags, onDuty, target, switchOn, audited, wrote, crossed>>

\* POST /terminal/staff/status: not for oneself.
TerminalStaffStatus(r, m, n, active) ==
    /\ n # m
    /\ AskPermission(r, m, "can_manage_staff")
    /\ target' = [target EXCEPT ![r] = n]
    /\ switchOn' = [switchOn EXCEPT ![r] = active]
    /\ UNCHANGED <<flags, onDuty, audited, wrote, crossed>>

\* The row, or the member's active, and the audit entry are committed together.
CommitManaged(r) ==
    /\ managing[r] = "write"
    /\ managing' = [managing EXCEPT ![r] = "done"]
    /\ audited' = audited \cup {r}
    /\ wrote' = [wrote EXCEPT ![r] = needs[r] \in flags[managerOf[r]] /\ managerOf[r] \in onDuty]
    /\ onDuty' = IF target[r] = NoManager THEN onDuty
                 ELSE IF switchOn[r] THEN onDuty \cup {target[r]} ELSE onDuty \ {target[r]}
    /\ Crossing(target[r], r)
    /\ UNCHANGED <<flags, managerOf, needs, target, switchOn>>

\* A statement or the COMMIT fails, or the server dies: nothing is written, the log is not either.
ManagedFails(r) ==
    /\ managing[r] = "write"
    /\ managing' = [managing EXCEPT ![r] = "failed"]
    /\ UNCHANGED <<flags, onDuty, managerOf, needs, target, switchOn, audited, wrote, crossed>>

\* POST /owner/staff/{id}/permissions, for owners only: the three boxes of the form.
OwnerGrants(m, boxes) ==
    /\ boxes # flags[m]
    /\ flags' = [flags EXCEPT ![m] = boxes]
    /\ Crossing(m, NoManager)
    /\ UNCHANGED <<onDuty, managing, managerOf, needs, target, switchOn, audited, wrote>>

\* POST /owner/staff/{id}/status: ownerActorCan lets an owner do everything.
OwnerSwitches(m) ==
    /\ onDuty' = IF m \in onDuty THEN onDuty \ {m} ELSE onDuty \cup {m}
    /\ Crossing(m, NoManager)
    /\ UNCHANGED <<flags, managing, managerOf, needs, target, switchOn, audited, wrote>>

ManagersInit ==
    /\ flags = [m \in Managers |-> {}]
    /\ onDuty = Managers
    /\ managing = [r \in ManagerForms |-> "idle"]
    /\ managerOf = [r \in ManagerForms |-> NoManager]
    /\ needs = [r \in ManagerForms |-> "can_edit_price"]
    /\ target = [r \in ManagerForms |-> NoManager]
    /\ switchOn = [r \in ManagerForms |-> FALSE]
    /\ audited = {}
    /\ wrote = [r \in ManagerForms |-> FALSE]
    /\ crossed = [r \in ManagerForms |-> FALSE]

ManagerStep(r) ==
    \/ \E m \in Managers : TerminalSetPrice(r, m) \/ TerminalPump(r, m)
    \/ \E m, n \in Managers, active \in BOOLEAN : TerminalStaffStatus(r, m, n, active)
    \/ CommitManaged(r)
    \/ ManagedFails(r)

OwnerStep(m) ==
    \/ \E boxes \in BoxesFilled : OwnerGrants(m, boxes)
    \/ OwnerSwitches(m)

ManagersNext ==
    \/ \E r \in ManagerForms : ManagerStep(r)
    \/ \E m \in Managers : OwnerStep(m)

ManagersSpec == ManagersInit /\ [][ManagersNext]_managerVars

----------------------------------------------------------------------------
(* Properties. *)

ManagersTypeOK ==
    /\ flags \in [Managers -> SUBSET Permissions]
    /\ onDuty \subseteq Managers
    /\ managing \in [ManagerForms -> {"idle", "write", "done", "forbidden", "failed"}]
    /\ managerOf \in [ManagerForms -> Managers \cup {NoManager}]
    /\ needs \in [ManagerForms -> Permissions]
    /\ target \in [ManagerForms -> Managers \cup {NoManager}]
    /\ switchOn \in [ManagerForms -> BOOLEAN]
    /\ audited = {r \in ManagerForms : managing[r] = "done"}
    /\ wrote \in [ManagerForms -> BOOLEAN]
    /\ crossed \in [ManagerForms -> BOOLEAN]

\* "You do not have permission" (errTerminalForbidden): a manager's request is carried out while
\* its sender is active and has the permission, unless the owner or another manager changed the
\* sender's row after the question was asked.  Two managers may so deactivate each other.
LicensedUnlessRace ==
    \A r \in ManagerForms : managing[r] = "done" => wrote[r] \/ crossed[r]
=============================================================================
