------------------------------- MODULE Admins -------------------------------
(***************************************************************************)
(* The platform's administrators, which gtg create-admin and gtg           *)
(* delete-admin add and remove: processes of operators, each of which      *)
(* counts first, then asks its operator to confirm, then writes.  An       *)
(* administrator is known by a phone number.                               *)
(***************************************************************************)
EXTENDS Naturals

CONSTANTS
    Commissions,  \* runs of gtg create-admin
    Removals,     \* runs of gtg delete-admin
    AdminPhones

VARIABLES
    admins,       \* the phone numbers of active administrators
    adding,       \* adding[c]: what run c does next, or how it ended
    removing,     \* removing[d]: what run d does next, or how it ended
    named,        \* named[d]: the administrator it is to remove
    removedSince  \* history: removedSince[d]: whether another run removed somebody after d counted

adminVars == <<admins, adding, removing, named, removedSince>>

\* A deleted administrator's row keeps no phone number, so the number may be used again.
CountExisting(c, p) ==
    /\ adding[c] = "idle"
    /\ p \notin admins
    /\ adding' = [adding EXCEPT ![c] = p]
    /\ UNCHANGED <<admins, removing, named, removedSince>>

\* UNIQUE (plant_id, phone): whom it creates belongs to the platform's own plant.
InsertAdmin(c) ==
    /\ adding[c] \in AdminPhones \ admins
    /\ admins' = admins \cup {adding[c]}
    /\ adding' = [adding EXCEPT ![c] = "done"]
    /\ UNCHANGED <<removing, named, removedSince>>

\* The number is taken by now, the operator says no, or a statement fails.
CreateAdminEnds(c) ==
    /\ adding[c] \in AdminPhones
    /\ adding' = [adding EXCEPT ![c] = "done"]
    /\ UNCHANGED <<admins, removing, named, removedSince>>

\* Mutant: the one to be removed is counted as well.
Anybody(p) == admins

\* The administrators the platform would keep.
Kept(p) == admins \ {p}

CountAdmins(d, p) ==
    /\ removing[d] = "idle"
    /\ p \in admins
    /\ Kept(p) # {}
    /\ named' = [named EXCEPT ![d] = p]
    /\ removing' = [removing EXCEPT ![d] = "confirm"]
    /\ UNCHANGED <<admins, adding, removedSince>>

DeleteAdmin(d) ==
    /\ removing[d] = "confirm"
    /\ admins' = admins \ {named[d]}
    /\ removing' = [removing EXCEPT ![d] = "removed"]
    /\ removedSince' = [e \in Removals |->
                          removedSince[e] \/ (removing[e] = "confirm" /\ e # d)]
    /\ UNCHANGED <<adding, named>>

\* The operator says no, or the transaction fails.
DeleteAdminEnds(d) ==
    /\ removing[d] = "confirm"
    /\ removing' = [removing EXCEPT ![d] = "ended"]
    /\ UNCHANGED <<admins, adding, named, removedSince>>

AdminsInit ==
    /\ admins = {}
    /\ adding = [c \in Commissions |-> "idle"]
    /\ removing = [d \in Removals |-> "idle"]
    /\ named = [d \in Removals |-> "nobody"]
    /\ removedSince = [d \in Removals |-> FALSE]

AdminsNext ==
    \/ \E c \in Commissions, p \in AdminPhones : CountExisting(c, p)
    \/ \E c \in Commissions : InsertAdmin(c) \/ CreateAdminEnds(c)
    \/ \E d \in Removals, p \in AdminPhones : CountAdmins(d, p)
    \/ \E d \in Removals : DeleteAdmin(d) \/ DeleteAdminEnds(d)

AdminsSpec == AdminsInit /\ [][AdminsNext]_adminVars

----------------------------------------------------------------------------
(* Properties. *)

AdminsTypeOK ==
    /\ admins \subseteq AdminPhones
    /\ adding \in [Commissions -> AdminPhones \cup {"idle", "done"}]
    /\ removing \in [Removals -> {"idle", "confirm", "removed", "ended"}]
    /\ named \in [Removals -> AdminPhones \cup {"nobody"}]
    /\ removedSince \in [Removals -> BOOLEAN]

\* "delete-admin refuses to remove the last active admin" (README): the platform loses its last
\* administrator only to a removal that was being confirmed while another one was carried out.
LastAdminStaysUnlessRace ==
    (\E d \in Removals : removing[d] = "removed") /\ admins = {} =>
        \E d \in Removals : removing[d] = "removed" /\ removedSince[d]
=============================================================================
