------------------------------- MODULE Roster -------------------------------
(***************************************************************************)
(* The staff an owner adds and (de)activates.  A PIN belongs to one member *)
(* of a plant, but PINs are stored as salted hashes: no index can keep     *)
(* them apart, and staff.Create compares the new one with every stored     *)
(* hash before it inserts.  Members are known by the form that added them. *)
(***************************************************************************)
EXTENDS Naturals

CONSTANTS
    StaffForms,  \* submissions of the "Add staff" form
    PINs,
    StaffPhones,
    NoEntry      \* an empty field

ASSUME NoEntryAssumption == NoEntry \notin PINs \cup StaffPhones

VARIABLES
    hiring,     \* hiring[f]: what form f does next, or how it ended
    pinOf,      \* pinOf[f]: its PIN
    phoneOf,    \* phoneOf[f]: its phone number
    members,    \* the forms whose row is committed
    activeSet,  \* the members with active = true
    sawMembers  \* history: sawMembers[f]: the members there were when f compared its PIN

rosterVars == <<hiring, pinOf, phoneOf, members, activeSet, sawMembers>>

\* Mutant: only active members are compared.
ComparedActive == activeSet

\* Every member with a pin_hash is compared, active or not.
Compared == members

PINTaken(p) == \E g \in Compared : pinOf[g] = p

ComparePINs(f, p, n) ==
    /\ hiring[f] = "idle"
    /\ hiring' = [hiring EXCEPT ![f] = IF PINTaken(p) THEN "pin taken" ELSE "insert"]
    /\ pinOf' = [pinOf EXCEPT ![f] = p]
    /\ phoneOf' = [phoneOf EXCEPT ![f] = n]
    /\ sawMembers' = [sawMembers EXCEPT ![f] = members]
    /\ UNCHANGED <<members, activeSet>>

\* UNIQUE (plant_id, phone).
PhoneTaken(f) == \E g \in members : phoneOf[g] = phoneOf[f]

InsertMember(f) ==
    /\ hiring[f] = "insert"
    /\ ~PhoneTaken(f)
    /\ members' = members \cup {f}
    /\ activeSet' = activeSet \cup {f}
    /\ hiring' = [hiring EXCEPT ![f] = "added"]
    /\ UNCHANGED <<pinOf, phoneOf, sawMembers>>

\* The phone is taken, the audit entry or the COMMIT fails, or the server dies.
RefuseMember(f) ==
    /\ hiring[f] = "insert"
    /\ hiring' = [hiring EXCEPT ![f] = "refused"]
    /\ UNCHANGED <<pinOf, phoneOf, members, activeSet, sawMembers>>

SetActive(f, active) ==
    /\ f \in members
    /\ activeSet' = IF active THEN activeSet \cup {f} ELSE activeSet \ {f}
    /\ UNCHANGED <<hiring, pinOf, phoneOf, members, sawMembers>>

RosterInit ==
    /\ hiring = [f \in StaffForms |-> "idle"]
    /\ pinOf = [f \in StaffForms |-> NoEntry]
    /\ phoneOf = [f \in StaffForms |-> NoEntry]
    /\ members = {}
    /\ activeSet = {}
    /\ sawMembers = [f \in StaffForms |-> {}]

RosterStep(f) ==
    \/ \E p \in PINs, n \in StaffPhones : ComparePINs(f, p, n)
    \/ InsertMember(f)
    \/ RefuseMember(f)
    \/ \E active \in BOOLEAN : SetActive(f, active)

RosterNext == \E f \in StaffForms : RosterStep(f)

RosterSpec == RosterInit /\ [][RosterNext]_rosterVars

----------------------------------------------------------------------------
(* Properties. *)

RosterTypeOK ==
    /\ hiring \in [StaffForms -> {"idle", "insert", "added", "pin taken", "refused"}]
    /\ pinOf \in [StaffForms -> PINs \cup {NoEntry}]
    /\ phoneOf \in [StaffForms -> StaffPhones \cup {NoEntry}]
    /\ members \subseteq StaffForms
    /\ activeSet \subseteq members
    /\ sawMembers \in [StaffForms -> SUBSET StaffForms]

\* "That PIN is already used by another staff member" (ErrPINTaken): two members, active or
\* not, have one PIN only if neither had been inserted when the other's PIN was compared.
PINSharedOnlyByRace ==
    \A f, g \in members :
        f # g /\ pinOf[f] = pinOf[g] => f \notin sawMembers[g] /\ g \notin sawMembers[f]
=============================================================================
