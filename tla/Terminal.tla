------------------------------ MODULE Terminal ------------------------------
(***************************************************************************)
(* The staff terminal of one plant: a PIN login validates the pump, opens  *)
(* or resumes the member's shift and creates a session; sessions book work *)
(* on their shift, end it or log out; members and pumps are switched on    *)
(* and off under way.                                                      *)
(*                                                                         *)
(* Shifts are rows in Postgres, written in READ COMMITTED transactions;    *)
(* sessions are keys in Redis, which no transaction covers.  A step is one *)
(* statement or one Redis command, so that logins and requests of several  *)
(* terminals interleave between them, and a server may die between any two.*)
(* What redeem, fill, close and sale do to a ticket is module Tickets.     *)
(***************************************************************************)
EXTENDS Integers, FiniteSets

CONSTANTS
    Staff,      \* managers, cashiers and operators
    Operators,  \* the members of Staff that must choose a pump
    Pumps,      \* the plant's pumps
    Tokens,     \* the PIN logins that may be attempted, one session token each
    Shifts,     \* the rows of the shifts table
    NoPump,     \* pump_id NULL: no pump requested
    NoOne,      \* the user of a row that does not exist
    NoShift,    \* the shift of a login that has not got one
    MaxRequests \* bound: requests that are in flight at the same time

ASSUME OperatorsAssumption == Operators \subseteq Staff
ASSUME NoPumpAssumption == NoPump \notin Pumps
ASSUME NoOneAssumption == NoOne \notin Staff
ASSUME NoShiftAssumption == NoShift \notin Shifts
ASSUME RequestsAssumption == MaxRequests \in Nat \ {0}

VARIABLES
    active,    \* members whose users.active is set
    working,   \* pumps whose status is 'working'
    state,     \* state[s]: "none" while there is no row, "open", or "closed"
    member,    \* member[s]: user_id
    station,   \* station[s]: pump_id
    stage,     \* stage[k]: how far PIN login k has come
    who,       \* who[k]: its user_id
    wish,      \* wish[k]: the pump it asks for
    shift,     \* shift[k]: the shift it opened or resumed
    live,      \* tokens whose session is in Redis
    post,      \* post[k]: the PumpID stored in session k
    inside,    \* inside[k]: requests of session k that RequireStaffSession let in
    closings,  \* closings[s]: 'closing' movements of shift s
    known,     \* history: the shifts there were when login k checked its pump
    foreseen,  \* history: foreseen[s]: what was known to the login that inserted s
    closers    \* history: sessions whose request closed their shift

rowVars == <<state, member, station, closings>>
loginVars == <<stage, who, wish, shift, known>>
sessionVars == <<live, post>>
vars == <<active, working, rowVars, loginVars, sessionVars, inside, foreseen, closers>>

Stages == {"idle", "verified", "validated", "inserting", "started", "done", "failed"}

\* What a request asks for: a sale or fill, the end of the shift, or a logout.
Asks == {"work", "end", "logout"}

\* "ended" is a shift end that has committed and has its session still to delete.
InFlight == Asks \cup {"ended"}

IsOpen(s) == state[s] = "open"

----------------------------------------------------------------------------
(* PIN login. *)

\* The PIN matches and the member is active; an operator has chosen a pump.
VerifyPIN(k, u, p) ==
    /\ stage[k] = "idle"
    /\ u \in active
    /\ u \in Operators => p # NoPump
    /\ stage' = [stage EXCEPT ![k] = "verified"]
    /\ who' = [who EXCEPT ![k] = u]
    /\ wish' = [wish EXCEPT ![k] = p]
    /\ UNCHANGED <<active, working, rowVars, shift, known, sessionVars, inside,
                   foreseen, closers>>

\* Mutant: a pump is free whoever works at it.
PumpFreeAlways(k) == wish[k] \in working \cup {NoPump}

\* The pump works and no open shift of another member is on it.
PumpFree(k) ==
    \/ wish[k] = NoPump
    \/ /\ wish[k] \in working
       /\ \A s \in Shifts : IsOpen(s) /\ station[s] = wish[k] => member[s] = who[k]

ValidateShiftPump(k) ==
    /\ stage[k] = "verified"
    /\ PumpFree(k)
    /\ stage' = [stage EXCEPT ![k] = "validated"]
    /\ known' = [known EXCEPT ![k] = {s \in Shifts : state[s] # "none"}]
    /\ UNCHANGED <<active, working, rowVars, who, wish, shift, sessionVars, inside,
                   foreseen, closers>>

\* The rows findOpen selects.
OwnOpenShifts(k) == {s \in Shifts : IsOpen(s) /\ member[s] = who[k]}

\* StartOrResume finds the member's open shift and returns it as it is ...
ResumeShift(k) ==
    /\ stage[k] = "validated"
    /\ \E s \in OwnOpenShifts(k) : shift' = [shift EXCEPT ![k] = s]
    /\ stage' = [stage EXCEPT ![k] = "started"]
    /\ known' = [known EXCEPT ![k] = {}]
    /\ UNCHANGED <<active, working, rowVars, who, wish, sessionVars, inside, foreseen, closers>>

\* ... or finds none and goes on to insert one.
FindNoShift(k) ==
    /\ stage[k] = "validated"
    /\ OwnOpenShifts(k) = {}
    /\ stage' = [stage EXCEPT ![k] = "inserting"]
    /\ UNCHANGED <<active, working, rowVars, who, wish, shift, known, sessionVars, inside,
                   foreseen, closers>>

\* Mutant: there is no idx_shifts_one_open_per_user.
NoIndex(k) == TRUE

\* idx_shifts_one_open_per_user lets login k insert an open shift.
IndexAllows(k) == \A s \in Shifts : IsOpen(s) => member[s] # who[k]

\* The INSERT, the float movement and the audit row, committed.
InsertShift(k, s) ==
    /\ stage[k] = "inserting"
    /\ state[s] = "none"
    /\ IndexAllows(k)
    /\ state' = [state EXCEPT ![s] = "open"]
    /\ member' = [member EXCEPT ![s] = who[k]]
    /\ station' = [station EXCEPT ![s] = wish[k]]
    /\ shift' = [shift EXCEPT ![k] = s]
    /\ stage' = [stage EXCEPT ![k] = "started"]
    /\ foreseen' = [foreseen EXCEPT ![s] = known[k]]
    /\ known' = [known EXCEPT ![k] = {}]
    /\ UNCHANGED <<active, working, closings, who, wish, sessionVars, inside, closers>>

\* Mutants: the session remembers the pump that was asked for, or the shift's id.
SessionPumpSwapped(k) == shift[k]
SessionPumpWished(k) == wish[k]

\* The pump of the shift, which a resumed shift has from its first login.
SessionPump(k) == station[shift[k]]

\* Sessions.Create, after the commit.
CreateSession(k) ==
    /\ stage[k] = "started"
    /\ stage' = [stage EXCEPT ![k] = "done"]
    /\ live' = live \cup {k}
    /\ post' = [post EXCEPT ![k] = SessionPump(k)]
    /\ UNCHANGED <<active, working, rowVars, who, wish, shift, known, inside, foreseen, closers>>

\* The login is refused (the pump, the index), an error ends it, or the server dies:
\* an open transaction is rolled back, a committed shift stays open without a session,
\* and what the login knew is gone.
LoginFails(k) ==
    /\ stage[k] \in {"verified", "validated", "inserting", "started"}
    /\ stage' = [stage EXCEPT ![k] = "failed"]
    /\ who' = [who EXCEPT ![k] = NoOne]
    /\ wish' = [wish EXCEPT ![k] = NoPump]
    /\ shift' = [shift EXCEPT ![k] = NoShift]
    /\ known' = [known EXCEPT ![k] = {}]
    /\ UNCHANGED <<active, working, rowVars, sessionVars, inside, foreseen, closers>>

----------------------------------------------------------------------------
(* Requests of a session. *)

\* RequireStaffSession loads the session and looks at nothing else.
LetIn(k, ask) ==
    /\ k \in live
    /\ ask \notin inside[k]
    /\ Cardinality({r \in Tokens \X InFlight : r[2] \in inside[r[1]]}) < MaxRequests
    /\ inside' = [inside EXCEPT ![k] = @ \cup {ask}]
    /\ UNCHANGED <<active, working, rowVars, loginVars, sessionVars, foreseen, closers>>

\* Mutant: Close forgets "closed_at IS NULL".
ClosableAgain(k) == member[shift[k]] = who[k]

\* The row Close updates: the member's own shift, still open.
Closable(k) == IsOpen(shift[k]) /\ member[shift[k]] = who[k]

\* The shift is closed and its closing count recorded, committed.
CloseShift(k) ==
    /\ "end" \in inside[k]
    /\ Closable(k)
    /\ state' = [state EXCEPT ![shift[k]] = "closed"]
    /\ closings' = [closings EXCEPT ![shift[k]] = @ + 1]
    /\ inside' = [inside EXCEPT ![k] = (@ \ {"end"}) \cup {"ended"}]
    /\ closers' = closers \cup {k}
    /\ UNCHANGED <<active, working, member, station, loginVars, sessionVars, foreseen>>

\* Sessions.Delete, of the session that asked, after a shift end or on logout.
DeleteSession(k) ==
    /\ \E ask \in inside[k] \cap {"ended", "logout"} :
           inside' = [inside EXCEPT ![k] = @ \ {ask}]
    /\ live' = live \ {k}
    /\ UNCHANGED <<active, working, rowVars, loginVars, post, foreseen, closers>>

\* A sale, a fill or a close is done, whose rows carry shift[k] and are not read here, or a
\* request is refused, fails, or dies with its server before its next write.
RequestEnds(k) ==
    /\ \E ask \in inside[k] : inside' = [inside EXCEPT ![k] = @ \ {ask}]
    /\ UNCHANGED <<active, working, rowVars, loginVars, sessionVars, foreseen, closers>>

\* StaffBackstopTTL passes without a request.
SessionExpires(k) ==
    /\ k \in live
    /\ live' = live \ {k}
    /\ UNCHANGED <<active, working, rowVars, loginVars, post, inside, foreseen, closers>>

----------------------------------------------------------------------------
(* The owner or a manager. *)

SetActive(u) ==
    /\ active' = IF u \in active THEN active \ {u} ELSE active \cup {u}
    /\ UNCHANGED <<working, rowVars, loginVars, sessionVars, inside, foreseen, closers>>

UpsertPump(p) ==
    /\ working' = IF p \in working THEN working \ {p} ELSE working \cup {p}
    /\ UNCHANGED <<active, rowVars, loginVars, sessionVars, inside, foreseen, closers>>

----------------------------------------------------------------------------
Init ==
    /\ active = Staff
    /\ working = Pumps
    /\ state = [s \in Shifts |-> "none"]
    /\ member = [s \in Shifts |-> NoOne]
    /\ station = [s \in Shifts |-> NoPump]
    /\ stage = [k \in Tokens |-> "idle"]
    /\ who = [k \in Tokens |-> NoOne]
    /\ wish = [k \in Tokens |-> NoPump]
    /\ shift = [k \in Tokens |-> NoShift]
    /\ live = {}
    /\ post = [k \in Tokens |-> NoPump]
    /\ inside = [k \in Tokens |-> {}]
    /\ closings = [s \in Shifts |-> 0]
    /\ known = [k \in Tokens |-> {}]
    /\ foreseen = [s \in Shifts |-> {}]
    /\ closers = {}

Login(k) ==
    \/ \E u \in Staff, p \in Pumps \cup {NoPump} : VerifyPIN(k, u, p)
    \/ ValidateShiftPump(k)
    \/ ResumeShift(k)
    \/ FindNoShift(k)
    \/ \E s \in Shifts : InsertShift(k, s)
    \/ CreateSession(k)
    \/ LoginFails(k)

Request(k) ==
    \/ \E ask \in Asks : LetIn(k, ask)
    \/ CloseShift(k)
    \/ DeleteSession(k)
    \/ RequestEnds(k)
    \/ SessionExpires(k)

Next ==
    \/ \E k \in Tokens : Login(k)
    \/ \E k \in Tokens : Request(k)
    \/ \E u \in Staff : SetActive(u)
    \/ \E p \in Pumps : UpsertPump(p)

Spec == Init /\ [][Next]_vars

----------------------------------------------------------------------------
(* Properties. *)

TypeOK ==
    /\ active \subseteq Staff
    /\ working \subseteq Pumps
    /\ state \in [Shifts -> {"none", "open", "closed"}]
    /\ member \in [Shifts -> Staff \cup {NoOne}]
    /\ station \in [Shifts -> Pumps \cup {NoPump}]
    /\ stage \in [Tokens -> Stages]
    /\ who \in [Tokens -> Staff \cup {NoOne}]
    /\ wish \in [Tokens -> Pumps \cup {NoPump}]
    /\ shift \in [Tokens -> Shifts \cup {NoShift}]
    /\ live \subseteq Tokens
    /\ post \in [Tokens -> Pumps \cup {NoPump}]
    /\ inside \in [Tokens -> SUBSET InFlight]
    /\ closings \in [Shifts -> Nat]
    /\ known \in [Tokens -> SUBSET Shifts]
    /\ foreseen \in [Shifts -> SUBSET Shifts]
    /\ closers \subseteq Tokens

\* A member has at most one open shift, although every login looks for one first and
\* inserts later: two terminals, a retry, a login that died after its commit.
OneOpenShiftPerMember ==
    \A s, t \in Shifts : IsOpen(s) /\ IsOpen(t) /\ member[s] = member[t] => s = t

\* A session works on its own member's shift and at that shift's pump, whatever pump a
\* login that resumed the shift asked for.
SessionMatchesShift ==
    \A k \in live : shift[k] \in Shifts /\ member[shift[k]] = who[k] /\ post[k] = station[shift[k]]

\* Two open shifts share a pump only if each login checked the pump before the other's
\* shift was there: ErrPumpBusy catches every login that is not such a race.
PumpSharedOnlyByRace ==
    \A s, t \in Shifts :
        s # t /\ IsOpen(s) /\ IsOpen(t) /\ station[s] = station[t] /\ station[s] # NoPump
            => s \notin foreseen[t]

\* A shift's cash is counted once, when it closes, by one of the sessions that share it.
ClosedOnce ==
    \A s \in Shifts : closings[s] = IF state[s] = "closed" THEN 1 ELSE 0

----------------------------------------------------------------------------
(* What comments in the code say, and the code does not keep. *)

\* RequireStaffSession "gates a route to a logged-in cashier, operator, or manager with an
\* open shift".  The session that closed the shift and is about to be deleted is let off.
AdmittedOnOpenShift ==
    [][\A k \in Tokens, ask \in Asks :
         LetIn(k, ask) => IsOpen(shift[k]) \/ k \in closers]_vars

\* SetActive: "deactivating here takes effect immediately".
InactiveIsRefused ==
    [][\A k \in Tokens, ask \in Asks : LetIn(k, ask) => who[k] \in active]_vars
=============================================================================
