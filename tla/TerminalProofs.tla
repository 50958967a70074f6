--------------------------- MODULE TerminalProofs ---------------------------
(***************************************************************************)
(* Proofs, for every staff, every set of pumps and any number of logins    *)
(* and shifts, of the invariants of Terminal that its run checks on three  *)
(* logins.                                                                 *)
(***************************************************************************)
EXTENDS TerminalBook, TLAPS

\* A login that has a shift has one of its own member's; the row stays.
StartedHasShift ==
    \A k \in Tokens : stage[k] \in {"started", "done"} =>
        /\ shift[k] \in Shifts
        /\ state[shift[k]] # "none"
        /\ member[shift[k]] = who[k]

\* Sessions, and requests, belong to logins that are done.
SessionIsDone ==
    \A k \in Tokens :
        /\ k \in live => stage[k] = "done" /\ post[k] = station[shift[k]]
        /\ inside[k] # {} => stage[k] = "done"

\* What a login or an inserted row remembers of the table are rows of it.
RemembersRows ==
    /\ \A k \in Tokens : \A s \in known[k] : state[s] # "none"
    /\ \A t \in Shifts : \A s \in foreseen[t] : state[s] # "none"

\* Of the shifts there were when a login checked its pump, none that is open is at
\* that pump, unless it is the member's own.
CheckedPumpStaysFree ==
    \A k \in Tokens : stage[k] \in {"validated", "inserting"} => \A s \in known[k] :
        IsOpen(s) /\ station[s] = wish[k] /\ wish[k] # NoPump => member[s] = who[k]

TerminalInv ==
    /\ TypeOK
    /\ OneOpenShiftPerMember
    /\ StartedHasShift
    /\ SessionIsDone
    /\ RemembersRows
    /\ CheckedPumpStaysFree
    /\ PumpSharedOnlyByRace
    /\ ClosedOnce

----------------------------------------------------------------------------
(* One lemma per action that writes more than a request's progress. *)

LEMMA InitHolds == Init => TerminalInv
  BY DEF Init, TerminalInv, TypeOK, Stages, InFlight, Asks, OneOpenShiftPerMember,
         StartedHasShift, SessionIsDone, RemembersRows, CheckedPumpStaysFree,
         PumpSharedOnlyByRace, ClosedOnce, IsOpen

LEMMA LoginKeepsType ==
    ASSUME TypeOK, StartedHasShift, NEW k \in Tokens, Login(k)
    PROVE  TypeOK'
<1> USE DEF TypeOK, Stages, rowVars, sessionVars
<1>1. ASSUME NEW u \in Staff, NEW p \in Pumps \cup {NoPump}, VerifyPIN(k, u, p)
      PROVE  TypeOK'
  BY <1>1 DEF VerifyPIN
<1>2. CASE ValidateShiftPump(k)
  BY <1>2 DEF ValidateShiftPump
<1>3. CASE ResumeShift(k)
  <2>1. PICK s \in OwnOpenShifts(k) : shift' = [shift EXCEPT ![k] = s]
    BY <1>3 DEF ResumeShift
  <2> QED BY <1>3, <2>1 DEF ResumeShift, OwnOpenShifts
<1>4. CASE FindNoShift(k)
  BY <1>4 DEF FindNoShift
<1>5. ASSUME NEW s \in Shifts, InsertShift(k, s)
      PROVE  TypeOK'
  BY <1>5 DEF InsertShift
<1>6. CASE CreateSession(k)
  <2>1. SessionPump(k) \in Pumps \cup {NoPump}
    BY <1>6 DEF CreateSession, SessionPump, StartedHasShift
  <2> QED BY <1>6, <2>1 DEF CreateSession
<1>7. CASE LoginFails(k)
  BY <1>7 DEF LoginFails
<1> QED BY <1>1, <1>2, <1>3, <1>4, <1>5, <1>6, <1>7 DEF Login

\* A request works on a shift of its session's member.
LEMMA InsideHasShift ==
    ASSUME StartedHasShift, SessionIsDone, NEW k \in Tokens, inside[k] # {}
    PROVE  shift[k] \in Shifts
  BY DEF StartedHasShift, SessionIsDone

LEMMA RequestKeepsType ==
    ASSUME TypeOK, StartedHasShift, SessionIsDone, NEW k \in Tokens, Request(k)
    PROVE  TypeOK'
<1> USE DEF TypeOK, rowVars, loginVars, sessionVars, InFlight
<1>1. ASSUME NEW ask \in Asks, LetIn(k, ask)
      PROVE  TypeOK'
  BY <1>1 DEF LetIn
<1>2. CASE CloseShift(k)
  <2>1. shift[k] \in Shifts
    BY <1>2, InsideHasShift DEF CloseShift
  <2>2. state' \in [Shifts -> {"none", "open", "closed"}] /\ closings' \in [Shifts -> Nat]
    BY <1>2, <2>1 DEF CloseShift
  <2>3. inside' \in [Tokens -> SUBSET InFlight] /\ closers' \subseteq Tokens
    BY <1>2 DEF CloseShift
  <2> QED BY <1>2, <2>2, <2>3 DEF CloseShift
<1>3. CASE DeleteSession(k)
  BY <1>3 DEF DeleteSession
<1>4. CASE RequestEnds(k)
  BY <1>4 DEF RequestEnds
<1>5. CASE SessionExpires(k)
  BY <1>5 DEF SessionExpires
<1> QED BY <1>1, <1>2, <1>3, <1>4, <1>5 DEF Request

----------------------------------------------------------------------------
(* The steps of a login. *)

\* A step that leaves the rows alone keeps what is said of rows only.
LEMMA RowsUnchanged ==
    ASSUME TerminalInv, UNCHANGED <<rowVars, foreseen>>
    PROVE  /\ OneOpenShiftPerMember'
           /\ PumpSharedOnlyByRace'
           /\ ClosedOnce'
           /\ \A t \in Shifts : \A s \in foreseen'[t] : state'[s] # "none"
  BY DEF TerminalInv, rowVars, OneOpenShiftPerMember, PumpSharedOnlyByRace, ClosedOnce,
         RemembersRows, IsOpen

LEMMA VerifyPINKeeps ==
    ASSUME TerminalInv, NEW k \in Tokens, NEW u \in Staff, NEW p \in Pumps \cup {NoPump},
           VerifyPIN(k, u, p)
    PROVE  TerminalInv'
<1> USE DEF TerminalInv, VerifyPIN
<1>1. TypeOK'
  BY LoginKeepsType DEF Login
<1> USE DEF TypeOK, rowVars, sessionVars, IsOpen
<1>2. OneOpenShiftPerMember' /\ PumpSharedOnlyByRace' /\ ClosedOnce'
  BY RowsUnchanged
<1>3. StartedHasShift' /\ SessionIsDone'
  BY DEF StartedHasShift, SessionIsDone
<1>4. RemembersRows' /\ CheckedPumpStaysFree'
  BY DEF RemembersRows, CheckedPumpStaysFree
<1> QED BY <1>1, <1>2, <1>3, <1>4

\* The pump was free of others' open shifts when the known rows were read.
LEMMA ValidateShiftPumpKeeps ==
    ASSUME TerminalInv, NEW k \in Tokens, ValidateShiftPump(k)
    PROVE  TerminalInv'
<1> USE DEF TerminalInv, ValidateShiftPump
<1>1. TypeOK'
  BY LoginKeepsType DEF Login
<1> USE DEF TypeOK, rowVars, sessionVars, IsOpen
<1>2. OneOpenShiftPerMember' /\ PumpSharedOnlyByRace' /\ ClosedOnce'
  BY RowsUnchanged
<1>3. StartedHasShift' /\ SessionIsDone'
  BY DEF StartedHasShift, SessionIsDone
<1>4. RemembersRows'
  BY DEF RemembersRows
<1>5. CheckedPumpStaysFree'
  BY DEF CheckedPumpStaysFree, PumpFree
<1> QED BY <1>1, <1>2, <1>3, <1>4, <1>5

LEMMA ResumeShiftKeeps ==
    ASSUME TerminalInv, NEW k \in Tokens, ResumeShift(k)
    PROVE  TerminalInv'
<1> USE DEF TerminalInv
<1>1. TypeOK'
  BY LoginKeepsType DEF Login
<1>2. PICK s \in OwnOpenShifts(k) : shift' = [shift EXCEPT ![k] = s]
  BY DEF ResumeShift
<1> USE DEF ResumeShift, TypeOK, rowVars, sessionVars, IsOpen
<1>3. OneOpenShiftPerMember' /\ PumpSharedOnlyByRace' /\ ClosedOnce'
  BY RowsUnchanged
<1>4. StartedHasShift'
  BY <1>2 DEF StartedHasShift, OwnOpenShifts
<1>5. SessionIsDone'
  BY <1>2 DEF SessionIsDone
<1>6. RemembersRows' /\ CheckedPumpStaysFree'
  BY DEF RemembersRows, CheckedPumpStaysFree
<1> QED BY <1>1, <1>3, <1>4, <1>5, <1>6

LEMMA FindNoShiftKeeps ==
    ASSUME TerminalInv, NEW k \in Tokens, FindNoShift(k)
    PROVE  TerminalInv'
<1> USE DEF TerminalInv, FindNoShift
<1>1. TypeOK'
  BY LoginKeepsType DEF Login
<1> USE DEF TypeOK, rowVars, sessionVars, IsOpen
<1>2. OneOpenShiftPerMember' /\ PumpSharedOnlyByRace' /\ ClosedOnce'
  BY RowsUnchanged
<1>3. StartedHasShift' /\ SessionIsDone'
  BY DEF StartedHasShift, SessionIsDone
<1>4. RemembersRows' /\ CheckedPumpStaysFree'
  BY DEF RemembersRows, CheckedPumpStaysFree
<1> QED BY <1>1, <1>2, <1>3, <1>4

\* The unique index, and the pump check against the rows that were known, carry over
\* to the row inserted now; no earlier row and no login knew it.
LEMMA InsertShiftKeeps ==
    ASSUME TerminalInv, NEW k \in Tokens, NEW s \in Shifts, InsertShift(k, s)
    PROVE  TerminalInv'
<1> USE DEF TerminalInv, InsertShift
<1>1. TypeOK'
  BY LoginKeepsType DEF Login
<1> USE DEF TypeOK, rowVars, sessionVars, IsOpen
<1>2. OneOpenShiftPerMember'
  BY DEF OneOpenShiftPerMember, IndexAllows
<1>3. StartedHasShift'
  BY DEF StartedHasShift
<1>4. SessionIsDone'
  BY DEF SessionIsDone, StartedHasShift
<1>5. RemembersRows'
  BY DEF RemembersRows
<1>6. CheckedPumpStaysFree'
  BY DEF CheckedPumpStaysFree, RemembersRows
<1>7. PumpSharedOnlyByRace'
  <2> SUFFICES ASSUME NEW t \in Shifts, NEW u \in Shifts, t # u, IsOpen(t)', IsOpen(u)',
                      station'[t] = station'[u], station'[t] # NoPump
               PROVE  t \notin foreseen'[u]
    BY DEF PumpSharedOnlyByRace
  <2>1. CASE u = s
    <3>1. t \notin known[k]
      BY <2>1 DEF CheckedPumpStaysFree, IndexAllows
    <3> QED BY <2>1, <3>1
  <2>2. CASE t = s
    BY <2>2 DEF RemembersRows
  <2>3. CASE t # s /\ u # s
    BY <2>3 DEF PumpSharedOnlyByRace
  <2> QED BY <2>1, <2>2, <2>3
<1>8. ClosedOnce'
  BY DEF ClosedOnce
<1> QED BY <1>1, <1>2, <1>3, <1>4, <1>5, <1>6, <1>7, <1>8

LEMMA CreateSessionKeeps ==
    ASSUME TerminalInv, NEW k \in Tokens, CreateSession(k)
    PROVE  TerminalInv'
<1> USE DEF TerminalInv, CreateSession
<1>1. TypeOK'
  BY LoginKeepsType DEF Login
<1> USE DEF TypeOK, rowVars, IsOpen
<1>2. OneOpenShiftPerMember' /\ PumpSharedOnlyByRace' /\ ClosedOnce'
  BY RowsUnchanged
<1>3. StartedHasShift' /\ SessionIsDone'
  BY DEF StartedHasShift, SessionIsDone, SessionPump
<1>4. RemembersRows' /\ CheckedPumpStaysFree'
  BY DEF RemembersRows, CheckedPumpStaysFree
<1> QED BY <1>1, <1>2, <1>3, <1>4

LEMMA LoginFailsKeeps ==
    ASSUME TerminalInv, NEW k \in Tokens, LoginFails(k)
    PROVE  TerminalInv'
<1> USE DEF TerminalInv, LoginFails
<1>1. TypeOK'
  BY LoginKeepsType DEF Login
<1> USE DEF TypeOK, rowVars, sessionVars, IsOpen
<1>2. OneOpenShiftPerMember' /\ PumpSharedOnlyByRace' /\ ClosedOnce'
  BY RowsUnchanged
<1>3. StartedHasShift' /\ SessionIsDone'
  BY DEF StartedHasShift, SessionIsDone
<1>4. RemembersRows' /\ CheckedPumpStaysFree'
  BY DEF RemembersRows, CheckedPumpStaysFree
<1> QED BY <1>1, <1>2, <1>3, <1>4

----------------------------------------------------------------------------
(* The steps of a request. *)

\* Closing takes a row from open to closed and counts it; nothing is reopened.
LEMMA CloseShiftKeeps ==
    ASSUME TerminalInv, NEW k \in Tokens, CloseShift(k)
    PROVE  TerminalInv'
<1> USE DEF TerminalInv
<1>1. TypeOK'
  BY RequestKeepsType DEF Request
<1>2. shift[k] \in Shifts /\ state[shift[k]] = "open" /\ stage[k] = "done"
  BY InsideHasShift DEF CloseShift, Closable, IsOpen, SessionIsDone
<1> USE DEF CloseShift, TypeOK, loginVars, sessionVars, IsOpen
<1>3. OneOpenShiftPerMember'
  BY <1>2 DEF OneOpenShiftPerMember
<1>4. StartedHasShift' /\ SessionIsDone'
  BY <1>2 DEF StartedHasShift, SessionIsDone
<1>5. RemembersRows'
  BY <1>2 DEF RemembersRows
<1>6. CheckedPumpStaysFree'
  BY <1>2 DEF CheckedPumpStaysFree
<1>7. PumpSharedOnlyByRace'
  BY <1>2 DEF PumpSharedOnlyByRace
<1>8. ClosedOnce'
  BY <1>2 DEF ClosedOnce
<1> QED BY <1>1, <1>3, <1>4, <1>5, <1>6, <1>7, <1>8

\* The other requests only come in, go on, or delete their session.
LEMMA OtherRequestsKeep ==
    ASSUME TerminalInv, NEW k \in Tokens,
           \/ \E ask \in Asks : LetIn(k, ask)
           \/ DeleteSession(k)
           \/ RequestEnds(k)
           \/ SessionExpires(k)
    PROVE  TerminalInv'
<1> USE DEF TerminalInv
<1>1. TypeOK'
  BY RequestKeepsType DEF Request
<1>2. UNCHANGED <<active, working, rowVars, loginVars, post, foreseen, closers>>
  BY DEF LetIn, DeleteSession, RequestEnds, SessionExpires, sessionVars
<1>3. live' \subseteq live
  BY DEF LetIn, DeleteSession, RequestEnds, SessionExpires, sessionVars
<1>4. \A j \in Tokens : inside'[j] # {} => inside[j] # {} \/ j \in live
  BY DEF LetIn, DeleteSession, RequestEnds, SessionExpires, TypeOK
<1> USE DEF TypeOK, rowVars, loginVars, IsOpen
<1>5. OneOpenShiftPerMember' /\ PumpSharedOnlyByRace' /\ ClosedOnce'
  BY <1>2, RowsUnchanged
<1>6. StartedHasShift'
  BY <1>2 DEF StartedHasShift
<1>7. SessionIsDone'
  BY <1>2, <1>3, <1>4 DEF SessionIsDone
<1>8. RemembersRows' /\ CheckedPumpStaysFree'
  BY <1>2 DEF RemembersRows, CheckedPumpStaysFree
<1> QED BY <1>1, <1>5, <1>6, <1>7, <1>8

----------------------------------------------------------------------------
(* The invariant, and the theorems it gives. *)

LEMMA StepKeeps == TerminalInv /\ [Next]_vars => TerminalInv'
<1> SUFFICES ASSUME TerminalInv, [Next]_vars
             PROVE  TerminalInv'
  OBVIOUS
<1>1. ASSUME NEW k \in Tokens, Login(k)
      PROVE  TerminalInv'
  BY <1>1, VerifyPINKeeps, ValidateShiftPumpKeeps, ResumeShiftKeeps, FindNoShiftKeeps,
     InsertShiftKeeps, CreateSessionKeeps, LoginFailsKeeps DEF Login
<1>2. ASSUME NEW k \in Tokens, Request(k)
      PROVE  TerminalInv'
  BY <1>2, CloseShiftKeeps, OtherRequestsKeep DEF Request
<1>3. ASSUME UNCHANGED <<rowVars, loginVars, sessionVars, inside, foreseen, closers>>,
             active' \subseteq Staff, working' \subseteq Pumps
      PROVE  TerminalInv'
  BY <1>3 DEF TerminalInv, TypeOK, rowVars, loginVars, sessionVars, IsOpen,
              OneOpenShiftPerMember, StartedHasShift, SessionIsDone, RemembersRows,
              CheckedPumpStaysFree, PumpSharedOnlyByRace, ClosedOnce
<1>4. ASSUME NEW u \in Staff, SetActive(u)
      PROVE  TerminalInv'
  BY <1>3, <1>4 DEF SetActive, TerminalInv, TypeOK
<1>5. ASSUME NEW p \in Pumps, UpsertPump(p)
      PROVE  TerminalInv'
  BY <1>3, <1>5 DEF UpsertPump, TerminalInv, TypeOK
<1>6. CASE UNCHANGED vars
  BY <1>3, <1>6 DEF vars, TerminalInv, TypeOK
<1> QED BY <1>1, <1>2, <1>4, <1>5, <1>6 DEF Next

LEMMA Invariance == Spec => []TerminalInv
  BY InitHolds, StepKeeps, PTL DEF Spec

\* Rows, logins, sessions and requests keep their types.
THEOREM TerminalTypes == Spec => []TypeOK
<1>1. TerminalInv => TypeOK
  BY DEF TerminalInv
<1> QED BY <1>1, Invariance, PTL

\* The unique index makes up for the gap between findOpen and the INSERT.
THEOREM OneOpenShift == Spec => []OneOpenShiftPerMember
<1>1. TerminalInv => OneOpenShiftPerMember
  BY DEF TerminalInv
<1> QED BY <1>1, Invariance, PTL

\* What a session says of its member's shift and pump stays true as long as it lives.
THEOREM SessionIsRight == Spec => []SessionMatchesShift
<1>1. TerminalInv => SessionMatchesShift
  BY DEF TerminalInv, StartedHasShift, SessionIsDone, SessionMatchesShift, TypeOK
<1> QED BY <1>1, Invariance, PTL

\* Only a race between two pump checks puts two members on one pump.
THEOREM PumpRaceOnly == Spec => []PumpSharedOnlyByRace
<1>1. TerminalInv => PumpSharedOnlyByRace
  BY DEF TerminalInv
<1> QED BY <1>1, Invariance, PTL

\* However many sessions end a shift, it is closed and counted once.
THEOREM CountedOnce == Spec => []ClosedOnce
<1>1. TerminalInv => ClosedOnce
  BY DEF TerminalInv
<1> QED BY <1>1, Invariance, PTL

----------------------------------------------------------------------------
(* The book of shifts.  Two steps write a row: to the book one is a beginning and the other *)
(* the end of a shift; all others leave it alone.                                           *)

\* A login that goes on is a member's.
LoginIsOfStaff == \A k \in Tokens : stage[k] \in {"verified", "validated", "inserting"} => who[k] \in Staff

LEMMA LoginsAreOfStaff == Spec => []LoginIsOfStaff
<1>1. Init => LoginIsOfStaff
  BY DEF Init, LoginIsOfStaff
<1>2. TypeOK /\ LoginIsOfStaff /\ [Next]_vars => LoginIsOfStaff'
  <2> SUFFICES ASSUME TypeOK, LoginIsOfStaff, [Next]_vars PROVE LoginIsOfStaff'
    OBVIOUS
  <2> USE DEF TypeOK, LoginIsOfStaff, loginVars
  <2>1. ASSUME NEW k \in Tokens, NEW u \in Staff, NEW p \in Pumps \cup {NoPump}, VerifyPIN(k, u, p)
        PROVE  LoginIsOfStaff'
    BY <2>1 DEF VerifyPIN
  <2>2. ASSUME NEW k \in Tokens,
               \/ ValidateShiftPump(k) \/ ResumeShift(k) \/ FindNoShift(k)
               \/ (\E s \in Shifts : InsertShift(k, s)) \/ CreateSession(k)
        PROVE  LoginIsOfStaff'
    <3>1. who' = who /\ \A j \in Tokens \ {k} : stage'[j] = stage[j]
      BY <2>2 DEF ValidateShiftPump, ResumeShift, FindNoShift, InsertShift, CreateSession
    <3>2. stage'[k] \in {"validated", "inserting"} => stage[k] \in {"verified", "validated"}
      BY <2>2 DEF ValidateShiftPump, ResumeShift, FindNoShift, InsertShift, CreateSession
    <3> QED BY <3>1, <3>2, <2>2 DEF ValidateShiftPump, ResumeShift, FindNoShift, InsertShift,
               CreateSession
  <2>3. ASSUME NEW k \in Tokens, LoginFails(k) PROVE LoginIsOfStaff'
    BY <2>3 DEF LoginFails
  <2>4. CASE UNCHANGED <<stage, who>>
    BY <2>4
  <2>5. (\E k \in Tokens : Request(k)) => UNCHANGED <<stage, who>>
    BY DEF Request, LetIn, CloseShift, DeleteSession, RequestEnds, SessionExpires
  <2>6. (\E u \in Staff : SetActive(u)) \/ (\E p \in Pumps : UpsertPump(p)) \/ UNCHANGED vars
          => UNCHANGED <<stage, who>>
    BY DEF SetActive, UpsertPump, vars
  <2> QED BY <2>1, <2>2, <2>3, <2>4, <2>5, <2>6 DEF Next, Login
<1> QED BY <1>1, <1>2, TerminalTypes, PTL DEF Spec

\* The INSERT begins a shift of the book: the index sees to it that the member has none.
LEMMA InsertIsBegin ==
    ASSUME TypeOK, LoginIsOfStaff, NEW k \in Tokens, NEW s \in Shifts, InsertShift(k, s)
    PROVE  \E e \in Book!NewEntries : Book!Begin(e)
<1> DEFINE e == [shift |-> s, member |-> who[k], pump |-> wish[k]]
<1>1. /\ stage[k] = "inserting" /\ state[s] = "none" /\ IndexAllows(k)
      /\ state' = [state EXCEPT ![s] = "open"]
      /\ member' = [member EXCEPT ![s] = who[k]]
      /\ station' = [station EXCEPT ![s] = wish[k]]
      /\ UNCHANGED closings
  BY DEF InsertShift
<1>2. who[k] \in Staff /\ wish[k] \in Pumps \cup {NoPump}
  BY <1>1 DEF TypeOK, LoginIsOfStaff
<1>3. /\ Entry(s)' = e
      /\ \A r \in Shifts \ {s} : Entry(r)' = Entry(r) /\ state'[r] = state[r]
      /\ state'[s] = "open"
  BY <1>1 DEF Entry, TypeOK
<1>4. s \in Book!Unused
  BY <1>1 DEF Book!Unused, EntriesOf, Entry
<1>5. e \in Book!NewEntries
  BY <1>2, <1>4 DEF Book!NewEntries
<1>6. \A d \in EntriesOf("open") : d.member # e.member
  BY <1>1 DEF EntriesOf, Entry, IndexAllows, IsOpen
<1>7. EntriesOf("open")' = EntriesOf("open") \cup {e}
  BY <1>1, <1>3 DEF EntriesOf
<1>8. EntriesOf("closed")' = EntriesOf("closed")
  BY <1>1, <1>3 DEF EntriesOf
<1> HIDE DEF e
<1> QED BY <1>1, <1>5, <1>6, <1>7, <1>8 DEF Book!Begin

\* A shift end finishes the shift of its session and counts it.
LEMMA CloseIsFinish ==
    ASSUME TerminalInv, NEW k \in Tokens, CloseShift(k)
    PROVE  \E e \in EntriesOf("open") : Book!Finish(e)
<1> USE DEF TerminalInv
<1> DEFINE s == shift[k]
           e == Entry(s)
<1>1. s \in Shifts /\ state[s] = "open"
  BY InsideHasShift DEF CloseShift, Closable, IsOpen, SessionIsDone
<1>2. /\ state' = [state EXCEPT ![s] = "closed"]
      /\ closings' = [closings EXCEPT ![s] = @ + 1]
      /\ UNCHANGED <<member, station>>
  BY DEF CloseShift
<1>3. e \in EntriesOf("open") /\ e.shift = s
  BY <1>1 DEF EntriesOf, Entry
<1>4. \A r \in Shifts : Entry(r)' = Entry(r)
  BY <1>2 DEF Entry
<1>5. \A r \in Shifts : r # s => Entry(r) # e /\ state'[r] = state[r]
  BY <1>1, <1>2 DEF Entry, TypeOK
<1>6. state'[s] = "closed"
  BY <1>1, <1>2 DEF TypeOK
<1> HIDE DEF s, e
<1>7. EntriesOf("open")' = EntriesOf("open") \ {e}
  BY <1>1, <1>4, <1>5, <1>6 DEF EntriesOf, e
<1>8. EntriesOf("closed")' = EntriesOf("closed") \cup {e}
  BY <1>1, <1>4, <1>5, <1>6 DEF EntriesOf, e
<1> QED BY <1>2, <1>3, <1>7, <1>8 DEF Book!Finish

\* The terminal keeps the book, for any staff, pumps and number of logins: every step begins a
\* shift of a member who has none, or finishes and counts one, or leaves the book alone.
THEOREM TerminalKeepsBook == Spec => ImplementsShiftBook
<1>1. Init => Book!Init
  BY DEF Init, Book!Init, EntriesOf
<1>2. TerminalInv /\ LoginIsOfStaff /\ [Next]_vars => [Book!Next]_(Book!vars)
  <2> SUFFICES ASSUME TerminalInv, LoginIsOfStaff, [Next]_vars
               PROVE  Book!Next \/ UNCHANGED Book!vars
    OBVIOUS
  <2>1. CASE UNCHANGED rowVars
    BY <2>1 DEF rowVars, Book!vars, EntriesOf, Entry
  <2>2. ASSUME NEW k \in Tokens, Login(k)
        PROVE  UNCHANGED rowVars \/ \E s \in Shifts : InsertShift(k, s)
    BY <2>2 DEF Login, VerifyPIN, ValidateShiftPump, ResumeShift, FindNoShift, CreateSession,
                LoginFails
  <2>3. ASSUME NEW k \in Tokens, Request(k)
        PROVE  UNCHANGED rowVars \/ CloseShift(k)
    BY <2>3 DEF Request, LetIn, DeleteSession, RequestEnds, SessionExpires
  <2>4. (\E u \in Staff : SetActive(u)) \/ (\E p \in Pumps : UpsertPump(p)) \/ UNCHANGED vars
          => UNCHANGED rowVars
    BY DEF SetActive, UpsertPump, vars
  <2>5. ASSUME NEW k \in Tokens, NEW s \in Shifts, InsertShift(k, s) PROVE Book!Next
    BY <2>5, InsertIsBegin DEF TerminalInv, Book!Next
  <2>6. ASSUME NEW k \in Tokens, CloseShift(k) PROVE Book!Next
    BY <2>6, CloseIsFinish DEF Book!Next
  <2> QED BY <2>1, <2>2, <2>3, <2>4, <2>5, <2>6 DEF Next
<1> QED BY <1>1, <1>2, Invariance, LoginsAreOfStaff, PTL DEF Spec, Book!Spec, ImplementsShiftBook
=============================================================================
