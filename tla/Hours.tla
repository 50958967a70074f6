------------------------------- MODULE Hours --------------------------------
(***************************************************************************)
(* The opening hours of a plant: the owner's form that replaces the week,  *)
(* and StatusNow, which refuses a sale while the plant is shut.            *)
(*                                                                         *)
(* ReplaceWeek is a DELETE and some INSERTs in one READ COMMITTED          *)
(* transaction.  The DELETE finds the rows committed when it starts; its   *)
(* effect, the INSERTs and the COMMIT are one step: nobody sees them       *)
(* before, and another save that meets one of the rows waits for it.       *)
(* Of a form, a segment without two times of day is passed over in silence *)
(* and the rest is saved.                                                  *)
(***************************************************************************)
EXTENDS Integers, FiniteSets

CONSTANTS
    Saves,      \* submissions of the hours form
    LastDay,    \* the days of the week are 0 .. LastDay
    Midnight,   \* the minutes of a day are 0 .. Midnight - 1
    DayForms    \* what the form may say of a day: the box that closes it, and two segments' times

ASSUME LastDayAssumption == LastDay \in Nat \ {0}
ASSUME MidnightAssumption == Midnight \in Nat \ {0}

Days == 0 .. LastDay
Minutes == 0 .. Midnight - 1

\* A field of the form holds a time of day, nothing, or something that is neither.
Blank == -1
Garbled == -2
Times == Minutes \cup {Blank, Garbled}

ASSUME DayFormsAssumption ==
    DayForms \subseteq [closed : BOOLEAN, opens : [1 .. 2 -> Times], closes : [1 .. 2 -> Times]]

NothingEntered ==
    [closed |-> FALSE, opens |-> [n \in 1 .. 2 |-> Blank], closes |-> [n \in 1 .. 2 |-> Blank]]

\* The rows a day of the form is read as: one that closes it, or its segments that have a time.
ParseWeekForm(f) ==
    IF f.closed THEN {[segment |-> 1, opens |-> Blank, closes |-> Blank, closed |-> TRUE]}
    ELSE {[segment |-> n, opens |-> f.opens[n], closes |-> f.closes[n], closed |-> FALSE] :
            n \in {k \in 1 .. 2 : f.opens[k] # Blank \/ f.closes[k] # Blank}}

\* validHHMM: ReplaceWeek passes over a segment of which a time is missing or unreadable.
Unreadable(r) == ~r.closed /\ (r.opens \notin Minutes \/ r.closes \notin Minutes)

Inserted(f) == {r \in ParseWeekForm(f) : ~Unreadable(r)}

VARIABLES
    week,      \* plant_hours: the rows of every day, each with the save that inserted it
    saving,    \* saving[s]: what save s does next, or how it ended
    form,      \* form[s]: its fields of every day
    found,     \* found[s]: the rows its DELETE finds
    lastSave,  \* history: the saves that committed last: one, or none
    overlap    \* history: overlap[s]: the saves that committed while s was under way

hoursVars == <<week, saving, form, found, lastSave, overlap>>

\* Mutant: only the days the form has rows for are deleted.
FoundOnItsDays(f) == [d \in Days |-> IF Inserted(f[d]) = {} THEN {} ELSE week[d]]

Found(f) == week

\* The form is parsed, and the DELETE starts.
StartSave(s, f) ==
    /\ saving[s] = "idle"
    /\ form' = [form EXCEPT ![s] = f]
    /\ found' = [found EXCEPT ![s] = Found(f)]
    /\ saving' = [saving EXCEPT ![s] = "insert"]
    /\ UNCHANGED <<week, lastSave, overlap>>

\* What the DELETE leaves: the rows that came after it looked.
Left(s, d) ==
    {o \in week[d] : \A p \in found[s][d] : p.by # o.by \/ p.row.segment # o.row.segment}

\* UNIQUE (plant_id, day_of_week, segment) stops a row with hours; a row that closes the day
\* takes the place of the one it meets.
Conflict(s) ==
    \E d \in Days : \E r \in Inserted(form[s][d]) :
        ~r.closed /\ \E o \in Left(s, d) : o.row.segment = r.segment

\* ON CONFLICT DO UPDATE keeps the row, which stays that of the save that inserted it.
Merged(s, d) ==
    LET met(r) == {o \in Left(s, d) : o.row.segment = r.segment}
    IN  {o \in Left(s, d) : \A r \in Inserted(form[s][d]) : o.row.segment # r.segment}
        \cup UNION {IF met(r) = {} THEN {[by |-> s, row |-> r]}
                    ELSE {[o EXCEPT !.row = r] : o \in met(r)} : r \in Inserted(form[s][d])}

Others(s) == {o \in Saves \ {s} : saving[o] = "insert"}

InsertWeek(s) ==
    /\ saving[s] = "insert"
    /\ ~Conflict(s)
    /\ week' = [d \in Days |-> Merged(s, d)]
    /\ saving' = [saving EXCEPT ![s] = "saved"]
    /\ lastSave' = {s}
    /\ overlap' = [o \in Saves |-> IF o \in Others(s) THEN overlap[o] \cup {s} ELSE overlap[o]]
    /\ UNCHANGED <<form, found>>

\* A unique violation; or any statement, or the COMMIT, fails.
SaveFails(s) ==
    /\ saving[s] = "insert"
    /\ saving' = [saving EXCEPT ![s] = "failed"]
    /\ UNCHANGED <<week, form, found, lastSave, overlap>>

\* A plant begins without hours.
HoursInit ==
    /\ week = [d \in Days |-> {}]
    /\ saving = [s \in Saves |-> "idle"]
    /\ form = [s \in Saves |-> [d \in Days |-> NothingEntered]]
    /\ found = [s \in Saves |-> [d \in Days |-> {}]]
    /\ lastSave = {}
    /\ overlap = [s \in Saves |-> {}]

SaveStep(s) ==
    \/ \E f \in [Days -> DayForms] : StartSave(s, f)
    \/ InsertWeek(s)
    \/ SaveFails(s)

HoursNext == \E s \in Saves : SaveStep(s)

HoursSpec == HoursInit /\ [][HoursNext]_hoursVars

----------------------------------------------------------------------------
(* StatusNow. *)

\* timeInRange: a closing time that is not after the opening time is tomorrow's.
EndOf(opens, closes) == IF closes > opens THEN closes ELSE closes + Midnight

InRange(m, r) == r.opens <= m /\ m < EndOf(r.opens, r.closes)

\* Whether a sale at minute m of day d goes through: a day without rows is open.
IsOpen(d, m) ==
    \/ week[d] = {}
    \/ \E o \in week[d] : ~o.row.closed /\ InRange(m, o.row)

----------------------------------------------------------------------------
(* Properties. *)

HoursTypeOK ==
    /\ \A d \in Days : \A o \in week[d] :
         o.by \in Saves /\ \E f \in DayForms : o.row \in Inserted(f)
    /\ saving \in [Saves -> {"idle", "insert", "saved", "failed"}]
    /\ form \in [Saves -> [Days -> DayForms \cup {NothingEntered}]]
    /\ lastSave \in SUBSET Saves /\ Cardinality(lastSave) <= 1
    /\ overlap \in [Saves -> SUBSET Saves]

\* After a save, every segment its form gave is in the week as it was entered, unless a time of
\* it was missing or unreadable, of which the owner is told nothing; what else is in the week was
\* entered in a form that was saved meanwhile, and never is of an older week; and no day has one
\* segment twice.
WeekIsAsSaved ==
    /\ \A s \in lastSave, d \in Days :
         /\ \A r \in ParseWeekForm(form[s][d]) : Unreadable(r) \/ \E o \in week[d] : o.row = r
         /\ \A o \in week[d] : \E p \in overlap[s] \cup {s} : o.row \in ParseWeekForm(form[p][d])
    /\ \A d \in Days : \A o, p \in week[d] : o.row.segment = p.row.segment => o = p

\* The week as the owner means it, an instant being a minute of the whole week: hours that end
\* at or before they begin run into the next day, and the last day's into the first.
Covers(d, r, x, m) ==
    LET length == IF r.opens = r.closes THEN Midnight ELSE (r.closes - r.opens) % Midnight
        since == (x * Midnight + m) - (d * Midnight + r.opens)
    IN  since % ((LastDay + 1) * Midnight) < length

\* A plant sells when its hours say so, and never at another time, except after midnight in
\* hours that began the day before: those are looked for among the new day's rows, and count
\* only where that day has no rows or hours of its own.
OpenAsScheduled ==
    \A x \in Days, m \in Minutes :
        LET covering == {d \in Days : \E o \in week[d] : ~o.row.closed /\ Covers(d, o.row, x, m)}
        IN  IsOpen(x, m) <=> x \in covering \/ week[x] = {}

\* The plant's hours are what the last form says, but for segments it could not read and those of
\* forms saved at the same time, and the plant sells when its own day's rows say so, to the minute.
HoursAsEntered == WeekIsAsSaved /\ OpenAsScheduled
=============================================================================
