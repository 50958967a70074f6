----------------------------- MODULE Dashboard -----------------------------
(***************************************************************************)
(* The pages that only show: the owner's dashboard, the customer's home,   *)
(* the terminal, the administrators' console and their page of a plant.    *)
(* One request for one of them is followed while other transactions        *)
(* commit.  Each of its statements sees what is committed when it begins   *)
(* (READ COMMITTED), and the loaders drop their errors: what a statement   *)
(* did not bring is shown as zero, as empty or as "coming soon".           *)
(***************************************************************************)
EXTENDS Naturals, Sequences

CONSTANTS
    Transactions,  \* bound: the tables that each of the other transactions may write
    MaxCommits     \* bound: transactions that commit while the page is made

Tables ==
    {"plants", "prices", "tickets", "pumps", "users", "shifts", "cash_movements", "plant_hours",
     "plant_reviews", "activity_log"}

ASSUME DashboardAssumption == Transactions \subseteq SUBSET Tables /\ MaxCommits \in Nat

----------------------------------------------------------------------------
(* The statements of the pages, each given as the tables it reads. *)

Profile == <<{"plants"}>>
Money == <<{"prices"}, {"tickets"}>>
RecentTickets == <<{"tickets", "pumps"}>>
People == <<{"users", "tickets", "shifts"}, {"shifts", "users", "pumps", "tickets"}>>
CashBook == <<{"cash_movements", "users", "tickets"}>>
PriceBook == <<{"prices", "users"}>>
OpeningHours == <<{"plant_hours"}>>
PumpList == {"pumps", "tickets", "shifts"}
Ratings == <<{"plant_reviews"}, {"plant_reviews", "tickets"}>>
Trail == <<{"activity_log", "users"}>>

DashboardStatements ==
    Profile \o Money \o RecentTickets \o People \o CashBook \o PriceBook \o OpeningHours
        \o <<PumpList>> \o Ratings \o Trail

HomeStatements == <<{"prices"}>> \o OpeningHours

TerminalStatements == <<{"users"}, {"prices"}, {"shifts"}, PumpList, {"users"}>> \o Ratings

ConsoleStatements ==
    <<{"plants"}, {"plants"}, {"tickets"},
      {"plants", "users", "tickets", "prices", "shifts", "activity_log"},
      {"activity_log", "users", "plants"}>>

PlantStatements == <<{"plants", "users", "prices", "shifts", "tickets"}, {"users"}>> \o Trail

Statements ==
    [owner |-> DashboardStatements, home |-> HomeStatements, terminal |-> TerminalStatements,
     console |-> ConsoleStatements, plant |-> PlantStatements]

Views == DOMAIN Statements

\* The plants' pages read inside WithTenant, the administrators' straight from AdminDB.
InTransaction == {"owner", "home", "terminal"}

----------------------------------------------------------------------------

VARIABLES
    view,         \* the page that is asked for
    drawing,      \* where its handler is, or how it ended
    panels,       \* what its statements brought: something or nothing, and the commits they saw
    aborted,      \* a statement of its transaction has failed
    commits,      \* the tables written by the other transactions, in the order of their commits
    firstPump,    \* "Pump 1": not there, inserted by "ours" or an "other" transaction, or committed
    staffCookie   \* whether the terminal's browser has a staff session

dashboardVars == <<view, drawing, panels, aborted, commits, firstPump, staffCookie>>

\* The statement that comes next.
Upcoming == Statements[view][Len(panels) + 1]

Reading == drawing = "read" /\ Len(panels) < Len(Statements[view])

Brings(found) == panels' = Append(panels, [found |-> found, saw |-> Len(commits)])

----------------------------------------------------------------------------
(* The handler. *)

\* Another transaction, that of a handler that writes, commits.
OthersCommit(tables) ==
    /\ Len(commits) < MaxCommits
    /\ commits' = Append(commits, tables)
    /\ UNCHANGED <<view, drawing, panels, aborted, firstPump, staffCookie>>

\* The pages that can do without go on with nothing loaded.
WithoutPanels ==
    CASE view = "owner" -> "error"
      [] view = "terminal" -> "session"
      [] OTHER -> "shown"

BeginReading ==
    /\ drawing = "begin"
    /\ drawing' = "read"
    /\ UNCHANGED <<view, panels, aborted, commits, firstPump, staffCookie>>

\* There is no connection, or its transaction does not begin or gets no plant.
BeginReadingFails ==
    /\ drawing = "begin"
    /\ view \in InTransaction
    /\ drawing' = WithoutPanels
    /\ UNCHANGED <<view, panels, aborted, commits, firstPump, staffCookie>>

\* pumps.List inserts the plant's first pump when it sees none, and waits for another
\* transaction that has inserted it.
ReadPanel ==
    /\ Reading
    /\ ~aborted
    /\ Upcoming = PumpList => firstPump # "other"
    /\ Brings(TRUE)
    /\ firstPump' = IF Upcoming = PumpList /\ firstPump = "none" THEN "ours" ELSE firstPump
    /\ UNCHANGED <<view, drawing, aborted, commits, staffCookie>>

\* Mutant: what fails in a transaction fails on its own.
NeverAborts == aborted

\* Postgres accepts no more statements in a transaction once one of them has failed.
AfterFailure == aborted \/ view \in InTransaction

\* A statement fails, by itself or because the transaction is aborted, and its loader says
\* nothing of it; only the page of a plant does not go on without the plant's row.
PanelFails ==
    /\ Reading
    /\ IF view = "plant" /\ panels = <<>>
         THEN drawing' = "notfound" /\ UNCHANGED panels
         ELSE Brings(FALSE) /\ UNCHANGED drawing
    /\ aborted' = AfterFailure
    /\ UNCHANGED <<view, commits, firstPump, staffCookie>>

WaitForPump ==
    /\ Reading
    /\ ~aborted
    /\ Upcoming = PumpList
    /\ firstPump = "other"
    /\ drawing' = "wait"
    /\ UNCHANGED <<view, panels, aborted, commits, firstPump, staffCookie>>

\* EnsureDefault elsewhere: another page of the plant, or a payment that gets its pump.
OtherInsertsPump ==
    /\ firstPump = "none"
    /\ firstPump' = "other"
    /\ UNCHANGED <<view, drawing, panels, aborted, commits, staffCookie>>

OtherRollsBack ==
    /\ firstPump = "other"
    /\ firstPump' = "none"
    /\ drawing' = IF drawing = "wait" THEN "read" ELSE drawing
    /\ UNCHANGED <<view, panels, aborted, commits, staffCookie>>

\* The INSERT that waited finds (plant_id, name) taken.
OtherPumpCommits ==
    /\ firstPump = "other"
    /\ firstPump' = "there"
    /\ IF drawing = "wait"
         THEN Brings(FALSE) /\ drawing' = "read" /\ aborted' = AfterFailure
         ELSE UNCHANGED <<panels, drawing, aborted>>
    /\ UNCHANGED <<view, commits, staffCookie>>

AllRead == drawing = "read" /\ Len(panels) = Len(Statements[view])

\* The COMMIT, where there is one: Postgres answers it with a rollback after a failed statement.
EndReading ==
    /\ AllRead
    /\ ~aborted
    /\ drawing' = IF view = "terminal" THEN "session" ELSE "shown"
    /\ firstPump' = IF firstPump = "ours" THEN "there" ELSE firstPump
    /\ UNCHANGED <<view, panels, aborted, commits, staffCookie>>

\* Only the dashboard's handler looks at the error.
CommitFails ==
    /\ AllRead
    /\ view \in InTransaction
    /\ drawing' = WithoutPanels
    /\ firstPump' = IF firstPump = "ours" THEN "none" ELSE firstPump
    /\ UNCHANGED <<view, panels, aborted, commits, staffCookie>>

\* loadCurrentTerminalSession: the session, the open shift of an active member, and its totals.
ResumeSession ==
    /\ drawing = "session"
    /\ drawing' = "shown"
    /\ UNCHANGED <<view, panels, aborted, commits, firstPump, staffCookie>>

\* The session has ended, the shift is closed, the member is inactive, or a query fails.
DropSession ==
    /\ drawing = "session"
    /\ drawing' = "shown"
    /\ staffCookie' = FALSE
    /\ UNCHANGED <<view, panels, aborted, commits, firstPump>>

----------------------------------------------------------------------------

DashboardInit ==
    /\ view \in Views
    /\ drawing = "begin"
    /\ panels = <<>>
    /\ aborted = FALSE
    /\ commits = <<>>
    /\ firstPump \in {"none", "there"}
    /\ staffCookie \in BOOLEAN
    /\ view # "terminal" => ~staffCookie

DashboardNext ==
    \/ \E tables \in Transactions : OthersCommit(tables)
    \/ BeginReading \/ BeginReadingFails
    \/ ReadPanel \/ PanelFails
    \/ WaitForPump \/ OtherInsertsPump \/ OtherRollsBack \/ OtherPumpCommits
    \/ EndReading \/ CommitFails
    \/ ResumeSession \/ DropSession

DashboardSpec == DashboardInit /\ [][DashboardNext]_dashboardVars

----------------------------------------------------------------------------
(* Properties. *)

\* Every variable has its type.
DashboardTypeOK ==
    /\ view \in Views
    /\ drawing \in {"begin", "read", "wait", "session", "shown", "error", "notfound"}
    /\ panels \in Seq([found : BOOLEAN, saw : 0..MaxCommits])
    /\ Len(panels) <= Len(Statements[view])
    /\ aborted \in BOOLEAN
    /\ commits \in Seq(Transactions) /\ Len(commits) <= MaxCommits
    /\ firstPump \in {"none", "ours", "other", "there"}
    /\ staffCookie \in BOOLEAN

\* The loaders of the dashboard drop every error, and yet a dashboard that is shown has all of
\* its panels: a figure of zero is a zero of the plant, not a query that failed.
DashboardIsWhole ==
    view = "owner" /\ drawing = "shown" =>
        Len(panels) = Len(DashboardStatements) /\ \A i \in DOMAIN panels : panels[i].found

\* On the other pages of a plant, what is missing is missing from some panel to the last.
MissingToTheEnd ==
    view \in InTransaction =>
        \A i, j \in DOMAIN panels : i < j /\ panels[j].found => panels[i].found

\* Panel i shows what commit k wrote.
PanelShows(i, k) == panels[i].found /\ k <= panels[i].saw /\ commits[k] \cap Statements[view][i] # {}

\* The panels are not of one moment, but a transaction that one panel shows, every later panel
\* that reads what it wrote shows too: a sale in the day's figures is in the lists below.
LaterPanelsKnowMore ==
    \A i, j \in DOMAIN panels, k \in DOMAIN commits :
        /\ i < j /\ PanelShows(i, k)
        /\ panels[j].found /\ commits[k] \cap Statements[view][j] # {}
        => PanelShows(j, k)

\* A page that is shown can be relied on, as far as its transaction reaches.
PageHoldsTogether == DashboardIsWhole /\ MissingToTheEnd /\ LaterPanelsKnowMore
=============================================================================
