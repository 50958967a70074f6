------------------------------- MODULE Server -------------------------------
(***************************************************************************)
(* The server's life, and the transactions of the plants inside it: its    *)
(* dependencies are opened one by one, requests take connections of AppDB  *)
(* and give them back, and a signal drains the requests and closes the     *)
(* pools.  Every plant's transactions run on the same connections, so what *)
(* a connection carries must not outlive the transaction.                  *)
(***************************************************************************)
EXTENDS Naturals, FiniteSets

CONSTANTS
    Requests,   \* bound: requests that one process gets
    Tenants,    \* the plants whose hosts they ask
    Conns,      \* the connections of AppDB
    NoTenant,
    NoRequest

ASSUME ServerAssumption == NoTenant \notin Tenants /\ NoRequest \notin Requests

\* CreateNewServer and main, in this order.
Dependencies == {"app", "admin", "redis", "config", "listen"}
After(phase) ==
    CASE phase = "app" -> "admin"
      [] phase = "admin" -> "redis"
      [] phase = "redis" -> "config"
      [] phase = "config" -> "listen"
      [] phase = "listen" -> "up"

VARIABLES
    process,    \* what main does
    at,         \* at[r]: what request r does next, or how it ended
    tenant,     \* tenant[r]: its plant
    second,     \* the requests that are in the second of their two transactions
    heldBy,     \* heldBy[c]: who has connection c, NoRequest when it is in the pool
    setting,    \* setting[c]: app.current_plant_id on c, NoTenant when it is empty
    reached     \* history: reached[r]: the plants whose rows r's statements could see and write

serverVars == <<process, at, tenant, second, heldBy, setting, reached>>

----------------------------------------------------------------------------
(* main. *)

Opens ==
    /\ process \in Dependencies
    /\ process' = After(process)
    /\ UNCHANGED <<at, tenant, second, heldBy, setting, reached>>

\* A dependency does not answer, a setting is missing, or the port is taken: log.Fatal.
OpenFails ==
    /\ process \in Dependencies
    /\ process' = "exited"
    /\ UNCHANGED <<at, tenant, second, heldBy, setting, reached>>

\* SIGINT or SIGTERM: Shutdown accepts no more requests and waits for those there are.
Signal ==
    /\ process = "up"
    /\ process' = "draining"
    /\ UNCHANGED <<at, tenant, second, heldBy, setting, reached>>

Ended == {"idle", "done", "failed", "cut"}

\* Every request has ended, or ten seconds are over and they go on while the pools are closed.
ShutdownReturns ==
    /\ process = "draining"
    /\ process' = "closing"
    /\ UNCHANGED <<at, tenant, second, heldBy, setting, reached>>

\* AppDB.Close hands out no connection any more and waits until it has all of them back.
CloseApp ==
    /\ process = "closing"
    /\ \A c \in Conns : heldBy[c] = NoRequest
    /\ process' = "closed"
    /\ UNCHANGED <<at, tenant, second, heldBy, setting, reached>>

\* What is left of the requests is cut off.
Cut == [r \in Requests |-> IF at[r] \in Ended THEN at[r] ELSE "cut"]

\* AdminDB.Close waits in the same way; then main returns.
Exit ==
    /\ process = "closed"
    /\ \A r \in Requests : at[r] # "lookup"
    /\ process' = "exited"
    /\ at' = Cut
    /\ UNCHANGED <<tenant, second, heldBy, setting, reached>>

\* The process is killed: Postgres rolls back what was open.
Killed ==
    /\ process \notin {"exited"}
    /\ process' = "exited"
    /\ at' = Cut
    /\ heldBy' = [c \in Conns |-> NoRequest]
    /\ setting' = [c \in Conns |-> NoTenant]
    /\ UNCHANGED <<tenant, second, reached>>

----------------------------------------------------------------------------
(* A request. *)

Running == process \in {"up", "draining", "closing", "closed"}

Moves(r, from, to) == Running /\ at[r] = from /\ at' = [at EXCEPT ![r] = to]

\* middleware.Tenant asks AdminDB which plant the host is.
Arrive(r, p) ==
    /\ process = "up"
    /\ Moves(r, "idle", "lookup")
    /\ tenant' = [tenant EXCEPT ![r] = p]
    /\ UNCHANGED <<process, second, heldBy, setting, reached>>

LookupEnds(r) ==
    /\ Moves(r, "lookup", "acquire") \/ Moves(r, "lookup", "failed")
    /\ UNCHANGED <<process, tenant, second, heldBy, setting, reached>>

Acquire(r) ==
    /\ process \notin {"closing", "closed"}
    /\ Moves(r, "acquire", "begin")
    /\ \E c \in Conns :
          /\ heldBy[c] = NoRequest
          /\ heldBy' = [heldBy EXCEPT ![c] = r]
    /\ UNCHANGED <<process, tenant, second, setting, reached>>

\* The pool is closed, or the request's time is over.
AcquireFails(r) ==
    /\ Moves(r, "acquire", "failed")
    /\ UNCHANGED <<process, tenant, second, heldBy, setting, reached>>

\* defer conn.Release().
Released(r) == [c \in Conns |-> IF heldBy[c] = r THEN NoRequest ELSE heldBy[c]]

\* Mutant: a connection on which no transaction could begin is not given back.
NotReleased(r) == heldBy

\* conn.Begin fails.
ReleasedUnbegun(r) == Released(r)

Begin(r) ==
    /\ Moves(r, "begin", "scope")
    /\ UNCHANGED <<process, tenant, second, heldBy, setting, reached>>

BeginFails(r) ==
    /\ Moves(r, "begin", "failed")
    /\ heldBy' = ReleasedUnbegun(r)
    /\ UNCHANGED <<process, tenant, second, setting, reached>>

SetScope(r) ==
    /\ Moves(r, "scope", "work")
    /\ setting' = [c \in Conns |-> IF heldBy[c] = r THEN tenant[r] ELSE setting[c]]
    /\ UNCHANGED <<process, tenant, second, heldBy, reached>>

\* The policies of migration 0001: rows of current_plant_id(), and none when it is empty.
Visible(r) == {setting[c] : c \in {d \in Conns : heldBy[d] = r}} \ {NoTenant}

Work(r) ==
    /\ Moves(r, "work", "commit")
    /\ reached' = [reached EXCEPT ![r] = @ \cup Visible(r)]
    /\ UNCHANGED <<process, tenant, second, heldBy, setting>>

\* Mutant: is_local is false, and the setting belongs to the connection.
StaysSet(p) == p

\* is_local: the setting ends with the transaction, whichever way that ends.
AfterTransaction(p) == NoTenant

\* COMMIT, or ROLLBACK; a connection that could not even be rolled back is replaced by a new one.
EndTransaction(r) ==
    /\ heldBy' = Released(r)
    /\ setting' = [c \in Conns |-> IF heldBy[c] = r THEN AfterTransaction(setting[c]) ELSE setting[c]]

\* The handler answers, or has a second transaction to run.
Commit(r) ==
    /\ \/ Moves(r, "commit", "reply") /\ UNCHANGED second
       \/ r \notin second /\ Moves(r, "commit", "acquire") /\ second' = second \cup {r}
    /\ EndTransaction(r)
    /\ UNCHANGED <<process, tenant, reached>>

\* A statement or the COMMIT fails, or the request's time is over.
TransactionFails(r) ==
    /\ \E step \in {"scope", "work", "commit"} : Moves(r, step, "failed")
    /\ EndTransaction(r)
    /\ UNCHANGED <<process, tenant, second, reached>>

Reply(r) ==
    /\ Moves(r, "reply", "done")
    /\ UNCHANGED <<process, tenant, second, heldBy, setting, reached>>

----------------------------------------------------------------------------

ServerInit ==
    /\ process = "app"
    /\ at = [r \in Requests |-> "idle"]
    /\ tenant = [r \in Requests |-> NoTenant]
    /\ second = {}
    /\ heldBy = [c \in Conns |-> NoRequest]
    /\ setting = [c \in Conns |-> NoTenant]
    /\ reached = [r \in Requests |-> {}]

\* What a request does once it is there; each step is answered or runs into its timeout.
RequestStep(r) ==
    \/ LookupEnds(r)
    \/ Acquire(r) \/ AcquireFails(r)
    \/ Begin(r) \/ BeginFails(r)
    \/ SetScope(r) \/ Work(r) \/ Commit(r) \/ TransactionFails(r)
    \/ Reply(r)

\* What main does once there is a signal.
ShutdownStep == ShutdownReturns \/ CloseApp \/ Exit

ServerNext ==
    \/ Opens \/ OpenFails \/ Signal \/ Killed
    \/ ShutdownStep
    \/ \E r \in Requests, p \in Tenants : Arrive(r, p)
    \/ \E r \in Requests : RequestStep(r)

ServerSpec == ServerInit /\ [][ServerNext]_serverVars

----------------------------------------------------------------------------
(* Properties. *)

Holding == {"begin", "scope", "work", "commit"}

\* Every variable has its type.
ServerTypeOK ==
    /\ process \in Dependencies \cup {"up", "draining", "closing", "closed", "exited"}
    /\ at \in [Requests -> Ended \cup Holding \cup {"lookup", "acquire", "reply"}]
    /\ tenant \in [Requests -> Tenants \cup {NoTenant}]
    /\ second \subseteq Requests
    /\ heldBy \in [Conns -> Requests \cup {NoRequest}]
    /\ setting \in [Conns -> Tenants \cup {NoTenant}]
    /\ reached \in [Requests -> SUBSET Tenants]

\* A request's statements reach the rows of its own plant and of no other, however the plants'
\* requests share the connections and wherever their transactions fail; a connection that goes
\* back to the pool carries no plant ("no leftover session state", tenantdb.WithTenant).
PlantsApart ==
    /\ \A r \in Requests : reached[r] \subseteq {tenant[r]}
    /\ \A c \in Conns : heldBy[c] = NoRequest => setting[c] = NoTenant

\* A signal ends the process by itself: no request, however it fails, keeps the connection that
\* the closing of AppDB waits for.
ShutdownEnds == process = "draining" ~> process = "exited"
=============================================================================
