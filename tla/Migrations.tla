----------------------------- MODULE Migrations -----------------------------
(***************************************************************************)
(* gtg migrate and gtg seed: several processes may run the migrations at   *)
(* once, each file by file in the order of the names, each file and its    *)
(* row of schema_migrations in one transaction.                            *)
(***************************************************************************)
EXTENDS Integers

CONSTANTS
    Runners,    \* processes that may be started
    LastFile,   \* the *.up.sql files are 1 .. LastFile, in the order of their names
    SeedFiles   \* the *_seed_data.up.sql among them

ASSUME LastFileAssumption == LastFile \in Nat \ {0}
ASSUME SeedFilesAssumption == SeedFiles \subseteq 1 .. LastFile

Files == 1 .. LastFile

\* What a process does: gtg migrate, gtg migrate --seed, gtg seed, gtg seed --force.
Commands == {"migrate", "migrate seed", "seed", "seed forced"}

VARIABLES
    production,  \* APP_ENV=production
    recorded,    \* the versions in schema_migrations
    bodies,      \* history: bodies[v]: how often the statements of file v were committed
    running,     \* running[r]: what process r does next, or how it ended
    command,     \* command[r]: what it was started for
    at           \* at[r]: its file

migrationVars == <<production, recorded, bodies, running, command, at>>

StartMigrate(r, c) ==
    /\ running[r] = "idle"
    /\ command' = [command EXCEPT ![r] = c]
    /\ at' = [at EXCEPT ![r] = 1]
    /\ running' = [running EXCEPT ![r] = "look"]
    /\ UNCHANGED <<production, recorded, bodies>>

\* The files a process means to apply: gtg seed only those with data, gtg migrate the others.
Wanted(r, v) == command[r] = "migrate seed" \/ (v \in SeedFiles <=> command[r] # "migrate")

\* guardSeed: seeding a production database needs gtg seed --force.
Refused(r, v) == v \in SeedFiles /\ Wanted(r, v) /\ production /\ command[r] # "seed forced"

NextFile(r) ==
    /\ at' = [at EXCEPT ![r] = @ + 1]
    /\ running' = [running EXCEPT ![r] = IF at[r] = LastFile THEN "complete" ELSE "look"]

\* A file that is not wanted, or is recorded already.
SkipFile(r) ==
    /\ running[r] = "look"
    /\ ~Refused(r, at[r])
    /\ ~Wanted(r, at[r]) \/ at[r] \in recorded
    /\ NextFile(r)
    /\ UNCHANGED <<production, recorded, bodies, command>>

LookUp(r) ==
    /\ running[r] = "look"
    /\ ~Refused(r, at[r])
    /\ Wanted(r, at[r])
    /\ at[r] \notin recorded
    /\ running' = [running EXCEPT ![r] = "apply"]
    /\ UNCHANGED <<production, recorded, bodies, command, at>>

\* Mutant: schema_migrations has no primary key.
AnyVersion(v) == TRUE

\* The row can be inserted.
Recordable(v) == v \notin recorded

ApplyOne(r) ==
    /\ running[r] = "apply"
    /\ Recordable(at[r])
    /\ recorded' = recorded \cup {at[r]}
    /\ bodies' = [bodies EXCEPT ![at[r]] = @ + 1]
    /\ NextFile(r)
    /\ UNCHANGED <<production, command>>

\* A refused seed file, a statement of the file or its record that fails, or a process that
\* dies: the transaction is rolled back, and the process ends with an error.
MigrateFails(r) ==
    /\ running[r] \in {"look", "apply"}
    /\ running' = [running EXCEPT ![r] = "failed"]
    /\ UNCHANGED <<production, recorded, bodies, command, at>>

MigrationInit ==
    /\ production \in BOOLEAN
    /\ recorded = {}
    /\ bodies = [v \in Files |-> 0]
    /\ running = [r \in Runners |-> "idle"]
    /\ command = [r \in Runners |-> "migrate"]
    /\ at = [r \in Runners |-> 1]

MigrateStep(r) ==
    \/ \E c \in Commands : StartMigrate(r, c)
    \/ SkipFile(r)
    \/ LookUp(r)
    \/ ApplyOne(r)
    \/ MigrateFails(r)

MigrationNext == \E r \in Runners : MigrateStep(r)

MigrationSpec == MigrationInit /\ [][MigrationNext]_migrationVars

----------------------------------------------------------------------------
(* Properties. *)

MigrationTypeOK ==
    /\ production \in BOOLEAN
    /\ recorded \subseteq Files
    /\ bodies \in [Files -> Nat]
    /\ running \in [Runners -> {"idle", "look", "apply", "complete", "failed"}]
    /\ command \in [Runners -> Commands]
    /\ at \in [Runners -> 1 .. LastFile + 1]
    /\ \A r \in Runners : running[r] \in {"look", "apply"} => at[r] \in Files

\* However many processes migrate at once and wherever they fail, the statements of a file are
\* in the database once if it is recorded and not at all if it is not, a file of the schema is
\* applied only after those before it, and a process that says "migrations complete" has them all.
SchemaAsRecorded ==
    /\ \A v \in Files : bodies[v] = (IF v \in recorded THEN 1 ELSE 0)
    /\ \A v \in recorded \ SeedFiles : \A u \in 1 .. v : u \in recorded \cup SeedFiles
    /\ \A r \in Runners :
         running[r] = "complete" => \A v \in Files : Wanted(r, v) => v \in recorded
=============================================================================
