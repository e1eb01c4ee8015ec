------------------------------ MODULE Migrate ------------------------------
(***************************************************************************)
(* migrate() (packages/db/src/migrate.ts), which every sign-in to the      *)
(* platform console, the system page and the command line run: several     *)
(* processes, perhaps of different builds of the program, bring the same   *)
(* database forward at the same time.  Each reads _migrations once and     *)
(* then runs, in a transaction of its own, every migration of its build    *)
(* that it has not seen there.                                             *)
(*                                                                         *)
(* A migration is its place in the order of the file names.  A build has   *)
(* the first ones, since new files come last; the text of a file, and so   *)
(* its checksum, may differ from build to build.                           *)
(***************************************************************************)
EXTENDS Naturals

CONSTANTS Runs,       \* calls of migrate()
          Builds,     \* builds of the program
          Last,       \* the number of migrations
          Size,       \* how many of them each build has
          Checksums,  \* checksums of texts
          Checksum,   \* the checksum of each migration in each build
          Nil         \* no row in _migrations

Migrations == 1 .. Last

ASSUME MigrateAssumption ==
  /\ Last \in Nat
  /\ Size \in [Builds -> 0 .. Last]
  /\ Checksum \in [Builds -> [Migrations -> Checksums]]
  /\ Nil \notin Checksums

VARIABLES table,    \* whether _migrations is there
          applied,  \* the checksum in the committed row of each migration
          effects,  \* history: how often the text of a migration was committed
          pc,       \* where each run is
          build,    \* its build
          seen,     \* what it read from _migrations
          next      \* the migration it has come to

vars == <<table, applied, effects, pc, build, seen, next>>
database == <<table, applied, effects>>

TypeOK ==
  /\ table \in BOOLEAN
  /\ applied \in [Migrations -> Checksums \cup {Nil}]
  /\ effects \in [Migrations -> Nat]
  /\ pc \in [Runs -> {"idle", "create", "creating", "created", "read", "loop", "ran",
                    "done", "failed"}]
  /\ build \in [Runs -> Builds]
  /\ seen \in [Runs -> [Migrations -> Checksums \cup {Nil}]]
  /\ next \in [Runs -> Nat \ {0}]
  /\ \A r \in Runs : next[r] <= Size[build[r]] + 1

Active == {r \in Runs : pc[r] \notin {"idle", "done", "failed"}}

Text(r) == Checksum[build[r]][next[r]]

(* The loop has come to a migration that the run saw, or did not see. *)
At(r) == pc[r] = "loop" /\ next[r] <= Size[build[r]]
Known(r) == At(r) /\ seen[r][next[r]] # Nil
Missing(r) == At(r) /\ seen[r][next[r]] = Nil

----------------------------------------------------------------------------
Init ==
  /\ table = FALSE
  /\ applied = [m \in Migrations |-> Nil]
  /\ effects = [m \in Migrations |-> 0]
  /\ pc = [r \in Runs |-> "idle"]
  /\ build \in [Runs -> Builds]
  /\ seen = [r \in Runs |-> applied]
  /\ next = [r \in Runs |-> 1]

Goto(r, label) == pc' = [pc EXCEPT ![r] = label]

Start(r) == pc[r] = "idle" /\ Goto(r, "create") /\ UNCHANGED <<database, build, seen, next>>

(* CREATE TABLE IF NOT EXISTS looks for the table, ... *)
FindTable(r) ==
  /\ pc[r] = "create"
  /\ Goto(r, IF table THEN "read" ELSE "creating")
  /\ UNCHANGED <<database, build, seen, next>>

(* ... waits for another run that is creating it, ... *)
CreateTable(r) ==
  /\ pc[r] = "creating" /\ ~table
  /\ \A q \in Runs : pc[q] # "created"
  /\ Goto(r, "created")
  /\ UNCHANGED <<database, build, seen, next>>

(* ... and fails if that one has committed it meanwhile. *)
TableTaken(r) ==
  /\ pc[r] = "creating" /\ table
  /\ Goto(r, "failed") /\ UNCHANGED <<database, build, seen, next>>

CommitTable(r) ==
  /\ pc[r] = "created"
  /\ Goto(r, "read")
  /\ table' = TRUE
  /\ UNCHANGED <<applied, effects, build, seen, next>>

ReadApplied(r) ==
  /\ pc[r] = "read"
  /\ Goto(r, "loop")
  /\ seen' = [seen EXCEPT ![r] = applied]
  /\ UNCHANGED <<database, build, next>>

\* Variant: the checksums are not compared.
SkipUnchecked(r) ==
  /\ Known(r)
  /\ next' = [next EXCEPT ![r] = @ + 1]
  /\ UNCHANGED <<database, pc, build, seen>>

Skip(r) ==
  /\ Known(r) /\ seen[r][next[r]] = Text(r)
  /\ next' = [next EXCEPT ![r] = @ + 1]
  /\ UNCHANGED <<database, pc, build, seen>>

(* The file was changed after it was run: migrate() throws. *)
Changed(r) ==
  /\ Known(r) /\ seen[r][next[r]] # Text(r)
  /\ Goto(r, "failed") /\ UNCHANGED <<database, build, seen, next>>

\* Variant: _migrations.name is not a primary key.
AnyRunMayRun(r) == TRUE

(* The text and the INSERT of the row: the run waits for another one that  *)
(* is at the same migration, and goes on only if that one did not commit.  *)
MayRun(r) ==
  /\ applied[next[r]] = Nil
  /\ \A q \in Runs \ {r} : ~(pc[q] = "ran" /\ next[q] = next[r])

RunMigration(r) ==
  /\ Missing(r) /\ MayRun(r)
  /\ Goto(r, "ran")
  /\ UNCHANGED <<database, build, seen, next>>

\* Variant: the error is caught, and the migration tried once more.
RetryTaken(r) ==
  /\ Missing(r) /\ applied[next[r]] # Nil
  /\ UNCHANGED vars

(* The primary key, or the text itself, refuses a migration that another   *)
(* run has committed meanwhile: the transaction is rolled back.            *)
MigrationTaken(r) ==
  /\ Missing(r) /\ applied[next[r]] # Nil
  /\ Goto(r, "failed") /\ UNCHANGED <<database, build, seen, next>>

\* Variant: the loop goes on with the migration after the next one.
CommitAndJump(r) ==
  /\ pc[r] = "ran"
  /\ Goto(r, "loop")
  /\ applied' = [applied EXCEPT ![next[r]] = Text(r)]
  /\ effects' = [effects EXCEPT ![next[r]] = @ + 1]
  /\ next' = [next EXCEPT ![r] = @ + 2]
  /\ UNCHANGED <<table, build, seen>>

CommitMigration(r) ==
  /\ pc[r] = "ran"
  /\ Goto(r, "loop")
  /\ applied' = [applied EXCEPT ![next[r]] = Text(r)]
  /\ effects' = [effects EXCEPT ![next[r]] = @ + 1]
  /\ next' = [next EXCEPT ![r] = @ + 1]
  /\ UNCHANGED <<table, build, seen>>

Return(r) ==
  /\ pc[r] = "loop" /\ next[r] > Size[build[r]]
  /\ Goto(r, "done") /\ UNCHANGED <<database, build, seen, next>>

\* Variant: a migration that fails is reported, and the loop goes on.
FailAndGoOn(r) ==
  /\ r \in Active
  /\ IF pc[r] = "ran"
     THEN Goto(r, "loop") /\ next' = [next EXCEPT ![r] = @ + 1]
     ELSE Goto(r, "failed") /\ UNCHANGED next
  /\ UNCHANGED <<database, build, seen>>

(* A statement fails, the connection is lost or the process is killed:     *)
(* nothing of the transaction stays, and the run is over.                  *)
Fail(r) == r \in Active /\ Goto(r, "failed") /\ UNCHANGED <<database, build, seen, next>>

Step(r) ==
  \/ FindTable(r) \/ CreateTable(r) \/ TableTaken(r) \/ CommitTable(r) \/ ReadApplied(r)
  \/ Skip(r) \/ Changed(r) \/ RunMigration(r) \/ MigrationTaken(r) \/ CommitMigration(r)
  \/ Return(r)

Next == \E r \in Runs : Start(r) \/ Step(r) \/ Fail(r)

Spec == Init /\ [][Next]_vars

(* The driver awaits and then runs every statement.  A statement that      *)
(* waits for a key waits for transactions that end, and is then served.    *)
Fairness == \A r \in Runs : SF_vars(Step(r))

FairSpec == Spec /\ Fairness

----------------------------------------------------------------------------
(* "In the order of the file names": the database is always at some        *)
(* version, with every migration up to it and none after it, although a    *)
(* run decides what to run from a list that other runs have outdated.      *)
AppliedInOrder ==
  \A m, n \in Migrations : m < n /\ applied[n] # Nil => applied[m] # Nil

(* A migration takes effect once, with its row, or not at all.             *)
EffectsAreRecorded ==
  \A m \in Migrations : effects[m] = IF applied[m] = Nil THEN 0 ELSE 1

(* A sign-in goes on after migrate(): a run that returns leaves a database *)
(* with all migrations of its build, and with the texts of its build.      *)
ReturnedIsCurrent ==
  \A r \in Runs : pc[r] = "done" =>
    \A m \in 1 .. Size[build[r]] : applied[m] = Checksum[build[r]][m]

(* Whatever the runs do beside each other, the database has one history:   *)
(* the rows of _migrations, read in their order, are the texts that were   *)
(* run one after the other, and a row that was read by a run stays true.   *)
Log == [m \in {n \in Migrations : applied[n] # Nil} |-> applied[m]]

History == INSTANCE Schema WITH log <- Log

ImplementsSchema == History!Spec

(* migrate() ends, returning or throwing, whatever other runs do.          *)
EveryRunEnds == \A r \in Runs : (r \in Active) ~> (r \notin Active)
=============================================================================
