--------------------------- MODULE DatabaseProofs ---------------------------
(***************************************************************************)
(* Theorems about Migrate, for any number of runs, builds and migrations,  *)
(* about Demo, for any number of runs and demonstration tenants, and about *)
(* Board, on whose rows the demonstration is seeded, for any orders. The   *)
(* inductive invariant of Migrate adds to the properties what a run knows  *)
(* at each place of its loop: everything before next is in the database    *)
(* with the text of its own build, what it read from _migrations is still  *)
(* there, and a migration that it has run and not committed is in nobody   *)
(* else's hands and in no row. That of Demo says that ids are not given    *)
(* twice, and that the tenant of a run holds what the stages behind the    *)
(* run leave in it.                                                        *)
(***************************************************************************)
EXTENDS Migrate, Demo, Sums

(* A run that has not come to the loop will begin with the first one. *)
BeginsAtFirst ==
  \A r \in Runs :
    pc[r] \in {"idle", "create", "creating", "created", "read"} => next[r] = 1

(* What lies behind a run is applied as its build has it. *)
BehindIsApplied ==
  \A r \in Runs : pc[r] \in {"loop", "ran", "done"} =>
    \A m \in Migrations : m < next[r] => applied[m] = Checksum[build[r]][m]

ReturnsAtEnd == \A r \in Runs : pc[r] = "done" => next[r] > Size[build[r]]

(* Rows of _migrations do not change: what was read is still true. *)
SeenIsApplied ==
  \A r \in Runs, m \in Migrations : seen[r][m] # Nil => applied[m] = seen[r][m]

(* A migration that is being committed is new, and only one run has it. *)
RunningIsFree ==
  \A r \in Runs : pc[r] = "ran" =>
    /\ next[r] <= Size[build[r]]
    /\ applied[next[r]] = Nil
    /\ \A q \in Runs : pc[q] = "ran" /\ next[q] = next[r] => q = r

IInv ==
  /\ TypeOK /\ AppliedInOrder /\ EffectsAreRecorded
  /\ BeginsAtFirst /\ BehindIsApplied /\ ReturnsAtEnd /\ SeenIsApplied /\ RunningIsFree

(* The migration a run has come to, when it is one, and its text. *)
LEMMA TextType ==
  ASSUME TypeOK, NEW r \in Runs, next[r] <= Size[build[r]]
  PROVE  next[r] \in Migrations /\ Text(r) \in Checksums /\ Text(r) # Nil
<1>1. build[r] \in Builds /\ Size[build[r]] \in 0 .. Last /\ next[r] \in Nat \ {0}
  BY MigrateAssumption DEF MigrateAssumption, TypeOK
<1>2. next[r] \in Migrations
  BY <1>1, MigrateAssumption DEF MigrateAssumption, Migrations
<1> QED
  BY <1>1, <1>2, MigrateAssumption DEF MigrateAssumption, Text

LEMMA InitIInv == ASSUME Init PROVE IInv
<1> USE DEF Init
<1>1. TypeOK
  <2>1. ASSUME NEW r \in Runs PROVE next[r] <= Size[build[r]] + 1
    <3>1. build[r] \in Builds /\ next[r] = 1 OBVIOUS
    <3>2. Size[build[r]] \in 0 .. Last BY <3>1, MigrateAssumption DEF MigrateAssumption
    <3> HIDE DEF Init
    <3> QED BY <3>1, <3>2
  <2>2. applied \in [Migrations -> Checksums \cup {Nil}] /\ effects \in [Migrations -> Nat]
    OBVIOUS
  <2>3. seen \in [Runs -> [Migrations -> Checksums \cup {Nil}]]
    BY <2>2
  <2>4. next \in [Runs -> Nat \ {0}]
    OBVIOUS
  <2> QED BY <2>1, <2>2, <2>3, <2>4 DEF TypeOK
<1>2. AppliedInOrder /\ EffectsAreRecorded
  BY DEF AppliedInOrder, EffectsAreRecorded
<1>3. BeginsAtFirst /\ BehindIsApplied /\ ReturnsAtEnd /\ SeenIsApplied /\ RunningIsFree
  BY DEF BeginsAtFirst, BehindIsApplied, ReturnsAtEnd, SeenIsApplied, RunningIsFree
<1> QED BY <1>1, <1>2, <1>3 DEF IInv

(* Steps that only move a run outside the loop, or out of it. *)
LEMMA ControlStep ==
  ASSUME IInv, NEW r \in Runs,
         \/ Start(r) \/ FindTable(r) \/ CreateTable(r) \/ TableTaken(r) \/ CommitTable(r)
         \/ Changed(r) \/ MigrationTaken(r) \/ Return(r) \/ Fail(r)
  PROVE  IInv'
<1> USE DEF IInv, Goto, database
<1>1. UNCHANGED <<applied, effects, build, seen, next>> /\ table' \in BOOLEAN
  BY DEF TypeOK, Start, FindTable, CreateTable, TableTaken, CommitTable, Changed,
         MigrationTaken, Return, Fail
<1>2. PICK label \in {"create", "creating", "created", "read", "done", "failed"} :
        /\ pc' = [pc EXCEPT ![r] = label]
        /\ label \in {"create", "creating", "created", "read"} =>
             pc[r] \in {"idle", "create", "creating", "created"}
        /\ label = "done" => pc[r] = "loop" /\ next[r] > Size[build[r]]
  <2>1. CASE Start(r) BY <2>1 DEF Start
  <2>2. CASE FindTable(r) BY <2>2 DEF FindTable
  <2>3. CASE CreateTable(r) BY <2>3 DEF CreateTable
  <2>4. CASE CommitTable(r) BY <2>4 DEF CommitTable
  <2>5. CASE TableTaken(r) \/ Changed(r) \/ MigrationTaken(r) \/ Fail(r)
    BY <2>5 DEF TableTaken, Changed, MigrationTaken, Fail
  <2>6. CASE Return(r) BY <2>6 DEF Return
  <2> QED BY <2>1, <2>2, <2>3, <2>4, <2>5, <2>6
<1>3. TypeOK' BY <1>1, <1>2 DEF TypeOK
<1>4. AppliedInOrder' /\ EffectsAreRecorded' /\ SeenIsApplied'
  BY <1>1 DEF AppliedInOrder, EffectsAreRecorded, SeenIsApplied
<1>5. BeginsAtFirst' BY <1>1, <1>2 DEF BeginsAtFirst, TypeOK
<1>6. BehindIsApplied' BY <1>1, <1>2 DEF BehindIsApplied, TypeOK
<1>7. ReturnsAtEnd' BY <1>1, <1>2 DEF ReturnsAtEnd, TypeOK
<1>8. RunningIsFree' BY <1>1, <1>2 DEF RunningIsFree, TypeOK
<1> QED BY <1>3, <1>4, <1>5, <1>6, <1>7, <1>8

LEMMA ReadStep == ASSUME IInv, NEW r \in Runs, ReadApplied(r) PROVE IInv'
<1> USE DEF IInv, ReadApplied, Goto, database
<1>1. TypeOK' BY DEF TypeOK
<1>2. AppliedInOrder' /\ EffectsAreRecorded' BY DEF AppliedInOrder, EffectsAreRecorded
<1>3. BeginsAtFirst' /\ ReturnsAtEnd' BY DEF BeginsAtFirst, ReturnsAtEnd, TypeOK
<1>4. BehindIsApplied'
  <2>1. next[r] = 1 BY DEF BeginsAtFirst
  <2>2. \A m \in Migrations : ~(m < next[r]) BY <2>1 DEF Migrations
  <2> QED BY <2>2 DEF BehindIsApplied, TypeOK
<1>5. SeenIsApplied' BY DEF SeenIsApplied, TypeOK
<1>6. RunningIsFree' BY DEF RunningIsFree, TypeOK
<1> QED BY <1>1, <1>2, <1>3, <1>4, <1>5, <1>6

LEMMA SkipStep == ASSUME IInv, NEW r \in Runs, Skip(r) PROVE IInv'
<1> USE DEF IInv, Skip, Known, At, database
<1>1. next[r] \in Migrations /\ next[r] \in Nat BY TextType DEF Migrations, TypeOK
<1>2. applied[next[r]] = Checksum[build[r]][next[r]]
  BY <1>1 DEF SeenIsApplied, Text
<1>3. TypeOK'
  <2>1. Size[build[r]] \in Nat BY MigrateAssumption DEF MigrateAssumption, TypeOK
  <2> QED BY <1>1, <2>1 DEF TypeOK
<1>4. AppliedInOrder' /\ EffectsAreRecorded' /\ SeenIsApplied'
  BY DEF AppliedInOrder, EffectsAreRecorded, SeenIsApplied
<1>5. BeginsAtFirst' /\ ReturnsAtEnd' BY DEF BeginsAtFirst, ReturnsAtEnd, TypeOK
<1>6. BehindIsApplied'
  <2> SUFFICES ASSUME NEW q \in Runs, pc[q] \in {"loop", "ran", "done"},
                      NEW m \in Migrations, m < next'[q]
               PROVE  applied[m] = Checksum[build[q]][m]
    BY DEF BehindIsApplied
  <2>1. CASE q # r BY <2>1 DEF BehindIsApplied, TypeOK
  <2>2. CASE q = r
    <3>1. m < next[r] \/ m = next[r] BY <1>1, <2>2 DEF TypeOK, Migrations
    <3> QED BY <1>2, <2>2, <3>1 DEF BehindIsApplied
  <2> QED BY <2>1, <2>2
<1>7. RunningIsFree' BY DEF RunningIsFree, TypeOK
<1> QED BY <1>3, <1>4, <1>5, <1>6, <1>7

LEMMA RunStep == ASSUME IInv, NEW r \in Runs, RunMigration(r) PROVE IInv'
<1> USE DEF IInv, RunMigration, Missing, At, Goto, database
<1>1. TypeOK' BY DEF TypeOK
<1>2. AppliedInOrder' /\ EffectsAreRecorded' /\ SeenIsApplied'
  BY DEF AppliedInOrder, EffectsAreRecorded, SeenIsApplied
<1>3. BeginsAtFirst' /\ ReturnsAtEnd' BY DEF BeginsAtFirst, ReturnsAtEnd, TypeOK
<1>4. BehindIsApplied' BY DEF BehindIsApplied, TypeOK
<1>5. RunningIsFree' BY DEF RunningIsFree, MayRun, TypeOK
<1> QED BY <1>1, <1>2, <1>3, <1>4, <1>5

LEMMA CommitStep == ASSUME IInv, NEW r \in Runs, CommitMigration(r) PROVE IInv'
<1> USE DEF IInv, CommitMigration, Goto
<1>1. /\ next[r] \in Migrations /\ next[r] \in Nat
      /\ Text(r) \in Checksums /\ Text(r) # Nil
      /\ next[r] <= Size[build[r]] /\ applied[next[r]] = Nil
  BY TextType DEF RunningIsFree, TypeOK
<1>2. TypeOK'
  <2>1. Size[build[r]] \in Nat BY MigrateAssumption DEF MigrateAssumption, TypeOK
  <2> QED BY <1>1, <2>1 DEF TypeOK
<1>3. AppliedInOrder'
  <2> SUFFICES ASSUME NEW k \in Migrations, NEW n \in Migrations, k < n, applied'[n] # Nil
               PROVE  applied'[k] # Nil
    BY DEF AppliedInOrder
  <2>1. CASE k = next[r] BY <1>1, <2>1 DEF TypeOK
  <2>2. CASE k # next[r] /\ n # next[r] BY <2>2 DEF AppliedInOrder, TypeOK
  <2>3. CASE k # next[r] /\ n = next[r]
    <3>1. applied[k] = Checksum[build[r]][k] BY <2>3 DEF BehindIsApplied
    <3>2. Checksum[build[r]][k] \in Checksums BY MigrateAssumption DEF MigrateAssumption, TypeOK
    <3> QED BY <2>3, <3>1, <3>2, MigrateAssumption DEF MigrateAssumption, TypeOK
  <2> QED BY <2>1, <2>2, <2>3
<1>4. EffectsAreRecorded'
  <2> SUFFICES ASSUME NEW k \in Migrations
               PROVE  effects'[k] = IF applied'[k] = Nil THEN 0 ELSE 1
    BY DEF EffectsAreRecorded
  <2>1. CASE k = next[r]
    <3>1. effects[k] = 0 BY <1>1, <2>1 DEF EffectsAreRecorded
    <3>2. effects'[k] = 1 BY <3>1, <2>1 DEF TypeOK
    <3>3. applied'[k] # Nil BY <1>1, <2>1 DEF TypeOK
    <3> QED BY <3>2, <3>3
  <2>2. CASE k # next[r] BY <2>2 DEF EffectsAreRecorded, TypeOK
  <2> QED BY <2>1, <2>2
<1>5. BeginsAtFirst' /\ ReturnsAtEnd' BY DEF BeginsAtFirst, ReturnsAtEnd, TypeOK
<1>6. BehindIsApplied'
  <2> SUFFICES ASSUME NEW q \in Runs, pc'[q] \in {"loop", "ran", "done"},
                      NEW k \in Migrations, k < next'[q]
               PROVE  applied'[k] = Checksum[build[q]][k]
    BY DEF BehindIsApplied
  <2>1. CASE q = r
    <3>1. k < next[r] \/ k = next[r] BY <1>1, <2>1 DEF TypeOK, Migrations
    <3>2. CASE k < next[r] BY <1>1, <2>1, <3>2 DEF BehindIsApplied, TypeOK
    <3>3. CASE k = next[r] BY <1>1, <2>1, <3>3 DEF Text, TypeOK
    <3> QED BY <3>1, <3>2, <3>3
  <2>2. CASE q # r
    <3>1. applied[k] = Checksum[build[q]][k] BY <2>2 DEF BehindIsApplied, TypeOK
    <3>2. applied[k] # Nil BY <3>1, MigrateAssumption DEF MigrateAssumption, TypeOK
    <3>3. k # next[r] BY <1>1, <3>2
    <3> QED BY <3>1, <3>3 DEF TypeOK
  <2> QED BY <2>1, <2>2
<1>7. SeenIsApplied'
  <2> SUFFICES ASSUME NEW q \in Runs, NEW k \in Migrations, seen[q][k] # Nil
               PROVE  applied'[k] = seen[q][k]
    BY DEF SeenIsApplied
  <2>1. k # next[r] BY <1>1 DEF SeenIsApplied
  <2> QED BY <2>1 DEF SeenIsApplied, TypeOK
<1>8. RunningIsFree'
  <2> SUFFICES ASSUME NEW q \in Runs, pc'[q] = "ran"
               PROVE  /\ next'[q] <= Size[build[q]]
                      /\ applied'[next'[q]] = Nil
                      /\ \A p \in Runs : pc'[p] = "ran" /\ next'[p] = next'[q] => p = q
    BY DEF RunningIsFree
  <2>1. q # r /\ pc[q] = "ran" /\ next'[q] = next[q] BY DEF TypeOK
  <2>2. next[q] # next[r] BY <2>1 DEF RunningIsFree
  <2>3. next[q] \in Migrations BY <2>1, TextType DEF RunningIsFree
  <2>4. applied'[next'[q]] = Nil BY <2>1, <2>2, <2>3 DEF RunningIsFree, TypeOK
  <2>5. \A p \in Runs : pc'[p] = "ran" => p # r /\ pc[p] = "ran" /\ next'[p] = next[p]
    BY DEF TypeOK
  <2> QED BY <2>1, <2>4, <2>5 DEF RunningIsFree
<1> QED BY <1>2, <1>3, <1>4, <1>5, <1>6, <1>7, <1>8

(* IInv is invariant, for any number of runs, builds and migrations. *)
THEOREM Invariance == Spec => []IInv
<1>1. IInv /\ [Next]_vars => IInv'
  <2> SUFFICES ASSUME IInv, [Next]_vars PROVE IInv' OBVIOUS
  <2>1. CASE UNCHANGED vars
    BY <2>1 DEF vars, IInv, TypeOK, AppliedInOrder, EffectsAreRecorded, BeginsAtFirst,
                BehindIsApplied, ReturnsAtEnd, SeenIsApplied, RunningIsFree
  <2>2. CASE Next
    <3> PICK r \in Runs : Start(r) \/ Step(r) \/ Fail(r) BY <2>2 DEF Next
    <3> QED BY ControlStep, ReadStep, SkipStep, RunStep, CommitStep DEF Step
  <2> QED BY <2>1, <2>2
<1> QED BY InitIInv, <1>1, PTL DEF Spec

(* The variables keep their types; no run leaves the list of its build. *)
THEOREM TypeCorrect == Spec => []TypeOK
<1>1. IInv => TypeOK BY DEF IInv
<1> QED BY Invariance, <1>1, PTL

(* The applied migrations are a beginning of the list at every moment,     *)
(* whatever runs of whatever builds race.                                  *)
THEOREM InOrder == Spec => []AppliedInOrder
<1>1. IInv => AppliedInOrder BY DEF IInv
<1> QED BY Invariance, <1>1, PTL

(* No migration takes effect twice, or without its row in _migrations. *)
THEOREM OnceAndRecorded == Spec => []EffectsAreRecorded
<1>1. IInv => EffectsAreRecorded BY DEF IInv
<1> QED BY Invariance, <1>1, PTL

(* A run that returned leaves the schema of its own build behind, and no   *)
(* later run takes it away.                                                *)
THEOREM ReturnsCurrent == Spec => []ReturnedIsCurrent
<1>1. IInv => ReturnedIsCurrent
  <2> SUFFICES ASSUME IInv, NEW r \in Runs, pc[r] = "done", NEW m \in 1 .. Size[build[r]]
               PROVE  applied[m] = Checksum[build[r]][m]
    BY DEF ReturnedIsCurrent
  <2>1. Size[build[r]] \in 0 .. Last /\ next[r] \in Nat
    BY MigrateAssumption DEF MigrateAssumption, IInv, TypeOK
  <2>2. next[r] > Size[build[r]] BY DEF IInv, ReturnsAtEnd
  <2>3. m \in Migrations /\ m < next[r] BY <2>1, <2>2, MigrateAssumption DEF MigrateAssumption, Migrations
  <2> QED BY <2>3 DEF IInv, BehindIsApplied
<1> QED BY Invariance, <1>1, PTL

(* What a run commits is the next text of the history, and nothing else    *)
(* touches it.                                                             *)
LEMMA AdvanceStep ==
  ASSUME IInv, NEW r \in Runs, CommitMigration(r) PROVE History!Next
<1> USE DEF IInv
<1> DEFINE n == next[r]
           b == build[r]
<1>1. /\ n \in Migrations /\ n \in Nat \ {0} /\ Text(r) # Nil /\ Text(r) = Checksum[b][n]
      /\ n <= Size[b] /\ applied[n] = Nil /\ applied' = [applied EXCEPT ![n] = Text(r)]
      /\ b \in Builds /\ Size[b] \in 0 .. Last /\ applied \in [Migrations -> Checksums \cup {Nil}]
  BY TextType, MigrateAssumption DEF MigrateAssumption, CommitMigration, RunningIsFree, TypeOK, Text
<1>2. \A m \in Migrations : m < n => applied[m] # Nil
  BY <1>1, MigrateAssumption DEF MigrateAssumption, BehindIsApplied, CommitMigration
<1>3. \A m \in Migrations : m > n => applied[m] = Nil BY <1>1 DEF AppliedInOrder, Migrations
<1> HIDE DEF n, b
<1>4. {m \in Migrations : applied[m] # Nil} = 1 .. n - 1
  BY <1>1, <1>2, <1>3, MigrateAssumption DEF MigrateAssumption, Migrations
<1>5. {m \in Migrations : applied'[m] # Nil} = 1 .. n
  BY <1>1, <1>2, <1>3, MigrateAssumption DEF MigrateAssumption, Migrations
<1>6. Log = [m \in 1 .. n - 1 |-> applied[m]] BY <1>4 DEF Log
<1>7. Log' = [m \in 1 .. n |-> applied'[m]] BY <1>5 DEF Log, Migrations
<1>8. Log \in Seq(Checksums) /\ Len(Log) = n - 1
  <2>1. \A m \in 1 .. n - 1 : applied[m] \in Checksums BY <1>1, <1>4
  <2> QED BY <1>1, <1>6, <2>1
<1>9. Log' = Append(Log, Text(r))
  <2>1. Append(Log, Text(r)) = [m \in 1 .. n |-> IF m = n THEN Text(r) ELSE Log[m]] BY <1>1, <1>8
  <2>2. \A m \in 1 .. n : applied'[m] = IF m = n THEN Text(r) ELSE Log[m]
    BY <1>1, <1>6, MigrateAssumption DEF MigrateAssumption, Migrations
  <2> QED BY <1>7, <2>1, <2>2
<1>10. History!Advance(b) BY <1>1, <1>8, <1>9 DEF History!Advance
<1> QED BY <1>1, <1>10 DEF History!Next

LEMMA HistoryStep == IInv /\ [Next]_vars => [History!Next]_Log
<1> SUFFICES ASSUME IInv, [Next]_vars, applied' # applied PROVE History!Next
  BY DEF Log, Migrations
<1>1. PICK r \in Runs : CommitMigration(r)
  BY DEF Next, vars, database, Step, Start, FindTable, CreateTable, TableTaken, CommitTable, ReadApplied, Skip,
         Changed, RunMigration, MigrationTaken, Return, Fail
<1> QED BY <1>1, AdvanceStep

(* packages/db/src/migrate.ts, "forward only": runs of any builds that     *)
(* overtake each other, fail and are killed leave one history of texts,    *)
(* each of them run once, in the order of the names.                       *)
THEOREM Implementation == Spec => ImplementsSchema
<1>1. Init => History!Init
  <2>1. Init => {m \in Migrations : applied[m] # Nil} = {} BY DEF Init
  <2>2. Init => Log = [m \in {} |-> applied[m]] BY <2>1 DEF Log
  <2> QED BY <2>2 DEF History!Init
<1> QED BY <1>1, Invariance, HistoryStep, PTL DEF Spec, ImplementsSchema, History!Spec

----------------------------------------------------------------------------
(* The demonstration tenants.                                              *)

(* The largest of some naturals that are bounded. *)
LEMMA MaxIs ==
  ASSUME NEW n \in Nat, NEW S, S \subseteq 0..n, S # {}
  PROVE  Max(S) \in S /\ \A x \in S : x <= Max(S)
<1>. DEFINE B == {n - x : x \in S}
<1>1. B \subseteq Nat /\ B # {}
  <2>1. \A x \in S : x \in Nat /\ n - x \in Nat
    OBVIOUS
  <2>2. PICK x \in S : TRUE
    OBVIOUS
  <2>. QED
    BY <2>1, <2>2
<1>2. PICK b \in B : \A y \in B : ~(<<y, b>> \in OpToRel(<, Nat))
  BY <1>1, WFMin, NatLessThanWellFounded
<1>3. PICK m \in S : b = n - m
  OBVIOUS
<1>4. ASSUME NEW x \in S PROVE x <= m
  <2>1. ~(n - x < n - m)
    BY <1>1, <1>2, <1>3 DEF OpToRel
  <2>. QED
    BY <2>1
<1>. QED
  BY <1>4 DEF Max

LEMMA NextIsFresh ==
  ASSUME NEW n \in Nat, NEW S, S \subseteq 0..n, S # {}
  PROVE  Max(S) + 1 \in Nat \ {0} /\ \A x \in S : x # Max(S) + 1
<1>1. Max(S) \in S /\ \A x \in S : x <= Max(S)
  BY MaxIs
<1>2. Max(S) \in 0..n
  BY <1>1
<1>. QED
  BY <1>1, <1>2

----------------------------------------------------------------------------
(* The stages of a tenant before the one with some number, and what they   *)
(* leave in it.                                                            *)
StageCount(slug) == Len(Stages(slug))
Done(slug, k) == UNION {PartsOf(Stages(slug)[j], slug) : j \in 1..(k - 1)}

LEMMA StagesAre ==
  ASSUME NEW slug
  PROVE  /\ Len(Stages(slug)) \in {5, 6} /\ DOMAIN Stages(slug) = 1..Len(Stages(slug))
         /\ Stages(slug)[1] = "check" /\ Stages(slug)[2] = "create" /\ Stages(slug)[3] = "flag"
         /\ \A k \in 4..Len(Stages(slug)) : Stages(slug)[k] \in {"people", "highlights", "money", "owner", "estate"}
         /\ \A j, k \in DOMAIN Stages(slug) : Stages(slug)[j] = Stages(slug)[k] => j = k
<1>1. CASE slug = Estate
  <2>1. Stages(slug) = <<"check", "create", "flag", "owner", "estate">>
    BY <1>1 DEF Stages
  <2>2. DOMAIN Stages(slug) = {1, 2, 3, 4, 5} /\ Len(Stages(slug)) = 5
    BY <2>1
  <2>3. 4..5 = {4, 5} /\ 1..5 = {1, 2, 3, 4, 5}
    OBVIOUS
  <2>. QED
    BY <2>1, <2>2, <2>3
<1>2. CASE slug # Estate
  <2>1. Stages(slug) = <<"check", "create", "flag", "people", "highlights", "money">>
    BY <1>2 DEF Stages
  <2>2. DOMAIN Stages(slug) = {1, 2, 3, 4, 5, 6} /\ Len(Stages(slug)) = 6
    BY <2>1
  <2>3. 4..6 = {4, 5, 6} /\ 1..6 = {1, 2, 3, 4, 5, 6}
    OBVIOUS
  <2>. QED
    BY <2>1, <2>2, <2>3
<1>. QED
  BY <1>1, <1>2

LEMMA Numbers ==
  ASSUME NEW slug
  PROVE  /\ StageCount(slug) \in Nat /\ 3 \in DOMAIN Stages(slug) /\ 3 < StageCount(slug) /\ 4 \in 3..StageCount(slug)
         /\ \A k \in 3..StageCount(slug) :
              /\ k \in DOMAIN Stages(slug) /\ (Stages(slug)[k] = "flag" => k = 3)
              /\ k # 3 => k > 3 /\ k \in 4..Len(Stages(slug))
              /\ k # StageCount(slug) => k < StageCount(slug) /\ k + 1 \in 3..StageCount(slug) /\ k + 1 > 3
<1>1. StageCount(slug) = 5 \/ StageCount(slug) = 6
  BY StagesAre DEF StageCount
<1>2. DOMAIN Stages(slug) = 1..StageCount(slug) /\ Stages(slug)[3] = "flag"
  BY StagesAre DEF StageCount
<1>3. \A j, k \in DOMAIN Stages(slug) : Stages(slug)[j] = Stages(slug)[k] => j = k
  BY StagesAre
<1>4. Len(Stages(slug)) = StageCount(slug)
  BY DEF StageCount
<1>5. 3 \in DOMAIN Stages(slug) /\ 4 \in 3..StageCount(slug)
  BY <1>1, <1>2
<1>. QED
  BY <1>1, <1>2, <1>3, <1>4, <1>5

LEMMA StageNumber ==
  ASSUME NEW slug, NEW k \in DOMAIN Stages(slug), NEW at, at = Stages(slug)[k]
  PROVE  (CHOOSE j \in DOMAIN Stages(slug) : Stages(slug)[j] = at) = k
BY StagesAre

LEMMA PartsAre ==
  ASSUME NEW slug
  PROVE  PartsOf("check", slug) = {} /\ PartsOf("create", slug) = {} /\ PartsOf("flag", slug) = {}
BY DEF PartsOf

LEMMA DoneIs ==
  ASSUME NEW slug
  PROVE  /\ Done(slug, 3) = {} /\ Done(slug, 4) = {}
         /\ \A k \in DOMAIN Stages(slug) : Done(slug, k + 1) = Done(slug, k) \cup PartsOf(Stages(slug)[k], slug)
         /\ Done(slug, Len(Stages(slug)) + 1) = AllParts(slug)
<1>1. DOMAIN Stages(slug) = 1..Len(Stages(slug)) /\ Len(Stages(slug)) \in Nat
  BY StagesAre
<1>2. 1..(3 - 1) = {1, 2} /\ 1..(4 - 1) = {1, 2, 3}
  OBVIOUS
<1>3. Done(slug, 3) = {} /\ Done(slug, 4) = {}
  BY <1>2, StagesAre, PartsAre DEF Done
<1>4. ASSUME NEW k \in DOMAIN Stages(slug)
      PROVE  Done(slug, k + 1) = Done(slug, k) \cup PartsOf(Stages(slug)[k], slug)
  <2>1. 1..((k + 1) - 1) = (1..(k - 1)) \cup {k}
    BY <1>1
  <2>. QED
    BY <2>1 DEF Done
<1>5. Done(slug, Len(Stages(slug)) + 1) = AllParts(slug)
  <2>1. 1..((Len(Stages(slug)) + 1) - 1) = DOMAIN Stages(slug)
    BY <1>1
  <2>. QED
    BY <2>1 DEF Done, AllParts
<1>. QED
  BY <1>3, <1>4, <1>5

----------------------------------------------------------------------------
RunIds == DOMAIN DemoRuns

Places == {"start", "reset", "refused", "stopped", "check", "create", "flag", "people", "highlights", "money", "owner", "estate"}
Parts == PeopleParts \cup HighlightParts \cup EstateParts \cup {"owner"}
           \cup {"invoices", "payments", "retainers", "products", "stock", "orders", "production", "permissions", "portal"}
Run == [at : Places, slug : Nat \ {0}, id : 0..TenantIds]
Tenant == [id : 0..TenantIds, demo : BOOLEAN, parts : SUBSET Parts]

DemoTypes ==
  /\ tenants \in [DOMAIN tenants -> Tenant]
  /\ runs \in [RunIds -> Run]
  /\ interrupted \subseteq 0..TenantIds

(* A run that has an id made a tenant, and is at a later transaction of it *)
(* than the one that made it; as long as that tenant is there, it holds    *)
(* what the earlier ones leave.                                            *)
OnItsWay(r) ==
  runs[r].id # 0 =>
    /\ Working(r)
    /\ \E k \in 3..StageCount(SlugOf(r)) :
         /\ runs[r].at = Stages(SlugOf(r))[k]
         /\ Mine(r) => /\ tenants[SlugOf(r)].demo <=> k > 3
                       /\ tenants[SlugOf(r)].parts = Done(SlugOf(r), k)
RunsAreOnTheirWay == \A r \in RunIds : OnItsWay(r)

(* Ids are not given twice. *)
IdsAreFresh ==
  /\ \A s \in DOMAIN tenants : s # "real" => tenants[s].id # 0
  /\ \A s \in DOMAIN tenants, r \in RunIds : runs[r].id # 0 /\ tenants[s].id = runs[r].id => s = SlugOf(r)
  /\ \A r, x \in RunIds : r # x /\ runs[r].id # 0 => runs[r].id # runs[x].id

DemoIInv == DemoTypes /\ RunsAreOnTheirWay /\ IdsAreFresh /\ DemoOrphansWereInterrupted

LEMMA SlugIs ==
  ASSUME DemoTypes, NEW r \in RunIds, Working(r)
  PROVE  SlugOf(r) \in Range(DemoSlugs) /\ SlugOf(r) # "real"
<1>1. DOMAIN DemoSlugs = 1..Len(DemoSlugs) /\ Len(DemoSlugs) \in Nat
  BY DemoAssumption
<1>2. runs[r].slug \in DOMAIN DemoSlugs
  BY <1>1 DEF DemoTypes, Run, Working
<1>. QED
  BY <1>2, DemoAssumption DEF Range, SlugOf

LEMMA PartsStay == \A s : AllParts(s)' = AllParts(s)
BY DEF AllParts, Stages, PartsOf, PeopleParts, HighlightParts, EstateParts, MoneyParts, DemoModules

(* Another run is not disturbed while its own tenant is not.               *)
LEMMA OthersGoOn ==
  ASSUME DemoIInv, NEW x \in RunIds, runs'[x] = runs[x],
         runs[x].id # 0 /\ Mine(x)' => Mine(x) /\ tenants'[SlugOf(x)] = tenants[SlugOf(x)]
  PROVE  OnItsWay(x)'
<1>1. OnItsWay(x)
  BY DEF DemoIInv, RunsAreOnTheirWay
<1>2. SlugOf(x)' = SlugOf(x) /\ Working(x)' = Working(x)
  BY DEF SlugOf, Working
<1>. QED
  BY <1>1, <1>2 DEF OnItsWay, StageCount, Stages, Done, PartsOf, PeopleParts, HighlightParts, EstateParts, MoneyParts, DemoModules

(* A run is on its way at the stage of some number.                        *)
LEMMA OnItsWayAt ==
  ASSUME NEW r \in RunIds, NEW slug, slug = SlugOf(r)', Working(r)', NEW k \in 3..StageCount(slug),
         runs'[r].at = Stages(slug)[k],
         Mine(r)' => (tenants'[slug].demo <=> k > 3) /\ tenants'[slug].parts = Done(slug, k)
  PROVE  OnItsWay(r)'
BY DEF OnItsWay, StageCount, Stages, Done, PartsOf, PeopleParts, HighlightParts, EstateParts, MoneyParts, DemoModules

(* A run stops: what it was at work on counts as interrupted.              *)
LEMMA StopStep ==
  ASSUME DemoIInv, NEW r \in RunIds, Stop(r), UNCHANGED tenants
  PROVE  DemoIInv'
<1>0. runs \in [RunIds -> Run] /\ DOMAIN runs = RunIds /\ 0 \in 0..TenantIds /\ "stopped" \in Places
  BY DemoAssumption DEF DemoIInv, DemoTypes, Places
<1>1. /\ \A x \in RunIds \ {r} : runs'[x] = runs[x]
      /\ runs'[r].id = 0 /\ runs' \in [RunIds -> Run]
      /\ interrupted' = interrupted \cup ({runs[r].id} \ {0})
  BY <1>0 DEF Run, Stop
<1>2. DemoTypes'
  BY <1>0, <1>1 DEF DemoIInv, DemoTypes, Run
<1>3. RunsAreOnTheirWay'
  <2>1. OnItsWay(r)'
    BY <1>1 DEF OnItsWay
  <2>2. ASSUME NEW x \in RunIds \ {r} PROVE OnItsWay(x)'
    BY <1>1, <2>2, OthersGoOn DEF Mine, SlugOf
  <2>. QED
    BY <2>1, <2>2 DEF RunsAreOnTheirWay
<1>4. IdsAreFresh'
  BY <1>1 DEF DemoIInv, IdsAreFresh, SlugOf
<1>5. DemoOrphansWereInterrupted'
  <2>1. \A x \in RunIds : runs[x].id \in interrupted' \cup {runs'[y].id : y \in RunIds} \/ runs[x].id = 0
    BY <1>1
  <2>2. \A s \in Range(DemoSlugs) \cap DOMAIN tenants : tenants[s].id # 0
    BY DemoAssumption DEF DemoIInv, IdsAreFresh
  <2>3. ASSUME NEW s \in Range(DemoSlugs) \cap DOMAIN tenants,
               tenants[s].id \in interrupted \cup {runs[x].id : x \in RunIds}
        PROVE  tenants[s].id \in interrupted' \cup {runs'[x].id : x \in RunIds}
    BY <1>1, <2>1, <2>2, <2>3
  <2>4. \A s \in Range(DemoSlugs) \cap DOMAIN tenants :
          \/ tenants[s].demo /\ tenants[s].parts = AllParts(s)
          \/ tenants[s].id \in interrupted \cup {runs[x].id : x \in RunIds}
    BY <1>0 DEF DemoIInv, DemoOrphansWereInterrupted
  <2>5. \A s \in Range(DemoSlugs) \cap DOMAIN tenants :
          \/ tenants[s].demo /\ tenants[s].parts = AllParts(s)
          \/ tenants[s].id \in interrupted' \cup {runs'[x].id : x \in RunIds}
    BY <2>3, <2>4
  <2>6. DOMAIN runs' = RunIds
    BY <1>1
  <2>. QED
    BY <2>5, <2>6, PartsStay DEF DemoOrphansWereInterrupted
<1>. QED
  BY <1>2, <1>3, <1>4, <1>5 DEF DemoIInv

LEMMA PlacesAre ==
  ASSUME NEW slug, NEW k \in DOMAIN Stages(slug)
  PROVE  Stages(slug)[k] \in Places
<1>1. k \in {1, 2, 3} \/ k \in 4..Len(Stages(slug))
  BY StagesAre
<1>. QED
  BY <1>1, StagesAre DEF Places

(* A run that has no tenant yet has no id.                                 *)
LEMMA AtRest ==
  ASSUME DemoIInv, NEW r \in RunIds, runs[r].at \in {"start", "reset", "check", "create"}
  PROVE  runs[r].id = 0
<1>1. SUFFICES ASSUME runs[r].id # 0 PROVE FALSE
  OBVIOUS
<1>2. PICK k \in 3..StageCount(SlugOf(r)) : runs[r].at = Stages(SlugOf(r))[k]
  BY <1>1 DEF DemoIInv, RunsAreOnTheirWay, OnItsWay
<1>3. k = 3 \/ k \in 4..Len(Stages(SlugOf(r)))
  BY StagesAre DEF StageCount
<1>. QED
  BY <1>2, <1>3, StagesAre

(* What going on makes of a run, by the number of its stage.               *)
LEMMA GoesOn ==
  ASSUME DemoIInv, NEW r \in RunIds, NEW id \in 0..TenantIds, Go(r, id),
         NEW k \in DOMAIN Stages(SlugOf(r)), runs[r].at = Stages(SlugOf(r))[k]
  PROVE  /\ runs' \in [RunIds -> Run] /\ \A x \in RunIds \ {r} : runs'[x] = runs[x]
         /\ k < StageCount(SlugOf(r)) => runs'[r] = [at |-> Stages(SlugOf(r))[k + 1], slug |-> runs[r].slug, id |-> id]
         /\ k = StageCount(SlugOf(r)) => runs'[r] = [at |-> "check", slug |-> runs[r].slug + 1, id |-> 0]
<1>. DEFINE following == IF k < StageCount(SlugOf(r))
                         THEN [at |-> Stages(SlugOf(r))[k + 1], slug |-> runs[r].slug, id |-> id]
                         ELSE [at |-> "check", slug |-> runs[r].slug + 1, id |-> 0]
<1>1. runs \in [RunIds -> Run] /\ runs[r].slug \in Nat \ {0} /\ 0 \in 0..TenantIds /\ "check" \in Places
  BY DemoAssumption DEF DemoIInv, DemoTypes, Run, Places
<1>2. runs' = [runs EXCEPT ![r] = following]
  <2>1. (CHOOSE j \in DOMAIN Stages(SlugOf(r)) : Stages(SlugOf(r))[j] = runs[r].at) = k
    BY StageNumber
  <2>. QED
    BY <2>1, Zenon DEF Go, StageCount
<1>3. following \in Run
  <2>1. CASE k < StageCount(SlugOf(r))
    <3>1. k + 1 \in DOMAIN Stages(SlugOf(r))
      BY <2>1, StagesAre DEF StageCount
    <3>2. Stages(SlugOf(r))[k + 1] \in Places
      BY <3>1, PlacesAre
    <3>. QED
      BY <1>1, <2>1, <3>2 DEF Run
  <2>2. CASE ~(k < StageCount(SlugOf(r)))
    BY <1>1, <2>2 DEF Run
  <2>. QED
    BY <2>1, <2>2
<1>4. StageCount(SlugOf(r)) \in Nat /\ k \in Nat
  BY StagesAre DEF StageCount
<1>5. runs'[r] = following /\ runs' \in [RunIds -> Run] /\ \A x \in RunIds \ {r} : runs'[x] = runs[x]
  <2>. HIDE DEF following
  <2>. QED
    BY <1>1, <1>2, <1>3
<1>. QED
  BY <1>4, <1>5

(* A step of a run that has no tenant, before and after.                   *)
LEMMA IdleStep ==
  ASSUME DemoIInv, NEW r \in RunIds, runs[r].id = 0, runs'[r].id = 0, runs' \in [RunIds -> Run],
         \A x \in RunIds \ {r} : runs'[x] = runs[x], UNCHANGED <<tenants, interrupted>>
  PROVE  DemoIInv'
<1>1. DemoTypes'
  BY DEF DemoIInv, DemoTypes, Run, Tenant
<1>2. RunsAreOnTheirWay'
  <2>1. OnItsWay(r)'
    BY DEF OnItsWay
  <2>2. ASSUME NEW x \in RunIds \ {r} PROVE OnItsWay(x)'
    BY <2>2, OthersGoOn DEF Mine, SlugOf
  <2>. QED
    BY <2>1, <2>2 DEF RunsAreOnTheirWay
<1>3. IdsAreFresh'
  BY DEF DemoIInv, IdsAreFresh, SlugOf
<1>4. DemoOrphansWereInterrupted'
  <2>1. DOMAIN runs = RunIds /\ DOMAIN runs' = RunIds
    BY DEF DemoIInv, DemoTypes
  <2>2. \A x \in RunIds : runs'[x].id = runs[x].id
    OBVIOUS
  <2>3. {runs'[x].id : x \in RunIds} = {runs[x].id : x \in RunIds}
    BY <2>2
  <2>. QED
    BY <2>1, <2>3, PartsStay DEF DemoIInv, DemoOrphansWereInterrupted
<1>. QED
  BY <1>1, <1>2, <1>3, <1>4 DEF DemoIInv

LEMMA StartStep == ASSUME DemoIInv, NEW r \in RunIds, StartRun(r) PROVE DemoIInv'
<1>. DEFINE at == IF DemoRuns[r].guarded /\ Locked THEN "refused" ELSE IF DemoRuns[r].resets THEN "reset" ELSE "check"
<1>1. runs \in [RunIds -> Run] /\ runs[r].id = 0 /\ at \in Places
  BY AtRest DEF DemoIInv, DemoTypes, StartRun, Places
<1>2. runs' = [runs EXCEPT ![r].at = at]
  BY DEF StartRun
<1>3. runs'[r].id = 0 /\ runs' \in [RunIds -> Run] /\ \A x \in RunIds \ {r} : runs'[x] = runs[x]
  <2>. HIDE DEF at
  <2>. QED
    BY <1>1, <1>2 DEF Run
<1>. QED
  BY <1>1, <1>3, IdleStep DEF StartRun

LEMMA CheckStep == ASSUME DemoIInv, NEW r \in RunIds, CheckTenant(r) PROVE DemoIInv'
<1>1. runs \in [RunIds -> Run] /\ runs[r].id = 0 /\ 0 \in 0..TenantIds
  BY AtRest, DemoAssumption DEF DemoIInv, DemoTypes, CheckTenant, OnStage
<1>2. CASE SlugOf(r) \in DOMAIN tenants
  <2>1. runs' = [runs EXCEPT ![r].slug = @ + 1]
    BY <1>2 DEF CheckTenant
  <2>2. runs'[r].id = 0 /\ runs' \in [RunIds -> Run] /\ \A x \in RunIds \ {r} : runs'[x] = runs[x]
    BY <1>1, <2>1 DEF Run
  <2>. QED
    BY <1>1, <2>2, IdleStep DEF CheckTenant
<1>3. CASE SlugOf(r) \notin DOMAIN tenants
  <2>1. Go(r, 0) /\ runs[r].at = "check"
    BY <1>3 DEF CheckTenant, OnStage
  <2>2. 1 \in DOMAIN Stages(SlugOf(r)) /\ runs[r].at = Stages(SlugOf(r))[1]
    BY <2>1, StagesAre
  <2>3. 1 < StageCount(SlugOf(r))
    BY StagesAre DEF StageCount
  <2>4. /\ runs' \in [RunIds -> Run] /\ \A x \in RunIds \ {r} : runs'[x] = runs[x]
        /\ runs'[r] = [at |-> Stages(SlugOf(r))[1 + 1], slug |-> runs[r].slug, id |-> 0]
    BY <1>1, <2>1, <2>2, <2>3, GoesOn
  <2>. QED
    BY <1>1, <2>4, IdleStep DEF CheckTenant
<1>. QED
  BY <1>2, <1>3

LEMMA ResetStep == ASSUME DemoIInv, NEW r \in RunIds, ResetDemo(r) PROVE DemoIInv'
<1>1. runs \in [RunIds -> Run] /\ runs[r].id = 0 /\ "check" \in Places /\ DOMAIN runs = RunIds
  BY AtRest DEF DemoIInv, DemoTypes, ResetDemo, Places
<1>2. runs'[r].id = 0 /\ runs' \in [RunIds -> Run] /\ \A x \in RunIds \ {r} : runs'[x] = runs[x]
  BY <1>1 DEF ResetDemo, Run
<1>3. DOMAIN tenants' \subseteq DOMAIN tenants /\ \A s \in DOMAIN tenants' : tenants'[s] = tenants[s]
  BY DEF ResetDemo
<1>4. DemoTypes'
  <2>1. tenants' \in [DOMAIN tenants' -> Tenant]
    BY DEF DemoIInv, DemoTypes, ResetDemo
  <2>. QED
    BY <1>2, <2>1 DEF DemoIInv, DemoTypes, ResetDemo, Run, Tenant
<1>5. RunsAreOnTheirWay'
  <2>1. OnItsWay(r)'
    BY <1>2 DEF OnItsWay
  <2>2. ASSUME NEW x \in RunIds \ {r} PROVE OnItsWay(x)'
    BY <1>2, <1>3, <2>2, OthersGoOn DEF Mine, SlugOf
  <2>. QED
    BY <2>1, <2>2 DEF RunsAreOnTheirWay
<1>6. IdsAreFresh'
  BY <1>1, <1>2, <1>3 DEF DemoIInv, IdsAreFresh, SlugOf
<1>7. DemoOrphansWereInterrupted'
  <2>1. {runs'[x].id : x \in RunIds} = {runs[x].id : x \in RunIds} /\ DOMAIN runs' = RunIds
    <3>1. \A x \in RunIds : runs'[x].id = runs[x].id
      BY <1>1, <1>2
    <3>. QED
      BY <1>2, <3>1
  <2>. QED
    BY <1>1, <1>3, <2>1, PartsStay DEF DemoIInv, DemoOrphansWereInterrupted, ResetDemo
<1>. QED
  BY <1>4, <1>5, <1>6, <1>7 DEF DemoIInv

LEMMA EnrollStep == ASSUME DemoIInv, Enroll PROVE DemoIInv'
<1>1. DOMAIN tenants' = DOMAIN tenants \cup {"real"} /\ "real" \notin DOMAIN tenants /\ runs' = runs
  BY DEF Enroll, Put
<1>2. \A s \in DOMAIN tenants : tenants'[s] = tenants[s]
  BY <1>1 DEF Enroll, Put
<1>3. tenants'["real"] = [id |-> 0, demo |-> FALSE, parts |-> {}]
  BY <1>1 DEF Enroll, Put
<1>4. DemoTypes'
  <2>1. tenants'["real"] \in Tenant
    BY <1>3, DemoAssumption DEF Tenant
  <2>2. tenants' = [s \in DOMAIN tenants' |-> tenants'[s]]
    BY DEF Enroll, Put
  <2>3. \A s \in DOMAIN tenants' : tenants'[s] \in Tenant
    BY <1>1, <1>2, <2>1 DEF DemoIInv, DemoTypes
  <2>4. tenants' \in [DOMAIN tenants' -> Tenant]
    BY <2>2, <2>3
  <2>. QED
    BY <2>4, <1>1 DEF DemoIInv, DemoTypes, Enroll, Run, Tenant
<1>5. RunsAreOnTheirWay'
  <2>1. ASSUME NEW x \in RunIds PROVE OnItsWay(x)'
    <3>1. runs[x].id # 0 => SlugOf(x) # "real"
      BY SlugIs DEF DemoIInv, RunsAreOnTheirWay, OnItsWay
    <3>. QED
      BY <1>1, <1>2, <3>1, OthersGoOn DEF Mine, SlugOf
  <2>. QED
    BY <2>1 DEF RunsAreOnTheirWay
<1>6. IdsAreFresh'
  BY <1>1, <1>2, <1>3 DEF DemoIInv, IdsAreFresh, SlugOf
<1>7. DemoOrphansWereInterrupted'
  BY <1>1, <1>2, PartsStay, DemoAssumption DEF DemoIInv, DemoOrphansWereInterrupted, Enroll
<1>. QED
  BY <1>4, <1>5, <1>6, <1>7 DEF DemoIInv

(* The id that a new tenant gets is not that of another, nor of a run.     *)
LEMMA NextIdIsFresh ==
  ASSUME DemoIInv
  PROVE  /\ NextId \in Nat \ {0}
         /\ \A s \in DOMAIN tenants : tenants[s].id # NextId
         /\ \A r \in RunIds : runs[r].id # NextId
<1>. DEFINE S == {0} \cup {tenants[s].id : s \in DOMAIN tenants} \cup {runs[r].id : r \in DOMAIN runs} \cup interrupted
<1>1. /\ DOMAIN runs = RunIds /\ interrupted \subseteq 0..TenantIds
      /\ \A s \in DOMAIN tenants : tenants[s].id \in 0..TenantIds
      /\ \A r \in RunIds : runs[r].id \in 0..TenantIds
  BY DEF DemoIInv, DemoTypes, Run, Tenant
<1>2. TenantIds \in Nat /\ 0 \in 0..TenantIds
  BY DemoAssumption
<1>3. /\ {tenants[s].id : s \in DOMAIN tenants} \subseteq 0..TenantIds
      /\ {runs[r].id : r \in DOMAIN runs} \subseteq 0..TenantIds
  BY <1>1
<1>4. S \subseteq 0..TenantIds /\ 0 \in S
  BY <1>1, <1>2, <1>3
<1>5. NextId = Max(S) + 1
  BY DEF NextId
<1>6. NextId \in Nat \ {0} /\ \A x \in S : x # NextId
  <2>. HIDE DEF S
  <2>1. S # {}
    BY <1>4
  <2>. QED
    BY <1>2, <1>4, <1>5, <2>1, NextIsFresh
<1>. QED
  BY <1>1, <1>6

LEMMA SeedTenantStep == ASSUME DemoIInv, NEW r \in RunIds, SeedTenant(r) PROVE DemoIInv'
<1>1. CASE SlugOf(r) \in DOMAIN tenants
  BY <1>1, StopStep DEF SeedTenant
<1>2. CASE SlugOf(r) \notin DOMAIN tenants
  <2>. DEFINE slug == SlugOf(r)
              n == NextId
              new == [id |-> n, demo |-> FALSE, parts |-> {}]
  <2>1. n \in 1..TenantIds /\ n \in 0..TenantIds /\ n # 0
    BY <1>2, NextIdIsFresh, DemoAssumption DEF SeedTenant
  <2>2. (\A s \in DOMAIN tenants : tenants[s].id # n) /\ \A x \in RunIds : runs[x].id # n
    BY NextIdIsFresh
  <2>3. /\ Working(r) /\ runs[r].at = "create" /\ runs[r].id = 0 /\ Go(r, n)
        /\ tenants' = Put(tenants, slug, new) /\ UNCHANGED interrupted
    BY <1>2, AtRest DEF SeedTenant, OnStage
  <2>4. 2 \in DOMAIN Stages(slug) /\ runs[r].at = Stages(slug)[2] /\ 2 < StageCount(slug)
    BY <2>3, StagesAre DEF StageCount
  <2>5. /\ runs' \in [RunIds -> Run] /\ \A x \in RunIds \ {r} : runs'[x] = runs[x]
        /\ runs'[r] = [at |-> Stages(slug)[2 + 1], slug |-> runs[r].slug, id |-> n]
    BY <2>1, <2>3, <2>4, GoesOn
  <2>6. /\ DOMAIN tenants' = DOMAIN tenants \cup {slug} /\ tenants'[slug] = new
        /\ \A s \in DOMAIN tenants : tenants'[s] = tenants[s]
    BY <1>2, <2>3 DEF Put
  <2>7. slug \in Range(DemoSlugs) /\ slug # "real" /\ SlugOf(r)' = slug /\ Working(r)'
    BY <2>3, <2>5, SlugIs DEF DemoIInv, SlugOf, Working
  <2>. HIDE DEF n, slug
  <2>8. DemoTypes'
    <3>1. new \in Tenant
      BY <2>1 DEF Tenant
    <3>2. tenants' = [s \in DOMAIN tenants' |-> tenants'[s]]
      BY <2>3 DEF Put
    <3>3. \A s \in DOMAIN tenants' : tenants'[s] \in Tenant
      BY <2>6, <3>1 DEF DemoIInv, DemoTypes
    <3>4. tenants' \in [DOMAIN tenants' -> Tenant]
      BY <3>2, <3>3
    <3>. QED
      BY <2>3, <2>5, <3>4 DEF DemoIInv, DemoTypes, Run, Tenant
  <2>9. RunsAreOnTheirWay'
    <3>1. OnItsWay(r)'
      <4>1. 3 \in 3..StageCount(slug) /\ Stages(slug)[2 + 1] = Stages(slug)[3] /\ ~(3 > 3)
        BY StagesAre DEF StageCount
      <4>2. runs'[r].at = Stages(slug)[3] /\ tenants'[slug].demo = FALSE /\ tenants'[slug].parts = Done(slug, 3)
        BY <2>5, <2>6, DoneIs
      <4>. QED
        BY <2>7, <4>1, <4>2, OnItsWayAt
    <3>2. ASSUME NEW x \in RunIds \ {r} PROVE OnItsWay(x)'
      <4>1. Mine(x)' => Mine(x) /\ tenants'[SlugOf(x)] = tenants[SlugOf(x)]
        BY <2>2, <2>5, <2>6, <3>2 DEF Mine, SlugOf
      <4>. QED
        BY <2>5, <3>2, <4>1, OthersGoOn
    <3>. QED
      BY <3>1, <3>2 DEF RunsAreOnTheirWay
  <2>10. IdsAreFresh'
    <3>1. \A s \in DOMAIN tenants' : s # "real" => tenants'[s].id # 0
      BY <2>1, <2>6 DEF DemoIInv, IdsAreFresh
    <3>2. ASSUME NEW s \in DOMAIN tenants', NEW x \in RunIds, runs'[x].id # 0, tenants'[s].id = runs'[x].id
          PROVE  s = SlugOf(x)'
      <4>1. CASE x = r
        BY <2>2, <2>5, <2>6, <2>7, <3>2, <4>1
      <4>2. CASE x # r
        <5>1. s \in DOMAIN tenants /\ runs'[x] = runs[x]
          BY <2>2, <2>5, <2>6, <3>2, <4>2
        <5>. QED
          BY <2>6, <3>2, <5>1 DEF DemoIInv, IdsAreFresh, SlugOf
      <4>. QED
        BY <4>1, <4>2
    <3>3. \A x, y \in RunIds : x # y /\ runs'[x].id # 0 => runs'[x].id # runs'[y].id
      BY <2>1, <2>2, <2>5 DEF DemoIInv, IdsAreFresh
    <3>. QED
      BY <3>1, <3>2, <3>3 DEF IdsAreFresh
  <2>11. DemoOrphansWereInterrupted'
    <3>1. DOMAIN runs' = RunIds /\ DOMAIN runs = RunIds
      BY <2>5 DEF DemoIInv, DemoTypes
    <3>2. tenants'[slug].id \in {runs'[x].id : x \in RunIds}
      BY <2>5, <2>6
    <3>3. ASSUME NEW s \in Range(DemoSlugs) \cap DOMAIN tenants
          PROVE  \/ tenants[s].demo /\ tenants[s].parts = AllParts(s)
                 \/ tenants[s].id \in interrupted \cup {runs'[x].id : x \in RunIds}
      <4>1. tenants[s].id # 0
        BY DemoAssumption DEF DemoIInv, IdsAreFresh
      <4>2. \/ tenants[s].demo /\ tenants[s].parts = AllParts(s)
            \/ tenants[s].id \in interrupted \cup {runs[x].id : x \in RunIds}
        BY <3>1 DEF DemoIInv, DemoOrphansWereInterrupted
      <4>3. \A x \in RunIds : runs[x].id = 0 \/ runs[x].id \in {runs'[y].id : y \in RunIds}
        BY <2>3, <2>5
      <4>. QED
        BY <4>1, <4>2, <4>3
    <3>. QED
      BY <2>3, <2>6, <3>1, <3>2, <3>3, PartsStay DEF DemoOrphansWereInterrupted
  <2>. QED
    BY <2>8, <2>9, <2>10, <2>11 DEF DemoIInv
<1>. QED
  BY <1>1, <1>2

(* A run that has an id works on its own tenant, if that is still there:   *)
(* it goes on to a later stage, or leaves a tenant that is complete.       *)
LEMMA WorkStep ==
  ASSUME DemoIInv, NEW r \in RunIds, Working(r), runs[r].id # 0,
         runs' \in [RunIds -> Run], \A x \in RunIds \ {r} : runs'[x] = runs[x], UNCHANGED interrupted,
         NEW t \in Tenant, t.id = runs[r].id,
         tenants' = IF Mine(r) THEN [tenants EXCEPT ![SlugOf(r)] = t] ELSE tenants,
         OnItsWay(r)',
         \/ runs'[r].id = runs[r].id /\ runs'[r].slug = runs[r].slug
         \/ runs'[r].id = 0 /\ Mine(r) /\ t.demo /\ t.parts = AllParts(SlugOf(r))
  PROVE  DemoIInv'
<1>. DEFINE slug == SlugOf(r)
<1>1. slug \in Range(DemoSlugs) /\ slug # "real"
  BY SlugIs DEF DemoIInv
<1>2. /\ DOMAIN tenants' = DOMAIN tenants /\ tenants' \in [DOMAIN tenants -> Tenant]
      /\ Mine(r) => tenants'[slug] = t
      /\ \A s \in DOMAIN tenants : s # slug \/ ~Mine(r) => tenants'[s] = tenants[s]
      /\ \A s \in DOMAIN tenants : tenants'[s].id = tenants[s].id
  <2>1. CASE Mine(r)
    BY <2>1 DEF DemoIInv, DemoTypes, Mine
  <2>2. CASE ~Mine(r)
    BY <2>2 DEF DemoIInv, DemoTypes
  <2>. QED
    BY <2>1, <2>2
<1>. HIDE DEF slug
<1>3. DemoTypes'
  BY <1>2 DEF DemoIInv, DemoTypes, Run, Tenant
<1>4. RunsAreOnTheirWay'
  <2>1. ASSUME NEW x \in RunIds \ {r} PROVE OnItsWay(x)'
    <3>1. runs[x].id # 0 => runs[x].id # runs[r].id
      BY <2>1 DEF DemoIInv, IdsAreFresh
    <3>2. runs[x].id # 0 /\ Mine(x)' => Mine(x) /\ tenants'[SlugOf(x)] = tenants[SlugOf(x)]
      BY <1>2, <2>1, <3>1 DEF Mine, SlugOf, slug
    <3>. QED
      BY <2>1, <3>2, OthersGoOn
  <2>. QED
    BY <2>1 DEF RunsAreOnTheirWay
<1>5. IdsAreFresh'
  <2>1. \A x \in RunIds : runs'[x].id # 0 => runs'[x].id = runs[x].id /\ SlugOf(x)' = SlugOf(x)
    BY DEF SlugOf
  <2>2. \A x \in RunIds : runs'[x].id = runs[x].id \/ runs'[x].id = 0
    BY <2>1
  <2>. QED
    BY <1>2, <2>1, <2>2 DEF DemoIInv, IdsAreFresh
<1>6. DemoOrphansWereInterrupted'
  <2>1. DOMAIN runs' = RunIds /\ DOMAIN runs = RunIds
    BY DEF DemoIInv, DemoTypes
  <2>2. ASSUME NEW s \in Range(DemoSlugs) \cap DOMAIN tenants
        PROVE  \/ tenants'[s].demo /\ tenants'[s].parts = AllParts(s)
               \/ tenants[s].id \in interrupted \cup {runs'[x].id : x \in RunIds}
    <3>1. \/ tenants[s].demo /\ tenants[s].parts = AllParts(s)
          \/ tenants[s].id \in interrupted
          \/ \E x \in RunIds : tenants[s].id = runs[x].id
      BY <2>1 DEF DemoIInv, DemoOrphansWereInterrupted
    <3>2. tenants[s].id = runs[r].id => s = slug
      BY DEF DemoIInv, IdsAreFresh, slug
    <3>3. CASE s = slug /\ Mine(r)
      BY <1>2, <3>3 DEF Mine, slug
    <3>4. CASE ~(s = slug /\ Mine(r))
      <4>1. tenants[s].id # runs[r].id
        BY <3>2, <3>4 DEF Mine, slug
      <4>. QED
        BY <1>2, <3>1, <3>4, <4>1
    <3>. QED
      BY <3>3, <3>4
  <2>. QED
    BY <1>2, <2>1, <2>2, PartsStay DEF DemoOrphansWereInterrupted
<1>. QED
  BY <1>3, <1>4, <1>5, <1>6 DEF DemoIInv

LEMMA FlagStep == ASSUME DemoIInv, NEW r \in RunIds, FlagTenant(r) PROVE DemoIInv'
<1>. DEFINE slug == SlugOf(r)
            t == [tenants[slug] EXCEPT !.demo = TRUE]
<1>1. /\ Working(r) /\ runs[r].at = "flag" /\ Go(r, runs[r].id) /\ UNCHANGED interrupted /\ runs[r].id \in 0..TenantIds
      /\ tenants' = IF Mine(r) THEN [tenants EXCEPT ![slug].demo = TRUE] ELSE tenants
  BY DEF FlagTenant, OnStage, DemoIInv, DemoTypes, Run
<1>2. 3 \in DOMAIN Stages(slug) /\ runs[r].at = Stages(slug)[3] /\ 3 < StageCount(slug)
  BY <1>1, Numbers, StagesAre
<1>3. /\ runs' \in [RunIds -> Run] /\ \A x \in RunIds \ {r} : runs'[x] = runs[x]
      /\ runs'[r] = [at |-> Stages(slug)[3 + 1], slug |-> runs[r].slug, id |-> runs[r].id]
  BY <1>1, <1>2, GoesOn
<1>4. slug \in Range(DemoSlugs) /\ slug # "real"
  BY <1>1, SlugIs DEF DemoIInv
<1>. HIDE DEF slug
<1>5. CASE runs[r].id = 0
  <2>1. ~Mine(r)
    BY <1>4, <1>5 DEF Mine, DemoIInv, IdsAreFresh, slug
  <2>. QED
    BY <1>1, <1>3, <1>5, <2>1, IdleStep
<1>6. CASE runs[r].id # 0 /\ ~Mine(r)
  <2>1. PICK t0 \in Tenant : t0 = [id |-> runs[r].id, demo |-> FALSE, parts |-> {}]
    BY <1>1 DEF Tenant
  <2>2. OnItsWay(r)'
    <3>1. slug = SlugOf(r)' /\ Working(r)' /\ ~Mine(r)'
      BY <1>1, <1>3, <1>6 DEF SlugOf, Working, Mine, slug
    <3>2. 4 \in 3..StageCount(slug) /\ 3 + 1 = 4
      BY Numbers
    <3>. QED
      BY <1>3, <3>1, <3>2, OnItsWayAt
  <2>. QED
    BY <1>1, <1>3, <1>6, <2>1, <2>2, WorkStep DEF slug
<1>7. CASE runs[r].id # 0 /\ Mine(r)
  <2>1. slug \in DOMAIN tenants /\ tenants[slug].id = runs[r].id /\ tenants \in [DOMAIN tenants -> Tenant]
    BY <1>7 DEF Mine, slug, DemoIInv, DemoTypes
  <2>2. t \in Tenant /\ t.id = runs[r].id /\ t.demo /\ t.parts = tenants[slug].parts
    BY <2>1 DEF Tenant
  <2>3. tenants' = [tenants EXCEPT ![slug] = t]
    BY <1>1, <1>7
  <2>4. tenants[slug].parts = Done(slug, 4)
    <3>1. PICK k \in 3..StageCount(slug) : runs[r].at = Stages(slug)[k] /\ tenants[slug].parts = Done(slug, k)
      BY <1>7 DEF DemoIInv, RunsAreOnTheirWay, OnItsWay, slug
    <3>2. k = 3
      BY <1>1, <3>1, Numbers
    <3>. QED
      BY <3>1, <3>2, DoneIs
  <2>. HIDE DEF t
  <2>5. OnItsWay(r)'
    <3>1. slug = SlugOf(r)' /\ Working(r)'
      BY <1>1, <1>3 DEF SlugOf, Working, slug
    <3>2. 4 \in 3..StageCount(slug) /\ 3 + 1 = 4 /\ (4 > 3)
      BY Numbers
    <3>3. tenants'[slug] = t
      BY <2>1, <2>3
    <3>. QED
      BY <1>3, <2>2, <2>4, <3>1, <3>2, <3>3, OnItsWayAt
  <2>6. tenants' = IF Mine(r) THEN [tenants EXCEPT ![SlugOf(r)] = t] ELSE tenants
    BY <1>7, <2>3 DEF slug
  <2>7. runs'[r].id = runs[r].id /\ runs'[r].slug = runs[r].slug
    BY <1>3
  <2>. QED
    BY <1>1, <1>3, <1>7, <2>2, <2>5, <2>6, <2>7, WorkStep
<1>. QED
  BY <1>5, <1>6, <1>7

LEMMA SeedStep == ASSUME DemoIInv, NEW r \in RunIds, SeedPart(r) PROVE DemoIInv'
<1>. DEFINE slug == SlugOf(r)
            part == PartsOf(runs[r].at, slug)
            t == [tenants[slug] EXCEPT !.parts = @ \cup part]
<1>1. CASE ~Mine(r)
  BY <1>1, StopStep DEF SeedPart
<1>2. CASE Mine(r)
  <2>1. /\ Working(r) /\ part # {} /\ Go(r, runs[r].id) /\ UNCHANGED interrupted /\ runs[r].id \in 0..TenantIds
        /\ tenants' = [tenants EXCEPT ![slug].parts = @ \cup part]
    BY <1>2 DEF SeedPart, DemoIInv, DemoTypes, Run
  <2>2. slug \in Range(DemoSlugs) /\ slug # "real"
    BY <2>1, SlugIs DEF DemoIInv
  <2>3. slug \in DOMAIN tenants /\ tenants[slug].id = runs[r].id /\ runs[r].id # 0 /\ tenants \in [DOMAIN tenants -> Tenant]
    BY <1>2, <2>2 DEF Mine, DemoIInv, DemoTypes, IdsAreFresh
  <2>4. PICK k \in 3..StageCount(slug) : /\ runs[r].at = Stages(slug)[k]
                                         /\ tenants[slug].demo <=> k > 3
                                         /\ tenants[slug].parts = Done(slug, k)
    BY <1>2, <2>3 DEF DemoIInv, RunsAreOnTheirWay, OnItsWay
  <2>5. k # 3 /\ k \in DOMAIN Stages(slug) /\ tenants[slug].demo
    BY <2>1, <2>4, StagesAre, PartsAre, Numbers
  <2>6. part \subseteq Parts
    BY DEF Parts, PartsOf, PeopleParts, HighlightParts, EstateParts, MoneyParts, DemoModules
  <2>7. /\ runs' \in [RunIds -> Run] /\ \A x \in RunIds \ {r} : runs'[x] = runs[x]
        /\ k < StageCount(slug) => runs'[r] = [at |-> Stages(slug)[k + 1], slug |-> runs[r].slug, id |-> runs[r].id]
        /\ k = StageCount(slug) => runs'[r] = [at |-> "check", slug |-> runs[r].slug + 1, id |-> 0]
    BY <2>1, <2>4, <2>5, GoesOn
  <2>. HIDE DEF part
  <2>8. t \in Tenant /\ t.id = runs[r].id /\ t.demo /\ t.parts = tenants[slug].parts \cup part
    BY <2>3, <2>5, <2>6 DEF Tenant
  <2>9. t.parts = Done(slug, k + 1)
    BY <2>4, <2>5, <2>8, DoneIs DEF part
  <2>10. tenants' = IF Mine(r) THEN [tenants EXCEPT ![SlugOf(r)] = t] ELSE tenants
    BY <1>2, <2>1
  <2>11. tenants'[slug] = t
    BY <1>2, <2>3, <2>10
  <2>12. CASE k # StageCount(slug)
    <3>1. k < StageCount(slug) /\ k + 1 \in 3..StageCount(slug) /\ k + 1 > 3
      BY <2>12, Numbers
    <3>2. /\ runs'[r].id = runs[r].id /\ runs'[r].slug = runs[r].slug
          /\ runs'[r].at = Stages(slug)[k + 1]
      BY <2>7, <3>1
    <3>3. slug = SlugOf(r)' /\ Working(r)'
      BY <2>1, <3>2 DEF SlugOf, Working
    <3>. HIDE DEF t, slug
    <3>4. OnItsWay(r)'
      BY <2>8, <2>9, <2>11, <3>1, <3>2, <3>3, OnItsWayAt
    <3>. QED
      BY <2>1, <2>3, <2>7, <2>8, <2>10, <3>2, <3>4, WorkStep
  <2>13. CASE k = StageCount(slug)
    <3>1. runs'[r].id = 0
      BY <2>7, <2>13
    <3>2. OnItsWay(r)'
      BY <3>1 DEF OnItsWay
    <3>3. Done(slug, k + 1) = AllParts(slug)
      BY <2>13, DoneIs DEF StageCount
    <3>4. t.parts = AllParts(SlugOf(r))
      BY <2>9, <3>3
    <3>. HIDE DEF t, slug
    <3>. QED
      BY <1>2, <2>1, <2>3, <2>7, <2>8, <2>10, <3>1, <3>2, <3>4, WorkStep
  <2>. QED
    BY <2>12, <2>13
<1>. QED
  BY <1>1, <1>2

----------------------------------------------------------------------------
LEMMA DemoInitOK == DemoInit => DemoIInv
<1>. SUFFICES ASSUME DemoInit PROVE DemoIInv
  OBVIOUS
<1>1. /\ DOMAIN tenants = {} /\ interrupted = {}
      /\ runs = [r \in RunIds |-> [at |-> "start", slug |-> 1, id |-> 0]]
  BY DEF DemoInit, RunIds
<1>2. DemoTypes
  <2>1. 0 \in 0..TenantIds /\ "start" \in Places
    BY DemoAssumption DEF Places
  <2>2. runs \in [RunIds -> Run]
    BY <1>1, <2>1 DEF Run
  <2>3. tenants \in [DOMAIN tenants -> Tenant]
    BY DEF DemoInit
  <2>. QED
    BY <1>1, <2>2, <2>3 DEF DemoTypes
<1>3. RunsAreOnTheirWay /\ IdsAreFresh /\ DemoOrphansWereInterrupted
  BY <1>1 DEF RunsAreOnTheirWay, OnItsWay, IdsAreFresh, DemoOrphansWereInterrupted
<1>. QED
  BY <1>2, <1>3 DEF DemoIInv

LEMMA DemoStep == DemoIInv /\ [DemoNext /\ UNCHANGED portalUsers]_demoVars => DemoIInv'
<1>. SUFFICES ASSUME DemoIInv, [DemoNext /\ UNCHANGED portalUsers]_demoVars PROVE DemoIInv'
  OBVIOUS
<1>1. CASE UNCHANGED demoVars
  <2>1. UNCHANGED <<tenants, runs, interrupted>>
    BY <1>1 DEF demoVars
  <2>2. DemoTypes' /\ IdsAreFresh' /\ DemoOrphansWereInterrupted'
    BY <2>1, PartsStay DEF DemoIInv, DemoTypes, Run, Tenant, IdsAreFresh, SlugOf, DemoOrphansWereInterrupted
  <2>3. RunsAreOnTheirWay'
    BY <2>1, OthersGoOn DEF RunsAreOnTheirWay, Mine, SlugOf
  <2>. QED
    BY <2>2, <2>3 DEF DemoIInv
<1>2. CASE Enroll
  BY <1>2, EnrollStep
<1>3. ASSUME NEW r \in RunIds, StartRun(r) PROVE DemoIInv'
  BY <1>3, StartStep
<1>4. ASSUME NEW r \in RunIds, ResetDemo(r) PROVE DemoIInv'
  BY <1>4, ResetStep
<1>5. ASSUME NEW r \in RunIds, CheckTenant(r) PROVE DemoIInv'
  BY <1>5, CheckStep
<1>6. ASSUME NEW r \in RunIds, SeedTenant(r) PROVE DemoIInv'
  BY <1>6, SeedTenantStep
<1>7. ASSUME NEW r \in RunIds, FlagTenant(r) PROVE DemoIInv'
  BY <1>7, FlagStep
<1>8. ASSUME NEW r \in RunIds, SeedPart(r) PROVE DemoIInv'
  BY <1>8, SeedStep
<1>9. ASSUME NEW r \in RunIds, Interrupt(r) PROVE DemoIInv'
  BY <1>9, StopStep DEF Interrupt
<1>. QED
  BY <1>1, <1>2, <1>3, <1>4, <1>5, <1>6, <1>7, <1>8, <1>9 DEF DemoNext, RunIds

(* A demonstration tenant that is not marked as one, or that lacks a part  *)
(* of its seed, is what a run is at work on or was at work on when it      *)
(* stopped: however the transactions of reseedDemo, of the script and of   *)
(* whoever signs up interleave, no run leaves one behind that it thinks    *)
(* complete, and none works on the tenant of another.                      *)
THEOREM OrphansHaveARun == DemoSpec => []DemoOrphansWereInterrupted
<1>1. DemoIInv => DemoOrphansWereInterrupted
  BY DEF DemoIInv
<1>. QED
  BY <1>1, DemoInitOK, DemoStep, PTL DEF DemoSpec

(* What the types of the invariant leave open: no run counts past the last *)
(* slug, what is interrupted has an id, and nobody is let into the portal. *)
DemoBounds ==
  /\ \A r \in RunIds : runs[r].slug <= Len(DemoSlugs) + 1
  /\ interrupted \subseteq 1..TenantIds
  /\ portalUsers = [c \in {} |-> {}]

LEMMA DemoIsTyped == DemoIInv /\ DemoBounds => DemoTypeOK
<1>. SUFFICES ASSUME DemoIInv, DemoBounds PROVE DemoTypeOK
  OBVIOUS
<1>1. Len(DemoSlugs) \in Nat
  BY DemoAssumption DEF DemoAssumption
<1>2. \A r \in RunIds : runs[r].slug \in 1..(Len(DemoSlugs) + 1) /\ runs[r].id \in 0..TenantIds
  BY <1>1 DEF DemoIInv, DemoTypes, DemoBounds, Run
<1>3. \A s \in DOMAIN tenants : tenants[s].id \in 0..TenantIds /\ tenants[s].demo \in BOOLEAN
  BY DEF DemoIInv, DemoTypes, Tenant
<1>4. PortalTypeOK
  BY DEF DemoBounds, PortalTypeOK
<1>. QED
  BY <1>2, <1>3, <1>4 DEF DemoTypeOK, DemoBounds, RunIds

LEMMA BoundsInitOK == DemoInit => DemoBounds
<1>1. Len(DemoSlugs) \in Nat
  BY DemoAssumption DEF DemoAssumption
<1>. QED
  BY <1>1 DEF DemoInit, DemoBounds, RunIds

LEMMA GoStaysInside ==
  ASSUME DemoIInv, DemoBounds, NEW r \in RunIds, Working(r), NEW id, Go(r, id)
  PROVE  \A x \in RunIds : runs'[x].slug <= Len(DemoSlugs) + 1
<1>1. Len(DemoSlugs) \in Nat
  BY DemoAssumption DEF DemoAssumption
<1>2. runs \in [RunIds -> Run] /\ \A x \in RunIds : runs[x].slug \in Nat
  BY DEF DemoIInv, DemoTypes, Run
<1>3. runs[r].slug <= Len(DemoSlugs)
  BY DEF Working
<1>4. \E at, n, i : runs' = [runs EXCEPT ![r] = [at |-> at, slug |-> n, id |-> i]] /\ n \in {runs[r].slug, runs[r].slug + 1}
  BY <1>2 DEF Go
<1>. QED
  BY <1>1, <1>2, <1>3, <1>4 DEF DemoBounds

LEMMA StopStaysInside ==
  ASSUME DemoIInv, DemoBounds, NEW r \in RunIds, Stop(r)
  PROVE  /\ \A x \in RunIds : runs'[x].slug <= Len(DemoSlugs) + 1
         /\ interrupted' \subseteq 1..TenantIds
<1>1. runs \in [RunIds -> Run] /\ \A x \in RunIds : runs[x].slug \in Nat /\ runs[x].id \in 0..TenantIds
  BY DEF DemoIInv, DemoTypes, Run
<1>2. \A x \in RunIds : runs'[x].slug = runs[x].slug
  BY <1>1 DEF Stop, Run
<1>3. {runs[r].id} \ {0} \subseteq 1..TenantIds
  BY <1>1, DemoAssumption DEF DemoAssumption
<1>. QED
  BY <1>1, <1>2, <1>3 DEF Stop, DemoBounds

LEMMA BoundsStep ==
  DemoIInv /\ DemoBounds /\ [DemoNext /\ UNCHANGED portalUsers]_demoVars => DemoBounds'
<1>. SUFFICES ASSUME DemoIInv, DemoBounds, [DemoNext /\ UNCHANGED portalUsers]_demoVars PROVE DemoBounds'
  OBVIOUS
<1>0. portalUsers' = portalUsers
  BY DEF demoVars
<1>1. runs \in [RunIds -> Run] /\ \A x \in RunIds : runs[x].slug \in Nat
  BY DEF DemoIInv, DemoTypes, Run
<1>2. Len(DemoSlugs) \in Nat
  BY DemoAssumption DEF DemoAssumption
<1>3. CASE UNCHANGED demoVars \/ Enroll
  BY <1>0, <1>3 DEF demoVars, Enroll, DemoBounds
<1>4. ASSUME NEW r \in RunIds, StartRun(r) \/ ResetDemo(r) PROVE DemoBounds'
  <2>1. \E at : runs' = [runs EXCEPT ![r].at = at]
    BY <1>4 DEF StartRun, ResetDemo
  <2>2. interrupted' = interrupted
    BY <1>4 DEF StartRun, ResetDemo
  <2>3. \A x \in RunIds : runs'[x].slug = runs[x].slug
    BY <1>1, <2>1 DEF Run
  <2>. QED
    BY <1>0, <2>2, <2>3 DEF DemoBounds
<1>5. ASSUME NEW r \in RunIds, CheckTenant(r) PROVE DemoBounds'
  <2>1. Working(r) /\ interrupted' = interrupted
    BY <1>5 DEF CheckTenant, OnStage
  <2>2. CASE Go(r, 0)
    BY <1>0, <2>1, <2>2, GoStaysInside DEF DemoBounds
  <2>3. CASE runs' = [runs EXCEPT ![r].slug = @ + 1]
    <3>1. \A x \in RunIds : runs'[x].slug = IF x = r THEN runs[x].slug + 1 ELSE runs[x].slug
      BY <1>1, <2>3 DEF Run
    <3>. QED
      BY <1>0, <1>1, <1>2, <2>1, <3>1 DEF DemoBounds, Working
  <2>. QED
    BY <1>5, <2>2, <2>3 DEF CheckTenant
<1>6. ASSUME NEW r \in RunIds, SeedTenant(r) PROVE DemoBounds'
  <2>1. Working(r)
    BY <1>6 DEF SeedTenant, OnStage
  <2>2. Stop(r) \/ (Go(r, NextId) /\ UNCHANGED interrupted)
    BY <1>6 DEF SeedTenant
  <2>. HIDE DEF NextId
  <2>. QED
    BY <1>0, <2>1, <2>2, GoStaysInside, StopStaysInside DEF DemoBounds
<1>7. ASSUME NEW r \in RunIds, FlagTenant(r) \/ SeedPart(r) PROVE DemoBounds'
  <2>1. Working(r) /\ (Stop(r) \/ (Go(r, runs[r].id) /\ UNCHANGED interrupted))
    BY <1>7 DEF FlagTenant, SeedPart, OnStage
  <2>. QED
    BY <1>0, <2>1, GoStaysInside, StopStaysInside DEF DemoBounds
<1>8. ASSUME NEW r \in RunIds, Interrupt(r) PROVE DemoBounds'
  BY <1>0, <1>8, StopStaysInside DEF Interrupt, DemoBounds
<1>. QED
  BY <1>3, <1>4, <1>5, <1>6, <1>7, <1>8 DEF DemoNext, RunIds

(* demo/seed.ts: a run ends at the last slug of its list, ids stay within  *)
(* those that were given, and only an id that was given is interrupted.    *)
THEOREM DemoKeepsTypes == DemoSpec => []DemoTypeOK
BY DemoInitOK, DemoStep, BoundsInitOK, BoundsStep, DemoIsTyped, PTL DEF DemoSpec

-----------------------------------------------------------------------------
LEMMA BoardInitOK == BoardInit => BoardTypeOK
BY BoardAssumption DEF BoardAssumption, BoardInit, BoardTypeOK, JobOrders, Hours, ProductionStages, NotYet

LEMMA BoardStep == BoardTypeOK /\ [BoardNext]_boardVars => BoardTypeOK'
<1>. SUFFICES ASSUME BoardTypeOK, [BoardNext]_boardVars PROVE BoardTypeOK'
  OBVIOUS
<1>. USE DEF BoardTypeOK
<1>0. hour # NotYet /\ hour \in Hours /\ JobOrders' = JobOrders /\ Hours' = Hours
  BY BoardAssumption DEF BoardAssumption, Hours, NotYet, JobOrders
<1>1. CASE UNCHANGED boardVars
  BY <1>0, <1>1 DEF boardVars
<1>2. CASE ApproveJob
  BY <1>0, <1>2 DEF ApproveJob
<1>3. CASE RejectJob
  BY <1>0, <1>3 DEF RejectJob
<1>4. CASE SetStage
  <2>1. PICK j \in Jobs, stage \in ProductionStages :
          /\ stageOf' = [stageOf EXCEPT ![j] = stage]
          /\ readyAt' = [readyAt EXCEPT ![j] = IF stage = "ready" THEN hour ELSE @]
          /\ announced' = IF stage = "ready" THEN announced \cup {j} ELSE announced
          /\ UNCHANGED <<orderStatus, notifiedAt, hour>>
    BY <1>4 DEF SetStage
  <2>2. readyAt' \in [Jobs -> Hours] /\ stageOf' \in [Jobs -> ProductionStages]
    BY <1>0, <2>1
  <2>3. \A k \in Jobs : readyAt[k] # NotYet => readyAt'[k] # NotYet
    BY <1>0, <2>1
  <2>4. \A k \in Jobs : /\ stageOf'[k] = "ready" => readyAt'[k] # NotYet
                        /\ k \in announced' => readyAt'[k] # NotYet
    BY <1>0, <2>1, <2>3
  <2>. QED
    BY <1>0, <2>1, <2>2, <2>3, <2>4
<1>5. CASE Notify
  BY <1>0, <1>5 DEF Notify
<1>6. CASE HourPasses
  <2>1. hour' \in 0..LastHour
    BY <1>6, BoardAssumption DEF HourPasses, BoardAssumption
  <2>. QED
    BY <1>0, <1>6, <2>1 DEF HourPasses
<1>. QED
  BY <1>1, <1>2, <1>3, <1>4, <1>5, <1>6 DEF BoardNext

(* commerce.ts, setStage and notify: in whatever order lines are moved, on *)
(* pages however old, a line that stands as ready, that was announced or   *)
(* whose customer was told has the hour at which it was made ready.        *)
THEOREM ToldWhenReady == BoardSpec => []BoardTypeOK
BY BoardInitOK, BoardStep, PTL DEF BoardSpec
=============================================================================
