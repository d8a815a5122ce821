-------------------------- MODULE GraphMigrations --------------------------
(***************************************************************************)
(* The schema migrations of packages/ragleap-graph over nodes written      *)
(* before user_id and composite_key existed: MigrationRunner.run_pending   *)
(* by processes that may die between any two statements, beside an         *)
(* application that keeps writing keyed nodes.                             *)
(***************************************************************************)
EXTENDS Integers, Sequences, FiniteSets

CONSTANTS
    OldNodes,       \* nodes of an older version
    LabelOf,        \* the label of each, an index of the four labels
    MigRunners,     \* processes inside run_pending
    MaxRunnerStops  \* bound on runners that die half-way

MigLabels == 1..4           \* Document, Entity, PairWeight, RelationWeight
MigIds == 1..2              \* 0001 user_id defaults, 0002 composite keys

ASSUME MigrationAssumption == LabelOf \in [OldNodes -> MigLabels]

VARIABLES
    hasUser, hasKey,    \* old nodes with a user_id, with a composite_key
    twin,               \* old nodes a keyed node of the same identity is beside
    record,             \* record[m]: number of _Migration nodes of m
    runner,             \* per runner: where run_pending stands
    runnerStops

migVars == <<hasUser, hasKey, twin, record, runner, runnerStops>>

IdleRunner == [pc |-> "idle", mig |-> 1, label |-> 1, batch |-> {}]

MigInit ==
    /\ hasUser \in SUBSET OldNodes /\ hasKey = {} /\ twin = {}
    /\ record = [m \in MigIds |-> 0]
    /\ runner = [r \in MigRunners |-> IdleRunner]
    /\ runnerStops = 0

----------------------------------------------------------------------------
\* Nodes MERGEd by key: an old node without one is not found, and a second
\* node of the same identity is created.
UpsertBesideOld(n) ==
    /\ n \notin hasKey
    /\ twin' = twin \cup {n}
    /\ UNCHANGED <<hasUser, hasKey, record, runner, runnerStops>>

RunPending(r) ==
    /\ runner[r].pc = "idle"
    /\ runner' = [runner EXCEPT ![r] = [IdleRunner EXCEPT !.pc = "check"]]
    /\ UNCHANGED <<hasUser, hasKey, twin, record, runnerStops>>

\* is_applied, read at the start of each migration.
CheckApplied(r) ==
    LET me == runner[r]
        Skip == IF me.mig = 2 THEN IdleRunner ELSE [me EXCEPT !.mig = 2]
    IN
    /\ me.pc = "check"
    /\ runner' = [runner EXCEPT ![r] =
                    IF record[me.mig] > 0 THEN Skip ELSE [me EXCEPT !.pc = "up", !.label = 1]]
    /\ UNCHANGED <<hasUser, hasKey, twin, record, runnerStops>>

LabelDone(me) == IF me.label = 4 THEN [me EXCEPT !.pc = "record"]
                                 ELSE [me EXCEPT !.label = @ + 1, !.pc = "up"]

\* 0001: one SET a label, over the nodes without a user_id.
BackfillUserId(r) ==
    /\ runner[r].pc = "up" /\ runner[r].mig = 1
    /\ hasUser' = hasUser \cup {n \in OldNodes : LabelOf[n] = runner[r].label}
    /\ runner' = [runner EXCEPT ![r] = LabelDone(@)]
    /\ UNCHANGED <<hasKey, twin, record, runnerStops>>

\* 0002: the nodes without a key are read, then written in batches.
ReadUnkeyed(r) ==
    /\ runner[r].pc = "up" /\ runner[r].mig = 2
    /\ runner' = [runner EXCEPT ![r].pc = "batch",
                    ![r].batch = {n \in OldNodes \ hasKey : LabelOf[n] = runner[r].label}]
    /\ UNCHANGED <<hasUser, hasKey, twin, record, runnerStops>>

\* As the code would be if it went on when a migration has failed.
WriteBatchGoesOn(r) ==
    LET me == runner[r] IN
    /\ me.pc = "batch"
    /\ hasKey' = hasKey \cup (me.batch \ twin)
    /\ runner' = [runner EXCEPT ![r] = LabelDone(@)]
    /\ UNCHANGED <<hasUser, twin, record, runnerStops>>

\* The unique constraint refuses a key that a live node already holds, and
\* the whole statement with it: the runner stops and records nothing.
WriteBatch(r) ==
    LET me == runner[r] IN
    /\ me.pc = "batch"
    /\ \/ \E n \in me.batch \ twin :
            /\ hasKey' = hasKey \cup {n}
            /\ runner' = [runner EXCEPT ![r].batch = @ \ {n}]
       \/ /\ me.batch \cap twin # {}
          /\ runner' = [runner EXCEPT ![r] = IdleRunner]
          /\ UNCHANGED hasKey
       \/ /\ me.batch = {}
          /\ runner' = [runner EXCEPT ![r] = LabelDone(@)]
          /\ UNCHANGED hasKey
    /\ UNCHANGED <<hasUser, twin, record, runnerStops>>

RecordMigration(r) ==
    /\ runner[r].pc = "record"
    /\ record' = [record EXCEPT ![runner[r].mig] = @ + 1]
    /\ runner' = [runner EXCEPT ![r] =
                    IF @.mig = 2 THEN IdleRunner ELSE [@ EXCEPT !.mig = 2, !.pc = "check"]]
    /\ UNCHANGED <<hasUser, hasKey, twin, runnerStops>>

RunnerStops(r) ==
    /\ runner[r].pc # "idle" /\ runnerStops < MaxRunnerStops
    /\ runnerStops' = runnerStops + 1
    /\ runner' = [runner EXCEPT ![r] = IdleRunner]
    /\ UNCHANGED <<hasUser, hasKey, twin, record>>

MigNext ==
    \/ \E n \in OldNodes : UpsertBesideOld(n)
    \/ \E r \in MigRunners :
        \/ RunPending(r) \/ CheckApplied(r) \/ BackfillUserId(r) \/ ReadUnkeyed(r)
        \/ WriteBatch(r) \/ RecordMigration(r) \/ RunnerStops(r)

MigSpec == MigInit /\ [][MigNext]_migVars

----------------------------------------------------------------------------
MigTypeOK ==
    /\ hasUser \subseteq OldNodes /\ hasKey \subseteq OldNodes /\ twin \subseteq OldNodes
    /\ record \in [MigIds -> 0..Cardinality(MigRunners)]
    /\ \A r \in MigRunners : /\ runner[r].mig \in MigIds /\ runner[r].label \in MigLabels
                             /\ runner[r].batch \subseteq OldNodes

(***************************************************************************)
(* A migration with a _Migration record has reached every old node, and    *)
(* the records appear in order, whatever runners died, ran side by side or *)
(* met a duplicate key: run_pending records a migration only after all of  *)
(* it, and a failure stops the ones behind it.                             *)
(***************************************************************************)
RecordedIsComplete ==
    /\ record[1] > 0 => hasUser = OldNodes
    /\ record[2] > 0 => hasKey = OldNodes /\ record[1] > 0
============================================================================
