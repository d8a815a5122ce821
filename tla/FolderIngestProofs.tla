------------------------- MODULE FolderIngestProofs -------------------------
(***************************************************************************)
(* What holds of folder ingestion for any number of processes, grants and  *)
(* files, and with any number of faults.                                   *)
(***************************************************************************)
EXTENDS FolderIngest, TLAPS

\* The parts of TypeOK, by who changes them.
StageTypes ==
  /\ source \in [Grants -> Files] /\ staged \in [Grants -> Files]
  /\ manifest \in [Grants -> Manifests \cup {None}]
  /\ runner \in [for : Procs \cup {NoProc}, todo : SUBSET Grants, cur : Grants \cup {None}, files : Files,
                 complete : BOOLEAN]
DocTypes ==
  /\ docs \subseteq Docs /\ approved \subseteq Grants /\ dropped \subseteq Grants \X Paths
  /\ nextId \in 1..MaxDocs + 1
  /\ \A d, e \in docs : d.id = e.id => d = e
  /\ \A d \in docs : d.id < nextId
ProcTypes ==
  /\ cycle \in [Procs -> Cycles] /\ bg \subseteq Procs
  /\ failures \in [Procs -> [Keys -> 0..MAX_FAILURES]]

\* What a cycle has in hand: a grant once it has read a manifest, approved before anything is
\* deleted or ingested; files of its manifest; and a file it has not given up on.
CycleOK(c, fails, app) ==
  /\ c.pc \in {"read", "approve", "work", "embed"} => c.grant \in Grants
  /\ c.pc \in {"work", "embed"} => c.grant \in app /\ c.todo \subseteq In(c.man.files)
  /\ c.pc = "embed" =>
       c.cur \in In(c.man.files) /\ fails[<<c.grant, c.cur, c.man.files[c.cur]>>] < MAX_FAILURES
WorkOK == \A p \in Procs : CycleOK(cycle[p], failures[p], approved)

IngestInv ==
  /\ LeaderTypeOK /\ StageTypes /\ DocTypes /\ ProcTypes /\ edits \in 0..MaxEdits
  /\ WorkOK /\ ApprovedFirst

-----------------------------------------------------------------------------
(* Values that steps put together. *)

LEMMA IdleType == Idle \in Cycles
BY FolderAssumption DEF Idle, Cycles, NoManifest, Manifests, Files, NoFiles

LEMMA ListedType == Listed \in Cycles /\ Listed.pc = "grants"
BY IdleType, FolderAssumption DEF Listed, Cycles, Idle, NoManifest, Manifests, Files, NoFiles

LEMMA NextGrantType ==
  ASSUME ProcTypes, NEW p \in Procs
  PROVE  NextGrant(p) \in Cycles /\ NextGrant(p).pc = "grants"
BY FolderAssumption DEF ProcTypes, NextGrant, Cycles, Idle, NoManifest, Manifests, Files, NoFiles

LEMMA StagedType ==
  ASSUME StageTypes, NEW g \in Grants
  PROVE  Staged(g) \in [for : Procs \cup {NoProc}, todo : SUBSET Grants, cur : Grants \cup {None},
                        files : Files, complete : BOOLEAN]
BY FolderAssumption DEF StageTypes, Staged, Resting, Files, NoFiles

\* A step of p's cycle that changes neither documents, approvals nor failures.
LEMMA CycleMoves ==
  ASSUME IngestInv, NEW p \in Procs, NEW c \in Cycles,
         cycle' = [cycle EXCEPT ![p] = c], CycleOK(c, failures[p], approved),
         LeaderTypeOK', StageTypes', UNCHANGED <<dbVars, failures, edits>>, bg' \subseteq Procs
  PROVE  IngestInv'
<1>1. ProcTypes'
  BY DEF IngestInv, ProcTypes
<1>2. WorkOK'
  BY DEF IngestInv, ProcTypes, WorkOK, dbVars
<1>3. DocTypes' /\ ApprovedFirst' /\ (edits \in 0..MaxEdits)'
  BY DEF IngestInv, DocTypes, ApprovedFirst, dbVars
<1> QED BY <1>1, <1>2, <1>3 DEF IngestInv

\* A step that leaves the cycles, the failures, documents and approvals alone.
LEMMA CyclesRest ==
  ASSUME IngestInv, LeaderTypeOK', StageTypes', UNCHANGED <<dbVars, cycle, failures>>,
         bg' \subseteq Procs, edits' \in 0..MaxEdits
  PROVE  IngestInv'
BY DEF IngestInv, DocTypes, ProcTypes, WorkOK, ApprovedFirst, dbVars

-----------------------------------------------------------------------------
(* The leader's part. *)

LEMMA LeaderSteps ==
  ASSUME LeaderTypeOK, NEW p \in Procs,
         \/ IsLeaderTrue(p) \/ IsLeaderFalse(p) \/ ConnLost(p)
         \/ Release(p) \/ Crash(p) \/ Restart(p)
  PROVE  LeaderTypeOK'
BY ProcsAssumption DEF LeaderTypeOK, IsLeaderTrue, IsLeaderFalse, ConnLost, Release, Crash, Restart, Fault

LEMMA LeaderRests ==
  ASSUME LeaderTypeOK, UNCHANGED <<lock, conn, up>>, Fault \/ UNCHANGED faults
  PROVE  LeaderTypeOK'
BY ProcsAssumption DEF LeaderTypeOK, Fault

-----------------------------------------------------------------------------
(* The steps of the runner, the owner and the processes. *)

LEMMA InitHolds == Init => IngestInv
<1> SUFFICES ASSUME Init PROVE IngestInv
  OBVIOUS
<1>1. LeaderTypeOK
  BY ProcsAssumption DEF Init, LeaderInit, LeaderTypeOK
<1>2. StageTypes
  BY DEF Init, StageTypes, Resting, NoFiles, Files
<1>3. DocTypes /\ ApprovedFirst /\ edits \in 0..MaxEdits
  BY FolderAssumption DEF Init, DocTypes, ApprovedFirst
<1>4. ProcTypes
  BY IdleType, FolderAssumption DEF Init, ProcTypes
<1>5. WorkOK
  BY DEF Init, WorkOK, CycleOK, Idle
<1> QED BY <1>1, <1>2, <1>3, <1>4, <1>5 DEF IngestInv

LEMMA RunnerSteps ==
  ASSUME IngestInv, NEW g \in Grants,
         StageFiles(g) \/ StageManifest(g) \/ StageKilled(g) \/ PruneGrant(g) \/ ManifestAges(g)
  PROVE  IngestInv'
<1>1. LeaderTypeOK'
  BY LeaderRests DEF IngestInv, StageFiles, StageManifest, StageKilled, PruneGrant, ManifestAges, leaderVars
<1>2. UNCHANGED <<dbVars, procVars>>
  BY DEF StageFiles, StageManifest, StageKilled, PruneGrant, ManifestAges
<1>4. edits' = edits \/ (edits < MaxEdits /\ edits' = edits + 1)
  BY DEF StageFiles, StageManifest, StageKilled, PruneGrant, ManifestAges
<1>5. bg' \subseteq Procs /\ edits' \in 0..MaxEdits
  BY <1>2, <1>4, FolderAssumption DEF IngestInv, ProcTypes, procVars
<1>3. StageTypes'
  <2>1. CASE StageFiles(g)
    <3> PICK files \in Files :
           /\ staged' = [staged EXCEPT ![g] = files]
           /\ runner' = [runner EXCEPT !.cur = g, !.files = files, !.complete = (files = source[g])]
      BY <2>1 DEF StageFiles
    <3>1. (files = source[g]) \in BOOLEAN
      OBVIOUS
    <3> QED BY <2>1, <3>1 DEF StageFiles, IngestInv, StageTypes
  <2>2. CASE StageManifest(g)
    <3>1. [files |-> runner.files, complete |-> runner.complete, fresh |-> TRUE] \in Manifests
      BY DEF IngestInv, StageTypes, Manifests
    <3> QED BY <2>2, <3>1, StagedType DEF StageManifest, IngestInv, StageTypes
  <2>3. CASE StageKilled(g)
    BY <2>3, StagedType DEF StageKilled, IngestInv, StageTypes
  <2>4. CASE PruneGrant(g)
    <3>1. NoFiles \in Files
      BY DEF NoFiles, Files
    <3> QED BY <2>4, <3>1, StagedType DEF PruneGrant, IngestInv, StageTypes
  <2>5. CASE ManifestAges(g)
    <3>1. [manifest[g] EXCEPT !.fresh = FALSE] \in Manifests
      BY <2>5 DEF ManifestAges, IngestInv, StageTypes, Manifests
    <3> QED BY <2>5, <3>1 DEF ManifestAges, IngestInv, StageTypes
  <2> QED BY <2>1, <2>2, <2>3, <2>4, <2>5
<1> QED BY <1>1, <1>2, <1>3, <1>5, CyclesRest DEF procVars

LEMMA OwnerSteps ==
  ASSUME IngestInv,
         \/ \E g \in Grants, f \in Paths, h \in Hashes \cup {None} : EditSource(g, f, h)
         \/ \E d \in docs : DeleteDocument(d)
         \/ \E p \in Procs, g \in Grants : ApproveGrant(p, g)
  PROVE  IngestInv'
<1>1. ASSUME NEW g \in Grants, NEW f \in Paths, NEW h \in Hashes \cup {None}, EditSource(g, f, h)
      PROVE  IngestInv'
  <2>1. StageTypes'
    BY <1>1 DEF EditSource, IngestInv, StageTypes, Files
  <2>2. LeaderTypeOK' /\ edits' \in 0..MaxEdits
    BY <1>1, LeaderRests, FolderAssumption DEF EditSource, Edit, IngestInv, leaderVars
  <2> QED BY <1>1, <2>1, <2>2, CyclesRest DEF EditSource, procVars, IngestInv, ProcTypes
<1>2. ASSUME NEW d \in docs, DeleteDocument(d) PROVE IngestInv'
  <2>1. LeaderTypeOK' /\ StageTypes' /\ ProcTypes' /\ WorkOK' /\ edits' \in 0..MaxEdits
    BY <1>2, LeaderRests, FolderAssumption
       DEF DeleteDocument, Edit, IngestInv, leaderVars, stageVars, procVars, StageTypes, ProcTypes, WorkOK
  <2>2. <<d.grant, d.path>> \in Grants \X Paths
    BY DEF IngestInv, DocTypes, Docs
  <2>3. DocTypes' /\ ApprovedFirst'
    BY <1>2, <2>2 DEF DeleteDocument, IngestInv, DocTypes, ApprovedFirst
  <2> QED BY <2>1, <2>3 DEF IngestInv
<1>3. ASSUME NEW p \in Procs, NEW g \in Grants, ApproveGrant(p, g) PROVE IngestInv'
  <2>1. LeaderTypeOK' /\ StageTypes' /\ ProcTypes' /\ edits' \in 0..MaxEdits
    BY <1>3, LeaderRests, FolderAssumption
       DEF ApproveGrant, Edit, IngestInv, leaderVars, stageVars, StageTypes, ProcTypes
  <2>2. WorkOK'
    BY <1>3 DEF ApproveGrant, IngestInv, WorkOK, CycleOK
  <2>3. DocTypes' /\ ApprovedFirst'
    BY <1>3 DEF ApproveGrant, IngestInv, DocTypes, ApprovedFirst
  <2> QED BY <2>1, <2>2, <2>3 DEF IngestInv
<1> QED BY <1>1, <1>2, <1>3

LEMMA ServerSteps ==
  ASSUME IngestInv, NEW p \in Procs,
         \/ NotLeader(p) \/ ServerStops(p) \/ ServerCrashes(p) \/ ServerStarts(p)
         \/ ConnectionLost(p)
  PROVE  IngestInv'
<1>1. CASE NotLeader(p) \/ ServerStops(p) \/ ConnectionLost(p)
  <2>1. LeaderTypeOK' /\ UNCHANGED folderVars
    BY <1>1, LeaderSteps DEF NotLeader, ServerStops, ConnectionLost, IngestInv
  <2> QED BY <2>1, CyclesRest DEF IngestInv, StageTypes, ProcTypes, folderVars, stageVars, procVars
<1>2. CASE ServerCrashes(p) \/ ServerStarts(p)
  <2>1. LeaderTypeOK' /\ StageTypes' /\ DocTypes' /\ ApprovedFirst' /\ (edits \in 0..MaxEdits)'
    BY <1>2, LeaderSteps
       DEF ServerCrashes, ServerStarts, IngestInv, StageTypes, DocTypes, ApprovedFirst, stageVars, dbVars
  <2>2. [k \in Keys |-> 0] \in [Keys -> 0..MAX_FAILURES]
    BY FolderAssumption
  <2>3. ProcTypes'
    BY <1>2, <2>2, IdleType DEF ServerCrashes, ServerStarts, IngestInv, ProcTypes
  <2>4. cycle'[p].pc = "idle"
    BY <1>2 DEF ServerCrashes, ServerStarts, IngestInv, ProcTypes, Idle
  <2>5. ASSUME NEW q \in Procs, q # p
        PROVE  cycle'[q] = cycle[q] /\ failures'[q] = failures[q]
    BY <1>2, <2>5 DEF ServerCrashes, ServerStarts, IngestInv, ProcTypes
  <2>6. WorkOK'
    BY <1>2, <2>4, <2>5 DEF ServerCrashes, ServerStarts, IngestInv, WorkOK, CycleOK, dbVars
  <2> QED BY <2>1, <2>3, <2>6 DEF IngestInv
<1> QED BY <1>1, <1>2

LEMMA LockSteps == ASSUME IngestInv, LockDropped PROVE IngestInv'
<1>1. LeaderTypeOK' /\ UNCHANGED folderVars
  BY ProcsAssumption DEF LockDropped, SessionEnds, IngestInv, LeaderTypeOK
<1> QED BY <1>1, CyclesRest DEF IngestInv, StageTypes, ProcTypes, folderVars, stageVars, procVars

-----------------------------------------------------------------------------
(* The steps of a cycle. *)

\* The plan of an approved grant asks for files of the manifest only.
LEMMA PlannedType ==
  ASSUME IngestInv, NEW p \in Procs, NEW snap \in SUBSET Docs, cycle[p].grant \in Grants
  PROVE  /\ Planned(p, snap) \in Cycles
         /\ Planned(p, snap).pc = "work" /\ Planned(p, snap).grant = cycle[p].grant
         /\ Planned(p, snap).man = cycle[p].man
         /\ Planned(p, snap).todo \subseteq In(cycle[p].man.files)
         /\ Planned(p, snap).todo = ToIngest(cycle[p].man, snap)
         /\ Planned(p, snap).snap = snap
         /\ Planned(p, snap).del = Stale(cycle[p].man, snap)
              \cup (IF DeleteRemoved THEN Removed(cycle[p].man, snap) ELSE {})
<1> DEFINE man == cycle[p].man
           del == Stale(man, snap) \cup (IF DeleteRemoved THEN Removed(man, snap) ELSE {})
           todo == ToIngest(man, snap)
<1>1. del \in SUBSET Docs
  BY DEF Stale, Removed
<1>2. todo \in SUBSET Paths /\ todo \subseteq In(man.files)
  BY DEF ToIngest, In
<1>3. cycle[p] \in Cycles
  BY DEF IngestInv, ProcTypes
<1> DEFINE c1 == [cycle[p] EXCEPT !.pc = "work"]
           c2 == [c1 EXCEPT !.snap = snap]
           c3 == [c2 EXCEPT !.del = del]
           c4 == [c3 EXCEPT !.todo = todo]
<1>4. Planned(p, snap) = c4
  BY Zenon DEF Planned
<1> HIDE DEF del, todo
<1>5. c1 \in Cycles /\ c1.pc = "work" /\ c1.grant = cycle[p].grant /\ c1.man = cycle[p].man
  BY <1>3 DEF Cycles
<1> HIDE DEF c1
<1>6. c2 \in Cycles /\ c2.pc = "work" /\ c2.grant = cycle[p].grant /\ c2.man = cycle[p].man /\ c2.snap = snap
  BY <1>5 DEF Cycles
<1> HIDE DEF c2
<1>7. /\ c3 \in Cycles /\ c3.pc = "work" /\ c3.grant = cycle[p].grant /\ c3.man = cycle[p].man
      /\ c3.snap = snap /\ c3.del = del
  BY <1>1, <1>6 DEF Cycles
<1> HIDE DEF c3
<1>8. /\ c4 \in Cycles /\ c4.pc = "work" /\ c4.grant = cycle[p].grant /\ c4.man = cycle[p].man
      /\ c4.todo = todo /\ c4.snap = snap /\ c4.del = del
  BY <1>2, <1>7 DEF Cycles
<1> HIDE DEF c4
<1> QED BY <1>2, <1>4, <1>8 DEF del, todo

\* Steps after which the cycle holds no grant.
LEMMA QuietSteps ==
  ASSUME IngestInv, NEW p \in Procs,
         \/ StartJob(p) \/ RequestStage(p) \/ StageAnswered(p) \/ EndCycle(p)
         \/ QueryFails(p) \/ EndGrant(p)
  PROVE  IngestInv'
<1>1. PICK c \in Cycles :
         /\ cycle' = [cycle EXCEPT ![p] = c]
         /\ c.pc \in {"idle", "stage", "staging", "grants"}
  <2>1. CASE StartJob(p)
    <3>1. [cycle[p] EXCEPT !.pc = "stage"] \in Cycles /\ [cycle[p] EXCEPT !.pc = "stage"].pc = "stage"
      BY DEF IngestInv, ProcTypes, Cycles
    <3> QED BY <2>1, <3>1 DEF StartJob
  <2>2. CASE RequestStage(p)
    <3>1. [cycle[p] EXCEPT !.pc = "staging"] \in Cycles /\ [cycle[p] EXCEPT !.pc = "staging"].pc = "staging"
      BY DEF IngestInv, ProcTypes, Cycles
    <3> QED BY <2>2, <3>1, ListedType DEF RequestStage
  <2>3. CASE StageAnswered(p)
    BY <2>3, ListedType DEF StageAnswered
  <2>4. CASE EndCycle(p)
    <3>1. Idle.pc = "idle"
      BY DEF Idle
    <3> QED BY <2>4, <3>1, IdleType DEF EndCycle
  <2>5. CASE QueryFails(p) \/ EndGrant(p)
    BY <2>5, NextGrantType DEF QueryFails, EndGrant, IngestInv
  <2> QED BY <2>1, <2>2, <2>3, <2>4, <2>5
<1>2. CycleOK(c, failures[p], approved)
  BY <1>1 DEF CycleOK
<1>3. LeaderTypeOK'
  BY LeaderSteps, LeaderRests
     DEF IngestInv, StartJob, RequestStage, StageAnswered, EndCycle, QueryFails, EndGrant, cycleOnly, leaderVars
<1>4. StageTypes'
  <2>1. CASE RequestStage(p)
    <3>1. [Resting EXCEPT !.for = p, !.todo = Grants] \in
            [for : Procs \cup {NoProc}, todo : SUBSET Grants, cur : Grants \cup {None}, files : Files,
             complete : BOOLEAN]
      BY DEF Resting, Files, NoFiles
    <3> QED BY <2>1, <3>1 DEF RequestStage, IngestInv, StageTypes
  <2>2. CASE ~RequestStage(p)
    BY <2>2 DEF IngestInv, StartJob, StageAnswered, EndCycle, QueryFails, EndGrant, cycleOnly, stageVars, StageTypes
  <2> QED BY <2>1, <2>2
<1>5. UNCHANGED <<dbVars, failures, edits, bg>>
  BY DEF StartJob, RequestStage, StageAnswered, EndCycle, QueryFails, EndGrant, cycleOnly
<1> QED BY <1>1, <1>2, <1>3, <1>4, <1>5, CycleMoves DEF IngestInv, ProcTypes

LEMMA BackgroundStep == ASSUME IngestInv, NEW p \in Procs, BackgroundCycle(p) PROVE IngestInv'
<1>1. /\ LeaderTypeOK' /\ StageTypes' /\ UNCHANGED <<dbVars, failures, edits>>
      /\ bg' \subseteq Procs
  BY LeaderRests DEF BackgroundCycle, IngestInv, leaderVars, stageVars, StageTypes, ProcTypes
<1>2. CASE cycle[p].pc = "idle"
  <2>1. CycleOK(Listed, failures[p], approved)
    BY ListedType DEF CycleOK
  <2> QED BY <1>1, <1>2, <2>1, ListedType, CycleMoves DEF BackgroundCycle
<1>3. CASE cycle[p].pc # "idle"
  BY <1>1, <1>3, CyclesRest DEF BackgroundCycle, IngestInv
<1> QED BY <1>2, <1>3

\* A cycle takes up a grant, or passes it over.
LEMMA ReadManifestStep ==
  ASSUME IngestInv, NEW p \in Procs, NEW g \in Grants, ReadManifest(p, g)
  PROVE  IngestInv'
<1> DEFINE rest == [NextGrant(p) EXCEPT !.grants = @ \ {g}]
           taken == [rest EXCEPT !.pc = "read", !.grant = g, !.man = manifest[g]]
<1>1. rest \in Cycles /\ rest.pc = "grants"
  <2>1. NextGrant(p) \in Cycles /\ NextGrant(p).pc = "grants"
    BY NextGrantType DEF IngestInv
  <2> QED BY <2>1 DEF Cycles
<1>2. manifest[g] # None => taken \in Cycles /\ taken.pc = "read" /\ taken.grant = g
  <2>1. manifest[g] # None => manifest[g] \in Manifests
    BY DEF IngestInv, StageTypes
  <2> HIDE DEF rest
  <2> QED BY <1>1, <2>1 DEF Cycles
<1>3. PICK c \in Cycles :
         /\ cycle' = [cycle EXCEPT ![p] = c]
         /\ c.pc = "grants" \/ (c.pc = "read" /\ c.grant = g)
  <2>1. \E c \in {rest, taken} :
          cycle' = [cycle EXCEPT ![p] = c] /\ (c = taken => manifest[g] # None \/ c = rest)
    BY DEF ReadManifest
  <2> HIDE DEF rest, taken
  <2> QED BY <1>1, <1>2, <2>1
<1>4. CycleOK(c, failures[p], approved)
  BY <1>3 DEF CycleOK
<1>5. LeaderTypeOK' /\ StageTypes' /\ UNCHANGED <<dbVars, failures, edits, bg>>
  BY LeaderRests DEF ReadManifest, cycleOnly, IngestInv, leaderVars, stageVars, StageTypes
<1> QED BY <1>3, <1>4, <1>5, CycleMoves DEF IngestInv, ProcTypes

\* A grant that has documents was approved: ApprovedFirst is what makes the shortcut of
\* ReadDocs, which asks for the approval of a grant without documents only, sound.
LEMMA ReadDocsStep == ASSUME IngestInv, NEW p \in Procs, ReadDocs(p) PROVE IngestInv'
<1> DEFINE snap == {d \in docs : d.grant = cycle[p].grant}
           ask == [cycle[p] EXCEPT !.pc = "approve"]
<1>1. cycle[p] \in Cycles /\ cycle[p].grant \in Grants
  BY DEF ReadDocs, IngestInv, ProcTypes, WorkOK, CycleOK
<1>2. snap \in SUBSET Docs
  BY DEF IngestInv, DocTypes
<1>3. LeaderTypeOK' /\ StageTypes' /\ UNCHANGED <<dbVars, failures, edits, bg>>
  BY LeaderRests DEF ReadDocs, cycleOnly, IngestInv, leaderVars, stageVars, StageTypes
<1>4. CASE snap = {}
  <2>1. cycle' = [cycle EXCEPT ![p] = ask]
    BY <1>4 DEF ReadDocs
  <2>2. ask \in Cycles /\ ask.pc = "approve" /\ ask.grant = cycle[p].grant
    BY <1>1 DEF Cycles
  <2>3. CycleOK(ask, failures[p], approved)
    BY <1>1, <2>2 DEF CycleOK
  <2> HIDE DEF ask
  <2> QED BY <1>3, <2>1, <2>2, <2>3, CycleMoves DEF IngestInv, ProcTypes
<1>5. CASE snap # {}
  <2>1. cycle[p].grant \in approved
    BY <1>5 DEF IngestInv, ApprovedFirst
  <2>2. cycle' = [cycle EXCEPT ![p] = Planned(p, snap)]
    BY <1>5 DEF ReadDocs
  <2> HIDE DEF snap
  <2>3. CycleOK(Planned(p, snap), failures[p], approved)
    BY <1>1, <1>2, <2>1, PlannedType DEF CycleOK
  <2>4. Planned(p, snap) \in Cycles
    BY <1>1, <1>2, PlannedType
  <2> QED BY <1>3, <2>2, <2>3, <2>4, CycleMoves DEF IngestInv, ProcTypes
<1> QED BY <1>4, <1>5

LEMMA CheckApprovalStep == ASSUME IngestInv, NEW p \in Procs, CheckApproval(p) PROVE IngestInv'
<1> DEFINE g == cycle[p].grant
<1>1. cycle[p] \in Cycles /\ g \in Grants
  BY DEF CheckApproval, IngestInv, ProcTypes, WorkOK, CycleOK
<1>2. LeaderTypeOK' /\ StageTypes' /\ UNCHANGED <<docs, nextId, dropped, failures, edits, bg>>
  BY LeaderRests DEF CheckApproval, IngestInv, leaderVars, stageVars, StageTypes
<1>3. CASE g \in approved \/ AutoApprove
  <2>1. approved' = approved \cup {g} /\ cycle' = [cycle EXCEPT ![p] = Planned(p, {})]
    BY <1>3 DEF CheckApproval
  <2>2. CycleOK(Planned(p, {}), failures[p], approved') /\ Planned(p, {}) \in Cycles
    BY <1>1, <2>1, PlannedType DEF CycleOK
  <2>3. ProcTypes'
    BY <1>2, <2>1, <2>2 DEF IngestInv, ProcTypes
  <2>4. ASSUME NEW q \in Procs, q # p PROVE CycleOK(cycle'[q], failures'[q], approved')
    <3>1. cycle'[q] = cycle[q] /\ failures'[q] = failures[q]
      BY <1>2, <2>1, <2>4 DEF IngestInv, ProcTypes
    <3> QED BY <2>1, <3>1 DEF IngestInv, WorkOK, CycleOK
  <2>5. CycleOK(cycle'[p], failures'[p], approved')
    BY <1>2, <2>1, <2>2 DEF IngestInv, ProcTypes
  <2>6. WorkOK'
    BY <2>4, <2>5 DEF WorkOK
  <2>7. DocTypes' /\ ApprovedFirst'
    BY <1>1, <1>2, <2>1 DEF IngestInv, DocTypes, ApprovedFirst
  <2> QED BY <1>2, <2>3, <2>6, <2>7 DEF IngestInv
<1>4. CASE ~(g \in approved \/ AutoApprove)
  <2>1. UNCHANGED approved /\ cycle' = [cycle EXCEPT ![p] = NextGrant(p)]
    BY <1>4 DEF CheckApproval
  <2>2. NextGrant(p) \in Cycles /\ CycleOK(NextGrant(p), failures[p], approved)
    BY NextGrantType DEF IngestInv, CycleOK
  <2> QED BY <1>2, <2>1, <2>2, CycleMoves DEF IngestInv, ProcTypes, dbVars
<1> QED BY <1>3, <1>4

\* The cycle takes one thing off its lists.
LEMMA DeleteDocStep == ASSUME IngestInv, NEW p \in Procs, DeleteDoc(p) PROVE IngestInv'
<1>1. PICK d \in cycle[p].del :
         cycle' = [cycle EXCEPT ![p].del = @ \ {d}] /\ docs' \in {docs, docs \ {d}}
  BY DEF DeleteDoc
<1>2. LeaderTypeOK'
  BY LeaderRests DEF DeleteDoc, IngestInv
<1>3. StageTypes' /\ UNCHANGED <<approved, nextId, dropped, failures, edits, bg>>
  BY DEF DeleteDoc, IngestInv, stageVars, StageTypes
<1>4. ProcTypes'
  <2>1. cycle[p] \in Cycles
    BY DEF IngestInv, ProcTypes
  <2>2. [cycle[p] EXCEPT !.del = @ \ {d}] \in Cycles
    BY <2>1 DEF Cycles
  <2>3. cycle' \in [Procs -> Cycles]
    BY <1>1, <2>2 DEF IngestInv, ProcTypes
  <2> QED BY <1>3, <2>3 DEF IngestInv, ProcTypes
<1>5. WorkOK'
  <2> SUFFICES ASSUME NEW q \in Procs PROVE CycleOK(cycle'[q], failures'[q], approved')
    BY DEF WorkOK
  <2>1. /\ cycle'[q].pc = cycle[q].pc /\ cycle'[q].grant = cycle[q].grant
        /\ cycle'[q].todo = cycle[q].todo /\ cycle'[q].man = cycle[q].man /\ cycle'[q].cur = cycle[q].cur
    BY <1>1 DEF IngestInv, ProcTypes, Cycles
  <2> QED BY <1>3, <2>1 DEF IngestInv, WorkOK, CycleOK
<1>6. DocTypes' /\ ApprovedFirst'
  BY <1>1, <1>3 DEF IngestInv, DocTypes, ApprovedFirst
<1> QED BY <1>2, <1>3, <1>4, <1>5, <1>6 DEF IngestInv

LEMMA SkipFileStep ==
  ASSUME IngestInv, NEW p \in Procs, NEW f \in Paths, SkipFile(p, f)
  PROVE  IngestInv'
<1> DEFINE c == [cycle[p] EXCEPT !.todo = @ \ {f}]
<1>1. cycle[p] \in Cycles
  BY DEF IngestInv, ProcTypes
<1>2. /\ c \in Cycles /\ c.pc = cycle[p].pc /\ c.grant = cycle[p].grant /\ c.man = cycle[p].man
      /\ c.cur = cycle[p].cur /\ c.todo \subseteq cycle[p].todo
  BY <1>1 DEF Cycles
<1>3. cycle' = [cycle EXCEPT ![p] = c]
  BY DEF SkipFile
<1> HIDE DEF c
<1>4. CycleOK(c, failures[p], approved)
  BY <1>2 DEF IngestInv, WorkOK, CycleOK
<1>5. LeaderTypeOK' /\ StageTypes' /\ UNCHANGED <<dbVars, failures, edits, bg>>
  BY LeaderRests DEF SkipFile, cycleOnly, IngestInv, leaderVars, stageVars, StageTypes
<1> QED BY <1>2, <1>3, <1>4, <1>5, CycleMoves DEF IngestInv, ProcTypes

\* The key under which a file of the manifest is counted.
LEMMA KeyType ==
  ASSUME IngestInv, NEW p \in Procs, cycle[p].pc \in {"work", "embed"},
         NEW f \in In(cycle[p].man.files)
  PROVE  Key(p, f) \in Keys /\ cycle[p].man.files[f] \in Hashes /\ f \in Paths
<1>1. cycle[p].man \in Manifests /\ cycle[p].grant \in Grants
  BY DEF IngestInv, ProcTypes, Cycles, WorkOK, CycleOK
<1>2. cycle[p].man.files \in Files
  BY <1>1 DEF Manifests
<1>3. cycle[p].man.files[f] \in Hashes /\ f \in Paths
  BY <1>2 DEF In, Files
<1> QED BY <1>1, <1>3 DEF Key, Keys

LEMMA FailedType ==
  ASSUME IngestInv, NEW p \in Procs, NEW f, Key(p, f) \in Keys, failures[p][Key(p, f)] < MAX_FAILURES
  PROVE  Failed(p, f) \in [Procs -> [Keys -> 0..MAX_FAILURES]]
<1> DEFINE k == Key(p, f)
<1>1. failures[p] \in [Keys -> 0..MAX_FAILURES] /\ failures[p][k] + 1 \in 0..MAX_FAILURES
  BY FolderAssumption DEF IngestInv, ProcTypes
<1>2. [failures[p] EXCEPT ![k] = failures[p][k] + 1] \in [Keys -> 0..MAX_FAILURES]
  BY <1>1
<1>3. Failed(p, f) = [failures EXCEPT ![p] = [failures[p] EXCEPT ![k] = failures[p][k] + 1]]
  BY DEF Failed, IngestInv, ProcTypes
<1> QED BY <1>2, <1>3 DEF IngestInv, ProcTypes

\* A step of p's cycle that also counts.
LEMMA CycleCounts ==
  ASSUME IngestInv, NEW p \in Procs, NEW c \in Cycles, cycle' = [cycle EXCEPT ![p] = c],
         CycleOK(c, failures'[p], approved),
         failures' \in [Procs -> [Keys -> 0..MAX_FAILURES]],
         \A q \in Procs : q # p => failures'[q] = failures[q],
         UNCHANGED <<approved, bg>>
  PROVE  ProcTypes' /\ WorkOK'
<1>1. ProcTypes'
  BY DEF IngestInv, ProcTypes
<1>2. ASSUME NEW q \in Procs PROVE CycleOK(cycle'[q], failures'[q], approved')
  <2>1. CASE q = p
    BY <2>1 DEF IngestInv, ProcTypes
  <2>2. CASE q # p
    <3>1. cycle'[q] = cycle[q] /\ failures'[q] = failures[q]
      BY <2>2 DEF IngestInv, ProcTypes
    <3> QED BY <3>1 DEF IngestInv, WorkOK
  <2> QED BY <2>1, <2>2
<1>3. WorkOK'
  BY <1>2 DEF WorkOK
<1> QED BY <1>1, <1>3

LEMMA ReadStagedStep ==
  ASSUME IngestInv, NEW p \in Procs, NEW f \in Paths, ReadStaged(p, f)
  PROVE  IngestInv'
<1> DEFINE match == staged[cycle[p].grant][f] = cycle[p].man.files[f]
           read == [cycle[p] EXCEPT !.left = @ - 1, !.todo = @ \ {f}, !.pc = "embed", !.cur = f]
           bad == [cycle[p] EXCEPT !.left = @ - 1, !.todo = @ \ {f}, !.pc = "work", !.cur = None]
<1>1. /\ cycle[p] \in Cycles /\ cycle[p].pc = "work" /\ cycle[p].left - 1 \in 0..MaxFiles
      /\ f \in cycle[p].todo /\ failures[p][Key(p, f)] < MAX_FAILURES
  <2>1. cycle[p] \in Cycles /\ cycle[p].left \in 0..MaxFiles
    BY DEF IngestInv, ProcTypes, Cycles
  <2> QED BY <2>1, FolderAssumption DEF ReadStaged
<1>2. f \in In(cycle[p].man.files) /\ cycle[p].grant \in approved /\ cycle[p].grant \in Grants
  BY <1>1 DEF IngestInv, WorkOK, CycleOK
<1>3. Key(p, f) \in Keys
  BY <1>1, <1>2, KeyType
<1>4. /\ LeaderTypeOK' /\ StageTypes' /\ DocTypes' /\ ApprovedFirst' /\ (edits \in 0..MaxEdits)'
      /\ UNCHANGED <<approved, bg>>
  BY LeaderRests DEF ReadStaged, IngestInv, leaderVars, stageVars, dbVars, StageTypes, DocTypes, ApprovedFirst
<1>5. CASE match
  <2>1. cycle' = [cycle EXCEPT ![p] = read] /\ failures' = failures
    BY <1>5 DEF ReadStaged
  <2>2. /\ read \in Cycles /\ read.pc = "embed" /\ read.cur = f /\ read.grant = cycle[p].grant
        /\ read.man = cycle[p].man /\ read.todo \subseteq cycle[p].todo
    BY <1>1 DEF Cycles
  <2> HIDE DEF read
  <2>3. cycle[p].todo \subseteq In(cycle[p].man.files)
    BY <1>1 DEF IngestInv, WorkOK, CycleOK
  <2>4. CycleOK(read, failures'[p], approved)
    BY <1>1, <1>2, <2>1, <2>2, <2>3 DEF CycleOK, Key
  <2>5. ProcTypes' /\ WorkOK'
    BY <1>4, <2>1, <2>2, <2>4, CycleCounts DEF IngestInv, ProcTypes
  <2> QED BY <1>4, <2>5 DEF IngestInv
<1>6. CASE ~match
  <2>1. cycle' = [cycle EXCEPT ![p] = bad] /\ failures' = Failed(p, f)
    BY <1>6 DEF ReadStaged
  <2>2. /\ bad \in Cycles /\ bad.pc = "work" /\ bad.grant = cycle[p].grant
        /\ bad.man = cycle[p].man /\ bad.todo \subseteq cycle[p].todo
    BY <1>1 DEF Cycles
  <2> HIDE DEF bad
  <2>3. cycle[p].todo \subseteq In(cycle[p].man.files)
    BY <1>1 DEF IngestInv, WorkOK, CycleOK
  <2>4. CycleOK(bad, failures'[p], approved)
    BY <1>2, <2>2, <2>3 DEF CycleOK
  <2>5. \A q \in Procs : q # p => failures'[q] = failures[q]
    BY <2>1 DEF Failed, IngestInv, ProcTypes
  <2>6. failures' \in [Procs -> [Keys -> 0..MAX_FAILURES]]
    BY <1>1, <1>3, <2>1, FailedType
  <2>7. ProcTypes' /\ WorkOK'
    BY <1>4, <2>1, <2>2, <2>4, <2>5, <2>6, CycleCounts
  <2> QED BY <1>4, <2>7 DEF IngestInv
<1> QED BY <1>5, <1>6

LEMMA IngestStep == ASSUME IngestInv, NEW p \in Procs, Ingest(p) PROVE IngestInv'
<1> DEFINE f == cycle[p].cur
           g == cycle[p].grant
           doc == [id |-> nextId, grant |-> g, path |-> f, hash |-> cycle[p].man.files[f]]
           c == [cycle[p] EXCEPT !.pc = "work", !.cur = None, !.del = DocsOf(cycle[p].snap, f)]
<1>1. /\ cycle[p] \in Cycles /\ cycle[p].pc = "embed" /\ f \in In(cycle[p].man.files)
      /\ g \in approved /\ g \in Grants /\ cycle[p].todo \subseteq In(cycle[p].man.files)
  BY DEF Ingest, IngestInv, ProcTypes, WorkOK, CycleOK
<1>2. Key(p, f) \in Keys /\ cycle[p].man.files[f] \in Hashes /\ f \in Paths
  BY <1>1, KeyType
<1>3. LeaderTypeOK' /\ StageTypes' /\ (edits \in 0..MaxEdits)' /\ UNCHANGED <<approved, dropped, bg>>
  BY LeaderRests DEF Ingest, IngestInv, leaderVars, stageVars, StageTypes
<1>4. /\ docs' = docs \cup {doc} /\ nextId' = nextId + 1 /\ nextId <= MaxDocs
      /\ cycle' = [cycle EXCEPT ![p] = c]
      /\ failures' = [failures EXCEPT ![p][Key(p, f)] = 0]
  BY DEF Ingest
<1>5. ProcTypes' /\ WorkOK'
  <2>1. DocsOf(cycle[p].snap, f) \in SUBSET Docs
    BY <1>1 DEF Cycles, DocsOf
  <2>2. /\ c \in Cycles /\ c.pc = "work" /\ c.grant = g /\ c.man = cycle[p].man
        /\ c.todo = cycle[p].todo
    BY <1>1, <2>1 DEF Cycles
  <2> HIDE DEF c
  <2>3. CycleOK(c, failures'[p], approved)
    BY <1>1, <2>2 DEF CycleOK
  <2>4. failures' \in [Procs -> [Keys -> 0..MAX_FAILURES]]
    BY <1>2, <1>4, FolderAssumption DEF IngestInv, ProcTypes
  <2>5. \A q \in Procs : q # p => failures'[q] = failures[q]
    BY <1>4 DEF IngestInv, ProcTypes
  <2> QED BY <1>3, <1>4, <2>2, <2>3, <2>4, <2>5, CycleCounts
<1>6. DocTypes'
  <2>1. nextId \in Nat /\ nextId' \in 1..MaxDocs + 1 /\ nextId < nextId'
    BY <1>4, FolderAssumption DEF IngestInv, DocTypes
  <2>2. doc \in Docs /\ doc.id = nextId
    BY <1>1, <1>2, <2>1 DEF Docs
  <2> HIDE DEF doc
  <2>3. \A d \in docs : d.id \in Nat /\ d.id < nextId
    BY DEF IngestInv, DocTypes, Docs
  <2>4. \A d \in docs' : d.id < nextId'
    BY <1>4, <2>1, <2>2, <2>3
  <2>5. \A d, e \in docs' : d.id = e.id => d = e
    BY <1>4, <2>1, <2>2, <2>3 DEF IngestInv, DocTypes
  <2> QED BY <1>3, <1>4, <2>1, <2>2, <2>4, <2>5 DEF IngestInv, DocTypes
<1>7. ApprovedFirst'
  BY <1>1, <1>3, <1>4 DEF IngestInv, ApprovedFirst
<1> QED BY <1>3, <1>5, <1>6, <1>7 DEF IngestInv

LEMMA IngestFailsStep == ASSUME IngestInv, NEW p \in Procs, IngestFails(p) PROVE IngestInv'
<1> DEFINE f == cycle[p].cur
           c == [cycle[p] EXCEPT !.pc = "work", !.cur = None]
<1>1. /\ cycle[p] \in Cycles /\ cycle[p].pc = "embed" /\ f \in In(cycle[p].man.files)
      /\ cycle[p].grant \in approved /\ cycle[p].grant \in Grants
      /\ cycle[p].todo \subseteq In(cycle[p].man.files)
      /\ failures[p][Key(p, f)] < MAX_FAILURES
  BY DEF IngestFails, IngestInv, ProcTypes, WorkOK, CycleOK, Key
<1>2. Key(p, f) \in Keys
  BY <1>1, KeyType
<1>3. /\ LeaderTypeOK' /\ StageTypes' /\ DocTypes' /\ ApprovedFirst' /\ (edits \in 0..MaxEdits)'
      /\ UNCHANGED <<approved, bg>>
  BY LeaderRests DEF IngestFails, IngestInv, stageVars, dbVars, StageTypes, DocTypes, ApprovedFirst
<1>4. cycle' = [cycle EXCEPT ![p] = c] /\ failures' = Failed(p, f)
  BY DEF IngestFails, IngestInv, ProcTypes
<1>5. c \in Cycles /\ c.pc = "work" /\ c.grant = cycle[p].grant /\ c.man = cycle[p].man /\ c.todo = cycle[p].todo
  BY <1>1 DEF Cycles
<1> HIDE DEF c
<1>6. CycleOK(c, failures'[p], approved)
  BY <1>1, <1>5 DEF CycleOK
<1>7. \A q \in Procs : q # p => failures'[q] = failures[q]
  BY <1>4 DEF Failed, IngestInv, ProcTypes
<1>8. ProcTypes' /\ WorkOK'
  BY <1>1, <1>2, <1>3, <1>4, <1>5, <1>6, <1>7, FailedType, CycleCounts
<1> QED BY <1>3, <1>8 DEF IngestInv

-----------------------------------------------------------------------------

\* Every step of the owner, the runner, the processes and their cycles keeps the invariant.
LEMMA NextHolds == IngestInv /\ [Next]_vars => IngestInv'
<1> SUFFICES ASSUME IngestInv, [Next]_vars PROVE IngestInv'
  OBVIOUS
<1>1. ASSUME NEW p \in Procs, CycleStep(p) PROVE IngestInv'
  BY <1>1, QuietSteps, ReadManifestStep, ReadDocsStep, CheckApprovalStep, DeleteDocStep, IngestStep,
     SkipFileStep, ReadStagedStep DEF CycleStep
<1>2. ASSUME NEW p \in Procs,
             StartJob(p) \/ NotLeader(p) \/ BackgroundCycle(p) \/ QueryFails(p) \/ IngestFails(p)
             \/ ServerStops(p) \/ ServerCrashes(p) \/ ServerStarts(p) \/ ConnectionLost(p)
      PROVE  IngestInv'
  BY <1>2, QuietSteps, BackgroundStep, IngestFailsStep, ServerSteps
<1>3. CASE UNCHANGED vars
  BY <1>3, CyclesRest, LeaderRests
     DEF vars, leaderVars, folderVars, stageVars, procVars, IngestInv, StageTypes, ProcTypes
<1> QED BY <1>1, <1>2, <1>3, RunnerSteps, OwnerSteps, LockSteps DEF Next, RunnerStep

\* Folder ingestion is well typed: no cycle exceeds MaxFiles, no file is tried more than
\* MAX_FAILURES times by a process, and document ids are unique.
THEOREM TypeCorrect == Spec => []TypeOK
<1>1. IngestInv => TypeOK
  BY DEF IngestInv, TypeOK, StageTypes, DocTypes, ProcTypes
<1> QED BY <1>1, InitHolds, NextHolds, PTL DEF Spec

\* No document is ever made from a folder that the owner has not approved, whatever processes
\* lead, run cycles, crash or time out, and whatever a cycle read before another one changed it.
THEOREM NothingUnapproved == Spec => []ApprovedFirst
<1>1. IngestInv => ApprovedFirst
  BY DEF IngestInv
<1> QED BY <1>1, InitHolds, NextHolds, PTL DEF Spec

-----------------------------------------------------------------------------
(* One server process (the image starts one): its cycles follow one after *)
(* another, so that what a cycle read of the documents stays true of them, *)
(* but for what the owner deletes.                                         *)

Alone == \A p, q \in Procs : p = q

DocOf(d, g, f) == d.grant = g /\ d.path = f

\* The files a cycle may still ingest.
Coming(c) == c.todo \cup (IF c.pc = "embed" THEN {c.cur} ELSE {})

\* A document the cycle may delete: its file is gone for certain, or the owner has deleted one of that
\* file, or another document of the file stays.
Spare(d, c, ds, gone) ==
  \/ DeleteRemoved /\ c.man.complete /\ d.path \notin In(c.man.files) /\ In(c.man.files) # {}
  \/ <<c.grant, d.path>> \in gone
  \/ \E e \in ds : DocOf(e, c.grant, d.path) /\ e \notin c.del

\* What a cycle with this plan knows of the documents.
PlanOK(c, ds, next, gone) ==
  /\ c.pc = "approve" => \A d \in ds : d.grant # c.grant
  /\ c.pc \in {"work", "embed"} =>
       /\ \A d \in c.snap : d.grant = c.grant /\ d.id < next
       /\ c.del \subseteq c.snap
       /\ \A f \in Coming(c), d \in ds : DocOf(d, c.grant, f) => d.hash # c.man.files[f]
       /\ \A d \in c.del : Spare(d, c, ds, gone)
       /\ c.pc = "embed" => c.cur \notin c.todo
PlansHold == \A p \in Procs : PlanOK(cycle[p], docs, nextId, dropped)

SyncInv == IngestInv /\ PlansHold /\ IngestedOnce

\* A cycle without a plan knows nothing.
LEMMA NoPlan ==
  ASSUME NEW c, c.pc \notin {"approve", "work", "embed"}, NEW ds, NEW next, NEW gone
  PROVE  PlanOK(c, ds, next, gone)
BY DEF PlanOK

\* Documents that the owner deletes.
LEMMA PlanKept ==
  ASSUME NEW c, NEW ds, NEW fewer \in SUBSET ds, NEW next, NEW gone, NEW more, PlanOK(c, ds, next, gone),
         gone \subseteq more, \A d \in ds \ fewer : <<d.grant, d.path>> \in more
  PROVE  PlanOK(c, fewer, next, more)
<1>1. ASSUME NEW d, Spare(d, c, ds, gone) PROVE Spare(d, c, fewer, more)
  <2>1. CASE \E e \in ds : DocOf(e, c.grant, d.path) /\ e \notin c.del
    <3>1. PICK e \in ds : DocOf(e, c.grant, d.path) /\ e \notin c.del
      BY <2>1
    <3>2. e \notin fewer => <<c.grant, d.path>> \in more
      BY <3>1 DEF DocOf
    <3> QED BY <3>1, <3>2 DEF Spare
  <2> QED BY <1>1, <2>1 DEF Spare
<1> QED BY <1>1 DEF PlanOK

\* A step that leaves the plans alone.
LEMMA PlansRest ==
  ASSUME SyncInv, UNCHANGED <<cycle, nextId>>, docs' \subseteq docs, dropped \subseteq dropped',
         \A d \in docs \ docs' : <<d.grant, d.path>> \in dropped'
  PROVE  PlansHold' /\ IngestedOnce'
<1>1. IngestedOnce'
  BY DEF SyncInv, IngestedOnce
<1>2. PlansHold'
  <2> SUFFICES ASSUME NEW p \in Procs PROVE PlanOK(cycle[p], docs', nextId, dropped')
    BY DEF PlansHold
  <2>1. PlanOK(cycle[p], docs, nextId, dropped)
    BY DEF SyncInv, PlansHold
  <2> QED BY <2>1, PlanKept
<1> QED BY <1>1, <1>2

\* A step of the one process.
LEMMA PlanMoves ==
  ASSUME Alone, SyncInv, NEW p \in Procs, NEW c, cycle' = [cycle EXCEPT ![p] = c],
         PlanOK(c, docs', nextId', dropped')
  PROVE  PlansHold'
<1>1. cycle'[p] = c
  BY DEF SyncInv, IngestInv, ProcTypes
<1>2. \A q \in Procs : q = p
  BY DEF Alone
<1> QED BY <1>1, <1>2 DEF PlansHold

LEMMA QuietPlans ==
  ASSUME Alone, SyncInv, NEW p \in Procs, NEW c, cycle' = [cycle EXCEPT ![p] = c], UNCHANGED docs,
         c.pc \notin {"approve", "work", "embed"}
  PROVE  PlansHold' /\ IngestedOnce'
<1>1. PlanOK(c, docs', nextId', dropped')
  BY NoPlan
<1> QED BY <1>1, PlanMoves DEF SyncInv, IngestedOnce

\* make_plan: what is ingested has no document of its content, and what is deleted is not missed.
LEMMA PlannedHolds ==
  ASSUME SyncInv, NEW p \in Procs, cycle[p].pc \in {"read", "approve"}, NEW snap,
         snap = {d \in docs : d.grant = cycle[p].grant}
  PROVE  PlanOK(Planned(p, snap), docs, nextId, dropped)
<1> DEFINE c == Planned(p, snap)
           man == cycle[p].man
           g == cycle[p].grant
<1>1. snap \in SUBSET Docs /\ g \in Grants /\ \A d \in docs : d.id < nextId
  BY DEF SyncInv, IngestInv, DocTypes, WorkOK, CycleOK
<1>2. /\ c.pc = "work" /\ c.grant = g /\ c.man = man /\ c.snap = snap
      /\ c.todo = ToIngest(man, snap)
      /\ c.del = Stale(man, snap) \cup (IF DeleteRemoved THEN Removed(man, snap) ELSE {})
  BY <1>1, PlannedType DEF SyncInv
<1> HIDE DEF c, man, g
<1>3. \A d \in c.snap : d.grant = c.grant /\ d.id < nextId
  BY <1>1, <1>2 DEF g
<1>4. c.del \subseteq c.snap
  BY <1>2 DEF Stale, Removed
<1>5. ASSUME NEW f \in Coming(c), NEW d \in docs, DocOf(d, c.grant, f) PROVE d.hash # c.man.files[f]
  <2>1. f \in ToIngest(man, snap)
    BY <1>2, <1>5 DEF Coming
  <2>2. d \in snap /\ d.path = f
    BY <1>2, <1>5 DEF DocOf, g
  <2> QED BY <2>1, <2>2, <1>2 DEF ToIngest, Wanted, DocsOf
<1>6. ASSUME NEW d \in c.del PROVE Spare(d, c, docs, dropped)
  <2>1. CASE d \in Stale(man, snap)
    <3>1. PICK e \in snap : e.path = d.path /\ e.hash = man.files[d.path]
      BY <2>1 DEF Stale, Wanted, DocsOf
    <3>2. e \notin Stale(man, snap) /\ e \notin Removed(man, snap)
      BY <2>1, <3>1 DEF Stale, Removed
    <3>3. e \in docs /\ DocOf(e, c.grant, d.path) /\ e \notin c.del
      BY <3>1, <3>2, <1>2 DEF DocOf, g
    <3> QED BY <3>3 DEF Spare
  <2>2. CASE DeleteRemoved /\ d \in Removed(man, snap)
    BY <2>2, <1>2 DEF Spare, Removed
  <2> QED BY <2>1, <2>2, <1>2, <1>6
<1> QED BY <1>2, <1>3, <1>4, <1>5, <1>6 DEF PlanOK, c

\* Steps that change no plan: the runner's, the owner's, the servers', and those of a cycle between grants.
LEMMA OutsidePlans ==
  ASSUME Alone, SyncInv,
         \/ RunnerStep \/ LockDropped
         \/ \E g \in Grants : StageKilled(g) \/ PruneGrant(g) \/ ManifestAges(g)
         \/ \E g \in Grants, f \in Paths, h \in Hashes \cup {None} : EditSource(g, f, h)
         \/ \E d \in docs : DeleteDocument(d)
         \/ \E p \in Procs : NotLeader(p) \/ ServerStops(p) \/ ServerStarts(p) \/ ConnectionLost(p)
         \/ \E p \in Procs, g \in Grants : ApproveGrant(p, g)
         \/ UNCHANGED vars
  PROVE  PlansHold' /\ IngestedOnce'
<1>1. CASE \E d \in docs : DeleteDocument(d)
  <2>1. PICK d \in docs : DeleteDocument(d)
    BY <1>1
  <2>2. /\ docs' = docs \ {d} /\ dropped' = dropped \cup {<<d.grant, d.path>>}
        /\ UNCHANGED <<cycle, nextId>>
    BY <2>1 DEF DeleteDocument, procVars
  <2> QED BY <2>2, PlansRest
<1>2. UNCHANGED <<cycle, docs, nextId, dropped>> => PlansHold' /\ IngestedOnce'
  BY PlansRest
<1>3. CASE RunnerStep \/ \E g \in Grants : StageKilled(g) \/ PruneGrant(g) \/ ManifestAges(g)
  <2>1. ASSUME NEW g \in Grants, StageFiles(g) \/ StageManifest(g)
        PROVE  UNCHANGED <<dbVars, procVars>>
    BY <2>1, ZenonT(30) DEF StageFiles, StageManifest
  <2>2. ASSUME NEW g \in Grants, StageKilled(g) \/ PruneGrant(g) \/ ManifestAges(g)
        PROVE  UNCHANGED <<dbVars, procVars>>
    BY <2>2 DEF StageKilled, PruneGrant, ManifestAges
  <2> QED BY <1>2, <1>3, <2>1, <2>2 DEF RunnerStep, dbVars, procVars
<1>4. CASE \E g \in Grants, f \in Paths, h \in Hashes \cup {None} : EditSource(g, f, h)
  <2>1. UNCHANGED <<dbVars, procVars>>
    BY <1>4 DEF EditSource
  <2> QED BY <1>2, <2>1 DEF dbVars, procVars
<1>5. CASE \E p \in Procs, g \in Grants : ApproveGrant(p, g)
  BY <1>2, <1>5 DEF ApproveGrant
<1>6. CASE LockDropped \/ \E p \in Procs : NotLeader(p) \/ ServerStops(p) \/ ConnectionLost(p)
  <2>1. UNCHANGED folderVars
    BY <1>6 DEF LockDropped, NotLeader, ServerStops, ConnectionLost
  <2> QED BY <1>2, <2>1 DEF folderVars, dbVars, procVars
<1>7. CASE \E p \in Procs : ServerStarts(p)
  <2>1. UNCHANGED <<dbVars, cycle>>
    BY <1>7 DEF ServerStarts
  <2> QED BY <1>2, <2>1 DEF dbVars
<1>8. CASE UNCHANGED vars
  BY <1>2, <1>8 DEF vars, folderVars, dbVars, procVars
<1> QED BY <1>1, <1>3, <1>4, <1>5, <1>6, <1>7, <1>8

LEMMA BetweenPlans ==
  ASSUME Alone, SyncInv, NEW p \in Procs,
         \/ StartJob(p) \/ RequestStage(p) \/ StageAnswered(p) \/ EndCycle(p) \/ QueryFails(p)
         \/ EndGrant(p) \/ BackgroundCycle(p) \/ ServerCrashes(p)
         \/ \E g \in Grants : ReadManifest(p, g)
  PROVE  PlansHold' /\ IngestedOnce'
<1>1. /\ cycle \in [Procs -> Cycles] /\ cycle[p] \in Cycles
      /\ NextGrant(p).pc = "grants" /\ NextGrant(p) \in Cycles /\ Listed.pc = "grants" /\ Idle.pc = "idle"
  BY NextGrantType, ListedType DEF SyncInv, IngestInv, ProcTypes, Idle
<1>2. UNCHANGED <<docs, nextId, dropped>>
  <2>1. CASE StartJob(p) \/ RequestStage(p) \/ StageAnswered(p) \/ QueryFails(p) \/ BackgroundCycle(p)
             \/ ServerCrashes(p)
    BY <2>1 DEF StartJob, RequestStage, StageAnswered, QueryFails, BackgroundCycle, ServerCrashes, dbVars
  <2>2. CASE EndCycle(p) \/ EndGrant(p) \/ \E g \in Grants : ReadManifest(p, g)
    <3>1. CASE EndCycle(p) \/ EndGrant(p)
      BY <3>1 DEF EndCycle, EndGrant, cycleOnly, dbVars
    <3>2. CASE \E g \in Grants : ReadManifest(p, g)
      <4>1. PICK g \in Grants : ReadManifest(p, g)
        BY <3>2
      <4>2. UNCHANGED cycleOnly
        BY <4>1, ZenonT(30) DEF ReadManifest
      <4> QED BY <4>2 DEF cycleOnly, dbVars
    <3> QED BY <2>2, <3>1, <3>2
  <2> QED BY <2>1, <2>2
<1>3. CASE StartJob(p)
  <2>1. [cycle[p] EXCEPT !.pc = "stage"].pc = "stage"
    BY <1>1 DEF Cycles
  <2> QED BY <1>2, <1>3, <2>1, QuietPlans DEF StartJob
<1>4. CASE RequestStage(p)
  <2>1. [cycle[p] EXCEPT !.pc = "staging"].pc = "staging"
    BY <1>1 DEF Cycles
  <2>2. \/ cycle' = [cycle EXCEPT ![p] = [cycle[p] EXCEPT !.pc = "staging"]]
        \/ cycle' = [cycle EXCEPT ![p] = Listed]
    BY <1>4 DEF RequestStage
  <2> QED BY <1>1, <1>2, <2>1, <2>2, QuietPlans
<1>5. CASE StageAnswered(p)
  BY <1>1, <1>2, <1>5, QuietPlans DEF StageAnswered
<1>6. CASE EndCycle(p) \/ ServerCrashes(p)
  BY <1>1, <1>2, <1>6, QuietPlans DEF EndCycle, ServerCrashes
<1>7. CASE QueryFails(p) \/ EndGrant(p)
  BY <1>1, <1>2, <1>7, QuietPlans DEF QueryFails, EndGrant
<1>8. CASE BackgroundCycle(p)
  <2>1. cycle' = [cycle EXCEPT ![p] = Listed] \/ cycle' = cycle
    BY <1>8 DEF BackgroundCycle
  <2> QED BY <1>1, <1>2, <2>1, QuietPlans, PlansRest
<1>9. CASE \E g \in Grants : ReadManifest(p, g)
  <2>1. PICK g \in Grants : ReadManifest(p, g)
    BY <1>9
  <2> DEFINE rest == [NextGrant(p) EXCEPT !.grants = @ \ {g}]
             taken == [rest EXCEPT !.pc = "read", !.grant = g, !.man = manifest[g]]
  <2>2. rest.pc = "grants" /\ rest \in Cycles
    BY <1>1 DEF Cycles
  <2>3. cycle' = [cycle EXCEPT ![p] = rest] \/ cycle' = [cycle EXCEPT ![p] = taken]
    <3>1. cycle' = [cycle EXCEPT ![p] =
            IF manifest[g] = None THEN rest ELSE IF ~manifest[g].fresh THEN rest ELSE taken]
      BY <2>1, Zenon DEF ReadManifest
    <3> HIDE DEF rest, taken
    <3> QED BY <3>1
  <2> HIDE DEF rest
  <2>4. taken.pc = "read"
    BY <2>2 DEF Cycles
  <2> HIDE DEF taken
  <2> QED BY <1>2, <2>2, <2>3, <2>4, QuietPlans
<1> QED BY <1>3, <1>4, <1>5, <1>6, <1>7, <1>8, <1>9

\* The steps that make a plan.
LEMMA PlansMade ==
  ASSUME Alone, SyncInv, NEW p \in Procs, ReadDocs(p) \/ CheckApproval(p)
  PROVE  PlansHold' /\ IngestedOnce'
<1> DEFINE snap == {d \in docs : d.grant = cycle[p].grant}
           ask == [cycle[p] EXCEPT !.pc = "approve"]
<1>1. cycle[p] \in Cycles /\ NextGrant(p).pc = "grants" /\ UNCHANGED <<docs, nextId, dropped>>
  <2>1. cycle[p] \in Cycles /\ NextGrant(p).pc = "grants"
    BY NextGrantType DEF SyncInv, IngestInv, ProcTypes
  <2>2. UNCHANGED <<docs, nextId, dropped>>
    BY DEF ReadDocs, CheckApproval, cycleOnly, dbVars
  <2> QED BY <2>1, <2>2
<1>2. IngestedOnce'
  BY <1>1 DEF SyncInv, IngestedOnce
<1>3. CASE ReadDocs(p) /\ snap = {}
  <2>1. cycle' = [cycle EXCEPT ![p] = ask]
    BY <1>3 DEF ReadDocs
  <2>2. ask.pc = "approve" /\ ask.grant = cycle[p].grant
    BY <1>1 DEF Cycles
  <2>3. \A d \in docs : d.grant # cycle[p].grant
    BY <1>3
  <2> HIDE DEF ask
  <2>4. PlanOK(ask, docs', nextId', dropped')
    BY <1>1, <2>2, <2>3 DEF PlanOK
  <2> QED BY <1>2, <2>1, <2>4, PlanMoves
<1>4. CASE ReadDocs(p) /\ snap # {}
  <2>1. cycle' = [cycle EXCEPT ![p] = Planned(p, snap)] /\ cycle[p].pc = "read"
    BY <1>4 DEF ReadDocs
  <2>2. PlanOK(Planned(p, snap), docs, nextId, dropped)
    BY <2>1, PlannedHolds
  <2> HIDE DEF snap
  <2> QED BY <1>1, <1>2, <2>1, <2>2, PlanMoves
<1>5. CASE CheckApproval(p)
  <2>1. /\ cycle' = [cycle EXCEPT ![p] = Planned(p, {})] \/ cycle' = [cycle EXCEPT ![p] = NextGrant(p)]
        /\ cycle[p].pc = "approve"
    BY <1>5 DEF CheckApproval
  <2>2. snap = {}
    BY <2>1 DEF SyncInv, PlansHold, PlanOK
  <2>3. PlanOK(Planned(p, {}), docs, nextId, dropped)
    BY <2>1, <2>2, PlannedHolds
  <2> HIDE DEF snap
  <2> QED BY <1>1, <1>2, <2>1, <2>3, PlanMoves, QuietPlans
<1> QED BY <1>3, <1>4, <1>5

\* A document is deleted, or its transaction fails.
LEMMA DeletePlans ==
  ASSUME Alone, SyncInv, NEW p \in Procs, DeleteDoc(p)
  PROVE  PlansHold' /\ IngestedOnce'
<1>1. PICK d \in cycle[p].del :
         cycle' = [cycle EXCEPT ![p].del = @ \ {d}] /\ docs' \in {docs, docs \ {d}}
  BY DEF DeleteDoc
<1> DEFINE c == cycle[p]
           less == [c EXCEPT !.del = c.del \ {d}]
<1>2. c \in Cycles /\ c.pc = "work" /\ UNCHANGED <<nextId, dropped>> /\ docs' \subseteq docs
  BY <1>1 DEF DeleteDoc, SyncInv, IngestInv, ProcTypes
<1>3. cycle' = [cycle EXCEPT ![p] = less]
  BY <1>1
<1>4. /\ less.pc = "work" /\ less.grant = c.grant /\ less.man = c.man /\ less.snap = c.snap
      /\ less.todo = c.todo /\ less.del = c.del \ {d}
  BY <1>2 DEF Cycles
<1> HIDE DEF less, c
<1>5. PlanOK(c, docs, nextId, dropped)
  BY DEF SyncInv, PlansHold, c
<1>6. ASSUME NEW e \in less.del PROVE Spare(e, less, docs', dropped)
  <2>1. Spare(e, c, docs, dropped)
    BY <1>2, <1>4, <1>5 DEF PlanOK
  <2>2. CASE \E w \in docs : DocOf(w, c.grant, e.path) /\ w \notin c.del
    <3>1. PICK w \in docs : DocOf(w, c.grant, e.path) /\ w \notin c.del
      BY <2>2
    <3>2. w \in docs' /\ w \notin less.del
      BY <1>1, <1>4, <3>1 DEF c
    <3> QED BY <1>4, <3>1, <3>2 DEF Spare
  <2> QED BY <1>4, <2>1, <2>2 DEF Spare
<1>7. Coming(less) = Coming(c)
  BY <1>2, <1>4 DEF Coming
<1>8. PlanOK(less, docs', nextId', dropped')
  BY <1>2, <1>4, <1>5, <1>6, <1>7 DEF PlanOK
<1>9. IngestedOnce'
  BY <1>2 DEF SyncInv, IngestedOnce
<1> QED BY <1>3, <1>8, <1>9, PlanMoves

\* A file leaves the plan, or is on its way.
LEMMA FilePlans ==
  ASSUME Alone, SyncInv, NEW p \in Procs,
         IngestFails(p) \/ \E f \in Paths : SkipFile(p, f) \/ ReadStaged(p, f)
  PROVE  PlansHold' /\ IngestedOnce'
<1> DEFINE c == cycle[p]
<1>1. c \in Cycles /\ UNCHANGED <<docs, nextId, dropped>>
  <2>1. c \in Cycles
    BY DEF SyncInv, IngestInv, ProcTypes
  <2>2. UNCHANGED <<docs, nextId, dropped>>
    <3>1. CASE IngestFails(p)
      BY <3>1 DEF IngestFails, dbVars
    <3>2. ASSUME NEW f \in Paths, SkipFile(p, f) PROVE UNCHANGED <<docs, nextId, dropped>>
      BY <3>2 DEF SkipFile, cycleOnly, dbVars
    <3>3. ASSUME NEW f \in Paths, ReadStaged(p, f) PROVE UNCHANGED <<docs, nextId, dropped>>
      <4>1. UNCHANGED dbVars
        BY <3>3, ZenonT(30) DEF ReadStaged
      <4> QED BY <4>1 DEF dbVars
    <3> QED BY <3>1, <3>2, <3>3
  <2> QED BY <2>1, <2>2
<1>2. PlanOK(c, docs, nextId, dropped)
  BY DEF SyncInv, PlansHold
<1>3. IngestedOnce'
  BY <1>1 DEF SyncInv, IngestedOnce
<1>4. CASE IngestFails(p)
  <2> DEFINE n == [c EXCEPT !.pc = "work", !.cur = None]
  <2>1. cycle' = [cycle EXCEPT ![p] = n] /\ c.pc = "embed"
    BY <1>4 DEF IngestFails, SyncInv, IngestInv, ProcTypes
  <2>2. /\ n.pc = "work" /\ n.grant = c.grant /\ n.man = c.man /\ n.snap = c.snap /\ n.del = c.del
        /\ n.todo = c.todo
    BY <1>1 DEF Cycles
  <2> HIDE DEF n, c
  <2>3. PlanOK(n, docs', nextId', dropped')
    BY <1>1, <1>2, <2>1, <2>2 DEF PlanOK, Coming, Spare
  <2> QED BY <1>3, <2>1, <2>3, PlanMoves
<1>5. ASSUME NEW f \in Paths, SkipFile(p, f) PROVE PlansHold'
  <2> DEFINE n == [c EXCEPT !.todo = c.todo \ {f}]
  <2>1. cycle' = [cycle EXCEPT ![p] = n] /\ c.pc = "work"
    BY <1>5 DEF SkipFile
  <2>2. /\ n.pc = "work" /\ n.grant = c.grant /\ n.man = c.man /\ n.snap = c.snap /\ n.del = c.del
        /\ n.todo = c.todo \ {f}
    BY <1>1, <2>1 DEF Cycles
  <2> HIDE DEF n, c
  <2>3. PlanOK(n, docs', nextId', dropped')
    BY <1>1, <1>2, <2>1, <2>2 DEF PlanOK, Coming, Spare
  <2> QED BY <2>1, <2>3, PlanMoves
<1>6. ASSUME NEW f \in Paths, ReadStaged(p, f) PROVE PlansHold'
  <2> DEFINE n == cycle'[p]
             read == [c EXCEPT !.left = @ - 1, !.todo = @ \ {f}, !.pc = "embed", !.cur = f]
             bad == [c EXCEPT !.left = @ - 1, !.todo = @ \ {f}, !.pc = "work", !.cur = None]
  <2>1. c.pc = "work" /\ c.del = {} /\ f \in c.todo
    BY <1>6, Zenon DEF ReadStaged
  <2>2. cycle' = [cycle EXCEPT ![p] = read] \/ cycle' = [cycle EXCEPT ![p] = bad]
    <3>1. CASE staged[cycle[p].grant][f] = cycle[p].man.files[f]
      BY <1>6, <3>1, ZenonT(30) DEF ReadStaged
    <3>2. CASE staged[cycle[p].grant][f] # cycle[p].man.files[f]
      BY <1>6, <3>2, ZenonT(30) DEF ReadStaged
    <3> QED BY <3>1, <3>2
  <2>3. ASSUME NEW d, d = read \/ d = bad
        PROVE  /\ d.grant = c.grant /\ d.man = c.man /\ d.snap = c.snap /\ d.del = c.del
               /\ d.todo = c.todo \ {f} /\ (d.pc = "work" \/ (d.pc = "embed" /\ d.cur = f))
    BY <1>1, <2>3 DEF Cycles
  <2> HIDE DEF read, bad, c
  <2>4. ASSUME NEW d, d = read \/ d = bad PROVE PlanOK(d, docs', nextId', dropped')
    <3>1. Coming(d) \subseteq Coming(c)
      BY <2>1, <2>3, <2>4 DEF Coming
    <3> QED BY <1>1, <1>2, <2>1, <2>3, <2>4, <3>1 DEF PlanOK
  <2> QED BY <2>2, <2>4, PlanMoves
<1> QED BY <1>3, <1>4, <1>5, <1>6

\* The new document comes first, then the older ones of the file go.
LEMMA IngestPlans ==
  ASSUME Alone, SyncInv, NEW p \in Procs, Ingest(p)
  PROVE  PlansHold' /\ IngestedOnce'
<1> DEFINE c == cycle[p]
           f == c.cur
           doc == [id |-> nextId, grant |-> c.grant, path |-> f, hash |-> c.man.files[f]]
           n == [c EXCEPT !.pc = "work", !.cur = None, !.del = DocsOf(c.snap, f)]
<1>1. c \in Cycles /\ nextId \in Nat /\ \A d \in docs : d.id < nextId
  BY DEF SyncInv, IngestInv, ProcTypes, DocTypes
<1>2. /\ docs' = docs \cup {doc} /\ nextId' = nextId + 1 /\ UNCHANGED dropped
      /\ cycle' = [cycle EXCEPT ![p] = n] /\ c.pc = "embed"
  BY DEF Ingest
<1>3. PlanOK(c, docs, nextId, dropped) /\ IngestedOnce
  BY DEF SyncInv, PlansHold
<1>4. /\ n.pc = "work" /\ n.grant = c.grant /\ n.man = c.man /\ n.snap = c.snap
      /\ n.todo = c.todo /\ n.del = DocsOf(c.snap, f)
  BY <1>1 DEF Cycles
<1>5. doc.id = nextId /\ doc.grant = c.grant /\ doc.path = f /\ doc.hash = c.man.files[f]
  OBVIOUS
<1>6. f \in Coming(c) /\ f \notin c.todo /\ c.todo \subseteq Coming(c)
  BY <1>2, <1>3 DEF PlanOK, Coming
<1>7. c.snap \in SUBSET Docs
  BY <1>1 DEF Cycles
<1> HIDE DEF c, f, doc, n
<1>8. \A d \in docs : DocOf(d, c.grant, f) => d.hash # doc.hash
  BY <1>2, <1>3, <1>5, <1>6 DEF PlanOK
<1>9. IngestedOnce'
  BY <1>2, <1>3, <1>5, <1>8 DEF IngestedOnce, DocOf
<1>10. \A d \in c.snap : d.grant = c.grant /\ d.id < nextId /\ d.id \in Nat
  BY <1>2, <1>3, <1>7 DEF PlanOK, Docs
<1>11. \A d \in n.del : Spare(d, n, docs', dropped')
  <2> SUFFICES ASSUME NEW d \in n.del PROVE \E e \in docs' : DocOf(e, n.grant, d.path) /\ e \notin n.del
    BY DEF Spare
  <2>1. d.path = f
    BY <1>4 DEF DocsOf
  <2>2. doc \notin c.snap
    BY <1>1, <1>5, <1>10
  <2>3. doc \notin n.del
    BY <1>4, <2>2 DEF DocsOf
  <2> QED BY <1>2, <1>4, <1>5, <2>1, <2>3 DEF DocOf
<1>12. ASSUME NEW w \in Coming(n), NEW d \in docs', DocOf(d, n.grant, w) PROVE d.hash # n.man.files[w]
  <2>1. w \in c.todo
    BY <1>4, <1>12 DEF Coming
  <2>2. d # doc
    BY <1>5, <1>6, <1>12, <2>1 DEF DocOf
  <2> QED BY <1>2, <1>3, <1>4, <1>6, <1>12, <2>1, <2>2 DEF PlanOK
<1>13. n.del \subseteq n.snap
  BY <1>4 DEF DocsOf
<1>14. \A d \in n.snap : d.grant = n.grant /\ d.id < nextId'
  BY <1>1, <1>2, <1>4, <1>10
<1>15. PlanOK(n, docs', nextId', dropped')
  BY <1>4, <1>11, <1>12, <1>13, <1>14 DEF PlanOK
<1> QED BY <1>2, <1>9, <1>15, PlanMoves

LEMMA SyncStep == ASSUME Alone, SyncInv, [Next]_vars PROVE SyncInv'
<1>1. IngestInv'
  BY NextHolds DEF SyncInv
<1>2. ASSUME NEW p \in Procs, CycleStep(p) PROVE PlansHold' /\ IngestedOnce'
  BY <1>2, BetweenPlans, PlansMade, DeletePlans, FilePlans, IngestPlans DEF CycleStep
<1>3. ASSUME NEW p \in Procs,
             StartJob(p) \/ BackgroundCycle(p) \/ QueryFails(p) \/ IngestFails(p) \/ ServerCrashes(p)
      PROVE  PlansHold' /\ IngestedOnce'
  BY <1>3, BetweenPlans, FilePlans
<1>4. PlansHold' /\ IngestedOnce'
  BY <1>2, <1>3, OutsidePlans DEF Next
<1> QED BY <1>1, <1>4 DEF SyncInv

LEMMA SyncInit == Init => SyncInv
<1> SUFFICES ASSUME Init PROVE SyncInv
  OBVIOUS
<1>1. IngestedOnce
  BY DEF Init, IngestedOnce
<1>2. ASSUME NEW p \in Procs PROVE PlanOK(cycle[p], docs, nextId, dropped)
  BY NoPlan DEF Init, Idle
<1> QED BY <1>1, <1>2, InitHolds DEF SyncInv, PlansHold

\* An unchanged file is never ingested again: whatever fails, times out or crashes on the way, and
\* whatever the owner edits meanwhile, no two documents of a file have the same content.
THEOREM OnceIngested == ASSUME Alone PROVE Spec => []IngestedOnce
<1>1. SyncInv => IngestedOnce
  BY DEF SyncInv
<1>2. SyncInv /\ [Next]_vars => SyncInv'
  BY SyncStep
<1> QED BY <1>1, <1>2, SyncInit, PTL DEF Spec

\* Documents go when the owner or a cycle deletes them.
LEMMA WhoDeletes ==
  ASSUME Next
  PROVE  docs \subseteq docs' \/ (\E e \in docs : DeleteDocument(e)) \/ \E p \in Procs : DeleteDoc(p)
<1>1. ASSUME NEW p \in Procs, CycleStep(p), ~DeleteDoc(p) PROVE docs \subseteq docs'
  <2>1. CASE RequestStage(p) \/ StageAnswered(p) \/ EndCycle(p) \/ ReadDocs(p) \/ CheckApproval(p) \/ EndGrant(p)
    BY <2>1 DEF RequestStage, StageAnswered, EndCycle, ReadDocs, CheckApproval, EndGrant, cycleOnly, dbVars
  <2>2. CASE Ingest(p)
    BY <2>2 DEF Ingest
  <2>3. ASSUME NEW g \in Grants, ReadManifest(p, g) PROVE docs' = docs
    <3>1. UNCHANGED cycleOnly
      BY <2>3, ZenonT(30) DEF ReadManifest
    <3> QED BY <3>1 DEF cycleOnly, dbVars
  <2>4. ASSUME NEW f \in Paths, SkipFile(p, f) PROVE docs' = docs
    BY <2>4 DEF SkipFile, cycleOnly, dbVars
  <2>5. ASSUME NEW f \in Paths, ReadStaged(p, f) PROVE docs' = docs
    <3>1. UNCHANGED dbVars
      BY <2>5, ZenonT(30) DEF ReadStaged
    <3> QED BY <3>1 DEF dbVars
  <2> QED BY <1>1, <2>1, <2>2, <2>3, <2>4, <2>5 DEF CycleStep
<1>2. ASSUME NEW p \in Procs,
             StartJob(p) \/ NotLeader(p) \/ BackgroundCycle(p) \/ QueryFails(p) \/ IngestFails(p)
             \/ ServerStops(p) \/ ServerCrashes(p) \/ ServerStarts(p) \/ ConnectionLost(p)
             \/ \E g \in Grants : ApproveGrant(p, g)
      PROVE  docs' = docs
  BY <1>2 DEF StartJob, NotLeader, BackgroundCycle, QueryFails, IngestFails, ServerStops, ServerCrashes,
       ServerStarts, ConnectionLost, ApproveGrant, folderVars, dbVars
<1>3. ASSUME NEW g \in Grants, StageFiles(g) \/ StageManifest(g) PROVE docs' = docs
  BY <1>3, ZenonT(30) DEF StageFiles, StageManifest, dbVars
<1>4. ASSUME NEW g \in Grants, StageKilled(g) \/ PruneGrant(g) \/ ManifestAges(g) PROVE docs' = docs
  BY <1>4 DEF StageKilled, PruneGrant, ManifestAges, dbVars
<1>5. ASSUME LockDropped \/ \E g \in Grants, f \in Paths, h \in Hashes \cup {None} : EditSource(g, f, h)
      PROVE  docs' = docs
  BY <1>5 DEF LockDropped, EditSource, folderVars, dbVars
<1> QED BY <1>1, <1>2, <1>3, <1>4, <1>5 DEF Next, RunnerStep

\* "new first, so there is no gap": a cycle deletes the last document of a file only when a complete,
\* non-empty manifest does not have the file.
THEOREM GapFree == ASSUME Alone PROVE Spec => NoGap
<1> DEFINE Certain(g, f) ==
             \/ <<g, f>> \in dropped'
             \/ \E p \in Procs : /\ cycle[p].pc = "work" /\ cycle[p].grant = g /\ DeleteRemoved
                                 /\ cycle[p].man.complete
                                 /\ f \notin In(cycle[p].man.files) /\ In(cycle[p].man.files) # {}
<1>1. ASSUME SyncInv, Next, NEW g \in Grants, NEW f \in Paths, Kept(docs, g, f), ~Kept(docs', g, f)
      PROVE  Certain(g, f)
  <2>1. PICK d \in docs : DocOf(d, g, f) /\ d \notin docs'
    BY <1>1 DEF Kept, DocOf
  <2>2. \/ \E e \in docs : DeleteDocument(e)
        \/ \E p \in Procs : DeleteDoc(p)
    <3>1. docs \subseteq docs' \/ (\E e \in docs : DeleteDocument(e)) \/ \E p \in Procs : DeleteDoc(p)
      BY <1>1, WhoDeletes
    <3> QED BY <2>1, <3>1
  <2>3. CASE \E e \in docs : DeleteDocument(e)
    <3>1. PICK e \in docs : DeleteDocument(e)
      BY <2>3
    <3>2. docs' = docs \ {e} /\ dropped' = dropped \cup {<<e.grant, e.path>>}
      BY <3>1 DEF DeleteDocument
    <3> QED BY <2>1, <3>2 DEF DocOf
  <2>4. CASE \E p \in Procs : DeleteDoc(p)
    <3>1. PICK p \in Procs : DeleteDoc(p)
      BY <2>4
    <3>2. PICK e \in cycle[p].del : docs' = docs \/ docs' = docs \ {e}
      BY <3>1 DEF DeleteDoc
    <3>3. d \in cycle[p].del /\ docs' = docs \ {d} /\ cycle[p].pc = "work" /\ dropped' = dropped
      BY <2>1, <3>1, <3>2 DEF DeleteDoc
    <3>4. PlanOK(cycle[p], docs, nextId, dropped)
      BY <1>1 DEF SyncInv, PlansHold
    <3>5. cycle[p].grant = g /\ d.path = f /\ Spare(d, cycle[p], docs, dropped)
      BY <2>1, <3>3, <3>4 DEF PlanOK, DocOf
    <3>6. ~ \E w \in docs : DocOf(w, g, f) /\ w \notin cycle[p].del
      BY <1>1, <3>3 DEF Kept, DocOf
    <3> QED BY <3>3, <3>5, <3>6 DEF Spare
  <2> QED BY <2>2, <2>3, <2>4
<1>2. SyncInv /\ [Next]_vars =>
        [\A g \in Grants, f \in Paths : Kept(docs, g, f) /\ ~Kept(docs', g, f) => Certain(g, f)]_vars
  BY <1>1
<1>3. SyncInv /\ [Next]_vars => SyncInv'
  BY SyncStep
<1> QED BY <1>2, <1>3, SyncInit, PTL DEF Spec, NoGap
=============================================================================
