---------------------------- MODULE FolderIngest ----------------------------
(***************************************************************************)
(* core/folder_ingest.py: folders the owner granted become documents.      *)
(*                                                                         *)
(* The runner (sandbox/runner.py) copies a granted folder into the staging *)
(* volume and then writes a manifest; a cycle of a server process asks for *)
(* that, reads the manifest and the documents it knows of, and deletes and *)
(* ingests one document after the other.  The leader runs a cycle every    *)
(* few minutes; the process that serves POST /folder-ingest/approve runs   *)
(* one as well, whether it leads or not.  Cycles of one process exclude    *)
(* each other (_lock), those of two processes do not, and a runner that    *)
(* takes too long goes on copying while the cycle reads.                   *)
(*                                                                         *)
(* A file is its content (its sha256); None stands for "no such file".     *)
(* Files of types the parsers do not support are left out.                 *)
(***************************************************************************)
EXTENDS Leader, FiniteSets

CONSTANTS
  Grants, Paths, Hashes,
  MaxFiles,       \* FOLDER_INGEST_MAX_FILES, for one cycle
  MAX_FAILURES,
  AutoApprove,    \* FOLDER_INGEST_AUTO_APPROVE
  DeleteRemoved,  \* FOLDER_INGEST_DELETE_REMOVED
  MaxDocs,        \* bound: documents ever made
  MaxEdits,       \* bound: what the owner changes in the folder, the grants and the documents
  None

ASSUME FolderAssumption ==
  /\ MaxFiles \in Nat \ {0} /\ MAX_FAILURES \in Nat \ {0}
  /\ AutoApprove \in BOOLEAN /\ DeleteRemoved \in BOOLEAN
  /\ MaxDocs \in Nat /\ MaxEdits \in Nat
  /\ None \notin Hashes \cup Grants \cup Paths

VARIABLES
  source,    \* the granted folders
  staged,    \* the copies in the staging volume
  manifest,  \* the manifest of each grant, or None
  runner,    \* the runner: for whom it stages, what is left to do, and the copy that has no manifest yet
  docs,      \* documents with a source_grant
  approved,  \* folder_ingest_approvals
  cycle,     \* run_cycle in each process
  bg,        \* processes with a background task that will call run_cycle(False)
  failures,  \* _failures of each process
  nextId, edits,
  dropped    \* history: the files of which the owner has deleted a document

stageVars == <<source, staged, manifest, runner>>
dbVars == <<docs, approved, nextId, dropped>>
procVars == <<cycle, bg, failures>>
folderVars == <<stageVars, dbVars, procVars, edits>>
vars == <<leaderVars, folderVars>>

Files == [Paths -> Hashes \cup {None}]
NoFiles == [f \in Paths |-> None]
In(files) == {f \in Paths : files[f] # None}
Manifests == [files : Files, complete : BOOLEAN, fresh : BOOLEAN]
NoManifest == [files |-> NoFiles, complete |-> FALSE, fresh |-> FALSE]
Docs == [id : Nat, grant : Grants, path : Paths, hash : Hashes]
Keys == Grants \X Paths \X Hashes

Idle == [pc |-> "idle", grants |-> {}, grant |-> None, man |-> NoManifest, snap |-> {},
         del |-> {}, todo |-> {}, cur |-> None, left |-> MaxFiles]
Cycles == [pc : {"idle", "stage", "staging", "grants", "read", "approve", "work", "embed"},
           grants : SUBSET Grants, grant : Grants \cup {None}, man : Manifests, snap : SUBSET Docs,
           del : SUBSET Docs, todo : SUBSET Paths, cur : Paths \cup {None}, left : 0..MaxFiles]

Resting == [for |-> NoProc, todo |-> {}, cur |-> None, files |-> NoFiles, complete |-> FALSE]

TypeOK ==
  /\ LeaderTypeOK
  /\ source \in [Grants -> Files] /\ staged \in [Grants -> Files]
  /\ manifest \in [Grants -> Manifests \cup {None}]
  /\ runner \in [for : Procs \cup {NoProc}, todo : SUBSET Grants, cur : Grants \cup {None}, files : Files,
                 complete : BOOLEAN]
  /\ docs \subseteq Docs /\ approved \subseteq Grants /\ dropped \subseteq Grants \X Paths
  /\ cycle \in [Procs -> Cycles] /\ bg \subseteq Procs
  /\ failures \in [Procs -> [Keys -> 0..MAX_FAILURES]]
  /\ nextId \in 1..MaxDocs + 1 /\ edits \in 0..MaxEdits
  \* ids are unique
  /\ \A d, e \in docs : d.id = e.id => d = e
  /\ \A d \in docs : d.id < nextId

\* The contents are interchangeable, so that all files may start with the same one.
Init ==
  /\ LeaderInit
  /\ source = [g \in Grants |-> [f \in Paths |-> CHOOSE h \in Hashes : TRUE]]
  /\ staged = [g \in Grants |-> NoFiles]
  /\ manifest = [g \in Grants |-> None]
  /\ runner = Resting
  /\ docs = {} /\ approved = {} /\ nextId = 1 /\ dropped = {}
  /\ cycle = [p \in Procs |-> Idle] /\ bg = {}
  /\ failures = [p \in Procs |-> [k \in Keys |-> 0]]
  /\ edits = 0

-----------------------------------------------------------------------------
(* The plan. *)

DocsOf(snap, f) == {d \in snap : d.path = f}
Wanted(man, snap, f) == {d \in DocsOf(snap, f) : d.hash = man.files[f]}

\* Files with a document of another content, or none.
ToIngestOutdated(man, snap) ==
  {f \in In(man.files) : DocsOf(snap, f) = {} \/ Wanted(man, snap, f) # DocsOf(snap, f)}

\* new and changed: files without a document of their content.
ToIngest(man, snap) == {f \in In(man.files) : Wanted(man, snap, f) = {}}

\* A plan that drops the documents of a changed file before the new one is there.
StaleOutdated(man, snap) == {d \in snap : d.path \in In(man.files) /\ d.hash # man.files[d.path]}

\* A plan that counts on the cycle that ingested a file to have deleted the older documents.
StaleForgotten(man, snap) == {}

\* stale: documents of an older content, next to one of the present content.
Stale(man, snap) ==
  {d \in snap : d.path \in In(man.files) /\ d.hash # man.files[d.path] /\ Wanted(man, snap, d.path) # {}}

\* removed: documents whose file is gone; none when the manifest is not complete or looks empty.
Removed(man, snap) ==
  IF man.complete /\ In(man.files) # {} THEN {d \in snap : d.path \notin In(man.files)} ELSE {}

-----------------------------------------------------------------------------
(* The runner: POST /stage. *)

\* The copier goes through one grant.  When it cannot copy everything (a cap, a file it cannot read)
\* a file keeps its old copy or has none, and the manifest will say that it is not complete.
StageFiles(g) ==
  /\ g \in runner.todo /\ runner.cur = None
  /\ \E files \in Files :
       /\ \A f \in Paths :
            files[f] \in IF source[g][f] = None THEN {None}
                         ELSE {source[g][f], None} \cup (IF manifest[g] = None THEN {} ELSE {manifest[g].files[f]})
       /\ IF files = source[g] THEN UNCHANGED faults ELSE Fault
       /\ staged' = [staged EXCEPT ![g] = files]
       /\ runner' = [runner EXCEPT !.cur = g, !.files = files, !.complete = (files = source[g])]
  /\ UNCHANGED <<lock, conn, up, source, manifest, dbVars, procVars, edits>>

\* The grant is done, and when it was the last one the answer goes out.
Staged(g) == IF runner.todo = {g} THEN Resting ELSE [Resting EXCEPT !.for = runner.for, !.todo = runner.todo \ {g}]

\* The manifest is written last, in one piece (os.replace).
StageManifest(g) ==
  /\ runner.cur = g
  /\ manifest' = [manifest EXCEPT ![g] =
       [files |-> runner.files, complete |-> runner.complete, fresh |-> TRUE]]
  /\ runner' = Staged(g)
  /\ UNCHANGED <<leaderVars, source, staged, dbVars, procVars, edits>>

\* The copier is stopped (STAGE_TIMEOUT, out of memory) before it has written the manifest.
StageKilled(g) ==
  /\ runner.cur = g /\ Fault
  /\ runner' = Staged(g)
  /\ UNCHANGED <<lock, conn, up, source, staged, manifest, dbVars, procVars, edits>>

\* The grant has expired or is not for knowledge any more: not staged, and its staging copy is pruned.
PruneGrant(g) ==
  /\ g \in runner.todo /\ runner.cur = None /\ edits < MaxEdits
  /\ staged' = [staged EXCEPT ![g] = NoFiles]
  /\ manifest' = [manifest EXCEPT ![g] = None]
  /\ runner' = Staged(g)
  /\ edits' = edits + 1
  /\ UNCHANGED <<leaderVars, source, dbVars, procVars>>

\* No refresh for MAX_MANIFEST_AGE.
ManifestAges(g) ==
  /\ manifest[g] # None /\ manifest[g].fresh /\ Fault
  /\ manifest' = [manifest EXCEPT ![g].fresh = FALSE]
  /\ UNCHANGED <<lock, conn, up, source, staged, runner, dbVars, procVars, edits>>

-----------------------------------------------------------------------------
(* run_cycle and _process_grant. *)

cycleOnly == <<leaderVars, stageVars, dbVars, bg, failures, edits>>

\* The scheduled job of the leader: a cycle that asks the runner first.
StartJob(p) ==
  /\ cycle[p].pc = "idle" /\ IsLeaderTrue(p)
  /\ cycle' = [cycle EXCEPT ![p].pc = "stage"]
  /\ UNCHANGED <<stageVars, dbVars, bg, failures, edits>>

NotLeader(p) == cycle[p].pc = "idle" /\ IsLeaderFalse(p) /\ UNCHANGED folderVars

\* What a cycle does next: the grants that have a manifest, one after the other.
Listed == [Idle EXCEPT !.pc = "grants", !.grants = {g \in Grants : manifest[g] # None}]
NextGrant(p) == [Idle EXCEPT !.pc = "grants", !.grants = cycle[p].grants, !.left = cycle[p].left]

\* The background task after an approval: run_cycle(False), in this process and without staging;
\* nothing when a cycle is running here.
BackgroundCycle(p) ==
  /\ p \in bg /\ up[p] = "up"
  /\ bg' = bg \ {p}
  /\ cycle' = IF cycle[p].pc = "idle" THEN [cycle EXCEPT ![p] = Listed] ELSE cycle
  /\ UNCHANGED <<leaderVars, stageVars, dbVars, failures, edits>>

\* request_stage: a busy runner refuses (429), and the cycle goes on with the manifests there are.
RequestStage(p) ==
  /\ cycle[p].pc = "stage"
  /\ IF runner.todo = {}
     THEN /\ runner' = [Resting EXCEPT !.for = p, !.todo = Grants]
          /\ cycle' = [cycle EXCEPT ![p].pc = "staging"]
     ELSE /\ cycle' = [cycle EXCEPT ![p] = Listed]
          /\ UNCHANGED runner
  /\ UNCHANGED <<leaderVars, source, staged, manifest, dbVars, bg, failures, edits>>

\* The runner's answer, or the end of the 150 seconds the cycle waits for it.
StageAnswered(p) ==
  /\ cycle[p].pc = "staging"
  /\ IF runner.for = p THEN Fault ELSE UNCHANGED faults
  /\ cycle' = [cycle EXCEPT ![p] = Listed]
  /\ UNCHANGED <<lock, conn, up, stageVars, dbVars, bg, failures, edits>>

\* load_manifest: a grant without a manifest, or with one that is too old, is passed over.
ReadManifest(p, g) ==
  /\ cycle[p].pc = "grants" /\ g \in cycle[p].grants
  /\ LET rest == [NextGrant(p) EXCEPT !.grants = @ \ {g}]
     IN cycle' = [cycle EXCEPT ![p] =
          IF manifest[g] = None THEN rest
          ELSE IF ~manifest[g].fresh THEN rest
          ELSE [rest EXCEPT !.pc = "read", !.grant = g, !.man = manifest[g]]]
  /\ UNCHANGED cycleOnly

EndCycle(p) ==
  /\ cycle[p].pc = "grants" /\ cycle[p].grants = {}
  /\ cycle' = [cycle EXCEPT ![p] = Idle]
  /\ UNCHANGED cycleOnly

\* What is left to do once a grant may be synced.
Planned(p, snap) ==
  LET man == cycle[p].man
  IN [cycle[p] EXCEPT !.pc = "work", !.snap = snap,
        !.del = Stale(man, snap) \cup (IF DeleteRemoved THEN Removed(man, snap) ELSE {}),
        !.todo = ToIngest(man, snap)]

\* A cycle that does not wait for the owner.
ReadDocsAndGo(p) ==
  /\ cycle[p].pc = "read"
  /\ cycle' = [cycle EXCEPT ![p] = Planned(p, {d \in docs : d.grant = cycle[p].grant})]
  /\ UNCHANGED cycleOnly

\* _ingested and make_plan.  A grant without documents needs an approval.
ReadDocs(p) ==
  /\ cycle[p].pc = "read"
  /\ LET snap == {d \in docs : d.grant = cycle[p].grant}
     IN cycle' = [cycle EXCEPT ![p] =
          IF snap = {} THEN [cycle[p] EXCEPT !.pc = "approve"] ELSE Planned(p, snap)]
  /\ UNCHANGED cycleOnly

\* _approved, or the approval that FOLDER_INGEST_AUTO_APPROVE stands for.
CheckApproval(p) ==
  /\ cycle[p].pc = "approve"
  /\ LET g == cycle[p].grant
     IN IF g \in approved \/ AutoApprove
        THEN approved' = approved \cup {g} /\ cycle' = [cycle EXCEPT ![p] = Planned(p, {})]
        ELSE UNCHANGED approved /\ cycle' = [cycle EXCEPT ![p] = NextGrant(p)]
  /\ UNCHANGED <<leaderVars, stageVars, docs, nextId, dropped, bg, failures, edits>>

\* A failed query ends the grant.
QueryFails(p) ==
  /\ cycle[p].pc \in {"read", "approve"} /\ Fault
  /\ cycle' = [cycle EXCEPT ![p] = NextGrant(p)]
  /\ UNCHANGED <<lock, conn, up, stageVars, dbVars, bg, failures, edits>>

\* _delete_docs, one document in one transaction; a failure is passed over.
DeleteDoc(p) ==
  /\ cycle[p].pc = "work"
  /\ \E d \in cycle[p].del :
       /\ cycle' = [cycle EXCEPT ![p].del = @ \ {d}]
       /\ \/ docs' = docs \ {d} /\ UNCHANGED faults
          \/ docs' = docs /\ Fault
  /\ UNCHANGED <<lock, conn, up, stageVars, approved, nextId, dropped, bg, failures, edits>>

Key(p, f) == <<cycle[p].grant, f, cycle[p].man.files[f]>>

\* A file that has failed too often is passed over until its content changes.
SkipFile(p, f) ==
  /\ cycle[p].pc = "work" /\ cycle[p].del = {}
  /\ f \in cycle[p].todo /\ failures[p][Key(p, f)] >= MAX_FAILURES
  /\ cycle' = [cycle EXCEPT ![p].todo = @ \ {f}]
  /\ UNCHANGED cycleOnly

\* A file that failed.
Failed(p, f) == [failures EXCEPT ![p][Key(p, f)] = @ + 1]

\* read_staged: only the bytes the manifest names are taken.
ReadStaged(p, f) ==
  /\ cycle[p].pc = "work" /\ cycle[p].del = {} /\ cycle[p].left > 0
  /\ f \in cycle[p].todo /\ failures[p][Key(p, f)] < MAX_FAILURES
  /\ LET match == staged[cycle[p].grant][f] = cycle[p].man.files[f]
     IN /\ cycle' = [cycle EXCEPT ![p] =
             [cycle[p] EXCEPT !.left = @ - 1, !.todo = @ \ {f},
                !.pc = IF match THEN "embed" ELSE "work", !.cur = IF match THEN f ELSE None]]
        /\ failures' = IF match THEN failures ELSE Failed(p, f)
  /\ UNCHANGED <<leaderVars, stageVars, dbVars, bg, edits>>

\* ingest_document: document and chunks in one transaction.  The documents it replaces go after it.
Ingest(p) ==
  /\ cycle[p].pc = "embed" /\ nextId <= MaxDocs
  /\ LET f == cycle[p].cur
     IN /\ docs' = docs \cup
             {[id |-> nextId, grant |-> cycle[p].grant, path |-> f, hash |-> cycle[p].man.files[f]]}
        /\ cycle' = [cycle EXCEPT ![p] =
             [cycle[p] EXCEPT !.pc = "work", !.cur = None, !.del = DocsOf(cycle[p].snap, f)]]
        /\ failures' = [failures EXCEPT ![p][Key(p, f)] = 0]
  /\ nextId' = nextId + 1
  /\ UNCHANGED <<leaderVars, stageVars, approved, dropped, bg, edits>>

\* The text cannot be extracted or embedded, or the transaction fails.
IngestFails(p) ==
  /\ cycle[p].pc = "embed" /\ Fault
  /\ cycle' = [cycle EXCEPT ![p].pc = "work", ![p].cur = None]
  /\ failures' = Failed(p, cycle[p].cur)
  /\ UNCHANGED <<lock, conn, up, stageVars, dbVars, bg, edits>>

\* The grant is done for this cycle, with what is left when MaxFiles are used up.
EndGrant(p) ==
  /\ cycle[p].pc = "work" /\ cycle[p].del = {}
  /\ cycle[p].todo = {} \/ cycle[p].left = 0
  /\ cycle' = [cycle EXCEPT ![p] = NextGrant(p)]
  /\ UNCHANGED cycleOnly

-----------------------------------------------------------------------------
(* The owner, and the processes. *)

Edit == edits < MaxEdits /\ edits' = edits + 1

EditSource(g, f, h) ==
  /\ Edit /\ source[g][f] # h
  /\ source' = [source EXCEPT ![g][f] = h]
  /\ UNCHANGED <<leaderVars, staged, manifest, runner, dbVars, procVars>>

\* POST /folder-ingest/approve, answered by any process.  Doing so again counts as an edit.
ApproveGrant(p, g) ==
  /\ up[p] = "up" /\ manifest[g] # None
  /\ IF g \in approved THEN Edit ELSE UNCHANGED edits
  /\ approved' = approved \cup {g}
  /\ bg' = bg \cup {p}
  /\ UNCHANGED <<leaderVars, stageVars, docs, nextId, dropped, cycle, failures>>

\* DELETE /documents/{id}.
DeleteDocument(d) ==
  /\ Edit
  /\ docs' = docs \ {d}
  /\ dropped' = dropped \cup {<<d.grant, d.path>>}
  /\ UNCHANGED <<leaderVars, stageVars, approved, nextId, procVars>>

ServerStops(p) == Release(p) /\ UNCHANGED folderVars
ServerCrashes(p) ==
  /\ Crash(p)
  /\ cycle' = [cycle EXCEPT ![p] = Idle]
  /\ bg' = bg \ {p}
  /\ failures' = [failures EXCEPT ![p] = [k \in Keys |-> 0]]
  /\ UNCHANGED <<stageVars, dbVars, edits>>
ServerStarts(p) ==
  /\ cycle[p].pc = "idle" /\ Restart(p)
  /\ bg' = bg \ {p}
  /\ failures' = [failures EXCEPT ![p] = [k \in Keys |-> 0]]
  /\ UNCHANGED <<stageVars, dbVars, cycle, edits>>
ConnectionLost(p) == ConnLost(p) /\ UNCHANGED folderVars
LockDropped == SessionEnds /\ UNCHANGED folderVars

CycleStep(p) ==
  \/ RequestStage(p) \/ StageAnswered(p) \/ EndCycle(p) \/ (\E g \in Grants : ReadManifest(p, g))
  \/ ReadDocs(p) \/ CheckApproval(p) \/ DeleteDoc(p) \/ EndGrant(p) \/ Ingest(p)
  \/ \E f \in Paths : SkipFile(p, f) \/ ReadStaged(p, f)

RunnerStep == \E g \in Grants : StageFiles(g) \/ StageManifest(g)

Next ==
  \/ RunnerStep \/ LockDropped
  \/ \E g \in Grants : StageKilled(g) \/ PruneGrant(g) \/ ManifestAges(g)
  \/ \E g \in Grants, f \in Paths, h \in Hashes \cup {None} : EditSource(g, f, h)
  \/ \E d \in docs : DeleteDocument(d)
  \/ \E p \in Procs :
       \/ CycleStep(p) \/ StartJob(p) \/ NotLeader(p) \/ BackgroundCycle(p) \/ QueryFails(p) \/ IngestFails(p)
       \/ ServerStops(p) \/ ServerCrashes(p) \/ ServerStarts(p) \/ ConnectionLost(p)
       \/ \E g \in Grants : ApproveGrant(p, g)

Spec == Init /\ [][Next]_vars

\* The threads are scheduled and every call has a timeout; the scheduler starts the job again and
\* again; a stopped process is started again; the runner finishes what it was asked for.
FairSpec ==
  /\ Spec
  /\ WF_vars(RunnerStep) /\ WF_vars(LockDropped)
  /\ \A p \in Procs : WF_vars(CycleStep(p)) /\ WF_vars(StartJob(p)) /\ WF_vars(ServerStarts(p))

-----------------------------------------------------------------------------
(* Properties. *)

\* The FIRST sync of a grant waits for the owner: whatever processes and cycles there are, no
\* document was ever made from a grant that nobody approved.
ApprovedFirst == \A d \in docs : d.grant \in approved

Kept(ds, g, f) == \E d \in ds : d.grant = g /\ d.path = f

\* "new first, so there is no gap", and a manifest that is not complete or looks empty "must never
\* delete documents": a file loses its last document to the owner (DELETE /documents), or to a cycle that read a
\* complete, non-empty manifest without the file.
NoGap ==
  [][\A g \in Grants, f \in Paths : Kept(docs, g, f) /\ ~Kept(docs', g, f) =>
       \/ <<g, f>> \in dropped'
       \/ \E p \in Procs : /\ cycle[p].pc = "work" /\ cycle[p].grant = g /\ DeleteRemoved
                           /\ cycle[p].man.complete
                           /\ f \notin In(cycle[p].man.files) /\ In(cycle[p].man.files) # {}]_vars

\* Unchanged files are not ingested again: no two documents of one file have the same content.
IngestedOnce ==
  \A d, e \in docs : d.grant = e.grant /\ d.path = e.path /\ d.hash = e.hash => d = e

\* In the end the documents of an approved grant are the files of its folder, in their present
\* content and nothing else, whatever was interrupted on the way; an emptied folder keeps its
\* documents, and a file that failed MAX_FAILURES times is passed over.
Mirrored(g) ==
  {<<d.path, d.hash>> : d \in {e \in docs : e.grant = g}} = {<<f, source[g][f]>> : f \in In(source[g])}
GivenUp(g) ==
  \E p \in Procs, f \in In(source[g]) : failures[p][<<g, f, source[g][f]>>] >= MAX_FAILURES
Converges == <>[](\A g \in approved : In(source[g]) = {} \/ GivenUp(g) \/ Mirrored(g))
=============================================================================
