------------------------------ MODULE DataSync ------------------------------
(***************************************************************************)
(* The background sync of external data sources: _sync_job of core/api.py, *)
(* enqueue_sync of core/queue.py and sync_data_source of                   *)
(* core/integrations/service.py.  The leader's job lists the sources and   *)
(* goes through the list; a source that is due is synced by the job's own  *)
(* thread, or, when REDIS_URL is set, put into a queue that workers empty. *)
(* POST /integrations/{id}/sync syncs a source in a request thread.        *)
(* Nothing claims a source, so any of them may sync it at the same time.   *)
(*                                                                         *)
(* What a source holds is a version number that only grows; a sync copies  *)
(* the version it fetched.  Time is counted in ticks, and a reading of the *)
(* clock in tick t falls at or after t and before t + 1.                   *)
(***************************************************************************)
EXTENDS Leader, Sequences

CONSTANTS
  SourceList,   \* the data sources in the order of list_data_sources, all different
  Requesters,   \* threads serving POST /integrations/{id}/sync
  Workers,      \* rq workers
  UseRedis,     \* is REDIS_URL set?
  Unreachable,  \* may Redis be out of reach?
  Interval,     \* sync_interval_minutes
  MaxNow,       \* bound: the clock stops here
  Changing,     \* bound: the sources whose data may change
  MaxVersion,   \* bound: no source changes once one has had so many versions
  MaxQueue,     \* bound: jobs in the queue
  None          \* NULL

Sources == {SourceList[i] : i \in DOMAIN SourceList}
Syncers == Procs \cup Requesters \cup Workers

ASSUME SyncAssumption ==
  /\ UseRedis \in BOOLEAN /\ Unreachable \in BOOLEAN
  /\ Interval \in Nat \ {0} /\ MaxNow \in Nat /\ MaxVersion \in Nat \ {0} /\ MaxQueue \in Nat
  /\ SourceList \in Seq(Sources)
  /\ \A i, j \in DOMAIN SourceList : SourceList[i] = SourceList[j] => i = j
  /\ Procs \cap Requesters = {} /\ Procs \cap Workers = {} /\ Requesters \cap Workers = {}
  /\ None \notin Nat \cup Sources

VARIABLES
  now,     \* the clock
  held,    \* what each source holds
  row,     \* data_sources.last_sync_at of each source (last_sync_status is only shown)
  ctx,     \* synced_context_data: the version stored for each source, 0 for none
  queue,   \* the rq queue
  linked,  \* processes that have connected to Redis (_queue is kept once made)
  job,     \* _sync_job of each process: the copies still to go through
  sync,    \* sync_data_source in each thread and worker
  overtaken   \* history: the syncs about to store whose source another sync has stored since

syncVars == <<now, held, row, ctx, queue, linked, job, sync, overtaken>>
vars == <<leaderVars, syncVars>>

Versions == 0..MaxVersion
Rows == 0..MaxNow \cup {None}
Copies == [id : Sources, row : Rows]
NoJob == [pc |-> "idle", todo |-> <<>>]
NoSync == [pc |-> "idle", src |-> None, data |-> 0]
Started(s) == [pc |-> "fetch", src |-> s, data |-> 0]

TypeOK ==
  /\ LeaderTypeOK
  /\ now \in 0..MaxNow
  /\ held \in [Sources -> Versions] /\ ctx \in [Sources -> Versions]
  /\ row \in [Sources -> Rows]
  /\ queue \in Seq(Sources) /\ Len(queue) <= MaxQueue
  /\ linked \subseteq Procs
  /\ job \in [Procs -> [pc : {"idle", "list", "next", "inline"}, todo : Seq(Copies)]]
  /\ sync \in [Syncers ->
       [pc : {"idle", "fetch", "write", "fail"}, src : Sources \cup {None}, data : Versions]]
  \* a process syncs inline what its job has come to, and only then
  /\ \A p \in Procs : job[p].pc = "inline" <=> sync[p].pc # "idle"
  /\ \A p \in Procs : job[p].pc = "inline" => sync[p].src = Head(job[p].todo).id
  /\ overtaken \subseteq {a \in Syncers : sync[a].pc = "write"}

Init ==
  /\ LeaderInit
  /\ now = 0
  /\ held = [s \in Sources |-> 1] /\ ctx = [s \in Sources |-> 0]
  /\ row = [s \in Sources |-> None]
  /\ queue = <<>> /\ linked = {}
  /\ job = [p \in Procs |-> NoJob]
  /\ sync = [a \in Syncers |-> NoSync]
  /\ overtaken = {}

Tick ==
  /\ now < MaxNow /\ now' = now + 1
  /\ UNCHANGED <<leaderVars, held, row, ctx, queue, linked, job, sync, overtaken>>

\* The data behind a source changes.  A version that nobody fetched makes no difference, so only
\* one that is stored or on its way is followed by another.
SourceChanges(s) ==
  /\ s \in Changing /\ \A r \in Sources : held[r] < MaxVersion
  /\ ctx[s] = held[s] \/ \E a \in Syncers : sync[a].src = s /\ sync[a].data = held[s]
  /\ held' = [held EXCEPT ![s] = @ + 1]
  /\ UNCHANGED <<leaderVars, now, row, ctx, queue, linked, job, sync, overtaken>>

-----------------------------------------------------------------------------
(* _sync_job. *)

jobOnly == <<leaderVars, now, held, row, ctx, queue, linked, sync, overtaken>>

StartJob(p) ==
  /\ job[p].pc = "idle" /\ IsLeaderTrue(p)
  /\ job' = [job EXCEPT ![p].pc = "list"]
  /\ UNCHANGED <<now, held, row, ctx, queue, linked, sync, overtaken>>

NotLeader(p) == job[p].pc = "idle" /\ IsLeaderFalse(p) /\ UNCHANGED syncVars

\* list_data_sources: copies of all rows.
ListSources(p) ==
  /\ job[p].pc = "list"
  /\ job' = [job EXCEPT ![p] =
       [pc |-> "next", todo |-> [i \in DOMAIN SourceList |-> [id |-> SourceList[i], row |-> row[SourceList[i]]]]]]
  /\ UNCHANGED jobOnly

\* should_sync.
ShouldSync(last) == last # None => now - last >= Interval

\* The copy the job has come to is not due.
PassOver(p) ==
  /\ job[p].pc = "next" /\ job[p].todo # <<>>
  /\ ~ShouldSync(Head(job[p].todo).row)
  /\ job' = [job EXCEPT ![p].todo = Tail(@)]
  /\ UNCHANGED jobOnly

EndJob(p) ==
  /\ job[p].pc = "next" /\ job[p].todo = <<>>
  /\ job' = [job EXCEPT ![p] = NoJob]
  /\ UNCHANGED jobOnly

Begin(p) ==
  /\ job' = [job EXCEPT ![p].pc = "inline"]
  /\ sync' = [sync EXCEPT ![p] = Started(Head(job[p].todo).id)]

\* enqueue_sync: into the queue when there is one; without REDIS_URL, or when the first
\* connection to Redis fails, inline.
Handle(p) ==
  /\ job[p].pc = "next" /\ job[p].todo # <<>>
  /\ ShouldSync(Head(job[p].todo).row)
  /\ \/ /\ UseRedis /\ Len(queue) < MaxQueue
        /\ queue' = Append(queue, Head(job[p].todo).id)
        /\ linked' = linked \cup {p}
        /\ job' = [job EXCEPT ![p].todo = Tail(@)]
        /\ UNCHANGED sync
     \/ /\ UseRedis => Unreachable /\ p \notin linked
        /\ Begin(p)
        /\ UNCHANGED <<queue, linked>>
  /\ UNCHANGED <<leaderVars, now, held, row, ctx, overtaken>>

\* The list cannot be read, or the queue was made and does not take the job: _sync_job ends.
JobRaises(p) ==
  /\ \/ job[p].pc = "list" /\ UNCHANGED linked
     \/ /\ UseRedis /\ Unreachable
        /\ job[p].pc = "next" /\ job[p].todo # <<>> /\ ShouldSync(Head(job[p].todo).row)
        /\ linked' = linked \cup {p}
  /\ Fault
  /\ job' = [job EXCEPT ![p] = NoJob]
  /\ UNCHANGED <<lock, conn, up, now, held, row, ctx, queue, sync, overtaken>>

-----------------------------------------------------------------------------
(* sync_data_source, in thread or worker a. *)

syncOnly == <<now, held, queue, linked>>

\* sync_data_source returns; a job goes on with the rest of its list.
Returns(a) ==
  /\ sync' = [sync EXCEPT ![a] = NoSync]
  /\ job' = IF a \in Procs THEN [job EXCEPT ![a] = [pc |-> "next", todo |-> Tail(@.todo)]] ELSE job

\* It raises: the rest of the job's list is dropped; rq drops the job of a worker.
Raises(a) ==
  /\ sync' = [sync EXCEPT ![a] = NoSync]
  /\ job' = IF a \in Procs THEN [job EXCEPT ![a] = NoJob] ELSE job

\* get_data_source or the connection for what follows fails, before anything is fetched.
ReadFails(a) ==
  /\ sync[a].pc = "fetch" /\ Fault
  /\ Raises(a)
  /\ UNCHANGED <<lock, conn, up, row, ctx, syncOnly, overtaken>>

\* What was stored is deleted, and that committed, before the new context is stored.
FetchClears(a) ==
  /\ sync[a].pc = "fetch"
  /\ sync' = [sync EXCEPT ![a].pc = "write", ![a].data = held[sync[a].src]]
  /\ ctx' = [ctx EXCEPT ![sync[a].src] = 0]
  /\ UNCHANGED <<leaderVars, job, row, syncOnly, overtaken>>

\* The source is read, and fetch_data answers with what it holds.
Fetch(a) ==
  /\ sync[a].pc = "fetch"
  /\ sync' = [sync EXCEPT ![a].pc = "write", ![a].data = held[sync[a].src]]
  /\ UNCHANGED <<leaderVars, job, row, ctx, syncOnly, overtaken>>

\* A source that fails ends the job.
FetchFailsRaises(a) ==
  /\ sync[a].pc = "fetch"
  /\ Raises(a)
  /\ UNCHANGED <<leaderVars, row, ctx, syncOnly, overtaken>>

\* fetch_data raises, which a source may do every time.
FetchFails(a) ==
  /\ sync[a].pc = "fetch"
  /\ sync' = [sync EXCEPT ![a].pc = "fail"]
  /\ UNCHANGED <<leaderVars, job, row, ctx, syncOnly, overtaken>>

\* The syncs that have fetched and not yet stored when a stores the same source.
BehindStoreOf(a) == {b \in Syncers \ {a} : sync[b].pc = "write" /\ sync[b].src = sync[a].src}

\* The context and the row, in one transaction; a failure rolls back.
Store(a) ==
  /\ sync[a].pc = "write"
  /\ \/ /\ ctx' = [ctx EXCEPT ![sync[a].src] = sync[a].data]
        /\ row' = [row EXCEPT ![sync[a].src] = now]
        /\ Returns(a) /\ UNCHANGED faults
        /\ overtaken' = (overtaken \ {a}) \cup BehindStoreOf(a)
     \/ /\ Fault /\ sync' = [sync EXCEPT ![a].pc = "fail"] /\ UNCHANGED <<ctx, row, job>>
        /\ overtaken' = overtaken \ {a}
  /\ UNCHANGED <<lock, conn, up, syncOnly>>

\* A failed sync counts as a sync: last_sync_at is set as well.
StoreFailure(a) ==
  /\ sync[a].pc = "fail"
  /\ \/ row' = [row EXCEPT ![sync[a].src] = now] /\ Returns(a) /\ UNCHANGED faults
     \/ Fault /\ Raises(a) /\ UNCHANGED row
  /\ UNCHANGED <<lock, conn, up, ctx, syncOnly, overtaken>>

-----------------------------------------------------------------------------
(* Request threads, workers and processes. *)

SyncNow(t, s) ==
  /\ sync[t].pc = "idle"
  /\ sync' = [sync EXCEPT ![t] = Started(s)]
  /\ UNCHANGED <<leaderVars, job, row, ctx, syncOnly, overtaken>>

WorkerTakes(w) ==
  /\ sync[w].pc = "idle" /\ queue # <<>>
  /\ sync' = [sync EXCEPT ![w] = Started(Head(queue))]
  /\ queue' = Tail(queue)
  /\ UNCHANGED <<leaderVars, now, held, row, ctx, linked, job, overtaken>>

\* A worker that dies takes its job with it.
WorkerDies(w) ==
  /\ sync[w].pc # "idle" /\ Fault
  /\ sync' = [sync EXCEPT ![w] = NoSync]
  /\ overtaken' = overtaken \ {w}
  /\ UNCHANGED <<lock, conn, up, job, row, ctx, syncOnly>>

ServerStops(p) == Release(p) /\ UNCHANGED syncVars
ServerCrashes(p) ==
  /\ Crash(p)
  /\ job' = [job EXCEPT ![p] = NoJob]
  /\ sync' = [sync EXCEPT ![p] = NoSync]
  /\ linked' = linked \ {p}
  /\ overtaken' = overtaken \ {p}
  /\ UNCHANGED <<now, held, row, ctx, queue>>
ServerStarts(p) ==
  /\ job[p].pc = "idle" /\ Restart(p)
  /\ linked' = linked \ {p}
  /\ UNCHANGED <<now, held, row, ctx, queue, job, sync, overtaken>>
ConnectionLost(p) == ConnLost(p) /\ UNCHANGED syncVars
LockDropped == SessionEnds /\ UNCHANGED syncVars

JobStep(p) == StartJob(p) \/ ListSources(p) \/ PassOver(p) \/ Handle(p) \/ EndJob(p)
SyncStep(a) == Fetch(a) \/ FetchFails(a) \/ Store(a) \/ StoreFailure(a)

Next ==
  \/ Tick \/ LockDropped
  \/ \E s \in Sources : SourceChanges(s) \/ \E t \in Requesters : SyncNow(t, s)
  \/ \E a \in Syncers : SyncStep(a) \/ ReadFails(a)
  \/ \E w \in Workers : WorkerTakes(w) \/ WorkerDies(w)
  \/ \E p \in Procs :
       \/ JobStep(p) \/ NotLeader(p) \/ JobRaises(p)
       \/ ServerStops(p) \/ ServerCrashes(p) \/ ServerStarts(p) \/ ConnectionLost(p)

Spec == Init /\ [][Next]_vars

\* Threads and workers are scheduled and their calls return (the requests of the HTTP connectors
\* have timeouts; that a query of a SQL source ends is an assumption); the
\* scheduler starts the job again and again; what stopped is started again; the
\* database ends dead sessions.
FairSpec ==
  /\ Spec
  /\ WF_vars(LockDropped)
  /\ \A p \in Procs : WF_vars(JobStep(p)) /\ WF_vars(ServerStarts(p))
  /\ \A a \in Syncers : WF_vars(SyncStep(a))
  /\ \A w \in Workers : WF_vars(WorkerTakes(w))

-----------------------------------------------------------------------------
(* Properties. *)

\* However many workers, jobs and requests (POST /integrations/{id}/sync) sync a source beside
\* each other, with crashes, changes of leadership and statements that fail: what is stored about
\* it goes back to an older fetch only when another sync stored it between the fetch and the
\* store of this one, and then to what this one fetched.  (sync_data_source compares nothing, so
\* that case is not prevented.)
BackOnlyWhenOvertaken ==
  [][\A s \in Sources : ctx'[s] < ctx[s] =>
       \E a \in overtaken : sync[a].src = s /\ sync[a].data = ctx'[s]]_vars

\* No source starves: one that is due is tried before long, whatever the sources before it in the
\* list do, however often they fail, and whichever process leads (_sync_job).
DueIsTried == \A s \in Sources : ShouldSync(row[s]) ~> ~ShouldSync(row[s])
=============================================================================
