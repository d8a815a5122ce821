# Verification of RagLeap Core

TLA+ models of the parts of RagLeap Core in which several threads, processes or services act on
shared state, the TLC runs that check them on small instances, and TLAPS proofs of the results that
matter most for every instance. Paths are relative to the repository; `PROJECT.json` maps every
definition to the lines it models.

## 1. The system

RagLeap Core is a self-hosted assistant: a FastAPI server (`core/api.py`) over Postgres, with AI
"employees" that answer questions from ingested documents and can act: send messages, call
webhooks, fetch pages. One or more server processes share one database; an APScheduler inside
each process runs the background jobs; `rq` workers and a file-access runner are separate
processes.

| Component | State | Operations | What is hard | What makes it correct |
|---|---|---|---|---|
| Autonomy gate (`core/autonomy.py`, `core/employees/sensitivity.py`) | `autonomy_settings`, `autonomy_pending`, `autonomy_log`, learned rows | `execute_or_request`, `request_approval`, chat and inbox decisions, `POST /autonomy` | every database call and send is a separate step; two decisions for one id; stale settings; failing statements; restarts | nothing goes out unapproved that the settings do not permit; one decision, one effect; a truthful log |
| Agent loop (`core/agent_loop.py`) | `agent_runs`, threads that work on copies of a row | `run`, `_drive`, `on_resolved`, `_finish` | a run crosses threads: one ends when the owner is asked, another starts after the decision | the taint rule; a step limit over all threads; one driver; no lost decision; termination |
| Scheduler leadership (`core/scheduler_leader.py`) | an advisory lock, `_leader_conn` | `is_leader`, `release`, `leader_only` | lost connections, crashes, sessions the database ends late; leadership is not looked at again during a job | the jobs go on after a leader is lost; two leaders do no harm |
| Proactive triggers (`core/proactive_triggers.py`) | `proactive_triggers` rows | create, edit, delete, `run_due_triggers`, `run_trigger`, `_claim` | copies of rows go stale; two processes in the job; crontab times computed before they are stored | a due time fires once, without bursts, and eventually |
| Folder ingestion (`core/folder_ingest.py`, `core/ingest.py`, staging in `sandbox/runner.py`) | staging copies, manifests, documents, approvals, failure counts | `run_cycle`, `_process_grant`, approval, the runner's `/stage` | a runner that outlasts its caller; old manifests; cycles in two processes; a crash between ingest and delete | nothing before approval; no duplicate, no gap; documents converge to the files |
| Data source sync (`core/integrations/service.py`, `core/queue.py`, `_sync_job`) | `data_sources`, `synced_context_data`, the queue | the job, `enqueue_sync`, `sync_data_source`, `POST /integrations/{id}/sync` | nothing claims a source; failures; workers that die; Redis out of reach | no source starves; what is stored goes back to an older fetch only when two syncs of a source overlapped, which the job, workers and the request route do not prevent |
| API key throttle (`core/auth_throttle.py`, key middleware) | two bounded dictionaries in memory | `blocked_seconds`, `record_failure`, `record_success`, `_make_room` | eviction while counting; window boundaries | lockouts are honoured, earned, in time; memory stays bounded |
| Chat pipeline and budget (`core/chat.py`, `core/budget.py`, `core/generation.py`, `core/employees/{actions,supervisor,team}.py`) | the usage ledger | `ask`, `ask_stream`, teams, tree of thought, grounding check, `check_budget`, `record_usage` | checked before a request, written after each call; a ledger that fails open | overshoot only by what was under way; an untrusted caller stays with customer-facing roles |
| Employee memory (`core/employees/{memory,learning,profile}.py`) | `employee_memory`, the profile | seeding, `write_learned_skill`, auto-learning | seeding and replacing in several statements; processes that stop | seeds whole, profile known, the last instruction shown |
| Channels (`channels/{whatsapp,telegram,discord}/router.py`, webhooks, `core/employees/{feedback,channel_roles}.py`) | last replies, importance of memories, roles of channels | webhooks, adapters, feedback | redelivery, payloads handled in part, several processes | signed messages only; feedback stays in its chat; roles are the owner's |
| Voice calls (`channels/voice/router.py`) | the buffer of a call | `handle_call` | frames, marks and replies in any order | no utterance waits; nothing is carried over |
| Sandbox (`sandbox/runner.py`, `core/file_access.py`, `core/code_exec.py`, `scripts/ragleap_files.py`) | grants, the runner's lock, containers, cached names | `/run`, `/files`, `/stage`, the owner's commands | stale names, lost replies of Docker, a runner that dies | folders mounted by grant only; no stray containers; the lock is never lost |
| Documents and graph (`core/ingest.py`, `core/document_store.py`, `core/graph.py`) | tables and Neo4j | ingest, delete | the graph is written after the commit, statement by statement; a look for orphans and their removal are apart | the graph keeps to the tables, and a document is found by what it mentions |
| Retrieval (`core/retrieval.py`) | chunks | dense and sparse search, fusion, graph boost | rows change between two queries | a better chunk is not ranked lower |
| Connectors and schema setup (`core/integrations/*`) | remote records, the stored secret, tables of connected databases | `fetch_data`, `create_required_schema` | lists that move while they are paged; two setups; failing statements | whole fetches; honest and repairable setups |
| `ragleap-agents` | run states in a store | `run`, `resume`, delegate | two resumes, failing saves, crashes inside a call | approval for outbound calls after outside content; effects once; budgets |
| `ragleap-rag`, `ragleap-vectorstores` | cost, cache, sessions, vectors and rows | `ask`, `ask_stream`, `ingest_text`, `delete_document` | unlocked counters and caches; crash between row and index | bounded overspending, faithful history, honest searches |
| `ragleap-graph` | entities, shares, edges, migrations | `upsert_document`, queries, migrations | retries of partly done upserts, sums read before they are written, live writes beside a migration | weights add up; recorded migrations are complete |
| `ragleap-integrations` | snapshot of tools, protocol era, a socket and its watchdog | `discover`, `call_tool`, `https_post` | lost replies, fallback between protocols, DNS that changes, a deadline at any moment | a call runs once and only when cleared; checked address is connected address |
| `ragleap-voice` (pull) | model cache | `pull_model`, redirects | kills, two pulls at once | a ready model is whole; the token stays with its host |
| `ragleap-memory`, `ragleap-security` | memories, audit log | add, supersede, forget, erase, sweep, compact | kills between log and commit, races, a checkpoint beside a reader or a writer | the log covers the table; erased is gone with the first checkpoint that is not cut short |
| Tasks, roles, settings; text processing; other packages, Java ports | one row each; none | CRUD; functions of text | nothing: single statements, data | not modelled |

How they interact. The loop calls the gate (`Propose`, `InGate`), the gate's decisions call the
loop back (`NotifyRead`, `NotifySave`), a trigger's answer goes through the gate, the three
jobs run behind `leader_only`, the approval route of folder ingestion starts a cycle of its own, and
all of them share nothing but the database. The chat pipeline ends by handing an action to the gate
(`RunAction`); a channel hands a text to the pipeline (`AskPipeline`); connectors are what a sync
fetches from. The packages are used as libraries and know nothing of each other.

## 2. The modules

| Module | Models | Variables and actions |
|---|---|---|
| `Autonomy` | the gate | The tables are `settings`, `pending`, `log`, `learned`; `asked` is what reached the owner's chat. `call` and `resolve` are program counters with locals of the threads in `execute_or_request` (`Dispatch`, `SendNow`, `LogNow`, `StorePending`, `RequestApproval`, `Return`, `CallRaises`) and in `process_approval_response` (`SelectRow`, `DeleteRow`, `Act`, `LogDecision`, `Learn`, `NotifyNobody`, `ResolveRaises`). `autoSent`, `sends`, `rejects`, `everSet`, `raced` are history. |
| `AgentLoop` | the loop, on top of the gate (`EXTENDS Autonomy`) | `run` is the table, `drv` the thread in `_drive` with its copy, `note` the row a thread in `on_resolved` has read. `Propose` is a `Dispatch`, `InGate` a gate step, `Decide` a decision step, `Restart` a `Crash`. |
| `Leader` | leadership | `lock` (as the database sees it), `conn` (as each process sees it), `up`, and `faults`, the bounded number of things that go wrong. Extended by the three jobs. |
| `Triggers` | triggers and their job | `row`, `job` (the list of copies), `edit` (the row an editor has read). `Compute` and `Update` are the two halves of `_claim`. The slots of a crontab are a constant. |
| `TriggerSchedule` | what a trigger promises | the abstract specification: `Fire` for a due time moves it into the future; `Triggers` implements it (`ImplementsSchedule`). |
| `FolderIngest` | cycles, runner, owner | `source`, `staged`, `manifest`, `runner`, `docs`, `approved`, `cycle` (one per process), `failures`. One action per query, deletion, read and ingestion. |
| `DataSync` | `_sync_job`, queue, workers, request threads | `row`, `ctx`, `queue`, `job`, `sync`; `overtaken` is history: the syncs about to store whose source another one has stored since they fetched. |
| `AuthThrottle` | the throttle and the middleware | `order` and `times` are `_failures`, `until` is `_locked_until`. A request is one step: the middleware does not await between check and count. |
| `Chat` | `core/chat.py` and what it calls | `request` holds a program counter, role, provider and retries of each thread; `usedGlobal`, `usedBy` the ledger. `Check` is `check_budget`, `Called` a provider call with `record_usage`. A question comes by `ask` (for a role, `auto` or `team`) or by `ask_stream`. The branch into `agent_loop.run` is module `AgentLoop`, whose `_llm` looks at the budget again before each call. |
| `EmployeeMemory` | memory, learning, profile | `entries` is the table, `duty` the job of each thread: `SeedCheck`/`NextSeed`/`SeedWrite`, `OwnerWrite`, `Gather`/`ForceDelete`/`LearnWrite`. |
| `Channels` | webhooks and adapters | `server` is the message a process is at and the step it tries (`CheckApproval`, `TakeFeedback`, `Escalate`, `Welcome`, `AskPipeline`, `RecordLastReply`, `SendReply`); `undone` the payloads a provider will deliver again. |
| `VoiceCall` | `handle_call` | counters of frames for the buffer, `wire` the events not yet read, `playing` the replies whose marks are outstanding. |
| `Sandbox` | runner, app, owner | `grants`, `switch`, `knownNames`, `handler` (a request in the runner), `runLock`, `containers`. |
| `Documents` | ingest and delete | `stored` is the table, `gDocs`, `gEntities`, `contains`, `related` the graph; one action per statement, and two for the removal of orphans: `CheckOrphans` is its WHERE, `RemoveOrphans` its DETACH DELETE, since Neo4j reads without locks (read committed). `raced` is history: documents linked to an entity between the two. |
| `Retrieval` | search | `look` is the query under way; scores are integers with the fractions brought to one denominator. |
| `Connectors` | `fetch_data` of every connector, `sync_data_source` | `paging` tells the connectors apart (one query, first page, cursor, offset); `remote` changes meanwhile. |
| `SchemaSetup` | `create_required_schema` | `dialect` tells the databases apart; `setup` is a thread's position in the list of tables. |
| `AgentRuns` | `ragleap-agents` | `store`, and `thread`, which holds a stack of runs because a delegate call drives a child run inside it. |
| `RagAsk` | `ask`, `ask_stream`, `retrieve` | `asker` (program counter and locals), `cache`, `cumulative`, `session`. |
| `VectorStores` | `ingest_text`, `delete_document`, search over eleven backends | a backend is a record of the traits the protocol depends on; `rows`, `vecs`, `indexFile`. |
| `GraphIndex`, `GraphMigrations` | `upsert_document`, queries; migrations | `share`, `edge`, `contains`, `entities`; `writer` has the attempt under way. The statement that recomputes an edge is a `ReadShare` for each document and one `WriteEdge`, since it sums without locks; `outpaced` and `outdated` are history: writers whose edge was written after they began to sum it, and the edges that they then wrote. |
| `McpTransport`, `McpClient` | `https_post`; discovery, approval, calls | the caller and the watchdog are two threads; the server may change, lose replies, die. |
| `VoicePull` | the `pull` command | `installed`, `pull` (the planned models and the one it is at, file, hop, token). `dependency_order` recurses in the code; here its call stack is explicit (`Visit`, `NextVisit`), for at most `MaxVisits` steps. |
| `MemoryStore` | memories and audit log | `dbTx` is the open transaction, `logHolder` the file lock of the log, `indexed` the texts in the search index, `traces` those in the files. `compact` is `Optimize`, which fails beside a writer, and `Checkpoint`, which gives up beside anybody and does not say so. `promised` and `lingering` are history: texts `erase()` has returned for, and those of them whose checkpoint was cut short. |
| `Rag`, `Conversations`, `Pipeline` | components that answer one question together | no state of their own: `RagIsSound` joins `GraphIndex`, `GraphMigrations` and `RagAsk`, `ConversationsAreSound` joins `Channels` and `VoiceCall`, `PipelineIsFed` joins `EmployeeMemory`, `Retrieval` and `Connectors`. |
| `Selection` | a list comprehension with a condition, a WHERE clause | `Only(s, T)`: the elements of `s` that are in `T`, without recursion; used by `AuthThrottle`, `EmployeeMemory` and `Connectors`. |
| `MCLibrary`, `MCServer` | several components in one run | `part` says which of them moves; the others stay as they started. They share no state, so this checks each of them on its own. |
| `MCGate` | the gate and the loop in one run | both move the variables of `Autonomy`; `part` says whether the gate runs on its own, with any request and with faults, or below the loop. Each has its own requests and settings (`Gate`, `Loop`, two instances of the modules with other constants). |
| other `MC*` | instances for TLC | values of the constants, symmetry sets. |
| `AutonomyProofs`, `AgentLoopProofs`, `TriggersProofs`, `FolderIngestProofs`, `LibraryProofs`, `ServerProofs`, `KnowledgeProofs`, `AgentRunsProofs` | theorems | section 6. |

Abstractions. A message, a page, a prompt is a model value; what a tool brings back is told apart
by what the taint rule reads of it. Wording, formatting and the crontab arithmetic are left out. Some
fallible steps are merged where nothing can come between them that another actor could see:
reading a data source and fetching from it, a document with its chunks.

Failures. A failed statement and a failed `connect()` differ: most functions swallow the first and
raise the second. Both are separate branches (`DbFaults` in `Autonomy`, `Fault` elsewhere).

The operators named for a deviation (`DeleteRowForgotten`, `StaleOutdated`, ...) are not part of any
specification. Each is what a plausible mistake in the definition below it would look like, and
`PROJECT.json` lists which property finds it.

## 3. The runs

| Run | Bounds | Shows |
|---|---|---|
| `autonomy` | gate: 1 caller, 2 deciders, 1 id, 1 kind of send without approval in a behaviour, 7 requests, 2 settings rows, faults, restarts. Loop: 2 threads, 2 deciders, 2 ids, 2 plans, `MaxSteps` 2, restarts | `UnapprovedSendsPermitted`, `ProcessedStaysClosed`, `LogIsTruthful`, `DecidedAtMostOnce`, `TaintRule` and `RunIsTruthful` although decisions race; `RunKeepsItsBounds`, `RowsOnlyGrow` while they do not |
| `loop_faults` | the loop as in `autonomy` with 1 decider, any database step failing, no restarts, fairness | `DriveEnds`, `ApprovedIsSent` |
| `triggers` | 2 processes, 1 trigger, 1 interval, 1 crontab with two slots, 1 edit, 1 fault, 5 ticks, fairness | `SlotFiredOnce`, `NoBurst`, `ImplementsSchedule`, `DueIsClaimed` |
| `folder` | 1 process, 1 grant, 2 files, 2 contents, 1 file per cycle, `MAX_FAILURES` 2, 2 faults, 2 edits, fairness | `IngestedOnce`, `ApprovedFirst`, `NoGap`, `Converges` |
| `sync` | 1 process, 1 request thread, 1 worker, 2 sources of which one changes once, queue of 1, 2 ticks, Redis may be out of reach, 1 fault, fairness | `DueIsTried` |
| `library` | 2 threads or processes for each package; 1 save fault, kill, remote fault or restart; 3 agent runs with 1 delegation, or 2 of them, 2 calls that may ask and no save fault, 3 upserts, every backend, 2 asks, 2 MCP calls, 5 voice models, 3 memories | `AgentRunsAreSound`, `EdgesAddUp`, `RagIsSound`, `VectorStoresAreSound`, `TransportKeepsItsWord`, `McpCallsAreSafe`, `PullIsSound`, `MemoryIsSound` |
| `server` | throttle: 3 clients, a table for 2, 3 failures, 6 ticks; otherwise 2 threads, 1 fault or kill, 2 or 3 objects; sync: 2 processes, 1 worker and 1 request thread beside each other, 1 source with 2 versions, queue of 2; chat: 2 threads, 2 requests, 2 roles, 2 providers, caps 3 and 1, 1 ledger fault | `LockoutHonoured`, `FailuresCount`, `SetupIsSound`, `SandboxIsSound`, `ConversationsAreSound`, `DocumentsAreSound`, `PipelineIsFed`, `BackOnlyWhenOvertaken`, `ChatIsSound` |
| `autonomy_reject`, `loop_stranded`, `triggers_stall`, `folder_twice`, `agents_replayed` | the smallest instance with the disagreement | section 5 |

`GateTypeOK` (which has `LoopTypeOK` as a part), `LibraryTypeOK` and `ServerTypeOK` are the type
invariants of the components of a run; those of `Triggers` and `FolderIngest` are theorems (section 6).

Many properties of the runs `library` and `server` are conjunctions of named parts, each with its own
comment in its module: `AgentRunsAreSound` is `OutboundApproved`, `EffectOnce` and `DelegationBudget`,
`FailuresCount` is `LockedInTime`, `TrackingBounded` and `LockEarned`, and `RagIsSound`,
`ConversationsAreSound` and `PipelineIsFed` join what is said of several modules (section 2).
A mutant of `PROJECT.json` is listed for most parts.

Deadlock is checked in `loop_faults`, `triggers`, `folder` and `sync`. In `loop_faults` it says
nothing, since the owner can always change the settings: there `DriveEnds` finds threads that are stuck.
In the others a bounded component stops when its requests are used up.

Why the bounds are enough. Each is the least at which the interesting case happens, with
something to spare. Two deciders are enough for a race, since threads meet on one id at a
time. Two steps are enough for the taint rule (one step brings content in, the next one goes
out), and a resume lies between them. One trigger is enough because triggers share only the
job's list; the crontab has two slots and then none, so the fallback to a day from now is
reached. A cycle may ingest one file and there are two, so work is left over for the next cycle.
The throttle's table is smaller than its clients and the clock outlasts window and lockout. In the
libraries two threads are enough for every race that is looked for, since the code has no step that
needs three, and one fault is enough because each error path is entered from a running call; two
children of one root run are needed to pass the delegation limit of one, two calls that ask for
one `resume()` to overtake another, three upserts for a
document that is rewritten beside another one. Where something fails the instances of `library` and
`server` are smaller still, so that the runs end in time: a save fails while there are two runs, a graph
statement while there are two upserts, a process is killed with up to two audit records and before
anything expires, the ledger fails while one request is under way, and of two kinds of failure of one component only one
happens (`SavesFailInPairs` and the definitions after it in `MCLibrary`, `LedgerFailsForOne` and
those after it in `MCServer`); a refused MCP call names one tool only (`RefusedForOne`). The theorems about
these components (section 6) have no such limits. Where a theorem exists (section 6) the size of the instance does not matter.

Bounds by name: `ActionIds` (approvals), `Runs`, `MaxSteps`, `MaxNow`, `MaxEdits`, `MaxFaults`,
`MaxDocs`, `Changing` (the data sources that change), `MaxVersion`, `MaxQueue`, and in the other modules `Max...` for the number of calls
(`MaxChats`, `MaxAsks`, `MaxUpserts`, `MaxPulls`, `MaxSetups`, `MaxSyncs`, `MaxRequests`, `MaxSent`, ...),
of faults (`MaxSaveFaults`, `MaxGraphFaults`, `MaxDockerFaults`, `MaxKills`, ...) and of steps of the
environment (`MaxServerChanges`, `MaxOwnerSteps`, `MaxDamage`, ...). Clocks stop at `MaxNow`; the liveness properties do not
depend on the clock moving. `MaxVisits` bounds the steps of `dependency_order`; `MCLibrary` assumes
`VisitsSuffice`, that every order is finished within it, and TLC evaluates that. A plan that is not
finished counts as failed, so a small bound could hide pulls but not make a wrong one look right.

Symmetry is used for threads, clients, documents and processes, and only in runs without a
liveness property.

## 4. Fairness

- `Autonomy`, `AgentLoop`: weak fairness of each thread's own steps. Threads are scheduled by the
  operating system, hold no locks across calls, and model and tool calls have timeouts.
- `Triggers`, `FolderIngest`, `DataSync`: weak fairness of the job's steps (APScheduler runs a job
  again and again, and each HTTP call has a timeout), of `ServerStarts` (`restart: unless-stopped`
  in `docker-compose.yml`), of `LockDropped` (Postgres ends the sessions of dead clients), of the
  runner and of the workers. That a query of a SQL data source ends is an assumption.
- No fairness for the owner, the clock, edits or anything that fails. Faults are bounded
  where they could go on for ever (`MaxFaults`); in `AgentLoop` they are not, and `DriveEnds` holds all
  the same.

## 5. Where code and text disagree

Each of these is a run that TLC refutes, listed with its quotation under "findings".

- `autonomy_reject`: `process_approval_response` does not look at how many rows its DELETE removed
  (`core/autonomy.py:420`). Two decisions that both read the row are both carried out; the owner may
  be told "rejected and cancelled" for an action that goes out. `DecidedAtMostOnce` shows
  that this is the only way: it holds for every id that was not read twice before its deletion.
- `loop_stranded`: the owner is asked before the run is saved as waiting
  (`core/agent_loop.py:307`). A decision in between finds no run, and the run waits for ever.
- `triggers_stall`: `_claim` computes a crontab's next time before the UPDATE that stores it
  (`core/proactive_triggers.py:325`). When a slot passes in between the same slot is claimed twice.
  The theorems about triggers assume that this does not happen (`Stall = FALSE`).
- `folder_twice`: the cycle after an approval runs in any process (`core/api.py:1090`), next to the
  leader's; both ingest the same file, and no later cycle removes the second document.
- `agents_replayed`: `save_if_status` compares the status of a run, not the call it waits for
  (`ragleap_agents/state.py:144`). A `resume()` that loaded the run at its first call and claims it when it
  waits for its second carries the first one out again, with the old copy of the run. Found when
  `EffectOnce` turned out not to be inductive. `EffectOnce` and `OutboundApproved` leave these runs out
  (`overtaken`) and show that nothing else repeats a call.

Smaller ones, visible in the models (most of them also listed under "hazards"), without a run of
their own:

- a role that only its tags make sensitive is taken for not sensitive while its row cannot be read
  (`core/employees/sensitivity.py:58`; line 13 says "fail closed");
- outside content whose first line holds "refused", "failed" or "not enabled" does not taint a run
  (`core/agent_loop.py:228`); the runs leave out this kind of result ("marked");
- a process that loses its connection in the middle of a job goes on with it
  (`core/scheduler_leader.py:102`);
- `ai_speaking` is reset as soon as a reply is handed over (`channels/voice/router.py:194`), where
  the docstring of `send_mark` (50-53) has listening resume at the mark; and an utterance cut by the
  hard cap may be shorter than `MIN_SPEECH` (144-148);
- the boost of an indirect link is larger than that of a direct one (`core/retrieval.py:263-264`;
  the docstring at 273-274 ranks direct matches first);
- retrying an upsert is called safe (`ragleap_graph/__init__.py:872`); an attempt cut after it
  deleted its shares leaves edges with a weight nobody accounts for (`marred` in `GraphIndex`);
- the strategies of `query_rewrite` "fail open", but when every provider failed the apology that
  `generate_answer` returns is taken for the rewritten query (`RagAsk`, `SorryText`);
- on PostgreSQL with pgvector the index over `vector(3072)` is refused, so a setup never succeeds
  there (`SetupRepairs`);
- the weights of edges are said to be "still correctly aggregating signal from genuinely different
  documents" (`ragleap_graph/__init__.py:687-689`), but the statement that sums the shares holds no lock
  while it reads them: two documents that share a pair and are written at the same time may leave the
  sum of one of them (`outdated` in `GraphIndex`), until the pair is written again;
- `erase()` checkpoints "so the deleted text is no longer in the database file"
  (`ragleap_memory/sqlite_store.py:292-293`), but `PRAGMA wal_checkpoint` beside a reader or a writer of
  another process gives up after the timeout and reports that in a row nobody reads (line 318):
  `erase()` returns all the same (`lingering` in `MemoryStore`);
- `delete_document_graph` removes "every Entity that no remaining document mentions"
  (`core/graph.py:257-258`), but a document that is linked to one between the look for orphans and their
  removal loses the entity and the link (`raced` in `Documents`);
- offset paging misses a record when one before it is removed (`razorpay_connector.py:96`), and of the
  records of one user the last one listed is kept (`core/integrations/service.py:207-223`): the oldest,
  where a source lists the newest first;
- `get_last_reply` returns the last reply of a chat, which is not always the one the customer
  answers (`core/employees/feedback.py:56`);
- the inbox looks among the newest 200 pending actions only (`core/autonomy.py:246`);
- a changed interval counts only from the next firing on (`core/proactive_triggers.py:256`);
- a failed sync sets `last_sync_at`, so the retry waits for the whole interval
  (`core/integrations/service.py:242`; `core/api.py:73` says "retry on the next tick").

## 6. What is proved

TLAPS checks the following for every value of the constants that satisfies the named assumptions:
any number of threads, ids, clients, documents, tables. Each assumption is an `ASSUME` of the
component's module, so TLC evaluates it in the runs; the hypotheses that a theorem adds are said
with it. Each inductive invariant is a conjunction of named parts and was checked by TLC before it was
proved; a proof has one step for each action.

`AutonomyProofs` (`RequestsAssumption`, `SettingsAssumption`, `IdsAssumption`, `FlagsAssumption`)

- `TypeCorrect`: `TypeInv`, which is `TypeOK` with `LocalOK` (a thread that holds an id or a request
  holds a real one).
- `UnapprovedSends`: `UnapprovedSendsPermitted`. Not inductive as it stands, since what is sent
  was decided some steps before: `PermitInv` says the same of every thread that is about to send,
  and that the settings it read were in force.
- `ProcessedClosed`: `ProcessedStaysClosed`, with `ClosedInv`: a thread past its DELETE has an id
  that is handed out and no longer in the table, which no other thread can undo because ids are
  fresh.
- `DecidedOnce`: `DecidedAtMostOnce`, with `OnceInv`: an id that was not raced is held by one thread
  at most (`SoleHolder`), and what has happened to it follows from where that thread is
  (`EffectOfHolder`). A new decision finds the row, so by `ClosedInv` and `ProcessedStaysClosed`
  nothing has happened to it yet.
- `LogTruthful`: `LogIsTruthful`, with `SentFirst`: a thread that is about to log a success has sent.

`AgentLoopProofs` (those of `Autonomy`, and `LoopAssumption`)

- `LoopCorrect`: `LoopInv`, that is the types with `NoteOK` (a thread in `on_resolved` holds a row that
  waits for the id it decides) and `DrvOK` (a driver's copy waits for nothing, and in the gate it asks
  for what was proposed).
- `WellTyped`: `GateTypeOK`, the types of the gate and the loop together, under the loop. For the gate
  on its own it is `TypeCorrect` of `AutonomyProofs`.
- `LoopImplementsGate`: every step of the loop is a step of `Autonomy` or none, so the theorems of
  `AutonomyProofs` hold of the gate under the loop.
- `RunsTruthful`: `RunIsTruthful`. The table alone is not inductive, because drivers and deciders save
  copies they read long before: `RowsTruthful` says it of every row somebody may still save (`Known`).
- `TaintHolds`: `TaintRule`, with `RowsTainted` over the same rows. Its hypothesis
  `"marked" \notin ResultKinds` leaves out the results of section 5 that do not taint.
- `RowsGrow` and `RunBounds`: `RowsOnlyGrow` and `RunKeepsItsBounds`, both as long as decisions do not
  race. `DriverInv`: one thread drives a run, it knows more than the row, a decider's row is still the
  table's. `BudgetInv` counts what was sent for a run against the steps of its row and of its
  driver's copy; an open approval leaves room for one more.

`TriggersProofs` (`ProcsAssumption`, `TriggersAssumption`, `NoneAssumption`; all but `TypeCorrect` with
`Stall = FALSE`, see section 5)

- `TypeCorrect`, with `JobOK`.
- `FiredOnce`: `SlotFiredOnce`, with `SlotInv`: a time computed for a claim lies in the future
  (`ComputedOK`), a trigger that exists is due after every due time claimed so far (`ClaimsOK`),
  and ids are fresh (`FreshOK`).
- `Implements`: `ImplementsSchedule`. Every step maps to a firing, a rescheduling, a tick or a
  stutter of `TriggerSchedule`.
- `NoBursts`: `NoBurst`, with `BurstInv`: the time a job is about to store is the next slot of its
  crontab, or a day ahead when there is none (`NextOK`), and until a trigger is edited its next run lies
  as far after its last claim as its schedule asks for (`SpacingOK`).

`FolderIngestProofs` (`ProcsAssumption`, `FolderAssumption`)

- `TypeCorrect`: `TypeOK`, with the limits on files and failures and the uniqueness of ids.
- `NothingUnapproved`: `ApprovedFirst`, for any number of processes. The invariant `IngestInv` adds
  `WorkOK`: a cycle that deletes or ingests holds an approved grant and files of its manifest. The
  code does not ask for an approval when the grant has documents already; that this is sound is
  `ApprovedFirst` itself, so the two have to be proved together.
- `OnceIngested` and `GapFree`: `IngestedOnce` and `NoGap`, with `SyncInv`: a file
  that a cycle still plans to ingest has no document with its present content, and what it plans to delete
  can be spared (`PlansHold`). The hypothesis `Alone` is one server process; `folder_twice` shows that it is needed.

`AgentRunsProofs` (`AgentAssumption`, `DelegateAssumption`, `RowAssumption`)

Three invariants, each resting on those before it. `Shape` and `Stage` are what they say of one
thread, so a step is proved for the thread that takes it and carried over to the others by a lemma
(`BudgetStep`, `OwnerStep`, `TaintStep`).

- `BudgetHolds`: `DelegationBudget`, with `BudgetInv`. The bound in the property is not inductive: a
  delegation that begins just below the budget may run a whole child, and that child another. `Shape`
  keeps `childSteps` below what the runs still on the stack leave (`AllowedSteps`), which shrinks with every
  child and grows back when it returns.
- `EffectIsOnce`: `EffectOnce`, with `OwnerInv`: with an atomic store, a run is in the hands of one thread
  at most (`Apart`), which is not stored as waiting meanwhile, and whoever has it in hand, or else the stored
  copy that waits, knows of every call that had its effect (`Knows`, `StoreKnows`). This is where the proof
  first failed: a `resume()` that loaded the run before another one carried it on claims it with the old
  copy. That is the finding `agents_replayed`; `overtaken` holds the runs it has happened to.
- `NothingGoesLoose`: `OutboundApproved`, with `TaintInv`: a thread knows of each run in its hands that
  it has been shown outside content (`Told`): by its flag, by the record it is about to write, or because
  it is inside a delegate call, which taints when it returns. The last case is `DelegateAssumption`.
- `AgentRunsHold`: the three together, `AgentRunsAreSound`.

`LibraryProofs` (`MemoryAssumption`, `McpAssumption`, `NetAssumption`, `VectorAssumption`,
`GraphAssumption`, `MigrationAssumption`, `AskAssumption`, and `VoiceAssumption` of `VoicePull`)

- `MemorySound`: `MemoryIsSound`, with `StoreInv`: what the tables say of their rows (`TableOK`), what the
  open transaction will commit (`ChangeOK`), and where its caller stands between the log's lock, its
  record, the commit and the two statements of `compact()` (`CallerOK`), also after a kill. That erased
  text is gone is said of the erasures whose checkpoint was not cut short, and of all once one is not.
- `McpCallsSafe`: `McpCallsAreSafe`, with `McpInv`: the request on the wire is the last call, it has not
  run, and it was cleared before (`RequestOK`), whatever the server changes meanwhile.
- `TransportKept`: `TransportKeepsItsWord`, with `NetInv`: the address connected to is the one checked
  (`Pinned`), a body that ends is whole unless the flag says why not (`BodyOK`), and the watchdog sets
  the flag before it shuts anything down (`WatchdogOK`).
- `VectorStoresSound`: `VectorStoresAreSound`, for each of the eleven backends, with `VecInv`. That a
  stored document is found is not inductive: the ids an ingest hands out must be new to rows, vectors
  and index file alike (`IdsOK`), what an ingest has written so far must be findable before it
  declares the document stored (`IngestsOK`), a clean delete has nobody beside it who adds to its
  document (`DeletesOK`), and two ingests under way work on different documents (`Apart`).
- `RagSound`: `RagIsSound`, in three parts. `GraphInv`: what a document has been given while
  one upsert writes it is its text but for what the upsert has left to do (`Written`). `MigInv`: a
  runner has given their key to all the nodes it is past (`Passed`, `RunnerOK`), although upserts go on
  beside it. `AskInv`: `RecordsLeft` says how often a call can still be charged, and the bound on
  overspending counts, of each call that was under way when the budget was reached, only the charges it
  has made or can no longer make (`Spent`, `CostOK`); and a call has nothing in the history before its
  answer is there (`HistoryOK`).
- `GraphEdgesAddUp`: `EdgesAddUp`, with `SharesInv`: an edge is the sum of its shares, or
  `outdated`, or some upsert is at it or has yet to come to it; as long as one that was not
  outpaced is at it, one of those has read the shares that there are, or somebody comes later (`LinkOK`);
  and what an upsert is about to delete is known to it (`KnowsOld`).
  That a sum of shares is a number, and positive just when one of them is
  (`SumOfNumbers`), is proved from the recursion behind `SumFunction`, for a least set at which it would fail.
- `PullSound`: `PullIsSound`, with `PullInv`: the plan of a command holds all that its model needs,
  what comes before the model it is at is whole (`PlanOK`) and stays so whatever other commands do
  (`WholeStays`), and a download that has left the token's host has given the token up (`PullOK`).
  That a plan is closed under dependencies (`OrderOK`) is shown for the least step at which it would fail.

`ServerProofs` (`SandboxAssumption`, `SyncAssumption`, `ThrottleAssumption`, `ChannelsAssumption`,
`RetrievalAssumption`, `ConnectorAssumption`, `EmployeeAssumption`, and `VoiceAssumption` of
`VoiceCall`)

- `SandboxSound`: `SandboxIsSound`, with `BoxInv`: a request in the runner saw what its plan mounts
  (`PlanIsSeen`), the lock belongs to one request (`LockOK`), and each container that is not its own is
  accounted for by a failed Docker call or a killed runner (`ContainersOK`; cardinalities).
- `OnlyOvertakenGoesBack`: `BackOnlyWhenOvertaken`, for any number of processes, workers and
  request threads, with a queue or without. Its `BackInv`: what a sync about to store carries is no older
  than what is stored, unless it was overtaken, and no source holds less than what is stored of it.
- `LockoutKept`: `LockoutHonoured`, with `LockInv`: a lockout that is not over is in the table, which
  `_make_room` does not undo, and nobody has been answered during it.
- `FailuresCounted`: `FailuresCount`, with `CountInv`. Its heart is `CountOK`: the times kept
  of a client are the last of its wrong keys, those left out are all too old, and there are fewer than
  the limit. Pruning from the front keeps this because times never fall. A client that `_make_room`
  throws out of a full table begins a new count, as it does after a right key.
- `ConversationsSound`: `ConversationsAreSound`. `ChanInv`: what is left of a delivery came by the
  channel it was signed for (`DeliveryOK`), and what the log of last replies names was used for that
  chat (`LogOK`). `CallInv`: a frame heard during a reply has the reply's mark behind it on the
  wire, unless the reply still plays (`MarkFollows`), so what was heard then does not outlive that mark.
- `PipelineFed`: `PipelineIsFed`, in three parts.
  `EmpInv`: a row has an id of its own (`RowsOK`, `IdsBelow`), a rewrite deletes rows of the
  profile only (`DropsOK`), whoever seeds has written the seeds before the one it is at (`SeedsOK`), and as
  long as no two instructions crossed the last one is being written or is the newest (`OwnerOK`).
  `LookInv`: the lists of a search hold no chunk twice (`ListsOK`). `RetrievalAssumption` says
  that neighbouring ranks differ by at least a millionth after rounding; the product's RRF_K of 60 satisfies it
  up to a `top_k` of 313, while a RRF_K of 1000 would let ranks tie.
  `ConnInv`: what was there when a fetch began has been read or is still ahead (`ReadOrAhead`), and
  what is older than something read comes after it (`OlderComesAfter`), so that in a list which is newest first the
  last one to be stored is the oldest; how the four kinds of paging get there is `PagingOK`.

`KnowledgeProofs` (`DocumentsAssumption`, `SetupAssumption`, `ChatAssumption`)

- `DocumentsSound`: `DocumentsAreSound`, with `DocInv`: the graph holds what the texts of stored or
  deleted documents mention (`GraphOK`), what was written of a stored document that was not `raced` is
  there but for what its thread has left to do (`WrittenIsThere`), and as long as no work was left half done
  (`torn`), some thread is at whatever the graph lacks or has too much (`SomebodyAtIt`).
- `SetupSound`: `SetupIsSound`, with `SetupInv`: which tables stand with which indexes in each database
  (`SchemaOK`), and a setup accounts for every table before the one it is at (`AccountsFor`).
- `ChatSound`: `ChatIsSound`, with `ChatInv`: `CallsLeft` bounds the calls a request can still make
  before it looks at the cap again. What was recorded over the cap and what is `Outstanding` together stay
  within the bound of the property (`CapOK`); the bound on what was recorded alone is not
  inductive. `RequestOK` says which roles a request of an untrusted caller can have at each step.

Induction. The library's induction theorems cannot be used (they take an operator as a parameter),
so what needs induction over a sequence, a size or a number of steps goes by a least counterexample:
`WFMin` on the numbers at which the statement would fail (`LeastOne`). What a selection returns is stated through a
map of indices instead (`Picks` in `ServerProofs`): increasing, into the list, onto the members wanted.

## 7. What is only model-checked

- Liveness (`DriveEnds`, `ApprovedIsSent`, `DueIsClaimed`, `Converges`, `DueIsTried`): out of the
  prover's reach.
- The type invariants that the runs `library` and `server` check of several components at once
  (`LibraryTypeOK`, `ServerTypeOK`). They are defined over the composition in `MCLibrary` and
  `MCServer`, which exists for TLC only. The components' inductive invariants say of the
  variables what the proofs need, and that is their type in most of them.

Every other invariant and action property of a passing run is stated by a theorem.

What their properties leave out, because the code does not promise it, is said where they are
defined, mostly with a history variable: upserts of one document side by side or cut short, and edges
last written by an upsert that was outpaced (`GraphIndex`, `marred`, `outdated`), fetches during
which records are removed (`Connectors`, `Shifted`), stores without `save_if_status` (`AgentRuns`,
`atomic`), two instructions written at once (`EmployeeMemory`, `crossed`), documents deleted while
they are ingested or linked in the midst of a removal of orphans (`Documents`, `torn`, `raced`), text
erased beside another connection (`MemoryStore`, `lingering`), a sync that another one overtook
(`DataSync`, `overtaken`). Each of these exceptions is as narrow as the code allows: the step that makes it
is an action of the module, and TLC takes it in the runs.

Assumed of the surroundings: Neo4j runs a statement under read committed, so what it reads is not
locked and what it writes is, until it commits; `GraphIndex` and `Documents` depend on it. An HTTP 4xx
from an MCP server means that the tool did not run (`McpClient`). The fallback provider of the budget
is configured (`RagAsk`). SQLite's own checkpoint after a thousand pages is left out (`MemoryStore`):
it could only remove text earlier.

## 8. Plan

Done: the modules of section 2 and the theorems of section 6. Next:

1. Sources that come and go in `DataSync`.
2. The liveness properties rest on TLC alone; a proof would need a prover for ENABLED and leads-to.

## 9. What is not modelled, and why

- Chunking, embedding, parsing, language detection, speech recognition and synthesis: functions of
  data.
- Tool I/O (HTTP, file reads, code execution) and vendor payloads of channels and connectors: in the
  models as results that succeed, fail or bring content.
- CRUD of roles, settings and tasks: one statement on one row, no restricted transitions.
- Static tools, the Java ports, charts and playbooks: no state, ports of the same code, deployment.

## 10. Running

    tlc -workers 2 -config MCGate.cfg MCGate
    tlapm AutonomyProofs.tla

and likewise for the other runs of `PROJECT.json` and the other `*Proofs` modules. Each run takes
about three minutes or less with two workers. From nothing, `ServerProofs` and `LibraryProofs` take
about ten minutes, each of the other proof modules three or less.
