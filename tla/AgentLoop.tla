----------------------------- MODULE AgentLoop ------------------------------
(***************************************************************************)
(* The act-observe loop of core/agent_loop.py on top of the autonomy gate. *)
(* A run is a row of agent_runs; the thread that drives it works on its    *)
(* own copy and saves it after each step.  A step that needs the owner     *)
(* saves the run as waiting_approval and ends the thread; on_resolved,     *)
(* called by the thread that processes the owner's decision, saves the     *)
(* outcome and starts a new thread for the rest of the run.                *)
(*                                                                         *)
(* The model's proposals, the token budget and the tools' results are      *)
(* arbitrary.  A result is told apart by what decides about taint: whether *)
(* outside content came with it, and whether its first line has one of the *)
(* words _external_content looks for.                                      *)
(***************************************************************************)
EXTENDS Autonomy, Sequences

CONSTANTS
  Runs,        \* runs that may be started; bounds the requests that start one
  Plans,       \* the actions the model may propose: [tool, channel, role, n], all different
  MaxSteps,    \* AGENT_LOOP_MAX_STEPS, clamped to 1..8 by max_steps
  ResultKinds, \* results of a tainting tool, a subset of AllResults
  NoRun, NoPlan \* "no such row", "no proposal"

OUTBOUND_TOOLS == {"send_webhook", "send_slack", "send_email", "mcp_call", "fetch_page"}
TAINTING_TOOLS == {"fetch_page", "mcp_call", "list_files", "read_file"}

\* "content": outside text under a neutral first line; "refusal": the tool's own
\* refusal or failure line; "marked": outside text under a first line that holds
\* "refused", "failed" or "not enabled", such as the URL of a page about failed jobs.
AllResults == {"content", "refusal", "marked"}

RequestOf(p, force) == [type |-> p.tool, channel |-> p.channel, role |-> p.role, force |-> force]

ASSUME LoopAssumption ==
  /\ MaxSteps \in 1..8
  /\ ResultKinds \subseteq AllResults
  /\ ResultKinds # {}
  /\ \A p \in Plans, force \in BOOLEAN : RequestOf(p, force) \in Requests
  /\ NoRun \notin Runs

VARIABLES
  run,         \* the table agent_runs
  drv,         \* the thread in _drive: where it is, its run, its copy, how it will finish
  note,        \* the run a thread in on_resolved has read, with its row
  loopEnabled, \* AGENT_LOOP_ENABLED, an environment variable of the process
  \* history
  started,     \* the runs that were started
  idRun,       \* the run an approval was asked for
  acted        \* how many actions were sent on behalf of a run

loopHist == <<started, idRun, acted>>
loopVars == <<run, drv, note, loopEnabled, loopHist>>
allVars  == <<vars, loopVars>>

StepStatus == Returned \cup {"rejected"}
Steps == [plan : Plans, status : StepStatus, res : AllResults \cup {"plain"}, id : ActionIds \cup {NoId}]
Ended == {"done", "failed", "rejected", "budget"}
RunRows ==
  [status  : {"running", "waiting_approval"} \cup Ended,
   steps   : Seq(Steps),
   tainted : BOOLEAN,
   pending : ActionIds \cup {NoId}]
NewRun == [status |-> "running", steps |-> <<>>, tainted |-> FALSE, pending |-> NoId]

NoNote  == [run |-> NoRun, row |-> NewRun]
IdleDrv == [pc |-> "idle", plan |-> NoPlan, run |-> NoRun, copy |-> NewRun, to |-> "done", resumed |-> FALSE]

LoopTypeOK ==
  /\ run \in [Runs -> RunRows \cup {NoRun}]
  /\ drv \in [Callers ->
       [pc : {"idle", "think", "gate", "finish"}, plan : Plans \cup {NoPlan},
        run : Runs \cup {NoRun}, copy : RunRows, to : Ended, resumed : BOOLEAN]]
  /\ note \in [Resolvers -> [run : Runs \cup {NoRun}, row : RunRows]]
  /\ loopEnabled \in BOOLEAN
  /\ started \subseteq Runs
  /\ idRun \in [ActionIds -> Runs \cup {NoRun}]
  /\ acted \in [Runs -> Nat]

\* The tables and threads of the gate and of the loop on top of it are well typed.
GateTypeOK == TypeOK /\ LoopTypeOK

-----------------------------------------------------------------------------
(* Taint. *)

ExternalContent(res) == res = "content"

Results(p) == IF p.tool \in TAINTING_TOOLS THEN ResultKinds ELSE {"plain"}

\* Outside content in an executed step taints the run.
TaintAfter(tainted, p, res) == tainted \/ (p.tool \in TAINTING_TOOLS /\ ExternalContent(res))

\* A tainted run must ask the owner before each outbound action.
ForceSemi(row, p) == row.tainted /\ p.tool \in OUTBOUND_TOOLS

-----------------------------------------------------------------------------
(* _drive. *)

\* run(): a request starts a run in memory; nothing is stored yet.
StartRun(d, x) ==
  /\ loopEnabled
  /\ drv[d].pc = "idle"
  /\ x \notin started
  /\ started' = started \cup {x}
  /\ drv' = [drv EXCEPT ![d] = [IdleDrv EXCEPT !.pc = "think", !.run = x]]
  /\ UNCHANGED <<vars, run, note, loopEnabled, idRun, acted>>

AtLimit(row) == Len(row.steps) >= MaxSteps
Proposed(row, p) == \E i \in 1..Len(row.steps) : row.steps[i].plan = p

\* A loop that meets its step limit and does not return.
StopBelowLimit(d) ==
  /\ drv[d].pc = "think"
  /\ ~AtLimit(drv[d].copy)
  /\ drv' = [drv EXCEPT ![d] = [@ EXCEPT !.pc = "finish", !.to = "done"]]
  /\ UNCHANGED <<vars, run, note, loopEnabled, loopHist>>

\* The loop ends: no tools, the step limit, the model's "done", a proposal that is
\* invalid or was made before ("done"); the budget; a failed model call.
StopThinking(d) ==
  /\ drv[d].pc = "think"
  /\ \E to \in IF AtLimit(drv[d].copy) THEN {"done"} ELSE {"done", "budget", "failed"} :
       drv' = [drv EXCEPT ![d] = [@ EXCEPT !.pc = "finish", !.to = to]]
  /\ UNCHANGED <<vars, run, note, loopEnabled, loopHist>>

\* The model proposes a new action, which goes to execute_or_request.
Propose(d, p) ==
  /\ drv[d].pc = "think"
  /\ ~AtLimit(drv[d].copy)
  /\ ~Proposed(drv[d].copy, p)
  /\ Dispatch(d, RequestOf(p, ForceSemi(drv[d].copy, p)))
  /\ drv' = [drv EXCEPT ![d] = [@ EXCEPT !.pc = "gate", !.plan = p]]
  /\ UNCHANGED <<run, note, loopEnabled, loopHist>>

\* The thread inside execute_or_request.
InGate(d) ==
  /\ drv[d].pc = "gate"
  /\ GateStep(d)
  /\ acted' = IF call[d].pc = "send" THEN [acted EXCEPT ![drv[d].run] = @ + 1] ELSE acted
  /\ idRun' = [id \in ActionIds |-> IF id \in usedIds' \ usedIds THEN drv[d].run ELSE idRun[id]]
  /\ UNCHANGED <<run, drv, note, loopEnabled, started>>

\* What the thread's copy becomes when the gate has answered.
Observed(d, res) ==
  LET row    == drv[d].copy
      status == call[d].pc
      step   == [plan |-> drv[d].plan, status |-> status, res |-> res, id |-> call[d].id]
  IN  [status  |-> IF status = "pending_approval" THEN "waiting_approval" ELSE row.status,
       steps   |-> Append(row.steps, step),
       tainted |-> IF status = "executed" THEN TaintAfter(row.tainted, drv[d].plan, res) ELSE row.tainted,
       pending |-> IF status = "pending_approval" THEN call[d].id ELSE row.pending]

\* A thread that goes on thinking after the owner was asked.
AfterGateThinksOn(d, row) ==
  [drv[d] EXCEPT !.pc = IF call[d].pc = "skipped" THEN "finish" ELSE "think",
                 !.plan = NoPlan, !.copy = row, !.to = "done"]

\* Where the thread goes on: it ends when the owner is asked, thinks on after an
\* executed step, and finishes after a skipped or failed one.
AfterGate(d, row) ==
  LET there(pc, to) == [drv[d] EXCEPT !.pc = pc, !.plan = NoPlan, !.copy = row, !.to = to]
  IN  CASE call[d].pc = "pending_approval" -> IdleDrv
        [] call[d].pc = "executed"         -> there("think", "done")
        [] call[d].pc = "skipped"          -> there("finish", "done")
        [] OTHER                           -> there("finish", "failed")

\* What execute_or_request brought back.
Brought(d) == IF call[d].pc = "executed" THEN Results(drv[d].plan) ELSE {"plain"}

\* The step is appended and saved, after execute_or_request has asked the owner.
Observe(d) ==
  /\ drv[d].pc = "gate"
  /\ \E res \in Brought(d) :
       LET row == Observed(d, res)
       IN  /\ run' = [run EXCEPT ![drv[d].run] = row]
           /\ drv' = [drv EXCEPT ![d] = AfterGate(d, row)]
  /\ Return(d)
  /\ UNCHANGED <<note, loopEnabled, loopHist>>

\* An exception in _drive: run() gives up; a thread that resumed a run tries, once, to finish what
\* it has in memory as failed.
Abandon(d, row) ==
  drv' = [drv EXCEPT ![d] = IF drv[d].resumed
            THEN [IdleDrv EXCEPT !.pc = "finish", !.run = drv[d].run, !.copy = row, !.to = "failed"] ELSE IdleDrv]

\* _save fails, or execute_or_request raises.
DriveRaises(d) ==
  /\ drv[d].pc = "gate"
  /\ \/ DbFaults /\ Return(d) /\ \E res \in Brought(d) : Abandon(d, Observed(d, res))
     \/ CallRaises(d) /\ Abandon(d, drv[d].copy)
  /\ UNCHANGED <<run, note, loopEnabled, loopHist>>

\* _finish: a run that did nothing leaves no row.
Finish(d) ==
  /\ drv[d].pc = "finish"
  /\ LET row == [drv[d].copy EXCEPT !.status = drv[d].to, !.pending = NoId]
     IN  \/ /\ run' = IF row.steps = <<>> THEN run ELSE [run EXCEPT ![drv[d].run] = row]
            /\ drv' = [drv EXCEPT ![d] = IdleDrv]
         \/ DbFaults /\ run' = run /\ Abandon(d, drv[d].copy)
  /\ UNCHANGED <<vars, note, loopEnabled, loopHist>>

-----------------------------------------------------------------------------
(* on_resolved, called by the thread that processed the owner's decision. *)

\* _get_by_pending and the checks on the row.
WaitingFor(id) ==
  {x \in Runs : run[x] # NoRun /\ run[x].pending = id /\ run[x].status = "waiting_approval"
                /\ run[x].steps # <<>>}

\* The steps of a decision before the notification, as in the gate.
Decide(r) ==
  /\ DecisionStep(r)
  /\ acted' = IF resolve[r].pc = "act" /\ resolve[r].ok
              THEN [acted EXCEPT ![idRun[resolve[r].id]] = @ + 1] ELSE acted
  /\ UNCHANGED <<run, drv, note, loopEnabled, started, idRun>>

NotifyRead(r) ==
  /\ resolve[r].pc = "notify" /\ note[r].run = NoRun
  /\ \E x \in WaitingFor(resolve[r].id) :
       note' = [note EXCEPT ![r] = [run |-> x, row |-> run[x]]]
  /\ UNCHANGED <<vars, run, drv, loopEnabled, loopHist>>

\* No run waits for the id (or the lookup failed, which is swallowed).
NotifyNone(r) ==
  /\ note[r].run = NoRun
  /\ WaitingFor(resolve[r].id) = {} \/ DbFaults
  /\ NotifyNobody(r)
  /\ UNCHANGED loopVars

\* A resume that does not look at what the approved step brought in.
ResolvedWithoutTaint(row, ok, res) ==
  [row EXCEPT !.status = IF ok THEN "running" ELSE "rejected",
     !.steps[Len(row.steps)].status = IF ok THEN "executed" ELSE "rejected",
     !.steps[Len(row.steps)].res = res,
     !.pending = NoId]

\* A resume that takes every decision for a YES.
ResolvedAlwaysExecuted(row, ok, res) ==
  [row EXCEPT !.status = IF ok THEN "running" ELSE "rejected",
     !.steps[Len(row.steps)].status = "executed",
     !.pending = NoId]

\* A resume that starts the run's list of steps anew.
ResolvedForgetsSteps(row, ok, res) ==
  [row EXCEPT !.status = IF ok THEN "running" ELSE "rejected", !.steps = <<>>, !.pending = NoId]

\* The row with its last step resolved.
Resolved(row, ok, res) ==
  LET n == Len(row.steps)
      p == row.steps[n].plan
  IN  [status  |-> IF ok THEN "running" ELSE "rejected",
       steps   |-> [row.steps EXCEPT ![n].status = IF ok THEN "executed" ELSE "rejected", ![n].res = res],
       tainted |-> IF ok THEN TaintAfter(row.tainted, p, res) ELSE row.tainted,
       pending |-> NoId]

\* The row is saved; after a YES a new thread drives on with it, or, with the loop
\* switched off meanwhile, only finishes it.
NotifySave(r) ==
  /\ note[r].run # NoRun
  /\ \E res \in IF resolve[r].ok THEN Results(note[r].row.steps[Len(note[r].row.steps)].plan) ELSE {"plain"} :
       LET row == Resolved(note[r].row, resolve[r].ok, res)
       IN  /\ run' = [run EXCEPT ![note[r].run] = row]
           /\ IF resolve[r].ok
              THEN \E d \in Callers :
                     /\ drv[d].pc = "idle"
                     /\ drv' = [drv EXCEPT ![d] =
                          [pc |-> IF loopEnabled THEN "think" ELSE "finish", plan |-> NoPlan,
                           run |-> note[r].run, copy |-> row, to |-> "done", resumed |-> loopEnabled]]
              ELSE drv' = drv
  /\ Reply(r)
  /\ note' = [note EXCEPT ![r] = NoNote]
  /\ UNCHANGED <<dbVars, call, usedIds, everSet, autoSent, sends, raced, loopEnabled, loopHist>>

\* The save fails: _notify_agent_loop swallows it.
NotifyFails(r) ==
  /\ DbFaults
  /\ note[r].run # NoRun
  /\ Reply(r)
  /\ note' = [note EXCEPT ![r] = NoNote]
  /\ UNCHANGED <<dbVars, call, usedIds, everSet, autoSent, sends, raced, run, drv, loopEnabled, loopHist>>

-----------------------------------------------------------------------------
\* A stopped server forgets its threads; the switch may be different when it starts again.
Restart ==
  /\ Crash
  /\ drv' = [d \in Callers |-> IdleDrv]
  /\ note' = [r \in Resolvers |-> NoNote]
  /\ loopEnabled' \in BOOLEAN
  /\ UNCHANGED <<run, loopHist>>

LoopInit ==
  /\ Init
  /\ run = [x \in Runs |-> NoRun]
  /\ drv = [d \in Callers |-> IdleDrv]
  /\ note = [r \in Resolvers |-> NoNote]
  /\ loopEnabled = TRUE
  /\ started = {}
  /\ idRun = [id \in ActionIds |-> NoRun]
  /\ acted = [x \in Runs |-> 0]

DriveStep(d) == StopThinking(d) \/ (\E p \in Plans : Propose(d, p)) \/ InGate(d) \/ Observe(d) \/ Finish(d)
ResolveStep(r) == Decide(r) \/ NotifyRead(r) \/ NotifyNone(r) \/ NotifySave(r)

LoopNext ==
  \/ \E d \in Callers, x \in Runs : StartRun(d, x)
  \/ \E d \in Callers : DriveStep(d) \/ DriveRaises(d)
  \/ \E r \in Resolvers : ResolveStep(r) \/ NotifyFails(r) \/ (ResolveRaises(r) /\ UNCHANGED loopVars)
  \/ Owner /\ UNCHANGED loopVars
  \/ Restart

LoopSpec == LoopInit /\ [][LoopNext]_allVars

\* Threads that have started are scheduled; every call they make returns (each model,
\* tool and database call has a timeout).
LoopFairness ==
  /\ \A d \in Callers : WF_allVars(DriveStep(d))
  /\ \A r \in Resolvers : WF_allVars(ResolveStep(r))

LoopFairSpec == LoopSpec /\ LoopFairness
-----------------------------------------------------------------------------
(* Properties. *)

\* What every thread and every row knows of a run.
Copies ==
  {run[x] : x \in {y \in Runs : run[y] # NoRun}} \cup {drv[d].copy : d \in Callers}

\* The result of a page fetch or of an MCP call is in the run.
OutsideContent(step) ==
  /\ step.status = "executed"
  /\ step.plan.tool \in {"fetch_page", "mcp_call"}
  /\ step.res # "refusal"

\* The taint rule of the module's docstring: once a fetch_page or mcp_call result has
\* entered a run, every later outbound action that is executed had the owner's approval.
TaintRule ==
  \A row \in Copies : \A i, j \in 1..Len(row.steps) :
    /\ i < j
    /\ OutsideContent(row.steps[i])
    /\ row.steps[j].status = "executed"
    /\ row.steps[j].plan.tool \in OUTBOUND_TOOLS
    => row.steps[j].id # NoId

\* A run never counts an action as executed that the gate has not sent.
RunIsTruthful ==
  \A row \in Copies : \A i \in 1..Len(row.steps) :
    row.steps[i].status = "executed" =>
      IF row.steps[i].id = NoId
      THEN \E a \in autoSent : a.req.type = row.steps[i].plan.tool
      ELSE sends[row.steps[i].id] > 0

\* No two threads have read one pending row at the same time (see DecidedAtMostOnce).
Serial == raced = {}

\* While decisions are serial, a run sends at most MaxSteps actions, across all the
\* threads that drive it before and after approvals.
ActionBudget == Serial => \A x \in Runs : acted[x] <= MaxSteps

\* While decisions are serial, a run has one driver.
OneDriver ==
  Serial => \A d, e \in Callers : drv[d].pc # "idle" /\ drv[d].run = drv[e].run => d = e

\* While decisions are serial, no save overwrites what another thread has saved: steps
\* and taint only grow.
RowsOnlyGrow ==
  [][Serial => \A x \in Runs : run[x] # NoRun =>
       /\ Len(run'[x].steps) >= Len(run[x].steps)
       /\ run[x].tainted => run'[x].tainted]_run

\* The docstring: "approving or rejecting the pending action resumes or ends the run".
\* A run that waits for an id nobody can decide any more is stranded.
DecisionReachesRun ==
  \A x \in Runs :
    run[x] # NoRun /\ run[x].status = "waiting_approval" =>
      \/ run[x].pending \in pending
      \/ \E r \in Resolvers : resolve[r].pc # "idle" /\ resolve[r].id = run[x].pending

\* A started run comes to an end or to an approval: its thread ends.
DriveEnds == \A d \in Callers : drv[d].pc # "idle" ~> drv[d].pc = "idle"

\* While decisions are serial a run has one driver at a time and acts no more often than its step
\* limit allows, over all the threads it has had (_drive, on_resolved).
RunKeepsItsBounds == ActionBudget /\ OneDriver
=============================================================================
