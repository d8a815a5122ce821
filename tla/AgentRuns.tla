----------------------------- MODULE AgentRuns -----------------------------
(***************************************************************************)
(* The agent library of packages/ragleap-agents: run() and resume() of     *)
(* agent.py, the state stores of state.py and the delegate tool of         *)
(* delegate.py.                                                            *)
(*                                                                         *)
(* A thread works on a copy of a run's state and saves it as a whole.  A   *)
(* run that needs a decision is saved and its thread ends; resume() loads  *)
(* it into another thread.  A delegate call drives a child run inside the  *)
(* tool call of its parent, so a thread holds a stack of runs.             *)
(***************************************************************************)
EXTENDS Naturals, Sequences, FiniteSets

CONSTANTS
  Threads,         \* threads, of any process, that call run() or resume()
  RunIds,          \* the run ids handed out: 1..n, bounds the runs
  RootRuns,        \* those a caller may start, bounds the runs that are not children
  Calls,           \* the valid tool calls a model may propose (a tool and its arguments)
  Taints,          \* the calls whose tool is declared as returning outside content
  Outbound,        \* the calls whose tool is declared as acting on the outside world
  AlwaysAsk,       \* the calls whose tool is declared as requiring approval
  Delegates,       \* the calls of the delegate tool
  StepLimit,       \* max_steps
  MaxDepth,        \* max_depth of the delegate tool
  MaxDelegations, MaxChildSteps,  \* its Budget
  MaxSaveFaults,   \* bounds the saves that fail
  NoRun, NoCall

ASSUME AgentAssumption ==
  /\ Taints \cup Outbound \cup AlwaysAsk \cup Delegates \subseteq Calls
  /\ NoCall \notin Calls
  /\ RootRuns \subseteq RunIds /\ RunIds \subseteq Nat
  /\ {StepLimit, MaxDepth, MaxDelegations, MaxChildSteps} \subseteq Nat \ {0}
\* delegate_policy: a delegate call is not outbound, and taints when a tool of a child does.
ASSUME DelegateAssumption ==
  /\ Delegates \cap Outbound = {}
  /\ Taints # {} => Delegates \subseteq Taints

VARIABLES
  atomic,      \* does the store offer save_if_status?  Never changes.
  store,       \* the stored state of each run
  thread,      \* the state of each thread
  nextRun,     \* the next run id
  saveFaults,  \* saves that failed so far
  \* history
  ran,         \* how often the call of a run had its effect
  seen,        \* the runs that have been shown outside content
  loose,       \* effects of an outbound call in such a run that nobody had approved
  overtaken    \* the runs claimed from a copy although they had come to wait for another call

agVars == <<atomic, store, thread, nextRun, saveFaults, ran, seen, loose, overtaken>>

Statuses == {"running", "awaiting_approval", "done", "rejected", "failed", "stopped"}
RunRows ==
  [id : RunIds, status : Statuses, steps : SUBSET Calls, tainted : BOOLEAN,
   pending : Calls \cup {NoCall}, delegations : Nat, childSteps : Nat]
ASSUME RowAssumption == NoRun \notin RunRows

\* A run as run() makes it.
NewRun(id, tainted) ==
  [id |-> id, status |-> "running", steps |-> {}, tainted |-> tainted,
   pending |-> NoCall, delegations |-> 0, childSteps |-> 0]

IdleThread == [pc |-> "idle", stack |-> <<>>, call |-> NoCall, ok |-> FALSE]

Last(stack) == stack[Len(stack)]
Top(t) == Last(thread[t].stack)
SetTop(t, run) == [thread[t].stack EXCEPT ![Len(thread[t].stack)] = run]

\* The counters of a delegation are those of the run at the bottom of the stack.
Root(t) == thread[t].stack[1]

AgTypeOK ==
  /\ store \in [RunIds -> {NoRun} \cup RunRows]
  /\ \A r \in RunIds : store[r] # NoRun => store[r].id = r
  /\ \A r \in RunIds : store[r] # NoRun /\ store[r].status = "awaiting_approval" => store[r].pending # NoCall

-----------------------------------------------------------------------------
(* Saving.  A save that fails raises in run() or resume(), which then tries to *)
(* save the run as failed.                                                     *)

Saved(run) == store' = [store EXCEPT ![run.id] = run] /\ UNCHANGED saveFaults

SaveRaises(t, run) ==
  /\ saveFaults < MaxSaveFaults
  /\ saveFaults' = saveFaults + 1
  /\ thread' = [thread EXCEPT ![t].pc = "broken", ![t].stack = SetTop(t, run)]
  /\ UNCHANGED store

Closed(run, status) == [run EXCEPT !.status = status, !.pending = NoCall]

\* What a thread does after the run on top of its stack has ended: a root run returns to
\* the caller, a child run to the delegate call of its parent, which counts its steps.
Leave(t, counted) ==
  LET below == SubSeq(thread[t].stack, 1, Len(thread[t].stack) - 1) IN
  IF below = <<>> THEN IdleThread
  ELSE [thread[t] EXCEPT !.pc = "record",
                         !.stack = [below EXCEPT ![1].childSteps = @ + counted],
                         !.call = Last(below).pending]

\* _finish
Finish(t, run, status) ==
  \/ Saved(Closed(run, status)) /\ thread' = [thread EXCEPT ![t] = Leave(t, Cardinality(run.steps))]
  \/ SaveRaises(t, run)

\* The last resort of run() and resume(): failed, internal_error.  When this save fails too
\* (the store is still down, so it is not counted as another fault) the exception leaves run();
\* around a child it is an error of the delegate call.
FinishBroken(t) ==
  /\ thread[t].pc = "broken"
  /\ \/ /\ Saved(Closed(Top(t), "failed"))
        /\ thread' = [thread EXCEPT ![t] = Leave(t, Cardinality(Top(t).steps))]
     \/ /\ thread' = [thread EXCEPT ![t] = Leave(t, 0)]
        /\ UNCHANGED <<store, saveFaults>>
  /\ UNCHANGED <<atomic, nextRun, ran, seen, loose, overtaken>>

-----------------------------------------------------------------------------
(* run() and _drive *)

Run(t, tainted) ==
  /\ thread[t].pc = "idle"
  /\ nextRun \in RootRuns
  /\ nextRun' = nextRun + 1
  /\ thread' = [thread EXCEPT ![t] = [IdleThread EXCEPT !.pc = "think", !.stack = <<NewRun(nextRun, tainted)>>]]
  /\ seen' = IF tainted THEN seen \cup {nextRun} ELSE seen
  /\ UNCHANGED <<atomic, store, saveFaults, ran, loose, overtaken>>

AtStepLimit(run) == Cardinality(run.steps) >= StepLimit

\* The loop ends: the step limit, the deadline, a model error, a reply no repair mends, an
\* action taken before, or done.
StopDriving(t) ==
  /\ thread[t].pc = "think"
  /\ \E status \in IF AtStepLimit(Top(t)) THEN {"stopped"} ELSE {"stopped", "failed", "done"} :
       Finish(t, Top(t), status)
  /\ UNCHANGED <<atomic, nextRun, ran, seen, loose, overtaken>>

\* An action whose arguments were seen before is not taken again.
Repeated(run, c) == c \in run.steps

NeedsApprovalIfAsked(run, c) == c \in AlwaysAsk

NeedsApproval(run, c) == c \in AlwaysAsk \/ (run.tainted /\ c \in Outbound)

\* A proposal that may run at once.  While its tool runs the call is kept in pending of the
\* thread's copy, which no store sees.
TakeAction(t, c) ==
  /\ thread[t].pc = "think" /\ ~AtStepLimit(Top(t))
  /\ ~Repeated(Top(t), c) /\ ~NeedsApproval(Top(t), c)
  /\ thread' = [thread EXCEPT ![t].pc = "tool", ![t].call = c, ![t].ok = FALSE]
  /\ UNCHANGED <<atomic, store, nextRun, saveFaults, ran, seen, loose, overtaken>>

\* A proposal that needs approval: the run is saved as waiting and the call of run() ends.
\* A child that waits is closed by the delegate call around it.
Pause(t, c) ==
  /\ thread[t].pc = "think" /\ ~AtStepLimit(Top(t))
  /\ ~Repeated(Top(t), c) /\ NeedsApproval(Top(t), c)
  /\ LET run == [Top(t) EXCEPT !.status = "awaiting_approval", !.pending = c] IN
     \/ /\ Saved(run)
        /\ thread' = [thread EXCEPT ![t] =
             IF Len(thread[t].stack) = 1 THEN IdleThread
             ELSE [@ EXCEPT !.pc = "close", !.stack = SetTop(t, run)]]
     \/ SaveRaises(t, run)
  /\ UNCHANGED <<atomic, nextRun, ran, seen, loose, overtaken>>

-----------------------------------------------------------------------------
(* _run_tool *)

\* The tool has its effect; the copy remembers that it did in the next step.  What a child
\* reads reaches the runs below it on the stack with its answer.
Effect(t) ==
  /\ thread[t].pc = "tool" /\ thread[t].call \notin Delegates
  /\ LET c == thread[t].call
         r == Top(t).id
     IN /\ ran' = [ran EXCEPT ![r][c] = @ + 1]
        /\ seen' = IF c \in Taints
                    THEN seen \cup {thread[t].stack[i].id : i \in 1..Len(thread[t].stack)} ELSE seen
        /\ loose' = IF c \in Outbound /\ r \in seen /\ ~thread[t].ok THEN loose \cup {r} ELSE loose
  /\ thread' = [thread EXCEPT ![t].pc = "record"]
  /\ UNCHANGED <<atomic, store, nextRun, saveFaults, overtaken>>

\* A delegate that resets the counters of the run for each tool call.
MayDelegateAfresh(t) == Len(thread[t].stack) <= MaxDepth

\* The limits of the delegate tool.
MayDelegate(t) ==
  /\ Len(thread[t].stack) <= MaxDepth
  /\ Root(t).delegations < MaxDelegations
  /\ Root(t).childSteps < MaxChildSteps

\* A delegate call over a limit is answered with an error, which is an executed step.
DelegateRefused(t) ==
  /\ thread[t].pc = "tool" /\ thread[t].call \in Delegates
  /\ ~MayDelegate(t) \/ nextRun \notin RunIds
  /\ thread' = [thread EXCEPT ![t].pc = "record"]
  /\ UNCHANGED <<atomic, store, nextRun, saveFaults, ran, seen, loose, overtaken>>

\* A child that starts clean whatever its parent has read.
ChildTaintForgotten(run) == FALSE

\* child.run(task, tainted=ctx.tainted)
ChildTaint(run) == run.tainted

\* The child is driven on top of the parent, whose copy keeps the call in pending.
Delegate(t) ==
  /\ thread[t].pc = "tool" /\ thread[t].call \in Delegates
  /\ MayDelegate(t) /\ nextRun \in RunIds
  /\ nextRun' = nextRun + 1
  /\ LET held    == SetTop(t, [Top(t) EXCEPT !.pending = thread[t].call])
         counted == [held EXCEPT ![1].delegations = @ + 1]
     IN thread' = [thread EXCEPT ![t] = [IdleThread EXCEPT
          !.pc = "think", !.stack = Append(counted, NewRun(nextRun, ChildTaint(Top(t))))]]
  /\ seen' = IF Top(t).id \in seen THEN seen \cup {nextRun} ELSE seen
  /\ UNCHANGED <<atomic, store, saveFaults, ran, loose, overtaken>>

\* _stop_unapproved: nobody can approve what a child asks for, so its run is closed.
StopUnapproved(t) ==
  /\ thread[t].pc = "close"
  /\ Saved(Closed(store[Top(t).id], "stopped"))
  /\ thread' = [thread EXCEPT ![t] = Leave(t, Cardinality(Top(t).steps))]
  /\ UNCHANGED <<atomic, nextRun, ran, seen, loose, overtaken>>

\* A loop that saves the step and forgets that its result was outside content.
RecordedUntainted(run, c) == [run EXCEPT !.steps = @ \cup {c}, !.pending = NoCall]

\* The step is appended, whether the tool returned or raised, and the taint set, in the copy
\* of the thread.  Steps differ in their calls, so a set holds them.
Recorded(run, c) ==
  [run EXCEPT !.steps = @ \cup {c}, !.tainted = @ \/ c \in Taints, !.pending = NoCall]

\* The end of _run_tool: the step and the save.
RecordStep(t) ==
  /\ thread[t].pc = "record"
  /\ LET run == Recorded(Top(t), thread[t].call) IN
     \/ /\ Saved(run)
        /\ thread' = [thread EXCEPT ![t] = [@ EXCEPT !.pc = "think", !.stack = SetTop(t, run),
                                                     !.call = NoCall, !.ok = FALSE]]
     \/ SaveRaises(t, run)
  /\ UNCHANGED <<atomic, nextRun, ran, seen, loose, overtaken>>

-----------------------------------------------------------------------------
(* resume() *)

\* The state is loaded and has to be waiting for the call that the decision names.
Resume(t, r, ok) ==
  /\ thread[t].pc = "idle"
  /\ store[r] # NoRun /\ store[r].status = "awaiting_approval"
  /\ thread' = [thread EXCEPT ![t] = [IdleThread EXCEPT
       !.pc = "claim", !.stack = <<store[r]>>, !.call = store[r].pending, !.ok = ok]]
  /\ UNCHANGED <<atomic, store, nextRun, saveFaults, ran, seen, loose, overtaken>>

\* A store whose save_if_status saves whatever the status is.
ClaimableAlways(r) == TRUE

\* save_if_status compares and saves in one transaction; a store without it just saves.  It
\* compares the status, not the call that is waited for.
Claimable(r) == atomic => store[r].status = "awaiting_approval"

Claim(t) ==
  /\ thread[t].pc = "claim"
  /\ LET run == [Top(t) EXCEPT !.status = "running", !.pending = NoCall] IN
     IF Claimable(run.id)
     THEN \/ /\ Saved(run)
             /\ thread' = [thread EXCEPT ![t].pc = IF thread[t].ok THEN "tool" ELSE "reject",
                                         ![t].stack = <<run>>]
             /\ overtaken' = IF store[run.id].status = "awaiting_approval" /\ store[run.id] # Top(t)
                             THEN overtaken \cup {run.id} ELSE overtaken
          \/ /\ saveFaults < MaxSaveFaults /\ saveFaults' = saveFaults + 1
             /\ thread' = [thread EXCEPT ![t] = IdleThread] /\ UNCHANGED <<store, overtaken>>
     ELSE thread' = [thread EXCEPT ![t] = IdleThread] /\ UNCHANGED <<store, saveFaults, overtaken>>
  /\ UNCHANGED <<atomic, nextRun, ran, seen, loose>>

\* A rejected call is a step that never ran, and ends the run.
RejectCall(t) ==
  /\ thread[t].pc = "reject"
  /\ LET run == [Top(t) EXCEPT !.steps = @ \cup {thread[t].call}]
     IN Finish(t, run, "rejected")
  /\ UNCHANGED <<atomic, nextRun, ran, seen, loose, overtaken>>

\* The process of the threads ends; stored runs stay.
AgCrash ==
  /\ \E t \in Threads : thread[t].pc # "idle"
  /\ thread' = [t \in Threads |-> IdleThread]
  /\ UNCHANGED <<atomic, store, nextRun, saveFaults, ran, seen, loose, overtaken>>

AgInit ==
  /\ atomic \in BOOLEAN
  /\ store = [r \in RunIds |-> NoRun]
  /\ thread = [t \in Threads |-> IdleThread]
  /\ nextRun = 1 /\ saveFaults = 0
  /\ ran = [r \in RunIds |-> [c \in Calls |-> 0]]
  /\ seen = {} /\ loose = {} /\ overtaken = {}

AgStep(t) ==
  \/ StopDriving(t) \/ Effect(t) \/ DelegateRefused(t) \/ Delegate(t) \/ StopUnapproved(t)
  \/ RecordStep(t) \/ Claim(t) \/ RejectCall(t) \/ FinishBroken(t)

AgNext ==
  \/ \E t \in Threads : AgStep(t)
  \/ \E t \in Threads, c \in Calls : TakeAction(t, c) \/ Pause(t, c)
  \/ \E t \in Threads, tainted \in BOOLEAN : Run(t, tainted)
  \/ \E t \in Threads, r \in RunIds, ok \in BOOLEAN : Resume(t, r, ok)
  \/ AgCrash

AgSpec == AgInit /\ [][AgNext]_agVars

-----------------------------------------------------------------------------
(* Properties. *)

\* The taint rule across pauses, resumes, children and crashes: once a run has been shown
\* outside content, by a tool of its own, through the run that started it or through the
\* answer of a child, none of its outbound calls has its effect without a decision that
\* approved it; with a store that can claim atomically, as long as no resume overtakes another.
OutboundApproved == atomic /\ overtaken = {} => loose = {}

\* The README on resume(), "an approval cannot be replayed", and its comment, "only one resume()
\* ... can move the run out of awaiting_approval": a call has its effect at most once.
NoReplay == atomic => \A r \in RunIds, c \in Calls : ran[r][c] <= 1

\* What the code does promise: a call of a run has its effect at most once, however many threads
\* resume it and whatever save fails or process ends in between, unless a resume() that had
\* loaded the run for one call claims it when it waits for the next one.
EffectOnce == atomic => \A r \in RunIds \ overtaken, c \in Calls : ran[r][c] <= 1

\* The budget of the delegate tool holds for the whole root run: the delegations never exceed
\* it, and the steps of its children by no more than the runs that were under way may take.
DelegationBudget ==
  \A t \in Threads : thread[t].stack # <<>> =>
    /\ Root(t).delegations <= MaxDelegations
    /\ Root(t).childSteps <= MaxChildSteps - 1 + MaxDepth * StepLimit

(***************************************************************************)
(* What an agent run promises, with a store whose claims are atomic:       *)
(* nothing goes out unapproved once outside content was read, no call has  *)
(* its effect twice unless one resume overtakes another, and delegation    *)
(* keeps to the root run's budget.                                         *)
(***************************************************************************)
AgentRunsAreSound == OutboundApproved /\ EffectOnce /\ DelegationBudget
=============================================================================
