-------------------------- MODULE AgentLoopProofs ---------------------------
(***************************************************************************)
(* Proofs about the agent loop, for any number of runs, threads, ids and   *)
(* plans and any step limit, with failing database steps and restarts:     *)
(* every step of the loop is a step of the autonomy gate, so that what is  *)
(* proved of the gate holds in the loop; rows are truthful and keep the    *)
(* taint rule; and while decisions are serial a run has one driver, keeps  *)
(* its budget and only grows.                                              *)
(***************************************************************************)
EXTENDS AgentLoop, AutonomyProofs, SequenceTheorems

\* A thread in on_resolved holds a row that waits for the id it decides.
NoteOK ==
  \A r \in Resolvers : note[r].run # NoRun =>
    /\ resolve[r].pc = "notify"
    /\ note[r].row.status = "waiting_approval"
    /\ note[r].row.pending = resolve[r].id
    /\ note[r].row.steps # <<>>

\* A thread in _drive has a run in hand that waits for nothing; in the gate it asks for what
\* was proposed.
DrvOK ==
  \A d \in Callers :
    /\ IF drv[d].pc = "idle" THEN drv[d].run = NoRun ELSE drv[d].run \in Runs
    /\ drv[d].pc \in {"think", "gate"} => drv[d].copy.status = "running"
    /\ drv[d].pc = "gate" =>
         /\ drv[d].plan \in Plans
         /\ call[d].pc # "idle"
         /\ call[d].req = RequestOf(drv[d].plan, ForceSemi(drv[d].copy, drv[d].plan))

LoopInv == TypeInv /\ LoopTypeOK /\ NoteOK /\ DrvOK

\* The rows there are: in the table, in the hands of drivers, in the hands of deciders.
Known ==
  {run[x] : x \in {y \in Runs : run[y] # NoRun}}
    \cup {drv[d].copy : d \in Callers}
    \cup {note[r].row : r \in {t \in Resolvers : note[t].run # NoRun}}

\* A row that counts a step as executed only when it was sent, and waits for its last step.
TruthOK(row, auto, sent) ==
  \A i \in 1..Len(row.steps) : row.steps[i].status = "executed" =>
    IF row.steps[i].id = NoId
    THEN \E a \in auto : a.req.type = row.steps[i].plan.tool
    ELSE sent[row.steps[i].id] > 0
WaitOK(row) == row.status = "waiting_approval" =>
  /\ row.steps # <<>>
  /\ row.steps[Len(row.steps)].id = row.pending
  /\ row.pending \in ActionIds
RowsTruthful == \A row \in Known : TruthOK(row, autoSent, sends) /\ WaitOK(row)

\* A row with outside content in it is marked, and acted outside only with approval since.
TaintOK(row) ==
  /\ \A i \in 1..Len(row.steps) : OutsideContent(row.steps[i]) => row.tainted
  /\ \A i, j \in 1..Len(row.steps) :
       /\ i < j
       /\ OutsideContent(row.steps[i])
       /\ row.steps[j].status = "executed"
       /\ row.steps[j].plan.tool \in OUTBOUND_TOOLS
       => row.steps[j].id # NoId
RowsTainted == \A row \in Known : TaintOK(row)

\* While decisions are serial: one thread drives a run; a run that is driven waits for no
\* decision, and its driver knows more than its row; a decider's row is still the table's.
Behind(row, copy) == row # NoRun =>
  /\ row.status # "waiting_approval"
  /\ Len(row.steps) <= Len(copy.steps)
  /\ row.tainted => copy.tainted
OneEach == \A d, e \in Callers : drv[d].pc # "idle" /\ drv[d].run = drv[e].run => d = e
Ahead   == \A d \in Callers : drv[d].pc # "idle" =>
             drv[d].run \in started /\ Behind(run[drv[d].run], drv[d].copy)
Current == \A r \in Resolvers : note[r].run # NoRun =>
             run[note[r].run] # NoRun /\ run[note[r].run] = note[r].row
Begins  == \A x \in Runs : run[x] # NoRun => x \in started
Driven  == OneEach /\ Ahead /\ Current /\ Begins
DriverInv == Serial => Driven

\* The approvals asked for on behalf of a run that nothing was sent for yet: one at most, and the
\* actions sent stay below the step limit until it has been sent.
Open(x, ids, sent) == {id \in ActionIds : ids[id] = x /\ sent[id] = 0}
Capped(n, open) == n <= MaxSteps /\ (open # {} => n < MaxSteps) /\ \A i, j \in open : i = j

\* A row that waits counts what was sent, and its last step once that is.
WaitBudget(x, n, ids, sent, row) == (row # NoRun /\ row.status = "waiting_approval") =>
  /\ row.pending \in ActionIds
  /\ ids[row.pending] = x /\ Open(x, ids, sent) \subseteq {row.pending}
  /\ Len(row.steps) <= MaxSteps
  /\ n < IF sent[row.pending] > 0 THEN Len(row.steps) + 1 ELSE Len(row.steps)

\* A driver that may act again knows of all that was sent; one in the gate is about to count one more.
DriverBudget(v, c, n, ids, sent) ==
  /\ v.pc = "think" => Open(v.run, ids, sent) = {} /\ n <= Len(v.copy.steps)
  /\ v.pc = "gate" =>
       /\ Len(v.copy.steps) < MaxSteps
       /\ c.pc \in {"send", "store", "skipped"} => Open(v.run, ids, sent) = {} /\ n <= Len(v.copy.steps)
       /\ c.pc \in {"log", "executed", "error"} => Open(v.run, ids, sent) = {} /\ n <= Len(v.copy.steps) + 1
       /\ c.pc \in {"ask", "pending_approval"} =>
            /\ ids[c.id] = v.run /\ Open(v.run, ids, sent) \subseteq {c.id}
            /\ n <= IF sent[c.id] > 0 THEN Len(v.copy.steps) + 1 ELSE Len(v.copy.steps)

IdsUsed   == \A id \in ActionIds : idRun[id] # NoRun => id \in usedIds
AllCapped == \A x \in Runs : Capped(acted[x], Open(x, idRun, sends))
Untouched == \A x \in Runs : x \notin started => acted[x] = 0 /\ Open(x, idRun, sends) = {}
RowBudgets == \A x \in Runs : WaitBudget(x, acted[x], idRun, sends, run[x])
DriverBudgets == \A d \in Callers : DriverBudget(drv[d], call[d], acted[drv[d].run], idRun, sends)
Budgeted  == IdsUsed /\ AllCapped /\ Untouched /\ RowBudgets /\ DriverBudgets
BudgetInv == Serial => Budgeted

-----------------------------------------------------------------------------
(* Rows that steps put together. *)

LEMMA NewRunType == NewRun \in RunRows /\ NewRun.steps = <<>> /\ NewRun.status = "running"
BY DEF NewRun, RunRows

LEMMA BroughtType ==
  ASSUME NEW d \in Callers, NEW res \in Brought(d) PROVE res \in AllResults \cup {"plain"}
BY LoopAssumption DEF Brought, Results

\* The step a gate's answer makes.
StepOf(d, res) == [plan |-> drv[d].plan, status |-> call[d].pc, res |-> res, id |-> call[d].id]

\* Observed appends one step.
LEMMA ObservedRow ==
  ASSUME TypeInv, LoopTypeOK, DrvOK,
         NEW d \in Callers, drv[d].pc = "gate", call[d].pc \in Returned, NEW res \in Brought(d)
  PROVE  /\ Observed(d, res) \in RunRows
         /\ Observed(d, res).steps # <<>>
         /\ Len(Observed(d, res).steps) = Len(drv[d].copy.steps) + 1
         /\ \A i \in 1..Len(drv[d].copy.steps) : Observed(d, res).steps[i] = drv[d].copy.steps[i]
         /\ Observed(d, res).steps[Len(drv[d].copy.steps) + 1] = StepOf(d, res)
<1>1. /\ drv[d].copy.steps \in Seq(Steps) /\ drv[d].copy.status = "running"
      /\ drv[d].copy.tainted \in BOOLEAN /\ drv[d].copy.pending \in ActionIds \cup {NoId}
  BY DEF LoopTypeOK, DrvOK, RunRows
<1>2. StepOf(d, res) \in Steps /\ call[d].id \in ActionIds \cup {NoId}
  <2>1. drv[d].plan \in Plans
    BY DEF DrvOK
  <2>2. call[d].id \in ActionIds \cup {NoId}
    BY DEF TypeInv, TypeOK, CallState
  <2> QED BY <2>1, <2>2, BroughtType DEF StepOf, Steps, StepStatus
<1>3. Observed(d, res).steps = Append(drv[d].copy.steps, StepOf(d, res))
  BY DEF Observed, StepOf
<1>4. /\ Observed(d, res).status \in {"running", "waiting_approval"}
      /\ Observed(d, res).pending \in ActionIds \cup {NoId}
      /\ Observed(d, res).tainted \in BOOLEAN
  BY <1>1, <1>2 DEF Observed, TaintAfter
<1>5. Observed(d, res) = [status  |-> Observed(d, res).status,  steps   |-> Observed(d, res).steps,
                          tainted |-> Observed(d, res).tainted, pending |-> Observed(d, res).pending]
  BY DEF Observed
<1>6. /\ Observed(d, res).steps \in Seq(Steps)
      /\ Observed(d, res).steps # <<>>
      /\ Len(Observed(d, res).steps) = Len(drv[d].copy.steps) + 1
      /\ \A i \in 1..Len(drv[d].copy.steps) : Observed(d, res).steps[i] = drv[d].copy.steps[i]
      /\ Observed(d, res).steps[Len(drv[d].copy.steps) + 1] = StepOf(d, res)
  <2>1. /\ Append(drv[d].copy.steps, StepOf(d, res)) \in Seq(Steps)
        /\ Append(drv[d].copy.steps, StepOf(d, res)) # <<>>
        /\ Len(Append(drv[d].copy.steps, StepOf(d, res))) = Len(drv[d].copy.steps) + 1
        /\ \A i \in 1..Len(drv[d].copy.steps) :
             Append(drv[d].copy.steps, StepOf(d, res))[i] = drv[d].copy.steps[i]
        /\ Append(drv[d].copy.steps, StepOf(d, res))[Len(drv[d].copy.steps) + 1] = StepOf(d, res)
    BY <1>1, <1>2, AppendProperties
  <2> QED BY <1>3, <2>1
<1>7. Observed(d, res) \in RunRows
  BY <1>4, <1>5, <1>6 DEF RunRows
<1> QED BY <1>6, <1>7

\* Resolved changes the status and the result of the last step and nothing else of the steps.
LEMMA ResolvedRow ==
  ASSUME NEW row \in RunRows, NEW ok \in BOOLEAN, NEW res \in AllResults \cup {"plain"},
         row.steps # <<>>
  PROVE  /\ Resolved(row, ok, res) \in RunRows
         /\ Len(row.steps) \in Nat /\ Len(row.steps) > 0
         /\ Len(Resolved(row, ok, res).steps) = Len(row.steps)
         /\ \A i \in 1..Len(row.steps) : i # Len(row.steps) =>
              Resolved(row, ok, res).steps[i] = row.steps[i]
         /\ Resolved(row, ok, res).steps[Len(row.steps)].plan = row.steps[Len(row.steps)].plan
         /\ Resolved(row, ok, res).steps[Len(row.steps)].id = row.steps[Len(row.steps)].id
         /\ Resolved(row, ok, res).steps[Len(row.steps)].res = res
         /\ Resolved(row, ok, res).steps[Len(row.steps)].status = IF ok THEN "executed" ELSE "rejected"
<1> DEFINE n    == Len(row.steps)
           stat == IF ok THEN "executed" ELSE "rejected"
<1>1. row.steps \in Seq(Steps) /\ row.tainted \in BOOLEAN
  BY DEF RunRows
<1>2. n \in Nat /\ n > 0 /\ n \in 1..n
  BY <1>1
<1>3. PICK old \in Steps : old = row.steps[n]
  BY <1>1, <1>2
<1>a. stat \in StepStatus
  BY DEF StepStatus, Returned
<1> HIDE DEF stat
<1> DEFINE last == [plan |-> old.plan, status |-> stat, res |-> res, id |-> old.id]
<1>4. last \in Steps
  BY <1>3, <1>a DEF Steps
<1>5. Resolved(row, ok, res).steps = [row.steps EXCEPT ![n] = last]
  <2>1. [[old EXCEPT !.status = stat] EXCEPT !.res = res] = last
    <3>1. old = [plan |-> old.plan, status |-> old.status, res |-> old.res, id |-> old.id]
      BY <1>3 DEF Steps
    <3>2. [old EXCEPT !.status = stat] = [plan |-> old.plan, status |-> stat, res |-> old.res, id |-> old.id]
      BY <3>1
    <3>3. [[plan |-> old.plan, status |-> stat, res |-> old.res, id |-> old.id] EXCEPT !.res = res] = last
      OBVIOUS
    <3> HIDE DEF last
    <3> QED BY <3>2, <3>3
  <2>2. Resolved(row, ok, res).steps = [[row.steps EXCEPT ![n].status = stat] EXCEPT ![n].res = res]
    BY DEF Resolved, stat
  <2>3. [[row.steps EXCEPT ![n].status = stat] EXCEPT ![n].res = res]
          = [row.steps EXCEPT ![n] = [[old EXCEPT !.status = stat] EXCEPT !.res = res]]
    BY <1>1, <1>2, <1>3
  <2> QED BY <2>1, <2>2, <2>3
<1> HIDE DEF last
<1>6. /\ Resolved(row, ok, res).steps \in Seq(Steps) /\ Len(Resolved(row, ok, res).steps) = n
      /\ \A i \in 1..n : Resolved(row, ok, res).steps[i] = IF i = n THEN last ELSE row.steps[i]
  BY <1>1, <1>2, <1>4, <1>5, ExceptSeq
<1>7. /\ Resolved(row, ok, res).status \in {"running", "rejected"}
      /\ Resolved(row, ok, res).pending = NoId /\ Resolved(row, ok, res).tainted \in BOOLEAN
      /\ Resolved(row, ok, res) =
           [status  |-> Resolved(row, ok, res).status,  steps   |-> Resolved(row, ok, res).steps,
            tainted |-> Resolved(row, ok, res).tainted, pending |-> Resolved(row, ok, res).pending]
  BY <1>1 DEF Resolved, TaintAfter
<1>8. Resolved(row, ok, res) \in RunRows
  BY <1>6, <1>7 DEF RunRows, Ended
<1>9. /\ last.plan = old.plan /\ last.id = old.id /\ last.res = res
      /\ last.status = IF ok THEN "executed" ELSE "rejected"
  BY DEF last, stat
<1> QED BY <1>2, <1>3, <1>6, <1>8, <1>9

-----------------------------------------------------------------------------
(* Every step of the loop is a step of the gate. *)

LEMMA StepImplements == LoopTypeOK /\ NoteOK /\ [LoopNext]_allVars => [Next]_vars
<1> SUFFICES ASSUME LoopTypeOK, NoteOK, [LoopNext]_allVars PROVE [Next]_vars
  OBVIOUS
<1>1. ASSUME NEW d \in Callers, NEW x \in Runs, StartRun(d, x) PROVE UNCHANGED vars
  BY <1>1 DEF StartRun
<1>2. ASSUME NEW d \in Callers, StopThinking(d) \/ Finish(d) PROVE UNCHANGED vars
  BY <1>2 DEF StopThinking, Finish
<1>3. ASSUME NEW d \in Callers, NEW p \in Plans, Propose(d, p) PROVE Next
  <2>1. ForceSemi(drv[d].copy, p) \in BOOLEAN
    BY DEF ForceSemi, LoopTypeOK, RunRows
  <2>2. RequestOf(p, ForceSemi(drv[d].copy, p)) \in Requests
    BY <2>1, LoopAssumption
  <2> QED BY <2>2, <1>3 DEF Propose, Next
<1>4. ASSUME NEW d \in Callers, InGate(d) PROVE Next
  BY <1>4 DEF InGate, Next
<1>5. ASSUME NEW d \in Callers, Observe(d) \/ DriveRaises(d) PROVE Next
  BY <1>5 DEF Observe, DriveRaises, Next
<1>6. ASSUME NEW r \in Resolvers, Decide(r) PROVE Next
  BY <1>6 DEF Decide, Next
<1>7. ASSUME NEW r \in Resolvers, NotifyRead(r) PROVE UNCHANGED vars
  BY <1>7 DEF NotifyRead
<1>8. ASSUME NEW r \in Resolvers, NotifyNone(r) PROVE Next
  BY <1>8 DEF NotifyNone, Next
<1>9. ASSUME NEW r \in Resolvers, NotifySave(r) \/ NotifyFails(r) PROVE Next
  <2>1. resolve[r].pc = "notify"
    BY <1>9 DEF NotifySave, NotifyFails, NoteOK
  <2>2. Reply(r) /\ UNCHANGED <<dbVars, call, usedIds, everSet, autoSent, sends, raced>>
    BY <1>9 DEF NotifySave, NotifyFails
  <2> QED BY <2>1, <2>2 DEF NotifyNobody, Next
<1>10. CASE Restart
  BY <1>10 DEF Restart, Next
<1>11. CASE UNCHANGED allVars
  BY <1>11 DEF allVars
<1> QED
  BY <1>1, <1>2, <1>3, <1>4, <1>5, <1>6, <1>7, <1>8, <1>9, <1>10, <1>11
     DEF LoopNext, DriveStep, ResolveStep, Next

-----------------------------------------------------------------------------
(* Threads. *)

DrvRows ==
  [pc : {"idle", "think", "gate", "finish"}, plan : Plans \cup {NoPlan},
   run : Runs \cup {NoRun}, copy : RunRows, to : Ended, resumed : BOOLEAN]

LEMMA IdleDrvType ==
  IdleDrv \in DrvRows /\ IdleDrv.pc = "idle" /\ IdleDrv.run = NoRun /\ IdleDrv.copy = NewRun
BY NewRunType DEF IdleDrv, DrvRows, Ended

\* The record of a thread that moves within its run, and of one that takes up a run.
Moved(v, pc, plan, row, to) == [v EXCEPT !.pc = pc, !.plan = plan, !.copy = row, !.to = to]
TakenUp(v, pc, x, row, to) == [v EXCEPT !.pc = pc, !.run = x, !.copy = row, !.to = to]

LEMMA MovedDrv ==
  ASSUME NEW v \in DrvRows, NEW pc, NEW plan, NEW row, NEW to
  PROVE  Moved(v, pc, plan, row, to) =
           [pc |-> pc, plan |-> plan, run |-> v.run, copy |-> row, to |-> to, resumed |-> v.resumed]
<1>1. v = [pc |-> v.pc, plan |-> v.plan, run |-> v.run, copy |-> v.copy, to |-> v.to, resumed |-> v.resumed]
  BY DEF DrvRows
<1> DEFINE v1 == [v EXCEPT !.pc = pc]
           v2 == [v1 EXCEPT !.plan = plan]
           v3 == [v2 EXCEPT !.copy = row]
           v4 == [v3 EXCEPT !.to = to]
<1>2. v1 = [pc |-> pc, plan |-> v.plan, run |-> v.run, copy |-> v.copy, to |-> v.to, resumed |-> v.resumed]
  BY <1>1
<1> HIDE DEF v1
<1>3. v2 = [pc |-> pc, plan |-> plan, run |-> v.run, copy |-> v.copy, to |-> v.to, resumed |-> v.resumed]
  BY <1>2
<1> HIDE DEF v2
<1>4. v3 = [pc |-> pc, plan |-> plan, run |-> v.run, copy |-> row, to |-> v.to, resumed |-> v.resumed]
  BY <1>3
<1> HIDE DEF v3
<1>5. v4 = [pc |-> pc, plan |-> plan, run |-> v.run, copy |-> row, to |-> to, resumed |-> v.resumed]
  BY <1>4
<1>6. Moved(v, pc, plan, row, to) = v4
  BY DEF v1, v2, v3, Moved
<1> HIDE DEF v4
<1> QED BY <1>5, <1>6

LEMMA TakenUpDrv ==
  ASSUME NEW v \in DrvRows, NEW pc, NEW x, NEW row, NEW to
  PROVE  TakenUp(v, pc, x, row, to) =
           [pc |-> pc, plan |-> v.plan, run |-> x, copy |-> row, to |-> to, resumed |-> v.resumed]
<1>1. v = [pc |-> v.pc, plan |-> v.plan, run |-> v.run, copy |-> v.copy, to |-> v.to, resumed |-> v.resumed]
  BY DEF DrvRows
<1> DEFINE v1 == [v EXCEPT !.pc = pc]
           v2 == [v1 EXCEPT !.run = x]
           v3 == [v2 EXCEPT !.copy = row]
           v4 == [v3 EXCEPT !.to = to]
<1>2. v1 = [pc |-> pc, plan |-> v.plan, run |-> v.run, copy |-> v.copy, to |-> v.to, resumed |-> v.resumed]
  BY <1>1
<1> HIDE DEF v1
<1>3. v2 = [pc |-> pc, plan |-> v.plan, run |-> x, copy |-> v.copy, to |-> v.to, resumed |-> v.resumed]
  BY <1>2
<1> HIDE DEF v2
<1>4. v3 = [pc |-> pc, plan |-> v.plan, run |-> x, copy |-> row, to |-> v.to, resumed |-> v.resumed]
  BY <1>3
<1> HIDE DEF v3
<1>5. v4 = [pc |-> pc, plan |-> v.plan, run |-> x, copy |-> row, to |-> to, resumed |-> v.resumed]
  BY <1>4
<1>6. TakenUp(v, pc, x, row, to) = v4
  BY DEF v1, v2, v3, TakenUp
<1> HIDE DEF v4
<1> QED BY <1>5, <1>6

Begun(v, pc, x) == [v EXCEPT !.pc = pc, !.run = x]

LEMMA BegunDrv ==
  ASSUME NEW v \in DrvRows, NEW pc, NEW x
  PROVE  Begun(v, pc, x) =
           [pc |-> pc, plan |-> v.plan, run |-> x, copy |-> v.copy, to |-> v.to, resumed |-> v.resumed]
<1>1. v = [pc |-> v.pc, plan |-> v.plan, run |-> v.run, copy |-> v.copy, to |-> v.to, resumed |-> v.resumed]
  BY DEF DrvRows
<1> DEFINE v1 == [v EXCEPT !.pc = pc]
           v2 == [v1 EXCEPT !.run = x]
<1>2. v1 = [pc |-> pc, plan |-> v.plan, run |-> v.run, copy |-> v.copy, to |-> v.to, resumed |-> v.resumed]
  BY <1>1
<1>3. Begun(v, pc, x) = v2
  BY DEF Begun
<1> HIDE DEF v1
<1>4. v2 = [pc |-> pc, plan |-> v.plan, run |-> x, copy |-> v.copy, to |-> v.to, resumed |-> v.resumed]
  BY <1>2
<1> HIDE DEF v2
<1> QED BY <1>3, <1>4

\* A thread that moves leaves the others alone.
LEMMA DriverFrame ==
  ASSUME LoopInv, NEW d \in Callers, NEW v \in DrvRows, drv' = [drv EXCEPT ![d] = v],
         \A e \in Callers : e # d => call'[e] = call[e],
         IF v.pc = "idle" THEN v.run = NoRun ELSE v.run \in Runs,
         v.pc \in {"think", "gate"} => v.copy.status = "running",
         v.pc = "gate" => /\ v.plan \in Plans
                          /\ call'[d].pc # "idle"
                          /\ call'[d].req = RequestOf(v.plan, ForceSemi(v.copy, v.plan))
  PROVE  drv' \in [Callers -> DrvRows] /\ DrvOK'
<1>1. drv \in [Callers -> DrvRows]
  BY DEF LoopInv, LoopTypeOK, DrvRows
<1>2. drv' \in [Callers -> DrvRows] /\ drv'[d] = v /\ \A e \in Callers : e # d => drv'[e] = drv[e]
  BY <1>1
<1>3. ASSUME NEW e \in Callers
      PROVE  /\ IF drv'[e].pc = "idle" THEN drv'[e].run = NoRun ELSE drv'[e].run \in Runs
             /\ drv'[e].pc \in {"think", "gate"} => drv'[e].copy.status = "running"
             /\ drv'[e].pc = "gate" =>
                  /\ drv'[e].plan \in Plans
                  /\ call'[e].pc # "idle"
                  /\ call'[e].req = RequestOf(drv'[e].plan, ForceSemi(drv'[e].copy, drv'[e].plan))
  <2>1. CASE e = d
    BY <2>1, <1>2
  <2>2. CASE e # d
    <3>1. drv'[e] = drv[e] /\ call'[e] = call[e]
      BY <2>2, <1>2
    <3> QED BY <3>1 DEF LoopInv, DrvOK
  <2> QED BY <2>1, <2>2
<1>4. DrvOK'
  BY <1>3 DEF DrvOK, ForceSemi, RequestOf
<1> QED BY <1>2, <1>4

\* A call in the gate keeps its request and its thread.
LEMMA GateStepKeeps ==
  ASSUME TypeInv, NEW d \in Callers, GateStep(d)
  PROVE  /\ call'[d].req = call[d].req /\ call'[d].pc # "idle"
         /\ \A e \in Callers : e # d => call'[e] = call[e]
         /\ resolve' = resolve
<1>1. call \in [Callers -> CallState]
  BY DEF TypeInv, TypeOK
<1>2. CASE SendNow(d)
  BY <1>1, <1>2 DEF SendNow, CallState, dbVars
<1>3. CASE LogNow(d)
  <2>1. PICK status \in {"executed", "error"} : call' = [call EXCEPT ![d].pc = status]
    BY <1>3 DEF LogNow
  <2> QED BY <2>1, <1>1, <1>3 DEF LogNow, CallState
<1>4. CASE StorePending(d)
  <2>1. PICK id : call' = [call EXCEPT ![d] = [pc |-> "ask", req |-> call[d].req, snap |-> call[d].snap, id |-> id]]
    BY <1>4 DEF StorePending
  <2> QED BY <2>1, <1>1, <1>4 DEF StorePending
<1>5. CASE RequestApproval(d)
  BY <1>1, <1>5 DEF RequestApproval, CallState, histVars
<1> QED BY <1>2, <1>3, <1>4, <1>5 DEF GateStep

LEMMA ReturnKeeps ==
  ASSUME TypeInv, NEW d \in Callers, Return(d) \/ CallRaises(d)
  PROVE  /\ \A e \in Callers : e # d => call'[e] = call[e]
         /\ UNCHANGED <<resolve, dbVars, histVars>>
BY DEF TypeInv, TypeOK, Return, CallRaises

\* What the driver of a run becomes when the gate has answered.
LEMMA AfterGateDrv ==
  ASSUME LoopInv, NEW d \in Callers, drv[d].pc = "gate", call[d].pc \in Returned,
         NEW res \in Brought(d)
  PROVE  LET v == AfterGate(d, Observed(d, res))
         IN  /\ v \in DrvRows /\ v.pc \in {"idle", "think", "finish"}
             /\ v.pc = "idle" => v = IdleDrv /\ call[d].pc = "pending_approval"
             /\ v.pc # "idle" => /\ call[d].pc # "pending_approval"
                                 /\ v.run = drv[d].run /\ v.copy = Observed(d, res)
             /\ v.pc = "think" => call[d].pc = "executed"
<1>1. drv[d] \in DrvRows
  BY DEF LoopInv, LoopTypeOK, DrvRows
<1>2. Observed(d, res) \in RunRows
  BY ObservedRow DEF LoopInv
<1>3. ASSUME NEW pc \in {"think", "finish"}, NEW to \in {"done", "failed"}
      PROVE  Moved(drv[d], pc, NoPlan, Observed(d, res), to)
               = [pc |-> pc, plan |-> NoPlan, run |-> drv[d].run, copy |-> Observed(d, res), to |-> to,
                  resumed |-> drv[d].resumed]
  BY <1>1, MovedDrv
<1>4. CASE call[d].pc = "pending_approval"
  BY <1>4, IdleDrvType DEF AfterGate
<1>5. CASE call[d].pc # "pending_approval"
  <2>1. PICK pc \in {"think", "finish"}, to \in {"done", "failed"} :
          /\ AfterGate(d, Observed(d, res)) = Moved(drv[d], pc, NoPlan, Observed(d, res), to)
          /\ pc = "think" => call[d].pc = "executed"
    <3>1. CASE call[d].pc = "executed"
      BY <3>1 DEF AfterGate, Moved
    <3>2. CASE call[d].pc = "skipped"
      BY <3>2 DEF AfterGate, Moved
    <3>3. CASE call[d].pc = "error"
      BY <3>3 DEF AfterGate, Moved
    <3> QED BY <3>1, <3>2, <3>3, <1>5 DEF Returned
  <2>2. AfterGate(d, Observed(d, res)) =
          [pc |-> pc, plan |-> NoPlan, run |-> drv[d].run, copy |-> Observed(d, res), to |-> to,
           resumed |-> drv[d].resumed]
    BY <2>1, <1>3
  <2>3. AfterGate(d, Observed(d, res)) \in DrvRows
    BY <2>2, <1>1, <1>2 DEF DrvRows, Ended
  <2> QED BY <2>1, <2>2, <2>3, <1>5
<1> QED BY <1>4, <1>5

\* What an exception leaves of the driver.
LEMMA AbandonedDrv ==
  ASSUME LoopInv, NEW d \in Callers, drv[d].pc # "idle", NEW row \in RunRows, Abandon(d, row)
  PROVE  \E v \in DrvRows :
           /\ drv' = [drv EXCEPT ![d] = v] /\ v.pc \in {"idle", "finish"}
           /\ v.pc = "idle" => v = IdleDrv
           /\ v.pc = "finish" => v.run = drv[d].run /\ v.copy = row
<1>1. drv[d].run \in Runs
  BY DEF LoopInv, DrvOK
<1> DEFINE v == TakenUp(IdleDrv, "finish", drv[d].run, row, "failed")
<1>2. v = [pc |-> "finish", plan |-> NoPlan, run |-> drv[d].run, copy |-> row, to |-> "failed", resumed |-> FALSE]
  <2>1. IdleDrv.plan = NoPlan /\ IdleDrv.resumed = FALSE
    BY DEF IdleDrv
  <2>2. ASSUME NEW pc, NEW x, NEW to
        PROVE  TakenUp(IdleDrv, pc, x, row, to) = [pc |-> pc, plan |-> IdleDrv.plan, run |-> x, copy |-> row,
                 to |-> to, resumed |-> IdleDrv.resumed]
    BY IdleDrvType, TakenUpDrv
  <2>3. v = [pc |-> "finish", plan |-> IdleDrv.plan, run |-> drv[d].run, copy |-> row, to |-> "failed",
             resumed |-> IdleDrv.resumed]
    BY <2>2
  <2> HIDE DEF v
  <2> QED BY <2>1, <2>3
<1>3. v \in DrvRows /\ v.pc = "finish" /\ v.run = drv[d].run /\ v.copy = row
  <2> HIDE DEF v
  <2> QED BY <1>1, <1>2 DEF DrvRows, Ended
<1>4. drv' = [drv EXCEPT ![d] = v] \/ drv' = [drv EXCEPT ![d] = IdleDrv]
  BY DEF Abandon, TakenUp
<1> HIDE DEF v
<1> QED BY <1>3, <1>4, IdleDrvType

-----------------------------------------------------------------------------
(* Types, and where threads are. *)

LEMMA LoopStep == LoopInv /\ [LoopNext]_allVars => LoopInv'
<1> SUFFICES ASSUME LoopInv, [LoopNext]_allVars PROVE LoopInv'
  OBVIOUS
<1>0. TypeInv'
  BY StepImplements, TypeStep DEF LoopInv
<1> DEFINE TablesOK == run' \in [Runs -> RunRows \cup {NoRun}] /\ note' \in [Resolvers -> [run : Runs \cup {NoRun}, row : RunRows]]
                       /\ loopEnabled' \in BOOLEAN /\ started' \subseteq Runs
                       /\ idRun' \in [ActionIds -> Runs \cup {NoRun}] /\ acted' \in [Runs -> Nat]
<1> SUFFICES TablesOK /\ drv' \in [Callers -> DrvRows] /\ DrvOK' /\ NoteOK'
  BY <1>0 DEF LoopInv, LoopTypeOK, DrvRows
<1>a. /\ run \in [Runs -> RunRows \cup {NoRun}] /\ note \in [Resolvers -> [run : Runs \cup {NoRun}, row : RunRows]]
      /\ loopEnabled \in BOOLEAN /\ started \subseteq Runs
      /\ idRun \in [ActionIds -> Runs \cup {NoRun}] /\ acted \in [Runs -> Nat]
      /\ drv \in [Callers -> DrvRows]
      /\ resolve \in [Resolvers -> ResolveState]
  BY DEF LoopInv, LoopTypeOK, DrvRows, TypeInv, TypeOK
<1>b. ASSUME UNCHANGED <<call, drv>> PROVE drv' \in [Callers -> DrvRows] /\ DrvOK'
  BY <1>a, <1>b DEF LoopInv, DrvOK, ForceSemi, RequestOf
<1>c. ASSUME UNCHANGED <<resolve, note>> PROVE NoteOK'
  BY <1>c DEF LoopInv, NoteOK
<1>d. ASSUME UNCHANGED <<run, note, loopEnabled, started, idRun, acted>> PROVE TablesOK
  BY <1>a, <1>d
<1> HIDE DEF TablesOK
<1>1. ASSUME NEW d \in Callers, NEW x \in Runs, StartRun(d, x)
      PROVE  TablesOK /\ drv' \in [Callers -> DrvRows] /\ DrvOK' /\ NoteOK'
  <2> DEFINE v == [IdleDrv EXCEPT !.pc = "think", !.run = x]
  <2>1. v = [pc |-> "think", plan |-> NoPlan, run |-> x, copy |-> NewRun, to |-> "done", resumed |-> FALSE]
    <3>1. IdleDrv.plan = NoPlan /\ IdleDrv.resumed = FALSE /\ IdleDrv.to = "done"
      BY DEF IdleDrv
    <3>2. ASSUME NEW pc
          PROVE  Begun(IdleDrv, pc, x) = [pc |-> pc, plan |-> IdleDrv.plan, run |-> x, copy |-> IdleDrv.copy,
                                          to |-> IdleDrv.to, resumed |-> IdleDrv.resumed]
      BY IdleDrvType, BegunDrv
    <3>3. v = Begun(IdleDrv, "think", x)
      BY DEF Begun
    <3> HIDE DEF v
    <3> QED BY <3>1, <3>2, <3>3, IdleDrvType
  <2>2. v \in DrvRows /\ v.pc = "think" /\ v.run \in Runs /\ v.copy.status = "running"
    BY <2>1, NewRunType DEF DrvRows, Ended
  <2>3. drv' = [drv EXCEPT ![d] = v] /\ UNCHANGED <<vars, run, note, loopEnabled, idRun, acted>>
    BY <1>1 DEF StartRun
  <2> HIDE DEF v
  <2>4. drv' \in [Callers -> DrvRows] /\ DrvOK'
    BY <2>2, <2>3, DriverFrame DEF vars
  <2>5. started' \subseteq Runs
    BY <1>1, <1>a DEF StartRun
  <2> QED BY <2>3, <2>4, <2>5, <1>a, <1>c DEF TablesOK, vars
<1>2. ASSUME NEW d \in Callers, StopThinking(d)
      PROVE  TablesOK /\ drv' \in [Callers -> DrvRows] /\ DrvOK' /\ NoteOK'
  <2>1. PICK to \in Ended : drv' = [drv EXCEPT ![d] = [@ EXCEPT !.pc = "finish", !.to = to]]
    BY <1>2 DEF StopThinking, Ended
  <2> DEFINE v == [drv[d] EXCEPT !.pc = "finish", !.to = to]
  <2>2. drv[d] \in DrvRows /\ drv[d].run \in Runs
    BY <1>a, <1>2 DEF LoopInv, DrvOK, StopThinking
  <2>3. v \in DrvRows /\ v.pc = "finish" /\ v.run \in Runs
    BY <2>2 DEF DrvRows
  <2>4. drv' = [drv EXCEPT ![d] = v]
    BY <2>1
  <2> HIDE DEF v
  <2>5. UNCHANGED <<vars, run, note, loopEnabled, loopHist>>
    BY <1>2 DEF StopThinking
  <2>6. drv' \in [Callers -> DrvRows] /\ DrvOK'
    BY <2>3, <2>4, <2>5, DriverFrame DEF vars
  <2> QED BY <2>5, <2>6, <1>c, <1>d DEF vars, loopHist
<1>3. ASSUME NEW d \in Callers, NEW p \in Plans, Propose(d, p)
      PROVE  TablesOK /\ drv' \in [Callers -> DrvRows] /\ DrvOK' /\ NoteOK'
  <2> DEFINE v == [drv[d] EXCEPT !.pc = "gate", !.plan = p]
  <2>1. drv[d] \in DrvRows /\ drv[d].run \in Runs /\ drv[d].copy.status = "running"
    BY <1>a, <1>3 DEF LoopInv, DrvOK, Propose
  <2>2. v \in DrvRows /\ v.pc = "gate" /\ v.run \in Runs /\ v.copy = drv[d].copy /\ v.plan = p
    BY <2>1 DEF DrvRows
  <2>3. drv' = [drv EXCEPT ![d] = v]
    BY <1>3 DEF Propose
  <2> HIDE DEF v
  <2>4. /\ call'[d].req = RequestOf(p, ForceSemi(drv[d].copy, p)) /\ call'[d].pc # "idle"
        /\ \A e \in Callers : e # d => call'[e] = call[e]
    <3>1. call \in [Callers -> CallState]
      BY DEF LoopInv, TypeInv, TypeOK
    <3> DEFINE q == RequestOf(p, ForceSemi(drv[d].copy, p))
    <3>2. Dispatch(d, q)
      BY <1>3 DEF Propose
    <3> HIDE DEF q
    <3>3. call'[d].req = q /\ call'[d].pc # "idle" /\ \A e \in Callers : e # d => call'[e] = call[e]
      BY <3>1, <3>2 DEF Dispatch
    <3> QED BY <3>3 DEF q
  <2>5. UNCHANGED <<resolve, run, note, loopEnabled, loopHist>>
    BY <1>3 DEF Propose, Dispatch
  <2>6. drv' \in [Callers -> DrvRows] /\ DrvOK'
    BY <2>1, <2>2, <2>3, <2>4, DriverFrame
  <2> QED BY <2>5, <2>6, <1>c, <1>d DEF loopHist
<1>4. ASSUME NEW d \in Callers, InGate(d)
      PROVE  TablesOK /\ drv' \in [Callers -> DrvRows] /\ DrvOK' /\ NoteOK'
  <2>1. /\ call'[d].req = call[d].req /\ call'[d].pc # "idle"
        /\ \A e \in Callers : e # d => call'[e] = call[e]
        /\ resolve' = resolve
    BY <1>4, GateStepKeeps DEF InGate, LoopInv
  <2>2. UNCHANGED <<run, drv, note, loopEnabled, started>>
    BY <1>4 DEF InGate
  <2>3. idRun' \in [ActionIds -> Runs \cup {NoRun}]
    <3>1. drv[d].run \in Runs \cup {NoRun}
      BY <1>a DEF DrvRows
    <3> QED BY <3>1, <1>a, <1>4 DEF InGate
  <2>4. acted' \in [Runs -> Nat]
    <3>1. acted' = acted \/ acted' = [acted EXCEPT ![drv[d].run] = @ + 1]
      BY <1>4 DEF InGate
    <3> QED BY <3>1, <1>a
  <2>5. DrvOK'
    <3>1. ASSUME NEW e \in Callers PROVE call'[e].req = call[e].req /\ (call[e].pc # "idle" => call'[e].pc # "idle")
      BY <2>1
    <3> QED BY <2>2, <3>1 DEF LoopInv, DrvOK, ForceSemi, RequestOf
  <2> QED BY <2>1, <2>2, <2>3, <2>4, <2>5, <1>a, <1>c DEF TablesOK
<1>5. ASSUME NEW d \in Callers, Observe(d)
      PROVE  TablesOK /\ drv' \in [Callers -> DrvRows] /\ DrvOK' /\ NoteOK'
  <2>1. /\ drv[d].pc = "gate" /\ call[d].pc \in Returned /\ Return(d)
        /\ UNCHANGED <<note, loopEnabled, loopHist>>
    BY <1>5 DEF Observe, Return
  <2>2. PICK res \in Brought(d) : /\ run' = [run EXCEPT ![drv[d].run] = Observed(d, res)]
                                  /\ drv' = [drv EXCEPT ![d] = AfterGate(d, Observed(d, res))]
    BY <1>5 DEF Observe
  <2>3. Observed(d, res) \in RunRows /\ drv[d].run \in Runs
    BY <2>1, ObservedRow DEF LoopInv, DrvOK
  <2>4. PICK v \in DrvRows : /\ v = AfterGate(d, Observed(d, res)) /\ v.pc \in {"idle", "think", "finish"}
                             /\ v.pc = "idle" => v = IdleDrv
                             /\ v.pc # "idle" => v.run = drv[d].run /\ v.copy = Observed(d, res)
                             /\ v.pc = "think" => call[d].pc = "executed"
    BY <2>1, AfterGateDrv
  <2>5. v.pc = "think" => v.copy.status = "running"
    BY <2>1, <2>4 DEF Observed, LoopInv, DrvOK
  <2>6. (\A e \in Callers : e # d => call'[e] = call[e]) /\ resolve' = resolve
    BY <2>1, ReturnKeeps DEF LoopInv
  <2>7. drv' \in [Callers -> DrvRows] /\ DrvOK'
    BY <2>2, <2>3, <2>4, <2>5, <2>6, IdleDrvType, DriverFrame
  <2>8. run' \in [Runs -> RunRows \cup {NoRun}]
    BY <2>2, <2>3, <1>a
  <2> QED BY <2>1, <2>6, <2>7, <2>8, <1>a, <1>c DEF TablesOK, loopHist
<1>6. ASSUME NEW d \in Callers, DriveRaises(d)
      PROVE  TablesOK /\ drv' \in [Callers -> DrvRows] /\ DrvOK' /\ NoteOK'
  <2>1. /\ drv[d].pc = "gate"
        /\ Return(d) \/ CallRaises(d)
        /\ UNCHANGED <<run, note, loopEnabled, loopHist>>
    BY <1>6 DEF DriveRaises
  <2>2. \E row \in RunRows : Abandon(d, row)
    <3>1. CASE Return(d) /\ \E res \in Brought(d) : Abandon(d, Observed(d, res))
      BY <3>1, <2>1, ObservedRow DEF LoopInv, Return
    <3>2. CASE Abandon(d, drv[d].copy)
      BY <3>2, <1>a DEF DrvRows
    <3> QED BY <3>1, <3>2, <1>6 DEF DriveRaises
  <2>3. PICK v \in DrvRows : /\ drv' = [drv EXCEPT ![d] = v] /\ v.pc \in {"idle", "finish"}
                             /\ v.pc = "idle" => v = IdleDrv
                             /\ v.pc = "finish" => v.run = drv[d].run
    BY <2>1, <2>2, AbandonedDrv
  <2>4. drv[d].run \in Runs
    BY <2>1 DEF LoopInv, DrvOK
  <2>5. (\A e \in Callers : e # d => call'[e] = call[e]) /\ resolve' = resolve
    BY <2>1, ReturnKeeps DEF LoopInv
  <2>6. drv' \in [Callers -> DrvRows] /\ DrvOK'
    BY <2>3, <2>4, <2>5, IdleDrvType, DriverFrame
  <2> QED BY <2>1, <2>5, <2>6, <1>c, <1>d DEF loopHist
<1>7. ASSUME NEW d \in Callers, Finish(d)
      PROVE  TablesOK /\ drv' \in [Callers -> DrvRows] /\ DrvOK' /\ NoteOK'
  <2> DEFINE row == [drv[d].copy EXCEPT !.status = drv[d].to, !.pending = NoId]
  <2>1. /\ drv[d].pc = "finish" /\ drv[d] \in DrvRows /\ drv[d].run \in Runs
        /\ UNCHANGED <<vars, note, loopEnabled, loopHist>>
    BY <1>7, <1>a DEF Finish, LoopInv, DrvOK
  <2>2. row \in RunRows
    BY <2>1 DEF DrvRows, RunRows
  <2>3. run' = run \/ run' = [run EXCEPT ![drv[d].run] = row]
    BY <1>7 DEF Finish
  <2> HIDE DEF row
  <2>4. run' \in [Runs -> RunRows \cup {NoRun}]
    BY <2>2, <2>3, <1>a
  <2>5. drv' = [drv EXCEPT ![d] = IdleDrv] \/ Abandon(d, drv[d].copy)
    BY <1>7 DEF Finish
  <2>6. drv[d].copy \in RunRows
    BY <2>1 DEF DrvRows
  <2>7. PICK v \in DrvRows : /\ drv' = [drv EXCEPT ![d] = v] /\ v.pc \in {"idle", "finish"}
                             /\ v.pc = "idle" => v = IdleDrv
                             /\ v.pc = "finish" => v.run = drv[d].run
    BY <2>1, <2>5, <2>6, AbandonedDrv, IdleDrvType
  <2>8. drv' \in [Callers -> DrvRows] /\ DrvOK'
    BY <2>1, <2>7, IdleDrvType, DriverFrame DEF vars
  <2> QED BY <2>1, <2>4, <2>8, <1>a, <1>c DEF TablesOK, vars, loopHist
<1>8. ASSUME NEW r \in Resolvers, Decide(r)
      PROVE  TablesOK /\ drv' \in [Callers -> DrvRows] /\ DrvOK' /\ NoteOK'
  <2>1. /\ UNCHANGED <<run, drv, note, loopEnabled, started, idRun>>
        /\ DecisionStep(r)
    BY <1>8 DEF Decide
  <2>2. /\ call' = call /\ resolve[r].pc # "notify"
        /\ \A t \in Resolvers : t # r => resolve'[t] = resolve[t]
    BY <2>1, <1>a DEF DecisionStep, DeleteRow, Act, LogDecision, Learn, dbVars, histVars
  <2>3. acted' \in [Runs -> Nat]
    <3>1. acted' = acted \/ acted' = [acted EXCEPT ![idRun[resolve[r].id]] = @ + 1]
      BY <1>8 DEF Decide
    <3> QED BY <3>1, <1>a
  <2>4. NoteOK'
    BY <2>1, <2>2 DEF LoopInv, NoteOK
  <2> QED BY <2>1, <2>2, <2>3, <2>4, <1>a, <1>b DEF TablesOK
<1>9. ASSUME NEW r \in Resolvers, NotifyRead(r)
      PROVE  TablesOK /\ drv' \in [Callers -> DrvRows] /\ DrvOK' /\ NoteOK'
  <2>1. PICK x \in WaitingFor(resolve[r].id) : note' = [note EXCEPT ![r] = [run |-> x, row |-> run[x]]]
    BY <1>9 DEF NotifyRead
  <2>2. /\ resolve[r].pc = "notify"
        /\ UNCHANGED <<vars, run, drv, loopEnabled, loopHist>>
    BY <1>9 DEF NotifyRead
  <2>3. /\ x \in Runs /\ run[x] \in RunRows
        /\ run[x].pending = resolve[r].id /\ run[x].status = "waiting_approval" /\ run[x].steps # <<>>
    BY <1>a DEF WaitingFor
  <2> DEFINE v == [run |-> x, row |-> run[x]]
  <2>4. v \in [run : Runs \cup {NoRun}, row : RunRows] /\ v.row = run[x]
    BY <2>3
  <2>5. note' = [note EXCEPT ![r] = v]
    BY <2>1
  <2> HIDE DEF v
  <2>6. /\ note' \in [Resolvers -> [run : Runs \cup {NoRun}, row : RunRows]]
        /\ note'[r] = v /\ \A t \in Resolvers : t # r => note'[t] = note[t]
    BY <2>4, <2>5, <1>a
  <2>7. NoteOK'
    BY <2>2, <2>3, <2>4, <2>6 DEF LoopInv, NoteOK, vars
  <2> QED BY <2>2, <2>6, <2>7, <1>a, <1>b DEF TablesOK, vars, loopHist
<1>10. ASSUME NEW r \in Resolvers, NotifyNone(r)
       PROVE  TablesOK /\ drv' \in [Callers -> DrvRows] /\ DrvOK' /\ NoteOK'
  <2>1. /\ note[r].run = NoRun /\ call' = call
        /\ resolve' = [resolve EXCEPT ![r] = IdleResolve] /\ UNCHANGED loopVars
    BY <1>10 DEF NotifyNone, NotifyNobody, Reply
  <2>2. \A t \in Resolvers : t # r => resolve'[t] = resolve[t]
    BY <2>1, <1>a
  <2>3. NoteOK'
    BY <2>1, <2>2 DEF LoopInv, NoteOK, loopVars
  <2> QED BY <2>1, <2>3, <1>b, <1>d DEF loopVars, loopHist
<1>11. ASSUME NEW r \in Resolvers, NotifySave(r) \/ NotifyFails(r)
       PROVE  TablesOK /\ drv' \in [Callers -> DrvRows] /\ DrvOK' /\ NoteOK'
  <2>1. /\ note[r].run # NoRun
        /\ resolve' = [resolve EXCEPT ![r] = IdleResolve]
        /\ note' = [note EXCEPT ![r] = NoNote]
        /\ UNCHANGED <<call, loopEnabled, loopHist>>
    BY <1>11 DEF NotifySave, NotifyFails, Reply
  <2>2. NoNote \in [run : Runs \cup {NoRun}, row : RunRows] /\ NoNote.run = NoRun
    BY NewRunType DEF NoNote
  <2>3. note' \in [Resolvers -> [run : Runs \cup {NoRun}, row : RunRows]]
    BY <2>1, <2>2, <1>a
  <2>4. NoteOK'
    <3>1. /\ note'[r] = NoNote
          /\ \A t \in Resolvers : t # r => resolve'[t] = resolve[t] /\ note'[t] = note[t]
      BY <2>1, <1>a
    <3> QED BY <3>1, <2>2 DEF LoopInv, NoteOK
  <2>5. CASE NotifyFails(r)
    <3>1. UNCHANGED <<run, drv>>
      BY <2>5 DEF NotifyFails
    <3> QED BY <3>1, <2>1, <2>3, <2>4, <1>a, <1>b DEF TablesOK, loopHist
  <2>6. CASE NotifySave(r)
    <3>1. PICK res \in IF resolve[r].ok THEN Results(note[r].row.steps[Len(note[r].row.steps)].plan) ELSE {"plain"} :
            /\ run' = [run EXCEPT ![note[r].run] = Resolved(note[r].row, resolve[r].ok, res)]
            /\ IF resolve[r].ok
               THEN \E d \in Callers :
                      /\ drv[d].pc = "idle"
                      /\ drv' = [drv EXCEPT ![d] =
                           [pc |-> IF loopEnabled THEN "think" ELSE "finish", plan |-> NoPlan,
                            run |-> note[r].run, copy |-> Resolved(note[r].row, resolve[r].ok, res),
                            to |-> "done", resumed |-> loopEnabled]]
               ELSE drv' = drv
      BY <2>6 DEF NotifySave
    <3>2. res \in AllResults \cup {"plain"}
      BY LoopAssumption DEF Results
    <3>3. /\ note[r].row \in RunRows /\ note[r].row.steps # <<>> /\ note[r].run \in Runs
          /\ resolve[r].ok \in BOOLEAN
      BY <2>1, <1>a DEF LoopInv, NoteOK, ResolveState
    <3> DEFINE row == Resolved(note[r].row, resolve[r].ok, res)
    <3>4. row \in RunRows
      BY <3>2, <3>3, ResolvedRow
    <3>5. resolve[r].ok => row.status = "running"
      BY DEF Resolved
    <3> HIDE DEF row
    <3>6. run' \in [Runs -> RunRows \cup {NoRun}]
      BY <3>1, <3>4, <1>a DEF row
    <3>7. CASE resolve[r].ok
      <4>1. PICK d \in Callers : drv' = [drv EXCEPT ![d] =
                           [pc |-> IF loopEnabled THEN "think" ELSE "finish", plan |-> NoPlan,
                            run |-> note[r].run, copy |-> row, to |-> "done", resumed |-> loopEnabled]]
        BY <3>1, <3>7 DEF row
      <4> DEFINE v == [pc |-> IF loopEnabled THEN "think" ELSE "finish", plan |-> NoPlan,
                       run |-> note[r].run, copy |-> row, to |-> "done", resumed |-> loopEnabled]
      <4>2. v \in DrvRows /\ v.pc \in {"think", "finish"} /\ v.run \in Runs /\ v.copy.status = "running"
        BY <3>3, <3>4, <3>5, <3>7, <1>a DEF DrvRows, Ended
      <4>3. drv' = [drv EXCEPT ![d] = v]
        BY <4>1
      <4> HIDE DEF v
      <4>4. drv' \in [Callers -> DrvRows] /\ DrvOK'
        BY <4>2, <4>3, <2>1, DriverFrame
      <4> QED BY <4>4, <3>6, <2>1, <2>3, <2>4, <1>a DEF TablesOK, loopHist
    <3>8. CASE ~resolve[r].ok
      BY <3>8, <3>1, <3>6, <2>1, <2>3, <2>4, <1>a, <1>b DEF TablesOK, loopHist
    <3> QED BY <3>7, <3>8
  <2> QED BY <2>5, <2>6, <1>11
<1>12. ASSUME NEW r \in Resolvers, ResolveRaises(r), UNCHANGED loopVars
       PROVE  TablesOK /\ drv' \in [Callers -> DrvRows] /\ DrvOK' /\ NoteOK'
  <2>1. /\ call' = call /\ resolve[r].pc # "notify"
        /\ \A t \in Resolvers : t # r => resolve'[t] = resolve[t]
    BY <1>12, <1>a DEF ResolveRaises
  <2>2. NoteOK'
    BY <2>1, <1>12 DEF LoopInv, NoteOK, loopVars
  <2> QED BY <1>12, <2>1, <2>2, <1>b, <1>d DEF loopVars, loopHist
<1>13. ASSUME Owner, UNCHANGED loopVars
       PROVE  TablesOK /\ drv' \in [Callers -> DrvRows] /\ DrvOK' /\ NoteOK'
  <2>1. call' = call
    BY <1>13 DEF Owner, SetAutonomy, ChatReply, InboxDecision, SelectRow
  <2>2. \A t \in Resolvers : resolve[t].pc # "idle" => resolve'[t] = resolve[t]
    BY <1>13, <1>a DEF Owner, SetAutonomy, ChatReply, InboxDecision, SelectRow
  <2>3. NoteOK'
    BY <2>2, <1>13 DEF LoopInv, NoteOK, loopVars
  <2> QED BY <1>13, <2>1, <2>3, <1>b, <1>d DEF loopVars, loopHist
<1>14. ASSUME Restart
       PROVE  TablesOK /\ drv' \in [Callers -> DrvRows] /\ DrvOK' /\ NoteOK'
  <2>1. /\ drv' = [d \in Callers |-> IdleDrv] /\ note' = [r \in Resolvers |-> NoNote]
        /\ loopEnabled' \in BOOLEAN /\ UNCHANGED <<run, loopHist>>
    BY <1>14 DEF Restart
  <2>2. NoNote \in [run : Runs \cup {NoRun}, row : RunRows] /\ NoNote.run = NoRun
    BY NewRunType DEF NoNote
  <2>3. DrvOK' /\ NoteOK'
    BY <2>1, <2>2, IdleDrvType DEF DrvOK, NoteOK
  <2> QED BY <2>1, <2>2, <2>3, IdleDrvType, <1>a DEF TablesOK, loopHist
<1>15. ASSUME UNCHANGED allVars
       PROVE  TablesOK /\ drv' \in [Callers -> DrvRows] /\ DrvOK' /\ NoteOK'
  BY <1>15, <1>b, <1>c, <1>d DEF allVars, vars, loopVars, loopHist
<1> QED
  BY <1>1, <1>2, <1>3, <1>4, <1>5, <1>6, <1>7, <1>8, <1>9, <1>10, <1>11, <1>12, <1>13, <1>14, <1>15
     DEF LoopNext, DriveStep, ResolveStep

LEMMA LoopStart == LoopInit => LoopInv
<1> SUFFICES ASSUME LoopInit PROVE LoopInv
  OBVIOUS
<1>1. TypeInv
  BY DEF LoopInit, Init, TypeInv, TypeOK, LocalOK, IdleCall, IdleResolve, OffSettings, CallState, ResolveState
<1>2. NoNote \in [run : Runs \cup {NoRun}, row : RunRows] /\ NoNote.run = NoRun
  BY NewRunType DEF NoNote
<1>3. LoopTypeOK
  BY <1>2, IdleDrvType DEF LoopInit, LoopTypeOK, DrvRows
<1>4. NoteOK /\ DrvOK
  BY <1>2, IdleDrvType DEF LoopInit, NoteOK, DrvOK
<1> QED BY <1>1, <1>3, <1>4 DEF LoopInv

\* The tables and the threads of the loop and of the gate stay well typed, a row that was just read
\* is the row of an existing run, and a thread in on_resolved holds a row that waits for its decision.
THEOREM LoopCorrect == LoopSpec => []LoopInv
<1> QED BY LoopStart, LoopStep, PTL DEF LoopSpec

\* The tables and the threads of the gate keep their types under the loop as well, next to those of
\* the loop (of the gate on its own this is TypeCorrect in AutonomyProofs).
THEOREM WellTyped == LoopSpec => []GateTypeOK
<1>1. LoopInv => GateTypeOK
  BY DEF LoopInv, TypeInv, GateTypeOK
<1> QED BY <1>1, LoopCorrect, PTL

\* Every step of the agent loop is a step of the autonomy gate, or none: what holds of the gate
\* holds of it under the loop.
THEOREM LoopImplementsGate == LoopSpec => Spec
<1>1. LoopInit => Init
  BY DEF LoopInit
<1>2. LoopInv /\ [LoopNext]_allVars => [Next]_vars
  BY StepImplements DEF LoopInv
<1> QED BY <1>1, <1>2, LoopCorrect, PTL DEF LoopSpec, Spec

-----------------------------------------------------------------------------
(* Where rows come from. *)

\* A row as a driver observes the gate's answer, as a decider resolves its last step, and as
\* _finish ends it.
Observation(row) ==
  \E d \in Callers : /\ drv[d].pc = "gate" /\ call[d].pc \in Returned
                     /\ \E res \in Brought(d) : row = Observed(d, res)
Outcomes(r) == IF resolve[r].ok THEN Results(note[r].row.steps[Len(note[r].row.steps)].plan) ELSE {"plain"}
Resolution(row) ==
  \E r \in Resolvers : /\ note[r].run # NoRun
                       /\ \E res \in Outcomes(r) : row = Resolved(note[r].row, resolve[r].ok, res)
Ending(row) == \E old \in Known, to \in Ended : row = [old EXCEPT !.status = to, !.pending = NoId]
Made(row) == row \in Known \/ row = NewRun \/ Observation(row) \/ Resolution(row) \/ Ending(row)

LEMMA KnownType == LoopInv => Known \subseteq RunRows
BY DEF LoopInv, LoopTypeOK, Known

LEMMA MadeFrame ==
  ASSUME \A x \in Runs : run'[x] = run[x] \/ Made(run'[x]),
         \A d \in Callers : drv'[d].copy = drv[d].copy \/ Made(drv'[d].copy),
         \A r \in Resolvers : note'[r] = note[r] \/ note'[r].run = NoRun \/ Made(note'[r].row),
         NEW row \in Known'
  PROVE  Made(row)
<1>1. CASE row \in {run'[x] : x \in {y \in Runs : run'[y] # NoRun}}
  <2>1. PICK x \in Runs : run'[x] # NoRun /\ row = run'[x]
    BY <1>1
  <2> QED BY <2>1 DEF Made, Known
<1>2. CASE row \in {drv'[d].copy : d \in Callers}
  BY <1>2 DEF Made, Known
<1>3. CASE row \in {note'[r].row : r \in {t \in Resolvers : note'[t].run # NoRun}}
  <2>1. PICK r \in Resolvers : note'[r].run # NoRun /\ row = note'[r].row
    BY <1>3
  <2> QED BY <2>1 DEF Made, Known
<1> QED BY <1>1, <1>2, <1>3 DEF Known

\* No other row ever comes to be.
LEMMA RowsAreMade ==
  ASSUME LoopInv, [LoopNext]_allVars, NEW row \in Known' PROVE Made(row)
<1>a. /\ run \in [Runs -> RunRows \cup {NoRun}] /\ note \in [Resolvers -> [run : Runs \cup {NoRun}, row : RunRows]]
      /\ drv \in [Callers -> DrvRows]
  BY DEF LoopInv, LoopTypeOK, DrvRows
<1>b. ASSUME NEW d \in Callers PROVE Made(drv[d].copy)
  BY DEF Made, Known
<1>c. NoNote.run = NoRun
  BY DEF NoNote
<1>1. ASSUME NEW d \in Callers, NEW x \in Runs, StartRun(d, x) PROVE Made(row)
  <2>1. PICK pc : drv' = [drv EXCEPT ![d] = Begun(IdleDrv, pc, x)] /\ UNCHANGED <<run, note>>
    BY <1>1 DEF StartRun, Begun
  <2>2. Begun(IdleDrv, pc, x).copy = NewRun
    BY BegunDrv, IdleDrvType
  <2>3. \A e \in Callers : drv'[e].copy \in {drv[e].copy, NewRun}
    BY <2>1, <2>2, <1>a
  <2> QED BY <2>1, <2>3, MadeFrame DEF Made
<1>2. ASSUME NEW d \in Callers, StopThinking(d) PROVE Made(row)
  <2>1. PICK to : drv' = [drv EXCEPT ![d] = [@ EXCEPT !.pc = "finish", !.to = to]] /\ UNCHANGED <<run, note>>
    BY <1>2 DEF StopThinking
  <2>2. \A e \in Callers : drv'[e].copy = drv[e].copy
    BY <2>1, <1>a DEF DrvRows
  <2> QED BY <2>1, <2>2, MadeFrame
<1>3. ASSUME NEW d \in Callers, NEW p \in Plans, Propose(d, p) PROVE Made(row)
  <2>1. drv' = [drv EXCEPT ![d] = [@ EXCEPT !.pc = "gate", !.plan = p]] /\ UNCHANGED <<run, note>>
    BY <1>3 DEF Propose
  <2>2. \A e \in Callers : drv'[e].copy = drv[e].copy
    BY <2>1, <1>a DEF DrvRows
  <2> QED BY <2>1, <2>2, MadeFrame
<1>4. ASSUME UNCHANGED <<run, drv, note>> PROVE Made(row)
  BY <1>4, MadeFrame
<1>5. ASSUME NEW d \in Callers, Observe(d) PROVE Made(row)
  <2>1. drv[d].pc = "gate" /\ call[d].pc \in Returned /\ note' = note
    BY <1>5 DEF Observe, Return
  <2>2. PICK res \in Brought(d) : /\ run' = [run EXCEPT ![drv[d].run] = Observed(d, res)]
                                  /\ drv' = [drv EXCEPT ![d] = AfterGate(d, Observed(d, res))]
    BY <1>5 DEF Observe
  <2>3. Made(Observed(d, res))
    BY <2>1 DEF Made, Observation
  <2>4. AfterGate(d, Observed(d, res)).copy \in {NewRun, Observed(d, res)}
    BY <2>1, AfterGateDrv, IdleDrvType
  <2>5. \A x \in Runs : run'[x] = run[x] \/ run'[x] = Observed(d, res)
    BY <2>2, <1>a
  <2>6. \A e \in Callers : drv'[e].copy = drv[e].copy \/ drv'[e].copy \in {NewRun, Observed(d, res)}
    BY <2>2, <2>4, <1>a
  <2>7. Made(NewRun)
    BY DEF Made
  <2> QED BY <2>1, <2>3, <2>5, <2>6, <2>7, MadeFrame
<1>6. ASSUME NEW d \in Callers, DriveRaises(d) \/ Finish(d) PROVE Made(row)
  <2>1. drv[d].pc # "idle" /\ note' = note /\ drv[d].copy \in RunRows
    BY <1>6, <1>a DEF DriveRaises, Finish, DrvRows
  <2>2. PICK old \in RunRows : Made(old) /\ (Abandon(d, old) \/ drv' = [drv EXCEPT ![d] = IdleDrv])
    <3>1. CASE DriveRaises(d) /\ \E res \in Brought(d) : Return(d) /\ Abandon(d, Observed(d, res))
      <4>1. PICK res \in Brought(d) : Return(d) /\ Abandon(d, Observed(d, res))
        BY <3>1
      <4>2. drv[d].pc = "gate" /\ call[d].pc \in Returned
        BY <3>1, <4>1 DEF DriveRaises, Return
      <4>3. Observed(d, res) \in RunRows /\ Made(Observed(d, res))
        BY <4>2, ObservedRow DEF LoopInv, Made, Observation
      <4> QED BY <4>1, <4>3
    <3>2. CASE Abandon(d, drv[d].copy) \/ drv' = [drv EXCEPT ![d] = IdleDrv]
      BY <3>2, <2>1, <1>b
    <3> QED BY <3>1, <3>2, <1>6 DEF DriveRaises, Finish
  <2>3. PICK v \in DrvRows : drv' = [drv EXCEPT ![d] = v] /\ (v = IdleDrv \/ v.copy = old)
    BY <2>1, <2>2, AbandonedDrv, IdleDrvType
  <2>4. \A e \in Callers : drv'[e].copy = drv[e].copy \/ Made(drv'[e].copy)
    <3>1. Made(v.copy)
      BY <2>2, <2>3, IdleDrvType DEF Made
    <3> QED BY <3>1, <2>3, <1>a
  <2>5. \A x \in Runs : run'[x] = run[x] \/ Made(run'[x])
    <3>1. CASE run' = run
      BY <3>1
    <3>2. CASE run' = [run EXCEPT ![drv[d].run] = [drv[d].copy EXCEPT !.status = drv[d].to, !.pending = NoId]]
      <4>1. drv[d].copy \in Known /\ drv[d].to \in Ended
        BY <1>a DEF Known, DrvRows
      <4>2. Made([drv[d].copy EXCEPT !.status = drv[d].to, !.pending = NoId])
        BY <4>1 DEF Made, Ending
      <4> DEFINE new == [drv[d].copy EXCEPT !.status = drv[d].to, !.pending = NoId]
      <4> HIDE DEF new
      <4> QED BY <4>2, <3>2, <1>a DEF new
    <3> QED BY <3>1, <3>2, <1>6 DEF DriveRaises, Finish
  <2> QED BY <2>1, <2>4, <2>5, MadeFrame
<1>7. ASSUME NEW r \in Resolvers, NotifyRead(r) PROVE Made(row)
  <2>1. PICK x \in WaitingFor(resolve[r].id) : note' = [note EXCEPT ![r] = [run |-> x, row |-> run[x]]]
    BY <1>7 DEF NotifyRead
  <2>2. Made(run[x]) /\ UNCHANGED <<run, drv>>
    BY <1>7 DEF WaitingFor, Made, Known, NotifyRead
  <2>3. \A t \in Resolvers : note'[t] = note[t] \/ note'[t].row = run[x]
    BY <2>1, <1>a
  <2> QED BY <2>2, <2>3, MadeFrame
<1>8. ASSUME NEW r \in Resolvers, NotifySave(r) \/ NotifyFails(r) PROVE Made(row)
  <2>1. note[r].run # NoRun /\ note' = [note EXCEPT ![r] = NoNote]
    BY <1>8 DEF NotifySave, NotifyFails
  <2>2. \A t \in Resolvers : note'[t] = note[t] \/ note'[t].run = NoRun
    BY <2>1, <1>a, <1>c
  <2>3. CASE NotifyFails(r)
    BY <2>2, <2>3, MadeFrame DEF NotifyFails
  <2>4. CASE NotifySave(r)
    <3>1. PICK res \in Outcomes(r) :
            /\ run' = [run EXCEPT ![note[r].run] = Resolved(note[r].row, resolve[r].ok, res)]
            /\ \/ drv' = drv
               \/ \E d \in Callers : \E v : v.copy = Resolved(note[r].row, resolve[r].ok, res)
                                             /\ drv' = [drv EXCEPT ![d] = v]
      <4>1. PICK res \in Outcomes(r) :
              /\ run' = [run EXCEPT ![note[r].run] = Resolved(note[r].row, resolve[r].ok, res)]
              /\ IF resolve[r].ok
                 THEN \E d \in Callers :
                        /\ drv[d].pc = "idle"
                        /\ drv' = [drv EXCEPT ![d] =
                             [pc |-> IF loopEnabled THEN "think" ELSE "finish", plan |-> NoPlan,
                              run |-> note[r].run, copy |-> Resolved(note[r].row, resolve[r].ok, res),
                              to |-> "done", resumed |-> loopEnabled]]
                 ELSE drv' = drv
        BY <2>4 DEF NotifySave, Outcomes
      <4>2. CASE resolve[r].ok
        <5>1. PICK d \in Callers : drv' = [drv EXCEPT ![d] =
                             [pc |-> IF loopEnabled THEN "think" ELSE "finish", plan |-> NoPlan,
                              run |-> note[r].run, copy |-> Resolved(note[r].row, resolve[r].ok, res),
                              to |-> "done", resumed |-> loopEnabled]]
          BY <4>1, <4>2
        <5> DEFINE w == [pc |-> IF loopEnabled THEN "think" ELSE "finish", plan |-> NoPlan,
                         run |-> note[r].run, copy |-> Resolved(note[r].row, resolve[r].ok, res),
                         to |-> "done", resumed |-> loopEnabled]
        <5>2. w.copy = Resolved(note[r].row, resolve[r].ok, res)
          OBVIOUS
        <5>3. drv' = [drv EXCEPT ![d] = w]
          BY <5>1
        <5> HIDE DEF w
        <5> QED BY <4>1, <5>2, <5>3
      <4> QED BY <4>1, <4>2
    <3> DEFINE new == Resolved(note[r].row, resolve[r].ok, res)
    <3>2. Made(new)
      BY <2>1 DEF Made, Resolution
    <3> HIDE DEF new
    <3>3. \A x \in Runs : run'[x] = run[x] \/ run'[x] = new
      BY <3>1, <1>a DEF new
    <3>4. \A d \in Callers : drv'[d].copy = drv[d].copy \/ drv'[d].copy = new
      BY <3>1, <1>a DEF new
    <3> QED BY <2>2, <3>2, <3>3, <3>4, MadeFrame
  <2> QED BY <2>3, <2>4, <1>8
<1>9. CASE Restart
  <2>1. /\ run' = run
        /\ \A d \in Callers : drv'[d].copy = NewRun
        /\ \A r \in Resolvers : note'[r].run = NoRun
    BY <1>9, <1>c, IdleDrvType DEF Restart
  <2> QED BY <2>1, MadeFrame DEF Made
<1> QED
  BY <1>1, <1>2, <1>3, <1>4, <1>5, <1>6, <1>7, <1>8, <1>9
     DEF LoopNext, DriveStep, ResolveStep, InGate, Decide, NotifyNone, loopVars, allVars

-----------------------------------------------------------------------------
(* What rows claim. *)

LEMMA TruthGrows ==
  ASSUME Kept, NEW row \in RunRows, TruthOK(row, autoSent, sends) PROVE TruthOK(row, autoSent', sends')
<1> SUFFICES ASSUME NEW i \in 1..Len(row.steps), row.steps[i].status = "executed"
             PROVE  IF row.steps[i].id = NoId
                    THEN \E a \in autoSent' : a.req.type = row.steps[i].plan.tool
                    ELSE sends'[row.steps[i].id] > 0
  BY DEF TruthOK
<1>1. row.steps[i].id \in ActionIds \cup {NoId}
  <2>1. row.steps \in Seq(Steps)
    BY DEF RunRows
  <2>2. row.steps[i] \in Steps
    BY <2>1
  <2> QED BY <2>2 DEF Steps
<1>2. CASE row.steps[i].id = NoId
  BY <1>2 DEF Kept, TruthOK
<1>3. CASE row.steps[i].id # NoId
  BY <1>1, <1>3 DEF Kept, TruthOK
<1> QED BY <1>2, <1>3

LEMMA ObservedTruth ==
  ASSUME LoopInv, SentFirst, NEW d \in Callers, drv[d].pc = "gate", call[d].pc \in Returned,
         NEW res \in Brought(d), TruthOK(drv[d].copy, autoSent, sends)
  PROVE  TruthOK(Observed(d, res), autoSent, sends) /\ WaitOK(Observed(d, res))
<1> DEFINE old == drv[d].copy
           new == Observed(d, res)
           n   == Len(old.steps)
<1>1. /\ new.steps # <<>> /\ Len(new.steps) = n + 1
      /\ \A i \in 1..n : new.steps[i] = old.steps[i]
      /\ new.steps[n + 1] = StepOf(d, res)
  BY ObservedRow DEF LoopInv
<1>2. n \in Nat
  BY DEF LoopInv, LoopTypeOK, RunRows
<1>3. /\ StepOf(d, res).plan = drv[d].plan /\ StepOf(d, res).status = call[d].pc /\ StepOf(d, res).id = call[d].id
  BY DEF StepOf
<1>4. call[d].pc = "executed" => call[d].id = NoId /\ \E a \in autoSent : a.req.type = drv[d].plan.tool
  <2>1. call[d].req.type = drv[d].plan.tool
    <3>1. call[d].req = RequestOf(drv[d].plan, ForceSemi(drv[d].copy, drv[d].plan))
      BY DEF LoopInv, DrvOK
    <3> QED BY <3>1 DEF RequestOf
  <2>2. call[d].pc = "executed" => call[d].id = NoId
    BY DEF LoopInv, TypeInv, LocalOK
  <2>3. call[d].pc = "executed" => \E a \in autoSent : a.req = call[d].req
    BY DEF SentFirst
  <2> QED BY <2>1, <2>2, <2>3
<1>5. TruthOK(old, autoSent, sends)
  OBVIOUS
<1>6. /\ new.status = IF call[d].pc = "pending_approval" THEN "waiting_approval" ELSE old.status
      /\ new.pending = IF call[d].pc = "pending_approval" THEN call[d].id ELSE old.pending
  BY DEF Observed
<1>7. old.status = "running" /\ (call[d].pc = "pending_approval" => call[d].id \in ActionIds)
  BY DEF LoopInv, DrvOK, TypeInv, LocalOK
<1> HIDE DEF old, new, n
<1>8. TruthOK(new, autoSent, sends)
  <2> SUFFICES ASSUME NEW i \in 1..Len(new.steps), new.steps[i].status = "executed"
               PROVE  IF new.steps[i].id = NoId
                      THEN \E a \in autoSent : a.req.type = new.steps[i].plan.tool
                      ELSE sends[new.steps[i].id] > 0
    BY DEF TruthOK
  <2>1. CASE i = n + 1
    BY <2>1, <1>1, <1>3, <1>4
  <2>2. CASE i \in 1..n
    <3>1. new.steps[i] = old.steps[i]
      BY <2>2, <1>1
    <3> QED BY <3>1, <2>2, <1>5 DEF TruthOK, n
  <2> QED BY <2>1, <2>2, <1>1, <1>2
<1>9. WaitOK(new)
  BY <1>1, <1>3, <1>6, <1>7 DEF WaitOK
<1> QED BY <1>8, <1>9 DEF new

LEMMA ResolvedTruth ==
  ASSUME LoopInv, SentFirst, NEW r \in Resolvers, note[r].run # NoRun, NEW res \in Outcomes(r),
         TruthOK(note[r].row, autoSent, sends), WaitOK(note[r].row)
  PROVE  LET row == Resolved(note[r].row, resolve[r].ok, res)
         IN  TruthOK(row, autoSent, sends) /\ WaitOK(row)
<1> DEFINE old == note[r].row
           ok  == resolve[r].ok
           new == Resolved(old, ok, res)
           n   == Len(old.steps)
<1>1. /\ old \in RunRows /\ old.steps # <<>> /\ ok \in BOOLEAN /\ res \in AllResults \cup {"plain"}
      /\ old.status = "waiting_approval" /\ old.pending = resolve[r].id /\ resolve[r].pc = "notify"
  BY LoopAssumption DEF LoopInv, LoopTypeOK, NoteOK, TypeInv, TypeOK, ResolveState, Outcomes, Results
<1>2. /\ n \in Nat /\ n > 0 /\ Len(new.steps) = n
      /\ \A i \in 1..n : i # n => new.steps[i] = old.steps[i]
      /\ new.steps[n].plan = old.steps[n].plan /\ new.steps[n].id = old.steps[n].id
      /\ new.steps[n].status = IF ok THEN "executed" ELSE "rejected"
  BY <1>1, ResolvedRow
<1>3. old.steps[n].id = resolve[r].id /\ resolve[r].id \in ActionIds /\ resolve[r].id # NoId
  BY <1>1, IdsAssumption DEF WaitOK
<1>4. ok => sends[resolve[r].id] > 0
  BY <1>1 DEF SentFirst
<1>5. TruthOK(old, autoSent, sends)
  OBVIOUS
<1>6. new.status # "waiting_approval"
  BY DEF Resolved
<1> HIDE DEF old, new, n, ok
<1>7. TruthOK(new, autoSent, sends)
  <2> SUFFICES ASSUME NEW i \in 1..Len(new.steps), new.steps[i].status = "executed"
               PROVE  IF new.steps[i].id = NoId
                      THEN \E a \in autoSent : a.req.type = new.steps[i].plan.tool
                      ELSE sends[new.steps[i].id] > 0
    BY DEF TruthOK
  <2>1. CASE i = n
    BY <2>1, <1>2, <1>3, <1>4
  <2>2. CASE i # n
    <3>1. new.steps[i] = old.steps[i] /\ i \in 1..n
      BY <2>2, <1>2
    <3> QED BY <3>1, <1>5 DEF TruthOK, n
  <2> QED BY <2>1, <2>2
<1>8. WaitOK(new)
  BY <1>6 DEF WaitOK
<1> QED BY <1>7, <1>8 DEF new, old, ok

LEMMA EndedRow ==
  ASSUME NEW old \in RunRows, NEW to \in Ended
  PROVE  LET row == [old EXCEPT !.status = to, !.pending = NoId]
         IN  /\ row \in RunRows /\ row.steps = old.steps /\ row.tainted = old.tainted
             /\ row.status # "waiting_approval"
BY DEF RunRows, Ended

LEMMA NewRunOK ==
  TruthOK(NewRun, autoSent, sends) /\ WaitOK(NewRun) /\ TaintOK(NewRun)
<1>1. Len(NewRun.steps) = 0 /\ NewRun.status = "running"
  BY DEF NewRun
<1> QED BY <1>1 DEF TruthOK, WaitOK, TaintOK

LEMMA TruthStep == LoopInv /\ LoopInv' /\ SentFirst /\ RowsTruthful /\ [LoopNext]_allVars => RowsTruthful'
<1> SUFFICES ASSUME LoopInv, LoopInv', SentFirst, RowsTruthful, [LoopNext]_allVars, NEW row \in Known'
             PROVE  TruthOK(row, autoSent', sends') /\ WaitOK(row)
  BY DEF RowsTruthful
<1>1. Kept
  BY StepImplements, KeptStep DEF LoopInv
<1>2. row \in RunRows
  BY DEF LoopInv, LoopTypeOK, Known
<1>3. TruthOK(row, autoSent, sends) /\ WaitOK(row)
  <2>1. CASE row \in Known
    BY <2>1 DEF RowsTruthful
  <2>2. CASE row = NewRun
    BY <2>2, NewRunOK
  <2>3. CASE Observation(row)
    <3>1. PICK d \in Callers : drv[d].pc = "gate" /\ call[d].pc \in Returned
                               /\ \E res \in Brought(d) : row = Observed(d, res)
      BY <2>3 DEF Observation
    <3>2. TruthOK(drv[d].copy, autoSent, sends)
      BY DEF RowsTruthful, Known
    <3> QED BY <3>1, <3>2, ObservedTruth
  <2>4. CASE Resolution(row)
    <3>1. PICK r \in Resolvers : note[r].run # NoRun
                                 /\ \E res \in Outcomes(r) : row = Resolved(note[r].row, resolve[r].ok, res)
      BY <2>4 DEF Resolution
    <3>2. TruthOK(note[r].row, autoSent, sends) /\ WaitOK(note[r].row)
      BY <3>1 DEF RowsTruthful, Known
    <3> QED BY <3>1, <3>2, ResolvedTruth
  <2>5. CASE Ending(row)
    <3>1. PICK old \in Known, to \in Ended : row = [old EXCEPT !.status = to, !.pending = NoId]
      BY <2>5 DEF Ending
    <3>2. TruthOK(old, autoSent, sends) /\ old \in RunRows
      BY KnownType DEF RowsTruthful
    <3>3. row.steps = old.steps /\ row.status # "waiting_approval"
      BY <3>1, <3>2, EndedRow
    <3> QED BY <3>2, <3>3 DEF TruthOK, WaitOK
  <2> QED BY <2>1, <2>2, <2>3, <2>4, <2>5, RowsAreMade DEF Made
<1> QED BY <1>1, <1>2, <1>3, TruthGrows

LEMMA KnownAtStart == LoopInit => Known \subseteq {NewRun}
BY IdleDrvType DEF LoopInit, Known, NoNote

\* Rows are truthful, and a row that waits waits for the id of its last step.
LEMMA RowsCorrect == LoopSpec => []RowsTruthful
<1>1. LoopInit => RowsTruthful
  BY KnownAtStart, NewRunOK DEF RowsTruthful
<1>2. TruthInv => SentFirst
  BY DEF TruthInv
<1> QED
  BY <1>1, <1>2, TruthStep, LoopCorrect, LoopImplementsGate, Truthful, PTL DEF LoopSpec

LEMMA CopiesKnown == Copies \subseteq Known
BY DEF Copies, Known

\* A run never counts an action as executed that the gate has not sent, whichever threads of
\* _drive and on_resolved had the run in hand, in what order and with what failures.
THEOREM RunsTruthful == LoopSpec => []RunIsTruthful
<1>1. RowsTruthful => RunIsTruthful
  BY CopiesKnown DEF RowsTruthful, RunIsTruthful, TruthOK
<1> QED BY <1>1, RowsCorrect, PTL

-----------------------------------------------------------------------------
(* Taint. *)

LEMMA ObservedTaint ==
  ASSUME "marked" \notin ResultKinds,
         LoopInv, SentFirst, UnapprovedSendsPermitted, NEW d \in Callers, drv[d].pc = "gate",
         call[d].pc \in Returned, NEW res \in Brought(d), TaintOK(drv[d].copy)
  PROVE  TaintOK(Observed(d, res))
<1> DEFINE old  == drv[d].copy
           new  == Observed(d, res)
           step == StepOf(d, res)
           n    == Len(old.steps)
           tool == drv[d].plan.tool
<1>1. /\ Len(new.steps) = n + 1
      /\ \A i \in 1..n : new.steps[i] = old.steps[i]
      /\ new.steps[n + 1] = step
  BY ObservedRow DEF LoopInv
<1>2. n \in Nat
  BY DEF LoopInv, LoopTypeOK, RunRows
<1>3. step.plan = drv[d].plan /\ step.status = call[d].pc /\ step.id = call[d].id /\ step.res = res
  BY DEF StepOf
<1>4. call[d].pc = "executed" => ~(old.tainted /\ tool \in OUTBOUND_TOOLS)
  <2> SUFFICES ASSUME call[d].pc = "executed" PROVE ~(old.tainted /\ tool \in OUTBOUND_TOOLS)
    OBVIOUS
  <2>1. PICK a \in autoSent : a.req = call[d].req
    BY DEF SentFirst
  <2>2. ~a.req.force
    BY DEF UnapprovedSendsPermitted, ForcedSemi
  <2>3. call[d].req = RequestOf(drv[d].plan, ForceSemi(old, drv[d].plan))
    BY DEF LoopInv, DrvOK
  <2>4. call[d].req.force = ForceSemi(old, drv[d].plan)
    BY <2>3 DEF RequestOf
  <2> QED BY <2>1, <2>2, <2>4 DEF ForceSemi
<1>5. OutsideContent(step) => new.tainted
  <2> SUFFICES ASSUME OutsideContent(step) PROVE new.tainted
    OBVIOUS
  <2>1. call[d].pc = "executed" /\ tool \in TAINTING_TOOLS /\ res # "refusal"
    BY <1>3 DEF OutsideContent, TAINTING_TOOLS
  <2>2. res = "content"
    BY <2>1, LoopAssumption DEF Brought, Results, AllResults
  <2> QED BY <2>1, <2>2 DEF Observed, TaintAfter, ExternalContent
<1>6. old.tainted => new.tainted
  BY DEF Observed, TaintAfter
<1>7. TaintOK(old)
  OBVIOUS
<1> HIDE DEF old, new, step, n, tool
<1>8. \A i \in 1..Len(new.steps) : i \in 1..n \/ i = n + 1
  BY <1>1, <1>2
<1>9. \A i \in 1..Len(new.steps) : OutsideContent(new.steps[i]) => new.tainted
  BY <1>1, <1>5, <1>6, <1>7, <1>8 DEF TaintOK, n
<1>10. ASSUME NEW i \in 1..Len(new.steps), NEW j \in 1..Len(new.steps), i < j,
              OutsideContent(new.steps[i]), new.steps[j].status = "executed",
              new.steps[j].plan.tool \in OUTBOUND_TOOLS
       PROVE  new.steps[j].id # NoId
  <2>1. i \in 1..n
    BY <1>1, <1>2, <1>10
  <2>2. OutsideContent(old.steps[i]) /\ old.tainted
    BY <2>1, <1>1, <1>7, <1>10 DEF TaintOK, n
  <2>3. CASE j = n + 1
    BY <2>2, <2>3, <1>1, <1>3, <1>4, <1>10 DEF tool
  <2>4. CASE j \in 1..n
    <3>1. new.steps[j] = old.steps[j]
      BY <2>4, <1>1
    <3> QED BY <3>1, <2>1, <2>2, <2>4, <1>7, <1>10 DEF TaintOK, n
  <2> QED BY <2>3, <2>4, <1>8
<1> QED BY <1>9, <1>10 DEF TaintOK, new

LEMMA ResolvedTaint ==
  ASSUME "marked" \notin ResultKinds,
         LoopInv, NEW r \in Resolvers, note[r].run # NoRun, NEW res \in Outcomes(r),
         TaintOK(note[r].row), WaitOK(note[r].row)
  PROVE  TaintOK(Resolved(note[r].row, resolve[r].ok, res))
<1> DEFINE old == note[r].row
           ok  == resolve[r].ok
           new == Resolved(old, ok, res)
           n   == Len(old.steps)
<1>1. /\ old \in RunRows /\ old.steps # <<>> /\ ok \in BOOLEAN /\ res \in AllResults \cup {"plain"}
      /\ old.status = "waiting_approval" /\ old.pending = resolve[r].id /\ resolve[r].pc = "notify"
  BY LoopAssumption DEF LoopInv, LoopTypeOK, NoteOK, TypeInv, TypeOK, ResolveState, Outcomes, Results
<1>2. /\ n \in Nat /\ n > 0 /\ Len(new.steps) = n
      /\ \A i \in 1..n : i # n => new.steps[i] = old.steps[i]
      /\ new.steps[n].plan = old.steps[n].plan /\ new.steps[n].id = old.steps[n].id /\ new.steps[n].res = res
      /\ new.steps[n].status = IF ok THEN "executed" ELSE "rejected"
  BY <1>1, ResolvedRow
<1>3. old.steps[n].id # NoId
  BY <1>1, IdsAssumption DEF WaitOK
<1>4. OutsideContent(new.steps[n]) => new.tainted
  <2> SUFFICES ASSUME OutsideContent(new.steps[n]) PROVE new.tainted
    OBVIOUS
  <2> HIDE DEF new
  <2>1. ok /\ old.steps[n].plan.tool \in TAINTING_TOOLS /\ res # "refusal"
    BY <1>1, <1>2 DEF OutsideContent, TAINTING_TOOLS
  <2>2. res = "content"
    BY <2>1, LoopAssumption DEF Outcomes, Results, AllResults
  <2> QED BY <2>1, <2>2 DEF new, Resolved, TaintAfter, ExternalContent
<1>5. old.tainted => new.tainted
  BY DEF Resolved, TaintAfter
<1>6. TaintOK(old)
  OBVIOUS
<1> HIDE DEF old, new, n, ok
<1>7. \A i \in 1..Len(new.steps) : OutsideContent(new.steps[i]) => new.tainted
  BY <1>2, <1>4, <1>5, <1>6 DEF TaintOK, n
<1>8. ASSUME NEW i \in 1..Len(new.steps), NEW j \in 1..Len(new.steps), i < j,
             OutsideContent(new.steps[i]), new.steps[j].status = "executed",
             new.steps[j].plan.tool \in OUTBOUND_TOOLS
      PROVE  new.steps[j].id # NoId
  <2>1. CASE j = n
    BY <2>1, <1>2, <1>3
  <2>2. CASE j # n
    <3>1. i # n /\ i \in 1..n /\ j \in 1..n
      BY <2>2, <1>2, <1>8
    <3>2. new.steps[i] = old.steps[i] /\ new.steps[j] = old.steps[j]
      BY <3>1, <2>2, <1>2
    <3> QED BY <3>1, <3>2, <1>6, <1>8 DEF TaintOK, n
  <2> QED BY <2>1, <2>2
<1> QED BY <1>7, <1>8 DEF TaintOK, new, old, ok

\* Once the result of a page fetch or of an MCP call has entered a run, every later outbound
\* action that is executed had the owner's approval, over all the threads that drive and resume
\* the run, for results whose first line tells outside content from a refusal
\* (_external_content, _drive, on_resolved).
THEOREM TaintHolds ==
  ASSUME "marked" \notin ResultKinds PROVE LoopSpec => []TaintRule
<1>1. LoopInit => RowsTainted
  BY KnownAtStart, NewRunOK DEF RowsTainted
<1>2. LoopInv /\ SentFirst /\ UnapprovedSendsPermitted /\ RowsTruthful /\ RowsTainted /\ [LoopNext]_allVars
        => RowsTainted'
  <2> SUFFICES ASSUME LoopInv, SentFirst, UnapprovedSendsPermitted, RowsTruthful, RowsTainted,
                      [LoopNext]_allVars, NEW row \in Known'
               PROVE  TaintOK(row)
    BY DEF RowsTainted
  <2>1. CASE row \in Known
    BY <2>1 DEF RowsTainted
  <2>2. CASE row = NewRun
    BY <2>2, NewRunOK
  <2>3. CASE Observation(row)
    <3>1. PICK d \in Callers : drv[d].pc = "gate" /\ call[d].pc \in Returned
                               /\ \E res \in Brought(d) : row = Observed(d, res)
      BY <2>3 DEF Observation
    <3>2. TaintOK(drv[d].copy)
      BY DEF RowsTainted, Known
    <3> QED BY <3>1, <3>2, ObservedTaint
  <2>4. CASE Resolution(row)
    <3>1. PICK r \in Resolvers : note[r].run # NoRun
                                 /\ \E res \in Outcomes(r) : row = Resolved(note[r].row, resolve[r].ok, res)
      BY <2>4 DEF Resolution
    <3>2. TaintOK(note[r].row) /\ WaitOK(note[r].row)
      BY <3>1 DEF RowsTruthful, RowsTainted, Known
    <3> QED BY <3>1, <3>2, ResolvedTaint
  <2>5. CASE Ending(row)
    <3>1. PICK old \in Known, to \in Ended : row = [old EXCEPT !.status = to, !.pending = NoId]
      BY <2>5 DEF Ending
    <3>2. TaintOK(old) /\ old \in RunRows
      BY KnownType DEF RowsTainted
    <3>3. row.steps = old.steps /\ row.tainted = old.tainted
      BY <3>1, <3>2, EndedRow
    <3> QED BY <3>2, <3>3 DEF TaintOK
  <2> QED BY <2>1, <2>2, <2>3, <2>4, <2>5, RowsAreMade DEF Made
<1>3. TruthInv => SentFirst
  BY DEF TruthInv
<1>4. RowsTainted => TaintRule
  BY CopiesKnown DEF RowsTainted, TaintRule, TaintOK
<1> QED
  BY <1>1, <1>2, <1>3, <1>4, LoopCorrect, LoopImplementsGate, Truthful, UnapprovedSends, RowsCorrect, PTL
     DEF LoopSpec

-----------------------------------------------------------------------------
(* One driver. *)

\* A driver that moves on with its run, or lets go of it, disturbs no other.
LEMMA DriverMoves ==
  ASSUME LoopInv, Driven, NEW d \in Callers, drv[d].pc # "idle", NEW v, drv' = [drv EXCEPT ![d] = v],
         v = IdleDrv \/ v.run = drv[d].run,
         note' = note, started' = started,
         \A y \in Runs : y # drv[d].run => run'[y] = run[y],
         v = IdleDrv \/ Behind(run'[drv[d].run], v.copy)
  PROVE  Driven'
<1> DEFINE x == drv[d].run
<1>1. /\ drv \in [Callers -> DrvRows] /\ note \in [Resolvers -> [run : Runs \cup {NoRun}, row : RunRows]]
      /\ x \in Runs
  BY DEF LoopInv, LoopTypeOK, DrvRows, DrvOK
<1>2. drv'[d] = v /\ \A e \in Callers : e # d => drv'[e] = drv[e]
  BY <1>1
<1>3. IdleDrv.pc = "idle" /\ IdleDrv.run = NoRun /\ NoRun \notin Runs
  BY IdleDrvType, LoopAssumption
<1>4. \A e \in Callers : e # d => drv[e].run # x
  BY <1>1 DEF Driven, OneEach
<1>5. OneEach'
  <2> SUFFICES ASSUME NEW e \in Callers, NEW f \in Callers, drv'[e].pc # "idle", drv'[e].run = drv'[f].run
               PROVE  e = f
    BY DEF OneEach
  <2>1. CASE e = d
    BY <2>1, <1>2, <1>3, <1>4
  <2>2. CASE e # d /\ f = d
    <3>1. drv[e].run \in Runs /\ drv[e].run # x
      BY <2>2, <1>2, <1>4 DEF LoopInv, DrvOK
    <3> QED BY <3>1, <2>2, <1>2, <1>3
  <2>3. CASE e # d /\ f # d
    BY <2>3, <1>2 DEF Driven, OneEach
  <2> QED BY <2>1, <2>2, <2>3
<1>6. Ahead'
  <2> SUFFICES ASSUME NEW e \in Callers, drv'[e].pc # "idle"
               PROVE  drv'[e].run \in started' /\ Behind(run'[drv'[e].run], drv'[e].copy)
    BY DEF Ahead, Behind
  <2>1. CASE e = d
    BY <2>1, <1>2, <1>3 DEF Driven, Ahead
  <2>2. CASE e # d
    <3>1. drv'[e] = drv[e] /\ drv[e].run \in Runs /\ drv[e].run # x
      BY <2>2, <1>2, <1>4 DEF LoopInv, DrvOK
    <3> QED BY <3>1 DEF Driven, Ahead
  <2> QED BY <2>1, <2>2
<1>7. Current'
  <2> SUFFICES ASSUME NEW r \in Resolvers, note[r].run # NoRun
               PROVE  run'[note[r].run] # NoRun /\ run'[note[r].run] = note[r].row
    BY DEF Current
  <2>1. note[r].run \in Runs /\ note[r].row.status = "waiting_approval"
    BY <1>1 DEF LoopInv, NoteOK
  <2>2. run[note[r].run] # NoRun /\ run[note[r].run] = note[r].row
    BY DEF Driven, Current
  <2>3. Behind(run[x], drv[d].copy)
    BY DEF Driven, Ahead
  <2>4. note[r].run # x
    BY <2>1, <2>2, <2>3 DEF Behind
  <2> QED BY <2>1, <2>2, <2>4
<1>8. Begins'
  <2>1. x \in started
    BY DEF Driven, Ahead
  <2> QED BY <2>1 DEF Driven, Begins
<1> QED BY <1>5, <1>6, <1>7, <1>8 DEF Driven

\* A driver that has observed an answer is still ahead of its row.
LEMMA ObservedAhead ==
  ASSUME LoopInv, NEW d \in Callers, drv[d].pc = "gate", call[d].pc \in Returned, NEW res \in Brought(d)
  PROVE  /\ Len(Observed(d, res).steps) = Len(drv[d].copy.steps) + 1
         /\ Len(drv[d].copy.steps) \in Nat
         /\ drv[d].copy.tainted => Observed(d, res).tainted
         /\ call[d].pc # "pending_approval" => Observed(d, res).status = "running"
<1>1. drv[d].copy.steps \in Seq(Steps)
  BY DEF LoopInv, LoopTypeOK, RunRows
<1>2. Len(drv[d].copy.steps) \in Nat
  BY <1>1
<1>3. Len(Observed(d, res).steps) = Len(drv[d].copy.steps) + 1
  BY ObservedRow DEF LoopInv
<1>4. drv[d].copy.tainted => Observed(d, res).tainted
  BY DEF Observed, TaintAfter
<1>5. call[d].pc # "pending_approval" => Observed(d, res).status = "running"
  BY DEF Observed, LoopInv, DrvOK
<1> QED BY <1>2, <1>3, <1>4, <1>5

LEMMA DriverStep ==
  LoopInv /\ SoleHolder /\ Serial /\ Driven /\ [LoopNext]_allVars => Driven'
<1> SUFFICES ASSUME LoopInv, SoleHolder, Serial, Driven, [LoopNext]_allVars PROVE Driven'
  OBVIOUS
<1>a. /\ run \in [Runs -> RunRows \cup {NoRun}] /\ note \in [Resolvers -> [run : Runs \cup {NoRun}, row : RunRows]]
      /\ drv \in [Callers -> DrvRows]
      /\ started \subseteq Runs
  BY DEF LoopInv, LoopTypeOK, DrvRows
<1>b. NoNote.run = NoRun /\ IdleDrv.pc = "idle" /\ IdleDrv.run = NoRun /\ NoRun \notin Runs
  BY IdleDrvType, LoopAssumption DEF NoNote
<1>c. ASSUME UNCHANGED <<run, drv, note, started>> PROVE Driven'
  BY <1>c DEF Driven, OneEach, Ahead, Behind, Current, Begins
<1>d. ASSUME NEW d \in Callers, drv[d].pc # "idle" PROVE drv[d].run \in Runs /\ Behind(run[drv[d].run], drv[d].copy)
  BY <1>d DEF Driven, Ahead, LoopInv, DrvOK
<1>1. ASSUME NEW d \in Callers, NEW x \in Runs, StartRun(d, x) PROVE Driven'
  <2>1. PICK pc : drv' = [drv EXCEPT ![d] = Begun(IdleDrv, pc, x)]
    BY <1>1 DEF StartRun, Begun
  <2>2. x \notin started /\ started' = started \cup {x} /\ drv[d].pc = "idle" /\ UNCHANGED <<run, note>>
    BY <1>1 DEF StartRun
  <2>3. /\ drv'[d].run = x /\ \A e \in Callers : e # d => drv'[e] = drv[e]
    BY <2>1, <1>a, BegunDrv, IdleDrvType
  <2>4. run[x] = NoRun
    BY <2>2 DEF Driven, Begins
  <2>5. \A e \in Callers : e # d => drv[e].run # x
    BY <2>2, <1>b DEF Driven, Ahead, LoopInv, DrvOK
  <2>6. OneEach'
    BY <2>3, <2>5 DEF Driven, OneEach
  <2>7. Ahead'
    BY <2>2, <2>3, <2>4 DEF Driven, Ahead, Behind
  <2> QED BY <2>2, <2>6, <2>7 DEF Driven, Current, Begins
<1>2. ASSUME NEW d \in Callers, StopThinking(d) \/ \E p \in Plans : Propose(d, p) PROVE Driven'
  <2>1. drv[d].pc = "think" /\ drv[d] \in DrvRows /\ UNCHANGED <<run, note, started>>
    BY <1>2, <1>a DEF StopThinking, Propose, loopHist
  <2>3. PICK v : drv' = [drv EXCEPT ![d] = v] /\ v.run = drv[d].run /\ v.copy = drv[d].copy
    <3>1. CASE StopThinking(d)
      <4>1. PICK to : drv' = [drv EXCEPT ![d] = [drv[d] EXCEPT !.pc = "finish", !.to = to]]
        BY <3>1 DEF StopThinking
      <4> DEFINE w == [drv[d] EXCEPT !.pc = "finish", !.to = to]
      <4>2. w.run = drv[d].run /\ w.copy = drv[d].copy /\ drv' = [drv EXCEPT ![d] = w]
        BY <2>1, <4>1 DEF DrvRows
      <4> HIDE DEF w
      <4> QED BY <4>2
    <3>2. CASE \E p \in Plans : Propose(d, p)
      <4>1. PICK p \in Plans : drv' = [drv EXCEPT ![d] = [drv[d] EXCEPT !.pc = "gate", !.plan = p]]
        BY <3>2 DEF Propose
      <4> DEFINE w == [drv[d] EXCEPT !.pc = "gate", !.plan = p]
      <4>2. w.run = drv[d].run /\ w.copy = drv[d].copy /\ drv' = [drv EXCEPT ![d] = w]
        BY <2>1, <4>1 DEF DrvRows
      <4> HIDE DEF w
      <4> QED BY <4>2
    <3> QED BY <3>1, <3>2, <1>2
  <2>4. Behind(run'[drv[d].run], v.copy)
    BY <2>1, <2>3, <1>d
  <2> QED BY <2>1, <2>3, <2>4, DriverMoves
<1>3. ASSUME NEW d \in Callers, Observe(d) PROVE Driven'
  <2>1. drv[d].pc = "gate" /\ call[d].pc \in Returned /\ UNCHANGED <<note, started>>
    BY <1>3 DEF Observe, Return, loopHist
  <2>2. PICK res \in Brought(d) : /\ run' = [run EXCEPT ![drv[d].run] = Observed(d, res)]
                                  /\ drv' = [drv EXCEPT ![d] = AfterGate(d, Observed(d, res))]
    BY <1>3 DEF Observe
  <2>3. PICK v \in DrvRows : /\ v = AfterGate(d, Observed(d, res))
                             /\ v.pc = "idle" => v = IdleDrv
                             /\ v.pc # "idle" => /\ call[d].pc # "pending_approval"
                                                 /\ v.run = drv[d].run /\ v.copy = Observed(d, res)
    BY <2>1, AfterGateDrv
  <2>4. run'[drv[d].run] = Observed(d, res) /\ \A y \in Runs : y # drv[d].run => run'[y] = run[y]
    BY <2>1, <2>2, <1>a, <1>d
  <2>5. v = IdleDrv \/ Behind(run'[drv[d].run], v.copy)
    BY <2>1, <2>3, <2>4, ObservedAhead DEF Behind
  <2> QED BY <2>1, <2>2, <2>3, <2>4, <2>5, DriverMoves
<1>4. ASSUME NEW d \in Callers, DriveRaises(d) PROVE Driven'
  <2>1. drv[d].pc = "gate" /\ UNCHANGED <<run, note, started>>
    BY <1>4 DEF DriveRaises, loopHist
  <2>2. PICK row \in RunRows : Abandon(d, row) /\ Behind(run[drv[d].run], row)
    <3>1. CASE \E res \in Brought(d) : Return(d) /\ Abandon(d, Observed(d, res))
      <4>1. PICK res \in Brought(d) : call[d].pc \in Returned /\ Abandon(d, Observed(d, res))
        BY <3>1 DEF Return
      <4>2. Observed(d, res) \in RunRows
        BY <4>1, <2>1, ObservedRow DEF LoopInv
      <4>3. Behind(run[drv[d].run], Observed(d, res))
        <5>1. Behind(run[drv[d].run], drv[d].copy)
          BY <2>1, <1>d
        <5>2. run[drv[d].run] # NoRun => run[drv[d].run] \in RunRows /\ Len(run[drv[d].run].steps) \in Nat
          BY <2>1, <1>a, <1>d DEF RunRows
        <5> QED BY <5>1, <5>2, <4>1, <2>1, ObservedAhead DEF Behind
      <4> QED BY <4>1, <4>2, <4>3
    <3>2. CASE Abandon(d, drv[d].copy)
      BY <3>2, <2>1, <1>a, <1>d DEF DrvRows
    <3> QED BY <3>1, <3>2, <1>4 DEF DriveRaises
  <2>3. PICK v \in DrvRows : /\ drv' = [drv EXCEPT ![d] = v]
                             /\ v = IdleDrv \/ (v.run = drv[d].run /\ v.copy = row)
    BY <2>1, <2>2, AbandonedDrv
  <2> QED BY <2>1, <2>2, <2>3, DriverMoves
<1>5. ASSUME NEW d \in Callers, Finish(d) PROVE Driven'
  <2>1. drv[d].pc = "finish" /\ UNCHANGED <<note, started>>
    BY <1>5 DEF Finish, loopHist
  <2> DEFINE row == [drv[d].copy EXCEPT !.status = drv[d].to, !.pending = NoId]
  <2>2. \A y \in Runs : y # drv[d].run => run'[y] = run[y]
    <3>1. run' = run \/ run' = [run EXCEPT ![drv[d].run] = row]
      BY <1>5 DEF Finish
    <3> HIDE DEF row
    <3> QED BY <3>1, <1>a
  <2>3. CASE drv' = [drv EXCEPT ![d] = IdleDrv]
    BY <2>1, <2>2, <2>3, DriverMoves
  <2>4. CASE run' = run /\ Abandon(d, drv[d].copy)
    <3>1. PICK v \in DrvRows : /\ drv' = [drv EXCEPT ![d] = v]
                               /\ v = IdleDrv \/ (v.run = drv[d].run /\ v.copy = drv[d].copy)
      BY <2>1, <2>4, <1>a, AbandonedDrv DEF DrvRows
    <3> QED BY <3>1, <2>1, <2>2, <2>4, <1>d, DriverMoves
  <2> QED BY <2>3, <2>4, <1>5 DEF Finish
<1>6. ASSUME NEW r \in Resolvers, NotifyRead(r) PROVE Driven'
  <2>1. PICK x \in WaitingFor(resolve[r].id) : note' = [note EXCEPT ![r] = [run |-> x, row |-> run[x]]]
    BY <1>6 DEF NotifyRead
  <2>2. UNCHANGED <<run, drv, started>>
    BY <1>6 DEF NotifyRead, loopHist
  <2>3. x \in Runs /\ run[x] # NoRun
    BY DEF WaitingFor
  <2>4. note'[r].run = x /\ note'[r].row = run[x] /\ \A t \in Resolvers : t # r => note'[t] = note[t]
    BY <2>1, <1>a
  <2>5. Current'
    BY <2>2, <2>3, <2>4 DEF Driven, Current
  <2> QED BY <2>2, <2>5 DEF Driven, OneEach, Ahead, Behind, Begins
<1>7. ASSUME NEW r \in Resolvers, NotifyFails(r) PROVE Driven'
  <2>1. note' = [note EXCEPT ![r] = NoNote] /\ UNCHANGED <<run, drv, started>>
    BY <1>7 DEF NotifyFails, loopHist
  <2>2. Current'
    BY <2>1, <1>a, <1>b DEF Driven, Current
  <2> QED BY <2>1, <2>2 DEF Driven, OneEach, Ahead, Behind, Begins
<1>8. ASSUME NEW r \in Resolvers, NotifySave(r) PROVE Driven'
  <2> DEFINE x == note[r].run
  <2>1. PICK res \in Outcomes(r) :
          /\ run' = [run EXCEPT ![x] = Resolved(note[r].row, resolve[r].ok, res)]
          /\ IF resolve[r].ok
             THEN \E d \in Callers :
                    /\ drv[d].pc = "idle"
                    /\ drv' = [drv EXCEPT ![d] =
                         [pc |-> IF loopEnabled THEN "think" ELSE "finish", plan |-> NoPlan,
                          run |-> x, copy |-> Resolved(note[r].row, resolve[r].ok, res),
                          to |-> "done", resumed |-> loopEnabled]]
             ELSE drv' = drv
    BY <1>8 DEF NotifySave, Outcomes
  <2>2. x # NoRun /\ note' = [note EXCEPT ![r] = NoNote] /\ UNCHANGED <<started, raced>>
    BY <1>8 DEF NotifySave, loopHist
  <2> DEFINE new == Resolved(note[r].row, resolve[r].ok, res)
  <2>3. /\ x \in Runs /\ run[x] # NoRun /\ run[x] = note[r].row /\ run[x].status = "waiting_approval"
        /\ x \in started
    BY <2>2, <1>a DEF Driven, Current, Begins, LoopInv, NoteOK
  <2>4. resolve[r].ok => new.status = "running"
    BY DEF Resolved
  <2>5. \A e \in Callers : drv[e].run # x
    <3> SUFFICES ASSUME NEW e \in Callers, drv[e].run = x PROVE FALSE
      OBVIOUS
    <3>1. drv[e].pc # "idle"
      BY <2>3, <1>b DEF LoopInv, DrvOK
    <3> QED BY <3>1, <2>3, <1>d DEF Behind
  <2>6. \A t \in Resolvers : t # r /\ note[t].run # NoRun => note[t].run # x
    <3> SUFFICES ASSUME NEW t \in Resolvers, note[t].run = x PROVE t = r
      BY <2>2
    <3>1. note[t].row = note[r].row
      BY <2>2, <2>3 DEF Driven, Current
    <3>2. resolve[t].id = resolve[r].id /\ resolve[t].pc = "notify" /\ resolve[r].pc = "notify"
      BY <3>1, <2>2 DEF LoopInv, NoteOK
    <3> QED BY <3>2 DEF SoleHolder, Serial
  <2>7. run'[x] = new /\ \A y \in Runs : y # x => run'[y] = run[y]
    BY <2>1, <2>3, <1>a
  <2> HIDE DEF new
  <2>8. Current'
    <3>1. note'[r].run = NoRun /\ \A t \in Resolvers : t # r => note'[t] = note[t]
      BY <2>2, <1>a, <1>b
    <3>2. \A t \in Resolvers : note[t].run # NoRun => note[t].run \in Runs
      BY <1>a
    <3> QED BY <3>1, <3>2, <2>6, <2>7 DEF Driven, Current
  <2>9. Begins'
    BY <2>2, <2>3, <2>7 DEF Driven, Begins
  <2>10. CASE resolve[r].ok
    <3>1. PICK d \in Callers :
            /\ drv[d].pc = "idle"
            /\ drv' = [drv EXCEPT ![d] =
                 [pc |-> IF loopEnabled THEN "think" ELSE "finish", plan |-> NoPlan,
                  run |-> x, copy |-> new, to |-> "done", resumed |-> loopEnabled]]
      BY <2>1, <2>10 DEF new
    <3>2. /\ drv'[d].run = x /\ drv'[d].copy = new
          /\ \A e \in Callers : e # d => drv'[e] = drv[e]
      BY <3>1, <1>a
    <3>3. OneEach'
      BY <3>2, <2>5 DEF Driven, OneEach
    <3>4. Ahead'
      <4> SUFFICES ASSUME NEW e \in Callers, drv'[e].pc # "idle"
                   PROVE  drv'[e].run \in started' /\ Behind(run'[drv'[e].run], drv'[e].copy)
        BY DEF Ahead, Behind
      <4>1. CASE e = d
        <5>1. Len(new.steps) \in Nat
          <6>1. /\ note[r].row \in RunRows /\ note[r].row.steps # <<>>
                /\ res \in AllResults \cup {"plain"} /\ resolve[r].ok \in BOOLEAN
            BY <2>2, <1>a, LoopAssumption
               DEF LoopInv, NoteOK, TypeInv, TypeOK, ResolveState, Outcomes, Results
          <6>2. Len(new.steps) = Len(note[r].row.steps) /\ Len(note[r].row.steps) \in Nat
            BY <6>1, ResolvedRow DEF new
          <6> QED BY <6>2
        <5> QED BY <5>1, <4>1, <3>2, <2>2, <2>3, <2>4, <2>7, <2>10 DEF Behind
      <4>2. CASE e # d
        <5>1. drv'[e] = drv[e] /\ drv[e].run \in Runs /\ drv[e].run # x
          BY <4>2, <3>2, <2>5 DEF LoopInv, DrvOK
        <5> QED BY <5>1, <2>2, <2>7 DEF Driven, Ahead
      <4> QED BY <4>1, <4>2
    <3> QED BY <3>3, <3>4, <2>8, <2>9 DEF Driven
  <2>11. CASE ~resolve[r].ok
    <3>1. drv' = drv
      BY <2>1, <2>11
    <3>2. Ahead'
      <4> SUFFICES ASSUME NEW e \in Callers, drv[e].pc # "idle"
                   PROVE  drv[e].run \in started' /\ Behind(run'[drv[e].run], drv[e].copy)
        BY <3>1 DEF Ahead, Behind
      <4>1. drv[e].run \in Runs /\ drv[e].run # x
        BY <2>5, <1>d
      <4> QED BY <4>1, <2>2, <2>7 DEF Driven, Ahead
    <3> QED BY <3>1, <3>2, <2>8, <2>9 DEF Driven, OneEach
  <2> QED BY <2>10, <2>11
<1>9. CASE Restart
  <2>1. /\ \A d \in Callers : drv'[d].pc = "idle"
        /\ \A r \in Resolvers : note'[r].run = NoRun
        /\ UNCHANGED <<run, started>>
    BY <1>9, <1>b DEF Restart, loopHist
  <2> QED BY <2>1 DEF Driven, OneEach, Ahead, Behind, Current, Begins
<1> QED
  BY <1>c, <1>1, <1>2, <1>3, <1>4, <1>5, <1>6, <1>7, <1>8, <1>9
     DEF LoopNext, DriveStep, ResolveStep, InGate, Decide, NotifyNone, loopVars, allVars, loopHist

LEMMA DrivenAtStart == LoopInit => Driven
BY IdleDrvType DEF LoopInit, Driven, OneEach, Ahead, Behind, Current, Begins, NoNote

\* While decisions are serial, the order of on_resolved and _drive hands a run from one driver to
\* the next: the invariant of that order.
LEMMA Drivers == LoopSpec => []DriverInv
<1>1. LoopInit => DriverInv
  BY DrivenAtStart DEF DriverInv
<1>2. LoopInv /\ OnceInv /\ DriverInv /\ [LoopNext]_allVars => DriverInv'
  <2> SUFFICES ASSUME LoopInv, OnceInv, DriverInv, [LoopNext]_allVars, Serial' PROVE Driven'
    BY DEF DriverInv
  <2>1. raced \subseteq raced'
    BY StepImplements, RacedGrows DEF LoopInv
  <2>2. Serial
    BY <2>1 DEF Serial
  <2> QED BY <2>2, DriverStep DEF OnceInv, DriverInv
<1> QED
  BY <1>1, <1>2, LoopCorrect, LoopImplementsGate, Once, PTL DEF LoopSpec

\* No save takes steps or taint from a row: while decisions are serial, what _drive and on_resolved
\* save was made from what the row says.
THEOREM RowsGrow == LoopSpec => RowsOnlyGrow
<1> DEFINE Grows == Serial => \A x \in Runs : run[x] # NoRun =>
                      /\ Len(run'[x].steps) >= Len(run[x].steps)
                      /\ run[x].tainted => run'[x].tainted
<1>1. LoopInv /\ DriverInv /\ [LoopNext]_allVars => [Grows]_run
  <2> SUFFICES ASSUME LoopInv, Driven, [LoopNext]_allVars, run' # run, NEW x \in Runs, run[x] # NoRun
               PROVE  /\ Len(run'[x].steps) >= Len(run[x].steps)
                      /\ run[x].tainted => run'[x].tainted
    BY DEF DriverInv
  <2>a. /\ run \in [Runs -> RunRows \cup {NoRun}] /\ note \in [Resolvers -> [run : Runs \cup {NoRun}, row : RunRows]]
        /\ drv \in [Callers -> DrvRows]
        /\ Len(run[x].steps) \in Nat
    BY DEF LoopInv, LoopTypeOK, DrvRows, RunRows
  <2>1. ASSUME run'[x] = run[x]
        PROVE  /\ Len(run'[x].steps) >= Len(run[x].steps)
               /\ run[x].tainted => run'[x].tainted
    BY <2>1, <2>a
  <2>2. ASSUME NEW d \in Callers, Observe(d)
        PROVE  /\ Len(run'[x].steps) >= Len(run[x].steps)
               /\ run[x].tainted => run'[x].tainted
    <3>1. drv[d].pc = "gate" /\ call[d].pc \in Returned
      BY <2>2 DEF Observe, Return
    <3>2. PICK res \in Brought(d) : run' = [run EXCEPT ![drv[d].run] = Observed(d, res)]
      BY <2>2 DEF Observe
    <3>3. CASE drv[d].run = x
      <4>1. Behind(run[x], drv[d].copy)
        BY <3>1, <3>3 DEF Driven, Ahead
      <4>2. run'[x] = Observed(d, res)
        BY <3>2, <3>3, <2>a
      <4> QED BY <4>1, <4>2, <3>1, <2>a, ObservedAhead DEF Behind
    <3>4. CASE drv[d].run # x
      BY <3>2, <3>4, <2>1, <2>a
    <3> QED BY <3>3, <3>4
  <2>3. ASSUME NEW d \in Callers, Finish(d)
        PROVE  /\ Len(run'[x].steps) >= Len(run[x].steps)
               /\ run[x].tainted => run'[x].tainted
    <3> DEFINE row == [drv[d].copy EXCEPT !.status = drv[d].to, !.pending = NoId]
    <3>1. drv[d].pc = "finish" /\ (run' = run \/ run' = [run EXCEPT ![drv[d].run] = row])
      BY <2>3 DEF Finish
    <3>2. row.steps = drv[d].copy.steps /\ row.tainted = drv[d].copy.tainted /\ Len(drv[d].copy.steps) \in Nat
      BY <2>a DEF DrvRows, RunRows
    <3> HIDE DEF row
    <3>3. CASE run'[x] = row /\ drv[d].run = x
      <4>1. Behind(run[x], drv[d].copy)
        BY <3>1, <3>3 DEF Driven, Ahead
      <4> QED BY <4>1, <3>2, <3>3, <2>a DEF Behind
    <3>4. CASE run'[x] = run[x]
      BY <3>4, <2>1
    <3> QED BY <3>1, <3>3, <3>4, <2>a
  <2>4. ASSUME NEW r \in Resolvers, NotifySave(r)
        PROVE  /\ Len(run'[x].steps) >= Len(run[x].steps)
               /\ run[x].tainted => run'[x].tainted
    <3>1. PICK res \in Outcomes(r) : run' = [run EXCEPT ![note[r].run] = Resolved(note[r].row, resolve[r].ok, res)]
      BY <2>4 DEF NotifySave, Outcomes
    <3>2. CASE note[r].run = x
      <4>1. /\ note[r].row \in RunRows /\ note[r].row.steps # <<>> /\ note[r].row = run[x]
            /\ res \in AllResults \cup {"plain"} /\ resolve[r].ok \in BOOLEAN
        BY <2>4, <3>2, <2>a, LoopAssumption
           DEF NotifySave, LoopInv, NoteOK, TypeInv, TypeOK, ResolveState, Outcomes, Results, Driven, Current
      <4>2. Len(Resolved(note[r].row, resolve[r].ok, res).steps) = Len(note[r].row.steps)
        BY <4>1, ResolvedRow
      <4>3. note[r].row.tainted => Resolved(note[r].row, resolve[r].ok, res).tainted
        BY DEF Resolved, TaintAfter
      <4>4. run'[x] = Resolved(note[r].row, resolve[r].ok, res)
        BY <3>1, <3>2, <2>a
      <4> QED BY <4>1, <4>2, <4>3, <4>4, <2>a
    <3>3. CASE note[r].run # x
      BY <3>1, <3>3, <2>1, <2>a
    <3> QED BY <3>2, <3>3
  <2> QED
    BY <2>2, <2>3, <2>4
       DEF LoopNext, StartRun, DriveStep, StopThinking, Propose, InGate, DriveRaises, ResolveStep, Decide,
           NotifyRead, NotifyNone, NotifyFails, Restart, loopVars, allVars
<1> QED
  BY <1>1, LoopCorrect, Drivers, PTL DEF LoopSpec, RowsOnlyGrow

-----------------------------------------------------------------------------
(* How often a run acts. *)

\* A step that sends nothing and asks for nothing.
LEMMA QuietBudget ==
  ASSUME Budgeted, UNCHANGED <<acted, idRun, sends>>, usedIds \subseteq usedIds', started \subseteq started',
         \A x \in Runs : run'[x] = run[x] \/ WaitBudget(x, acted[x], idRun, sends, run'[x]),
         \A d \in Callers : \/ drv'[d] = drv[d] /\ call'[d] = call[d]
                            \/ drv'[d].pc \notin {"think", "gate"}
                            \/ DriverBudget(drv'[d], call'[d], acted[drv'[d].run], idRun, sends)
  PROVE  Budgeted'
<1>1. IdsUsed' /\ AllCapped' /\ Untouched'
  BY DEF Budgeted, IdsUsed, AllCapped, Untouched
<1>2. RowBudgets'
  BY DEF Budgeted, RowBudgets
<1>3. DriverBudgets'
  <2> SUFFICES ASSUME NEW d \in Callers
               PROVE  DriverBudget(drv'[d], call'[d], acted[drv'[d].run], idRun, sends)
    BY DEF DriverBudgets
  <2>1. CASE drv'[d] = drv[d] /\ call'[d] = call[d]
    BY <2>1 DEF Budgeted, DriverBudgets
  <2>2. CASE drv'[d].pc \notin {"think", "gate"}
    BY <2>2 DEF DriverBudget
  <2> QED BY <2>1, <2>2
<1> QED BY <1>1, <1>2, <1>3 DEF Budgeted

\* A row that does not wait counts nothing.
LEMMA NoWait ==
  ASSUME NEW x, NEW n, NEW row, row.status # "waiting_approval" PROVE WaitBudget(x, n, idRun, sends, row)
BY DEF WaitBudget

\* A step that sends or asks on behalf of one run leaves the accounts of the others alone.
LEMMA OneRunBudget ==
  ASSUME LoopInv, Budgeted, UNCHANGED <<run, drv, started>>, usedIds \subseteq usedIds',
         NEW x \in Runs, x \in started,
         \A y \in Runs : y # x => acted'[y] = acted[y],
         \A id \in ActionIds : idRun'[id] = idRun[id] \/ (idRun'[id] = x /\ id \in usedIds' \ usedIds),
         \A id \in ActionIds : sends'[id] = sends[id] \/ idRun[id] = x,
         Capped(acted'[x], Open(x, idRun', sends')),
         WaitBudget(x, acted'[x], idRun', sends', run[x]),
         \A d \in Callers : drv[d].pc # "idle" /\ drv[d].run # x => call'[d] = call[d],
         \A d \in Callers : drv[d].run = x => DriverBudget(drv[d], call'[d], acted'[x], idRun', sends')
  PROVE  Budgeted'
<1>1. \A id \in ActionIds : idRun[id] \in Runs => idRun'[id] = idRun[id]
  <2> SUFFICES ASSUME NEW id \in ActionIds, idRun[id] \in Runs, idRun'[id] # idRun[id] PROVE FALSE
    OBVIOUS
  <2>1. id \notin usedIds /\ idRun[id] # NoRun
    BY LoopAssumption
  <2> QED BY <2>1 DEF Budgeted, IdsUsed
<1>2. \A id \in ActionIds, y \in Runs : y # x => (idRun'[id] = y <=> idRun[id] = y)
  BY <1>1
<1>3. \A y \in Runs : y # x => Open(y, idRun', sends') = Open(y, idRun, sends)
  <2> SUFFICES ASSUME NEW y \in Runs, y # x PROVE Open(y, idRun', sends') = Open(y, idRun, sends)
    OBVIOUS
  <2>1. \A id \in ActionIds : (idRun'[id] = y /\ sends'[id] = 0) <=> (idRun[id] = y /\ sends[id] = 0)
    BY <1>2
  <2> QED BY <2>1 DEF Open
<1>4. IdsUsed'
  <2> SUFFICES ASSUME NEW id \in ActionIds, idRun'[id] # NoRun PROVE id \in usedIds'
    BY DEF IdsUsed
  <2> QED BY DEF Budgeted, IdsUsed
<1>5. AllCapped'
  <2> SUFFICES ASSUME NEW y \in Runs PROVE Capped(acted'[y], Open(y, idRun', sends'))
    BY DEF AllCapped
  <2>1. CASE y # x
    BY <2>1, <1>3 DEF Budgeted, AllCapped
  <2> QED BY <2>1
<1>6. Untouched'
  <2> SUFFICES ASSUME NEW y \in Runs, y \notin started PROVE acted'[y] = 0 /\ Open(y, idRun', sends') = {}
    BY DEF Untouched
  <2> QED BY <1>3 DEF Budgeted, Untouched
<1>7. RowBudgets'
  <2> SUFFICES ASSUME NEW y \in Runs, y # x PROVE WaitBudget(y, acted'[y], idRun', sends', run[y])
    BY DEF RowBudgets
  <2>1. WaitBudget(y, acted[y], idRun, sends, run[y])
    BY DEF Budgeted, RowBudgets
  <2>2. \A id \in ActionIds : idRun[id] = y => idRun'[id] = y /\ sends'[id] = sends[id]
    BY <1>1
  <2> QED BY <2>1, <2>2, <1>3 DEF WaitBudget
<1>8. DriverBudgets'
  <2> SUFFICES ASSUME NEW d \in Callers, drv[d].run # x, drv[d].pc # "idle"
               PROVE  DriverBudget(drv[d], call'[d], acted'[drv[d].run], idRun', sends')
    BY DEF DriverBudgets, DriverBudget
  <2> DEFINE y == drv[d].run
  <2>1. y \in Runs /\ y # x
    BY DEF LoopInv, DrvOK
  <2>2. DriverBudget(drv[d], call[d], acted[y], idRun, sends)
    BY DEF Budgeted, DriverBudgets
  <2>3. call'[d] = call[d] /\ acted'[y] = acted[y] /\ Open(y, idRun', sends') = Open(y, idRun, sends)
    BY <2>1, <1>3
  <2>4. \A id \in ActionIds : idRun[id] = y => idRun'[id] = y /\ sends'[id] = sends[id]
    BY <2>1, <1>1
  <2>5. call[d].pc \in {"ask", "pending_approval"} => call[d].id \in ActionIds
    BY DEF LoopInv, TypeInv, LocalOK
  <2> QED BY <2>2, <2>3, <2>4, <2>5 DEF DriverBudget
<1> QED BY <1>4, <1>5, <1>6, <1>7, <1>8 DEF Budgeted

\* The budget through execute_or_request: a send and the approval asked for both count once.
LEMMA GateBudget ==
  ASSUME LoopInv, ProcessedStaysClosed, Driven, Budgeted, NEW d \in Callers, InGate(d) PROVE Budgeted'
<1> DEFINE x == drv[d].run
           n == Len(drv[d].copy.steps)
<1>1. /\ drv[d].pc = "gate" /\ GateStep(d) /\ UNCHANGED <<run, drv, started>>
      /\ acted' = IF call[d].pc = "send" THEN [acted EXCEPT ![x] = @ + 1] ELSE acted
      /\ idRun' = [id \in ActionIds |-> IF id \in usedIds' \ usedIds THEN x ELSE idRun[id]]
  BY DEF InGate
<1>2. /\ x \in Runs /\ x \in started
      /\ acted \in [Runs -> Nat] /\ acted[x] \in Nat /\ n \in Nat /\ MaxSteps \in Nat
      /\ idRun \in [ActionIds -> Runs \cup {NoRun}] /\ sends \in [ActionIds -> Nat] /\ usedIds \subseteq ActionIds
      /\ call \in [Callers -> CallState]
  BY <1>1, LoopAssumption DEF LoopInv, DrvOK, Driven, Ahead, LoopTypeOK, RunRows, TypeInv, TypeOK
<1>3. Capped(acted[x], Open(x, idRun, sends)) /\ DriverBudget(drv[d], call[d], acted[x], idRun, sends)
  BY <1>2 DEF Budgeted, AllCapped, DriverBudgets
<1>4. \A k, ids, sent : WaitBudget(x, k, ids, sent, run[x])
  <2>1. run[x] # NoRun => run[x].status # "waiting_approval"
    BY <1>1 DEF Driven, Ahead, Behind
  <2> QED BY <2>1 DEF WaitBudget
<1>5. \A e \in Callers : drv[e].run = x => e = d
  BY <1>1 DEF Driven, OneEach
<1>6. \A e \in Callers : drv[e].pc # "idle" /\ drv[e].run # x => call'[e] = call[e]
  BY <1>1, GateStepKeeps DEF LoopInv
<1>7. n < MaxSteps
  BY <1>1, <1>3 DEF DriverBudget
<1>8. CASE SendNow(d)
  <2>1. /\ call[d].pc = "send" /\ call'[d].pc = "log" /\ UNCHANGED <<usedIds, sends>>
    BY <1>8, <1>2 DEF SendNow, CallState
  <2>2. \A id \in ActionIds : idRun'[id] = idRun[id]
    BY <1>1, <2>1
  <2>3. Open(x, idRun', sends') = Open(x, idRun, sends)
    BY <2>1, <2>2 DEF Open
  <2>4. acted'[x] = acted[x] + 1 /\ \A y \in Runs : y # x => acted'[y] = acted[y]
    BY <1>1, <1>2, <2>1
  <2>5. Open(x, idRun, sends) = {} /\ acted[x] <= n
    BY <1>1, <1>3, <2>1 DEF DriverBudget
  <2>6. Capped(acted'[x], Open(x, idRun', sends'))
    BY <1>2, <1>7, <2>3, <2>4, <2>5 DEF Capped
  <2>7. DriverBudget(drv[d], call'[d], acted'[x], idRun', sends')
    BY <1>1, <1>2, <1>7, <2>1, <2>3, <2>4, <2>5 DEF DriverBudget
  <2>8. WaitBudget(x, acted'[x], idRun', sends', run[x])
    BY <1>2, <1>4, <2>4
  <2> HIDE DEF x
  <2> QED BY <1>1, <1>2, <1>5, <1>6, <2>1, <2>2, <2>4, <2>6, <2>7, <2>8, OneRunBudget
<1>9. CASE LogNow(d) \/ RequestApproval(d)
  <2>1. /\ \/ call[d].pc = "log" /\ call'[d].pc \in {"executed", "error"}
           \/ call[d].pc = "ask" /\ call'[d].pc = "pending_approval" /\ call'[d].id = call[d].id
        /\ UNCHANGED <<usedIds, sends>>
    <3>1. CASE LogNow(d)
      <4>1. PICK status \in {"executed", "error"} : call' = [call EXCEPT ![d].pc = status]
        BY <3>1 DEF LogNow
      <4> QED BY <4>1, <3>1, <1>2 DEF LogNow, CallState, histVars
    <3>2. CASE RequestApproval(d)
      BY <3>2, <1>2 DEF RequestApproval, CallState, histVars
    <3> QED BY <3>1, <3>2, <1>9
  <2>2. (\A id \in ActionIds : idRun'[id] = idRun[id]) /\ acted' = acted
    BY <1>1, <2>1
  <2>3. Open(x, idRun', sends') = Open(x, idRun, sends)
    BY <2>1, <2>2 DEF Open
  <2>4. Capped(acted'[x], Open(x, idRun', sends'))
    BY <1>3, <2>2, <2>3
  <2>5. call[d].pc = "ask" => call[d].id \in ActionIds
    BY DEF LoopInv, TypeInv, LocalOK
  <2>6. DriverBudget(drv[d], call'[d], acted'[x], idRun', sends')
    BY <1>1, <1>3, <2>1, <2>2, <2>3, <2>5 DEF DriverBudget
  <2>7. WaitBudget(x, acted'[x], idRun', sends', run[x])
    BY <1>2, <1>4, <2>2
  <2> HIDE DEF x
  <2> QED BY <1>1, <1>2, <1>5, <1>6, <2>1, <2>2, <2>4, <2>6, <2>7, OneRunBudget
<1>10. CASE StorePending(d)
  <2>1. PICK id \in ActionIds \ usedIds :
          /\ usedIds' = usedIds \cup {id}
          /\ call' = [call EXCEPT ![d] = [pc |-> "ask", req |-> call[d].req, snap |-> call[d].snap, id |-> id]]
    BY <1>10 DEF StorePending
  <2>2. call[d].pc = "store" /\ call'[d].pc = "ask" /\ call'[d].id = id /\ UNCHANGED <<sends, acted>>
    BY <1>1, <1>2, <1>10, <2>1 DEF StorePending
  <2>3. idRun'[id] = x /\ \A j \in ActionIds : j # id => idRun'[j] = idRun[j]
    BY <1>1, <2>1
  <2>4. Open(x, idRun, sends) = {} /\ acted[x] <= n
    BY <1>1, <1>3, <2>2 DEF DriverBudget
  <2>5. Open(x, idRun', sends') \subseteq {id}
    BY <2>2, <2>3, <2>4 DEF Open
  <2>6. sends'[id] = 0
    <3>1. ~(sends[id] + rejects[id] > 0)
      BY <2>1 DEF ProcessedStaysClosed
    <3>2. sends[id] \in Nat /\ rejects[id] \in Nat
      BY <1>2, <2>1 DEF LoopInv, TypeInv, TypeOK
    <3> QED BY <3>1, <3>2, <2>2
  <2>7. Capped(acted'[x], Open(x, idRun', sends'))
    BY <1>2, <1>7, <2>2, <2>4, <2>5 DEF Capped
  <2>8. DriverBudget(drv[d], call'[d], acted'[x], idRun', sends')
    BY <1>1, <1>7, <2>2, <2>3, <2>4, <2>5, <2>6 DEF DriverBudget
  <2>9. WaitBudget(x, acted'[x], idRun', sends', run[x])
    BY <1>2, <1>4, <2>2
  <2>10. \A j \in ActionIds : idRun'[j] = idRun[j] \/ (idRun'[j] = x /\ j \in usedIds' \ usedIds)
    BY <2>1, <2>3
  <2> HIDE DEF x
  <2> QED BY <1>1, <1>2, <1>5, <1>6, <2>1, <2>2, <2>7, <2>8, <2>9, <2>10, OneRunBudget
<1> QED BY <1>1, <1>8, <1>9, <1>10 DEF GateStep

\* The budget at the owner's YES: the approval that was asked for is used up by its one send.
LEMMA ActBudget ==
  ASSUME LoopInv, OnceInv, Serial, Budgeted, NEW r \in Resolvers, Decide(r), Act(r),
         resolve[r].ok
  PROVE  Budgeted'
<1> DEFINE id == resolve[r].id
           x  == idRun[id]
<1>1. /\ resolve[r].pc = "act" /\ id \in ActionIds
      /\ sends' = [sends EXCEPT ![id] = @ + 1] /\ acted' = [acted EXCEPT ![x] = @ + 1]
      /\ UNCHANGED <<run, drv, started, idRun, usedIds, call>>
  BY DEF Act, Decide, LoopInv, TypeInv, LocalOK
<1>2. /\ acted \in [Runs -> Nat] /\ MaxSteps \in Nat
      /\ idRun \in [ActionIds -> Runs \cup {NoRun}] /\ sends \in [ActionIds -> Nat]
      /\ x \in Runs \cup {NoRun} /\ NoRun \notin Runs
  BY <1>1, LoopAssumption DEF LoopInv, LoopTypeOK, TypeInv, TypeOK
<1>3. sends[id] = 0
  BY <1>1 DEF OnceInv, EffectOfHolder, Serial
<1>4. sends'[id] = 1 /\ \A j \in ActionIds : j # id => sends'[j] = sends[j]
  BY <1>1, <1>2, <1>3
<1>5. CASE x = NoRun
  <2>1. UNCHANGED <<acted, idRun>>
    BY <1>1, <1>2, <1>5
  <2>2. \A y \in Runs : Open(y, idRun', sends') = Open(y, idRun, sends)
    <3> SUFFICES ASSUME NEW y \in Runs PROVE Open(y, idRun', sends') = Open(y, idRun, sends)
      OBVIOUS
    <3>1. \A j \in ActionIds : idRun[j] = y => j # id
      BY <1>2, <1>5
    <3> QED BY <3>1, <2>1, <1>4 DEF Open
  <2>3. IdsUsed' /\ AllCapped' /\ Untouched'
    BY <1>1, <2>1, <2>2 DEF Budgeted, IdsUsed, AllCapped, Untouched
  <2>4. RowBudgets'
    <3> SUFFICES ASSUME NEW y \in Runs PROVE WaitBudget(y, acted[y], idRun, sends', run[y])
      BY <1>1, <2>1 DEF RowBudgets
    <3>1. WaitBudget(y, acted[y], idRun, sends, run[y])
      BY DEF Budgeted, RowBudgets
    <3>2. \A j \in ActionIds : idRun[j] = y => sends'[j] = sends[j]
      BY <1>2, <1>4, <1>5
    <3> QED BY <3>1, <3>2, <2>1, <2>2 DEF WaitBudget
  <2>5. DriverBudgets'
    <3> SUFFICES ASSUME NEW e \in Callers, drv[e].pc # "idle"
                 PROVE  DriverBudget(drv[e], call[e], acted[drv[e].run], idRun, sends')
      BY <1>1, <2>1 DEF DriverBudgets, DriverBudget
    <3> DEFINE y == drv[e].run
    <3>1. y \in Runs
      BY DEF LoopInv, DrvOK
    <3>2. DriverBudget(drv[e], call[e], acted[y], idRun, sends)
      BY DEF Budgeted, DriverBudgets
    <3>3. \A j \in ActionIds : idRun[j] = y => sends'[j] = sends[j]
      BY <3>1, <1>2, <1>4, <1>5
    <3>4. Open(y, idRun, sends') = Open(y, idRun, sends)
      BY <3>1, <2>1, <2>2
    <3>5. call[e].pc \in {"ask", "pending_approval"} => call[e].id \in ActionIds
      BY DEF LoopInv, TypeInv, LocalOK
    <3> QED BY <3>2, <3>3, <3>4, <3>5 DEF DriverBudget
  <2> QED BY <2>3, <2>4, <2>5 DEF Budgeted
<1>6. CASE x \in Runs
  <2>1. /\ acted'[x] = acted[x] + 1 /\ acted[x] \in Nat
        /\ \A y \in Runs : y # x => acted'[y] = acted[y]
    BY <1>1, <1>2, <1>6
  <2>2. Capped(acted[x], Open(x, idRun, sends)) /\ WaitBudget(x, acted[x], idRun, sends, run[x])
    BY <1>6 DEF Budgeted, AllCapped, RowBudgets
  <2>3. id \in Open(x, idRun, sends)
    BY <1>1, <1>3 DEF Open
  <2>4. Open(x, idRun', sends') = {}
    <3> SUFFICES ASSUME NEW j \in Open(x, idRun', sends') PROVE FALSE
      OBVIOUS
    <3>1. j \in ActionIds /\ idRun[j] = x /\ sends'[j] = 0
      BY <1>1 DEF Open
    <3>2. j # id
      BY <1>4, <3>1
    <3>3. j \in Open(x, idRun, sends)
      BY <1>4, <3>1, <3>2 DEF Open
    <3> QED BY <3>2, <3>3, <2>2, <2>3 DEF Capped
  <2>5. Capped(acted'[x], Open(x, idRun', sends'))
    BY <1>2, <2>1, <2>2, <2>3, <2>4 DEF Capped
  <2>6. WaitBudget(x, acted'[x], idRun', sends', run[x])
    <3> SUFFICES ASSUME run[x] # NoRun, run[x].status = "waiting_approval"
                 PROVE  WaitBudget(x, acted'[x], idRun', sends', run[x])
      BY DEF WaitBudget
    <3> HIDE DEF x, id
    <3>1. /\ run[x].pending \in ActionIds /\ idRun[run[x].pending] = x
          /\ Open(x, idRun, sends) \subseteq {run[x].pending} /\ Len(run[x].steps) <= MaxSteps
          /\ acted[x] < IF sends[run[x].pending] > 0 THEN Len(run[x].steps) + 1 ELSE Len(run[x].steps)
      BY <2>2 DEF WaitBudget
    <3>2. run[x].pending = id
      BY <2>3, <3>1
    <3>3. Len(run[x].steps) \in Nat
      BY <1>6 DEF LoopInv, LoopTypeOK, RunRows
    <3>4. acted[x] < Len(run[x].steps)
      BY <3>1, <3>2, <1>3
    <3>5. acted'[x] < IF sends'[run[x].pending] > 0 THEN Len(run[x].steps) + 1 ELSE Len(run[x].steps)
      BY <3>2, <3>3, <3>4, <2>1, <1>4
    <3> QED BY <1>1, <3>1, <3>5, <2>4 DEF WaitBudget
  <2>7. \A e \in Callers : drv[e].run = x => DriverBudget(drv[e], call'[e], acted'[x], idRun', sends')
    <3> SUFFICES ASSUME NEW e \in Callers, drv[e].run = x
                 PROVE  DriverBudget(drv[e], call[e], acted'[x], idRun, sends')
      BY <1>1
    <3>1. DriverBudget(drv[e], call[e], acted[x], idRun, sends)
      BY DEF Budgeted, DriverBudgets
    <3>2. drv[e].pc = "think" => FALSE
      BY <3>1, <2>3 DEF DriverBudget
    <3>3. drv[e].pc = "gate" => call[e].pc \in {"ask", "pending_approval"} /\ call[e].id = id
      <4>1. drv[e].pc = "gate" => call[e].pc \in {"send", "log", "store", "ask"} \cup Returned
        BY DEF LoopInv, DrvOK, TypeInv, TypeOK, CallState
      <4> QED BY <4>1, <3>1, <2>3 DEF DriverBudget, Returned
    <3>4. Len(drv[e].copy.steps) \in Nat
      BY DEF LoopInv, LoopTypeOK, RunRows
    <3>5. drv[e].pc = "gate" => acted[x] <= Len(drv[e].copy.steps) /\ Len(drv[e].copy.steps) < MaxSteps
      BY <3>1, <3>3, <1>3 DEF DriverBudget
    <3>6. drv[e].pc = "gate" =>
            acted'[x] <= IF sends'[call[e].id] > 0 THEN Len(drv[e].copy.steps) + 1 ELSE Len(drv[e].copy.steps)
      BY <3>3, <3>4, <3>5, <2>1, <1>4
    <3>7. Open(x, idRun, sends') = {}
      BY <1>1, <2>4
    <3>8. idRun[id] = x
      OBVIOUS
    <3> HIDE DEF x, id
    <3> QED BY <3>2, <3>3, <3>5, <3>6, <3>7, <3>8 DEF DriverBudget
  <2>8. x \in started
    BY <1>6, <2>3 DEF Budgeted, Untouched
  <2>9. \A j \in ActionIds : sends'[j] = sends[j] \/ idRun[j] = x
    BY <1>4
  <2> HIDE DEF x
  <2> QED BY <1>1, <1>6, <2>1, <2>5, <2>6, <2>7, <2>8, <2>9, OneRunBudget
<1> QED BY <1>2, <1>5, <1>6

LEMMA BudgetStep ==
  LoopInv /\ OnceInv /\ SentFirst /\ ProcessedStaysClosed /\ Serial /\ Driven /\ Budgeted /\ [LoopNext]_allVars
    => Budgeted'
<1> SUFFICES ASSUME LoopInv, OnceInv, SentFirst, ProcessedStaysClosed, Serial, Driven, Budgeted, [LoopNext]_allVars
             PROVE  Budgeted'
  OBVIOUS
<1>a. /\ run \in [Runs -> RunRows \cup {NoRun}] /\ note \in [Resolvers -> [run : Runs \cup {NoRun}, row : RunRows]]
      /\ drv \in [Callers -> DrvRows] /\ call \in [Callers -> CallState]
      /\ acted \in [Runs -> Nat] /\ MaxSteps \in Nat
      /\ \A d \in Callers : Len(drv[d].copy.steps) \in Nat /\ drv[d].copy \in RunRows
  BY LoopAssumption DEF LoopInv, LoopTypeOK, DrvRows, RunRows, TypeInv, TypeOK
<1>b. IdleDrv.pc = "idle"
  BY IdleDrvType
<1>c. \A d \in Callers : DriverBudget(drv[d], call[d], acted[drv[d].run], idRun, sends)
  BY DEF Budgeted, DriverBudgets
<1>1. ASSUME NEW d \in Callers, NEW x \in Runs, StartRun(d, x) PROVE Budgeted'
  <2>1. PICK pc : drv' = [drv EXCEPT ![d] = Begun(IdleDrv, pc, x)]
    BY <1>1 DEF StartRun, Begun
  <2>2. x \notin started /\ started' = started \cup {x} /\ UNCHANGED <<run, acted, idRun, sends, usedIds, call>>
    BY <1>1 DEF StartRun, vars, histVars
  <2>3. /\ drv'[d].run = x /\ drv'[d].copy = NewRun /\ \A e \in Callers : e # d => drv'[e] = drv[e]
    BY <2>1, <1>a, BegunDrv, IdleDrvType
  <2>4. drv'[d].pc = "think"
    BY <1>1, <1>a DEF StartRun, IdleDrv
  <2>5. Open(x, idRun, sends) = {} /\ acted[x] = 0
    BY <2>2 DEF Budgeted, Untouched
  <2>6. Len(NewRun.steps) = 0
    BY NewRunType
  <2>7. DriverBudget(drv'[d], call'[d], acted[drv'[d].run], idRun, sends)
    BY <2>3, <2>4, <2>5, <2>6 DEF DriverBudget
  <2> QED BY <2>2, <2>3, <2>7, QuietBudget
<1>2. ASSUME NEW d \in Callers, StopThinking(d) PROVE Budgeted'
  <2>1. drv[d].pc = "think" /\ UNCHANGED <<run, started, acted, idRun, sends, usedIds, call>>
    BY <1>2 DEF StopThinking, vars, histVars, loopHist
  <2>2. PICK to : drv' = [drv EXCEPT ![d] = [drv[d] EXCEPT !.pc = "finish", !.to = to]]
    BY <1>2 DEF StopThinking
  <2>3. drv'[d].pc = "finish" /\ \A e \in Callers : e # d => drv'[e] = drv[e]
    BY <2>2, <1>a DEF DrvRows
  <2> QED BY <2>1, <2>3, QuietBudget
<1>3. ASSUME NEW d \in Callers, NEW p \in Plans, Propose(d, p) PROVE Budgeted'
  <2>1. drv[d].pc = "think" /\ UNCHANGED <<run, started, acted, idRun, sends, usedIds>>
    BY <1>3 DEF Propose, Dispatch, histVars, loopHist
  <2>2. drv' = [drv EXCEPT ![d] = [drv[d] EXCEPT !.pc = "gate", !.plan = p]]
    BY <1>3 DEF Propose
  <2>3. /\ drv'[d].run = drv[d].run /\ drv'[d].copy = drv[d].copy /\ drv'[d].pc = "gate"
        /\ \A e \in Callers : e # d => drv'[e] = drv[e]
    BY <2>2, <1>a DEF DrvRows
  <2>4. /\ call'[d].pc \in {"skipped", "send", "store"}
        /\ \A e \in Callers : e # d => call'[e] = call[e]
    <3> DEFINE q == RequestOf(p, ForceSemi(drv[d].copy, p))
    <3>1. Dispatch(d, q)
      BY <1>3 DEF Propose
    <3> HIDE DEF q
    <3> QED BY <3>1, <1>a DEF Dispatch
  <2>5. Open(drv[d].run, idRun, sends) = {} /\ acted[drv[d].run] <= Len(drv[d].copy.steps)
    BY <2>1, <1>c DEF DriverBudget
  <2>6. Len(drv[d].copy.steps) < MaxSteps
    <3>1. ~(Len(drv[d].copy.steps) >= MaxSteps)
      BY <1>3 DEF Propose, AtLimit
    <3> QED BY <3>1, <1>a
  <2>7. DriverBudget(drv'[d], call'[d], acted[drv'[d].run], idRun, sends)
    BY <2>3, <2>4, <2>5, <2>6 DEF DriverBudget
  <2> QED BY <2>1, <2>3, <2>4, <2>7, QuietBudget
<1>4. ASSUME NEW d \in Callers, InGate(d) PROVE Budgeted'
  BY <1>4, GateBudget
<1>5. ASSUME NEW d \in Callers, Observe(d) PROVE Budgeted'
  <2>1. drv[d].pc = "gate" /\ call[d].pc \in Returned /\ UNCHANGED <<started, acted, idRun, sends, usedIds>>
    BY <1>5 DEF Observe, Return, loopHist, histVars
  <2>2. PICK res \in Brought(d) : /\ run' = [run EXCEPT ![drv[d].run] = Observed(d, res)]
                                  /\ drv' = [drv EXCEPT ![d] = AfterGate(d, Observed(d, res))]
    BY <1>5 DEF Observe
  <2> DEFINE x   == drv[d].run
             n   == Len(drv[d].copy.steps)
             new == Observed(d, res)
  <2>3. PICK v \in DrvRows : /\ v = AfterGate(d, Observed(d, res))
                             /\ v.pc # "idle" => /\ call[d].pc # "pending_approval"
                                                 /\ v.run = x /\ v.copy = new
    BY <2>1, AfterGateDrv
  <2>4. /\ Len(new.steps) = n + 1 /\ n \in Nat
        /\ call[d].pc # "pending_approval" => new.status = "running"
    BY <2>1, ObservedAhead
  <2>5. call[d].pc = "pending_approval" => new.pending = call[d].id /\ call[d].id \in ActionIds
    BY DEF Observed, LoopInv, TypeInv, LocalOK
  <2>6. v.pc = "think" => call[d].pc = "executed"
    <3>1. CASE call[d].pc = "pending_approval"
      BY <3>1, <2>3
    <3>2. CASE call[d].pc \in {"skipped", "error"}
      BY <3>2, <2>3 DEF AfterGate
    <3> QED BY <3>1, <3>2, <2>1 DEF Returned
  <2>7. x \in Runs /\ acted[x] \in Nat
    BY <2>1, <1>a DEF LoopInv, DrvOK
  <2>8. run'[x] = new /\ \A y \in Runs : y # x => run'[y] = run[y]
    BY <2>2, <2>7, <1>a
  <2>9. drv'[d] = v /\ \A e \in Callers : e # d => drv'[e] = drv[e] /\ call'[e] = call[e]
    BY <2>2, <2>3, <1>5, <1>a, ReturnKeeps DEF Observe, LoopInv
  <2>10. n < MaxSteps /\ DriverBudget(drv[d], call[d], acted[x], idRun, sends)
    BY <2>1, <1>c DEF DriverBudget
  <2> HIDE DEF new
  <2>11. WaitBudget(x, acted[x], idRun, sends, new)
    <3>1. CASE call[d].pc = "pending_approval"
      <4>1. /\ idRun[call[d].id] = x /\ Open(x, idRun, sends) \subseteq {call[d].id}
            /\ acted[x] <= IF sends[call[d].id] > 0 THEN n + 1 ELSE n
        BY <3>1, <2>1, <2>10 DEF DriverBudget
      <4>2. Len(new.steps) <= MaxSteps
        BY <2>4, <2>10, <1>a
      <4>3. acted[x] < IF sends[call[d].id] > 0 THEN Len(new.steps) + 1 ELSE Len(new.steps)
        BY <4>1, <2>4, <2>7
      <4> HIDE DEF x, n
      <4> QED BY <4>1, <4>2, <4>3, <3>1, <2>5 DEF WaitBudget
    <3>2. CASE call[d].pc # "pending_approval"
      BY <3>2, <2>4 DEF WaitBudget
    <3> QED BY <3>1, <3>2
  <2>12. v.pc = "think" => DriverBudget(v, call'[d], acted[x], idRun, sends)
    <3> SUFFICES ASSUME v.pc = "think" PROVE DriverBudget(v, call'[d], acted[x], idRun, sends)
      OBVIOUS
    <3>1. Open(x, idRun, sends) = {} /\ acted[x] <= n + 1
      BY <2>1, <2>6, <2>10 DEF DriverBudget
    <3>2. v.run = x /\ v.copy = new
      BY <2>3
    <3> HIDE DEF x, n
    <3> QED BY <3>1, <3>2, <2>4 DEF DriverBudget
  <2>13. v.pc # "gate"
    BY <2>3, <2>1 DEF AfterGate, IdleDrv, Returned
  <2>14. drv'[d].pc \notin {"think", "gate"} \/ DriverBudget(drv'[d], call'[d], acted[drv'[d].run], idRun, sends)
    BY <2>3, <2>9, <2>12, <2>13
  <2> HIDE DEF x
  <2> QED BY <2>1, <2>8, <2>9, <2>11, <2>14, QuietBudget
<1>6. ASSUME NEW d \in Callers, DriveRaises(d) PROVE Budgeted'
  <2>1. drv[d].pc = "gate" /\ UNCHANGED <<run, started, acted, idRun, sends, usedIds>>
    BY <1>6 DEF DriveRaises, Return, CallRaises, loopHist, histVars
  <2>2. \A e \in Callers : e # d => call'[e] = call[e]
    BY <1>6, ReturnKeeps DEF DriveRaises, LoopInv
  <2>3. PICK row \in RunRows : Abandon(d, row)
    <3>1. CASE \E res \in Brought(d) : Return(d) /\ Abandon(d, Observed(d, res))
      <4>1. PICK res \in Brought(d) : call[d].pc \in Returned /\ Abandon(d, Observed(d, res))
        BY <3>1 DEF Return
      <4>2. Observed(d, res) \in RunRows
        BY <4>1, <2>1, ObservedRow DEF LoopInv
      <4> QED BY <4>1, <4>2
    <3>2. CASE Abandon(d, drv[d].copy)
      BY <3>2, <1>a
    <3> QED BY <3>1, <3>2, <1>6 DEF DriveRaises
  <2>4. PICK v : drv' = [drv EXCEPT ![d] = v] /\ v.pc \notin {"think", "gate"}
    BY <2>1, <2>3, AbandonedDrv
  <2>5. drv'[d].pc \notin {"think", "gate"} /\ \A e \in Callers : e # d => drv'[e] = drv[e]
    BY <2>4, <1>a
  <2> QED BY <2>1, <2>2, <2>5, QuietBudget
<1>7. ASSUME NEW d \in Callers, Finish(d) PROVE Budgeted'
  <2>1. UNCHANGED <<started, acted, idRun, sends, usedIds, call>>
    BY <1>7 DEF Finish, loopHist, vars, histVars
  <2>2. \A x \in Runs : run'[x] = run[x] \/ run'[x].status # "waiting_approval"
    <3> DEFINE row == [drv[d].copy EXCEPT !.status = drv[d].to, !.pending = NoId]
    <3>1. row.status # "waiting_approval"
      <4>1. drv[d].copy \in RunRows /\ drv[d].to \in Ended
        BY <1>a DEF DrvRows
      <4> QED BY <4>1 DEF RunRows, Ended
    <3>2. run' = run \/ run' = [run EXCEPT ![drv[d].run] = row]
      BY <1>7 DEF Finish
    <3> HIDE DEF row
    <3> QED BY <3>1, <3>2, <1>a
  <2>3. PICK v : drv' = [drv EXCEPT ![d] = v] /\ v.pc \notin {"think", "gate"}
    <3>1. CASE drv' = [drv EXCEPT ![d] = IdleDrv]
      BY <3>1, <1>b
    <3>2. CASE Abandon(d, drv[d].copy)
      <4>1. drv[d].pc # "idle"
        BY <1>7 DEF Finish
      <4> QED BY <4>1, <3>2, <1>a, AbandonedDrv
    <3> QED BY <3>1, <3>2, <1>7 DEF Finish
  <2>4. drv'[d].pc \notin {"think", "gate"} /\ \A e \in Callers : e # d => drv'[e] = drv[e]
    BY <2>3, <1>a
  <2>5. \A x \in Runs : run'[x] = run[x] \/ WaitBudget(x, acted[x], idRun, sends, run'[x])
    BY <2>2 DEF WaitBudget
  <2> QED BY <2>1, <2>4, <2>5, QuietBudget
<1>8. ASSUME NEW r \in Resolvers, Decide(r) PROVE Budgeted'
  <2>1. CASE Act(r) /\ resolve[r].ok
    BY <1>8, <2>1, ActBudget
  <2>2. CASE ~(Act(r) /\ resolve[r].ok)
    <3>1. UNCHANGED <<run, drv, started, acted, idRun, sends, usedIds, call>>
      BY <1>8, <2>2 DEF Decide, DecisionStep, DeleteRow, Act, LogDecision, Learn, dbVars, histVars
    <3> QED BY <3>1, QuietBudget
  <2> QED BY <2>1, <2>2
<1>9. ASSUME UNCHANGED <<run, drv, started, acted, idRun, sends, usedIds, call>> PROVE Budgeted'
  BY <1>9, QuietBudget
<1>10. ASSUME NEW r \in Resolvers, NotifySave(r) PROVE Budgeted'
  <2> DEFINE x == note[r].run
  <2>1. PICK res \in Outcomes(r) :
          /\ run' = [run EXCEPT ![x] = Resolved(note[r].row, resolve[r].ok, res)]
          /\ IF resolve[r].ok
             THEN \E d \in Callers :
                    /\ drv[d].pc = "idle"
                    /\ drv' = [drv EXCEPT ![d] =
                         [pc |-> IF loopEnabled THEN "think" ELSE "finish", plan |-> NoPlan,
                          run |-> x, copy |-> Resolved(note[r].row, resolve[r].ok, res),
                          to |-> "done", resumed |-> loopEnabled]]
             ELSE drv' = drv
    BY <1>10 DEF NotifySave, Outcomes
  <2> DEFINE new == Resolved(note[r].row, resolve[r].ok, res)
  <2>2. x # NoRun /\ UNCHANGED <<started, acted, idRun, sends, usedIds, call>>
    BY <1>10 DEF NotifySave, loopHist
  <2>3. /\ x \in Runs /\ run[x] # NoRun /\ run[x] = note[r].row /\ run[x].status = "waiting_approval"
        /\ run[x].pending = resolve[r].id /\ resolve[r].pc = "notify" /\ acted[x] \in Nat
    BY <2>2, <1>a DEF Driven, Current, LoopInv, NoteOK
  <2>4. new.status # "waiting_approval"
    BY DEF Resolved
  <2>5. Len(new.steps) = Len(run[x].steps) /\ Len(run[x].steps) \in Nat
    <3>1. /\ note[r].row \in RunRows /\ note[r].row.steps # <<>>
          /\ res \in AllResults \cup {"plain"} /\ resolve[r].ok \in BOOLEAN
      BY <2>2, <1>a, LoopAssumption
         DEF LoopInv, NoteOK, TypeInv, TypeOK, ResolveState, Outcomes, Results
    <3>2. Len(new.steps) = Len(note[r].row.steps) /\ Len(note[r].row.steps) \in Nat
      BY <3>1, ResolvedRow DEF new
    <3> QED BY <3>2, <2>3
  <2>6. run'[x] = new /\ \A y \in Runs : y # x => run'[y] = run[y]
    BY <2>1, <2>3, <1>a
  <2>7. \A y \in Runs : run'[y] = run[y] \/ WaitBudget(y, acted[y], idRun, sends, run'[y])
    BY <2>4, <2>6 DEF WaitBudget
  <2> HIDE DEF new
  <2>8. CASE resolve[r].ok
    <3>1. PICK d \in Callers :
            /\ drv[d].pc = "idle"
            /\ drv' = [drv EXCEPT ![d] =
                 [pc |-> IF loopEnabled THEN "think" ELSE "finish", plan |-> NoPlan,
                  run |-> x, copy |-> new, to |-> "done", resumed |-> loopEnabled]]
      BY <2>1, <2>8 DEF new
    <3>2. /\ drv'[d].run = x /\ drv'[d].copy = new /\ drv'[d].pc # "gate"
          /\ \A e \in Callers : e # d => drv'[e] = drv[e]
      BY <3>1, <1>a
    <3>3. WaitBudget(x, acted[x], idRun, sends, run[x])
      BY <2>3 DEF Budgeted, RowBudgets
    <3>4. sends[resolve[r].id] > 0
      BY <2>3, <2>8 DEF SentFirst
    <3>5. Open(x, idRun, sends) \subseteq {resolve[r].id} /\ acted[x] < Len(run[x].steps) + 1
      BY <3>3, <3>4, <2>3 DEF WaitBudget
    <3>6. Open(x, idRun, sends) = {}
      <4>1. sends[resolve[r].id] # 0
        BY <3>4
      <4> QED BY <4>1, <3>5 DEF Open
    <3> HIDE DEF x
    <3>7. acted[x] <= Len(new.steps)
      <4>1. Len(new.steps) = Len(run[x].steps) /\ Len(run[x].steps) \in Nat /\ acted[x] \in Nat
        BY <2>3, <2>5
      <4> QED BY <4>1, <3>5
    <3>8. DriverBudget(drv'[d], call'[d], acted[drv'[d].run], idRun, sends)
      BY <3>2, <3>6, <3>7 DEF DriverBudget
    <3> QED BY <2>2, <2>7, <3>2, <3>8, QuietBudget
  <2>9. CASE ~resolve[r].ok
    BY <2>1, <2>2, <2>7, <2>9, QuietBudget
  <2> QED BY <2>8, <2>9
<1>11. CASE Restart
  <2>1. /\ \A d \in Callers : drv'[d].pc = "idle"
        /\ UNCHANGED <<run, started, acted, idRun, sends, usedIds>>
    BY <1>11, <1>b DEF Restart, Crash, loopHist, histVars
  <2> QED BY <2>1, QuietBudget
<1>12. ASSUME NEW r \in Resolvers, NotifyRead(r) \/ NotifyNone(r) \/ NotifyFails(r) PROVE Budgeted'
  BY <1>9, <1>12 DEF NotifyRead, NotifyNone, NotifyNobody, NotifyFails, Reply, vars, loopVars, loopHist, histVars
<1>13. ASSUME NEW r \in Resolvers, ResolveRaises(r) /\ UNCHANGED loopVars PROVE Budgeted'
  BY <1>9, <1>13 DEF ResolveRaises, loopVars, loopHist, histVars
<1>14. CASE Owner /\ UNCHANGED loopVars
  BY <1>9, <1>14 DEF Owner, SetAutonomy, ChatReply, InboxDecision, SelectRow, loopVars, loopHist
<1>15. CASE UNCHANGED allVars
  BY <1>9, <1>15 DEF allVars, vars, loopVars, loopHist, histVars
<1> QED
  BY <1>1, <1>2, <1>3, <1>4, <1>5, <1>6, <1>7, <1>8, <1>10, <1>11, <1>12, <1>13, <1>14, <1>15
     DEF LoopNext, DriveStep, ResolveStep

LEMMA BudgetAtStart == LoopInit => Budgeted
<1> SUFFICES ASSUME LoopInit PROVE Budgeted
  OBVIOUS
<1>1. /\ \A x \in Runs : acted[x] = 0 /\ run[x] = NoRun
      /\ \A id \in ActionIds : idRun[id] = NoRun
      /\ \A d \in Callers : drv[d].pc = "idle"
      /\ MaxSteps \in Nat /\ NoRun \notin Runs
  BY IdleDrvType, LoopAssumption DEF LoopInit
<1>2. \A x \in Runs : Open(x, idRun, sends) = {}
  BY <1>1 DEF Open
<1> QED
  BY <1>1, <1>2
     DEF Budgeted, IdsUsed, AllCapped, Capped, Untouched, RowBudgets, WaitBudget, DriverBudgets, DriverBudget

\* What counts against a run's step limit: the actions sent, and the approval it asked for and has
\* not used; on_resolved and _drive hand the count over with the row.
LEMMA Budget == LoopSpec => []BudgetInv
<1>1. LoopInit => BudgetInv
  BY BudgetAtStart DEF BudgetInv
<1>2. LoopInv /\ OnceInv /\ TruthInv /\ ProcessedStaysClosed /\ DriverInv /\ BudgetInv /\ [LoopNext]_allVars => BudgetInv'
  <2> SUFFICES ASSUME LoopInv, OnceInv, TruthInv, ProcessedStaysClosed, DriverInv, BudgetInv, [LoopNext]_allVars, Serial'
               PROVE  Budgeted'
    BY DEF BudgetInv
  <2>1. raced \subseteq raced'
    BY StepImplements, RacedGrows DEF LoopInv
  <2>2. Serial
    BY <2>1 DEF Serial
  <2> QED BY <2>2, BudgetStep DEF DriverInv, BudgetInv, TruthInv
<1> QED
  BY <1>1, <1>2, LoopCorrect, LoopImplementsGate, Once, Truthful, ProcessedClosed, Drivers, PTL DEF LoopSpec

\* While decisions are serial, a run is driven by one thread at a time and sends no more actions
\* than its step limit, over all the threads that _drive it before and after approvals and however
\* these threads, the owner's decisions, failures and restarts interleave.
THEOREM RunBounds == LoopSpec => []RunKeepsItsBounds
<1>1. DriverInv /\ BudgetInv => RunKeepsItsBounds
  BY DEF DriverInv, BudgetInv, Driven, OneEach, Budgeted, AllCapped, Capped,
         RunKeepsItsBounds, ActionBudget, OneDriver
<1> QED
  BY <1>1, Drivers, Budget, PTL

=============================================================================
