-------------------------- MODULE AgentRunsProofs ---------------------------
(***************************************************************************)
(* Proofs about the agent library: what a run may delegate, that a call    *)
(* has its effect once, and that nothing goes out unapproved.              *)
(***************************************************************************)
EXTENDS AgentRuns, FiniteSetTheorems, SequenceTheorems, TLAPS

-----------------------------------------------------------------------------
(* The invariants, of one thread v and the store S. *)

ThreadRows ==
  [pc : {"idle", "think", "tool", "record", "close", "claim", "reject", "broken"},
   stack : Seq(RunRows), call : Calls \cup {NoCall}, ok : BOOLEAN]

OtherTypes ==
  /\ atomic \in BOOLEAN /\ nextRun \in Nat
  /\ ran \in [RunIds -> [Calls -> Nat]]
  /\ seen \subseteq RunIds /\ overtaken \subseteq RunIds

AgTypes == OtherTypes /\ AgTypeOK /\ thread \in [Threads -> ThreadRows]

\* The steps that children may have taken when the stack holds n runs: a delegation begins below
\* MaxChildSteps, and each run above the root may add its own.
AllowedSteps(n) == MaxChildSteps - 1 + (MaxDepth + 1 - n) * StepLimit

\* A run that can take one more step.
Spare(run) == Cardinality(run.steps) < StepLimit

RowOK(run) ==
  /\ IsFiniteSet(run.steps) /\ Cardinality(run.steps) <= StepLimit
  /\ run.delegations <= MaxDelegations

\* A stored run has kept to its limits; one that waits has room for the call it waits for.
StoredOK(run) ==
  /\ RowOK(run) /\ run.childSteps <= AllowedSteps(1)
  /\ run.status = "awaiting_approval" => Spare(run) /\ run.pending \in Calls \ run.steps

\* A run inside a delegate call.
Below(run) == Spare(run) /\ run.pending \in Delegates \ run.steps /\ run.status = "running"

\* The runs on a thread's stack.
Shape(v) ==
  /\ v.pc = "idle" <=> v.stack = <<>>
  /\ Len(v.stack) <= MaxDepth + 1
  /\ \A i \in 1..Len(v.stack) :
       /\ RowOK(v.stack[i])
       /\ i > 1 => v.stack[i].delegations = 0 /\ v.stack[i].childSteps = 0
       /\ i < Len(v.stack) => Below(v.stack[i])
  /\ v.stack # <<>> => v.stack[1].childSteps <= AllowedSteps(Len(v.stack))

\* What follows from where the thread is.
Stage(v, S) ==
  /\ v.pc \in {"tool", "record", "reject", "claim"} =>
       v.call \in Calls \ Last(v.stack).steps /\ Spare(Last(v.stack))
  /\ v.pc \in {"think", "tool", "record", "reject"} => Last(v.stack).status = "running"
  /\ v.pc \in {"close", "claim"} => S[Last(v.stack).id] # NoRun
  /\ v.pc = "claim" =>
       /\ Len(v.stack) = 1 /\ StoredOK(Last(v.stack))
       /\ Last(v.stack).status = "awaiting_approval" /\ v.call = Last(v.stack).pending

StoreOK == \A r \in RunIds : store[r] # NoRun => StoredOK(store[r])

BudgetInv ==
  /\ AgTypes /\ StoreOK
  /\ \A t \in Threads : Shape(thread[t]) /\ Stage(thread[t], store)

\* The runs a thread has in hand, by their places in its stack: not the copy it has not claimed
\* yet, and not the one it has paused.
Own(v) == {i \in 1..Len(v.stack) : i < Len(v.stack) \/ v.pc \notin {"claim", "close"}}
IdsOf(v) == {v.stack[i].id : i \in Own(v)}

\* A call of a run with counts R that had its effect, which its owner knows of.
Knows(v, i, R) ==
  \A c \in Calls : R[v.stack[i].id][c] > 0 =>
    c \in v.stack[i].steps \/ (i = Len(v.stack) /\ v.pc = "record" /\ c = v.call)

Share(v, S, next, R, over) ==
  /\ \A i \in 1..Len(v.stack) : v.stack[i].id < next
  /\ \A i, j \in 1..Len(v.stack) : v.stack[i].id = v.stack[j].id => i = j
  /\ \A i \in Own(v) : v.stack[i].id \notin over =>
       /\ S[v.stack[i].id] # NoRun => S[v.stack[i].id].status # "awaiting_approval"
       /\ Knows(v, i, R)

StoreKnows(r, S, next, R, over) ==
  /\ S[r] # NoRun => r < next
  /\ \A c \in Calls : R[r][c] > 0 => r < next
  /\ r \notin over =>
       /\ \A c \in Calls : R[r][c] <= 1
       /\ S[r] # NoRun /\ S[r].status = "awaiting_approval" => \A c \in Calls : R[r][c] > 0 => c \in S[r].steps

Apart(T, over) == \A t, u \in Threads : t # u => IdsOf(T[t]) \cap IdsOf(T[u]) \subseteq over

Owned ==
  /\ \A t \in Threads : Share(thread[t], store, nextRun, ran, overtaken)
  /\ \A r \in RunIds : StoreKnows(r, store, nextRun, ran, overtaken)
  /\ Apart(thread, overtaken)

OwnerInv == atomic => Owned

\* What a thread that works on a run knows of the content the run has been shown.
Marked(v, shown) ==
  /\ \A i \in Own(v) : v.stack[i].id \in shown =>
       \/ v.stack[i].tainted
       \/ i < Len(v.stack) /\ Taints # {}
       \/ i = Len(v.stack) /\ v.pc = "record" /\ v.call \in Taints
  /\ v.pc = "tool" /\ ~v.ok /\ v.call \in Outbound => ~Last(v.stack).tainted

TaintKnown ==
  /\ \A t \in Threads : Marked(thread[t], seen)
  /\ \A r \in seen : r < nextRun /\ (store[r] # NoRun /\ store[r].status = "awaiting_approval" => store[r].tainted)
  /\ loose = {}

TaintInv == atomic /\ overtaken = {} => TaintKnown

-----------------------------------------------------------------------------
(* Stacks. *)

\* The state of a thread, as one record.
At(pc, stack, call, ok) == [pc |-> pc, stack |-> stack, call |-> call, ok |-> ok]

LEMMA AtType ==
  ASSUME NEW pc \in {"idle", "think", "tool", "record", "close", "claim", "reject", "broken"},
         NEW s \in Seq(RunRows), NEW c \in Calls \cup {NoCall}, NEW ok \in BOOLEAN
  PROVE  /\ At(pc, s, c, ok) \in ThreadRows
         /\ At(pc, s, c, ok).pc = pc /\ At(pc, s, c, ok).stack = s
         /\ At(pc, s, c, ok).call = c /\ At(pc, s, c, ok).ok = ok
BY DEF At, ThreadRows

LEMMA Fields ==
  ASSUME NEW v \in ThreadRows
  PROVE  /\ v.pc \in {"idle", "think", "tool", "record", "close", "claim", "reject", "broken"}
         /\ v.stack \in Seq(RunRows) /\ v.call \in Calls \cup {NoCall} /\ v.ok \in BOOLEAN
BY DEF ThreadRows

LEMMA Whole == ASSUME NEW v \in ThreadRows PROVE v = At(v.pc, v.stack, v.call, v.ok)
BY Zenon DEF At, ThreadRows

LEMMA Chained ==
  ASSUME NEW v, NEW pc, NEW s, NEW c, NEW ok
  PROVE  /\ [v EXCEPT !.pc = pc, !.stack = s] = [[v EXCEPT !.pc = pc] EXCEPT !.stack = s]
         /\ [v EXCEPT !.pc = pc, !.call = c, !.ok = ok] = [[[v EXCEPT !.pc = pc] EXCEPT !.call = c] EXCEPT !.ok = ok]
         /\ [v EXCEPT !.pc = pc, !.stack = s, !.call = c, !.ok = ok]
               = [[[[v EXCEPT !.pc = pc] EXCEPT !.stack = s] EXCEPT !.call = c] EXCEPT !.ok = ok]
         /\ [v EXCEPT !.pc = pc, !.stack = s, !.call = c]
               = [[[v EXCEPT !.pc = pc] EXCEPT !.stack = s] EXCEPT !.call = c]
OBVIOUS

\* The changes of a thread that keep some of its fields.
WithPc(v, pc) == [v EXCEPT !.pc = pc]
WithStack(v, pc, s) == [v EXCEPT !.pc = pc, !.stack = s]
WithCall(v, pc, c, ok) == [v EXCEPT !.pc = pc, !.call = c, !.ok = ok]
WithBoth(v, pc, s, c) == [v EXCEPT !.pc = pc, !.stack = s, !.call = c]
WithAll(v, pc, s, c, ok) == [v EXCEPT !.pc = pc, !.stack = s, !.call = c, !.ok = ok]

LEMMA Changed ==
  ASSUME NEW v \in ThreadRows, NEW pc, NEW s, NEW c, NEW ok
  PROVE  /\ WithStack(v, pc, s) = At(pc, s, v.call, v.ok)
         /\ WithPc(v, pc) = At(pc, v.stack, v.call, v.ok)
         /\ WithCall(v, pc, c, ok) = At(pc, v.stack, c, ok)
         /\ WithBoth(v, pc, s, c) = At(pc, s, c, v.ok)
         /\ WithAll(v, pc, s, c, ok) = At(pc, s, c, ok)
<1> DEFINE p == v.pc  z == v.stack  d == v.call  k == v.ok
<1>1. v = At(p, z, d, k)
  BY Whole
<1> HIDE DEF p, z, d, k
<1> DEFINE a == [v EXCEPT !.pc = pc]
<1>2. a = At(pc, z, d, k)
  BY <1>1 DEF a, At
<1> HIDE DEF a
<1> DEFINE b == [a EXCEPT !.stack = s]  e == [a EXCEPT !.call = c]
<1>3. b = At(pc, s, d, k) /\ e = At(pc, z, c, k)
  BY <1>2 DEF b, e, At
<1> HIDE DEF b, e
<1> DEFINE f == [e EXCEPT !.ok = ok]  g == [b EXCEPT !.call = c]
<1>4. f = At(pc, z, c, ok) /\ g = At(pc, s, c, k)
  BY <1>3 DEF f, g, At
<1> HIDE DEF f, g
<1>5. [g EXCEPT !.ok = ok] = At(pc, s, c, ok)
  BY <1>4 DEF At
<1>6. /\ [v EXCEPT !.pc = pc, !.stack = s] = b /\ [v EXCEPT !.pc = pc, !.call = c, !.ok = ok] = f
      /\ [v EXCEPT !.pc = pc, !.stack = s, !.call = c] = g
      /\ [v EXCEPT !.pc = pc, !.stack = s, !.call = c, !.ok = ok] = [g EXCEPT !.ok = ok]
  BY Chained DEF a, b, e, f, g
<1>7. [v EXCEPT !.pc = pc] = a
  BY DEF a
<1>8. /\ [v EXCEPT !.pc = pc, !.stack = s] = At(pc, s, d, k)
      /\ [v EXCEPT !.pc = pc] = At(pc, z, d, k)
      /\ [v EXCEPT !.pc = pc, !.call = c, !.ok = ok] = At(pc, z, c, ok)
      /\ [v EXCEPT !.pc = pc, !.stack = s, !.call = c] = At(pc, s, c, k)
      /\ [v EXCEPT !.pc = pc, !.stack = s, !.call = c, !.ok = ok] = At(pc, s, c, ok)
  BY ONLY <1>2, <1>3, <1>4, <1>5, <1>6, <1>7
<1> QED BY <1>8 DEF p, z, d, k, WithPc, WithStack, WithCall, WithBoth, WithAll

LEMMA Idle == IdleThread = At("idle", <<>>, NoCall, FALSE)
BY DEF IdleThread, At

LEMMA Elements ==
  ASSUME NEW s \in Seq(RunRows), s # <<>>
  PROVE  /\ Len(s) \in Nat /\ Len(s) >= 1 /\ Len(s) \in 1..Len(s) /\ 1 \in 1..Len(s)
         /\ Last(s) = s[Len(s)] /\ Last(s) \in RunRows
         /\ \A i \in 1..Len(s) : s[i] \in RunRows
BY DEF Last

LEMMA PutAt ==
  ASSUME NEW s \in Seq(RunRows), NEW i \in 1..Len(s), NEW run \in RunRows, NEW z, z = [s EXCEPT ![i] = run]
  PROVE  /\ z \in Seq(RunRows) /\ Len(z) = Len(s)
         /\ \A j \in 1..Len(s) : z[j] = IF j = i THEN run ELSE s[j]
BY ExceptSeq

LEMMA Shorter == ASSUME NEW k \in Nat, k >= 1, k # 1 PROVE k - 1 \in 1..k
OBVIOUS

LEMMA ReadAt == ASSUME NEW s \in Seq(RunRows), NEW i \in 1..Len(s) PROVE s[i] \in RunRows
BY ElementOfSeq

\* A new top of the stack.
LEMMA TopSet ==
  ASSUME NEW s \in Seq(RunRows), s # <<>>, NEW run \in RunRows, NEW z, z = [s EXCEPT ![Len(s)] = run]
  PROVE  /\ z \in Seq(RunRows) /\ Len(z) = Len(s) /\ z # <<>>
         /\ Last(z) = run /\ z[Len(s)] = run
         /\ \A i \in 1..Len(s) : i < Len(s) => z[i] = s[i]
<1>1. Len(s) \in Nat /\ Len(s) \in 1..Len(s) /\ Len(s) >= 1
  BY Elements
<1>2. /\ z \in Seq(RunRows) /\ Len(z) = Len(s)
      /\ \A i \in 1..Len(s) : z[i] = IF i = Len(s) THEN run ELSE s[i]
  BY <1>1, ExceptSeq
<1>3. z # <<>>
  BY <1>1, <1>2
<1>4. z[Len(s)] = run /\ \A i \in 1..Len(s) : i < Len(s) => z[i] = s[i]
  BY ONLY <1>1, <1>2
<1>5. Last(z) = run
  BY <1>2, <1>4 DEF Last
<1> QED BY ONLY <1>2, <1>3, <1>4, <1>5

\* The changes of a run's state.
LEMMA Edited ==
  ASSUME NEW x \in RunRows
  PROVE  /\ \A c \in Calls \cup {NoCall} :
              LET y == [x EXCEPT !.pending = c] IN
              /\ y \in RunRows /\ y.id = x.id /\ y.status = x.status /\ y.steps = x.steps /\ y.tainted = x.tainted
              /\ y.pending = c /\ y.delegations = x.delegations /\ y.childSteps = x.childSteps
         /\ \A n \in Nat :
              LET y == [x EXCEPT !.delegations = n] IN
              /\ y \in RunRows /\ y.id = x.id /\ y.status = x.status /\ y.steps = x.steps /\ y.tainted = x.tainted
              /\ y.pending = x.pending /\ y.delegations = n /\ y.childSteps = x.childSteps
         /\ \A n \in Nat :
              LET y == [x EXCEPT !.childSteps = n] IN
              /\ y \in RunRows /\ y.id = x.id /\ y.status = x.status /\ y.steps = x.steps /\ y.tainted = x.tainted
              /\ y.pending = x.pending /\ y.delegations = x.delegations /\ y.childSteps = n
         /\ \A st \in Statuses :
              LET y == [x EXCEPT !.status = st] IN
              /\ y \in RunRows /\ y.id = x.id /\ y.status = st /\ y.steps = x.steps /\ y.tainted = x.tainted
              /\ y.pending = x.pending /\ y.delegations = x.delegations /\ y.childSteps = x.childSteps
         /\ \A done \in SUBSET Calls :
              LET y == [x EXCEPT !.steps = done] IN
              /\ y \in RunRows /\ y.id = x.id /\ y.status = x.status /\ y.steps = done /\ y.tainted = x.tainted
              /\ y.pending = x.pending /\ y.delegations = x.delegations /\ y.childSteps = x.childSteps
         /\ \A b \in BOOLEAN :
              LET y == [x EXCEPT !.tainted = b] IN
              /\ y \in RunRows /\ y.id = x.id /\ y.status = x.status /\ y.steps = x.steps /\ y.tainted = b
              /\ y.pending = x.pending /\ y.delegations = x.delegations /\ y.childSteps = x.childSteps
BY DEF RunRows

\* The stack without its top, whose root has counted n more steps.
Rest(s) == SubSeq(s, 1, Len(s) - 1)
Counted(b, n) == [b EXCEPT ![1].childSteps = @ + n]

LEMMA Popped ==
  ASSUME NEW s \in Seq(RunRows), s # <<>>, NEW n \in Nat, NEW b, b = Rest(s), NEW z, z = Counted(b, n)
  PROVE  /\ b = <<>> <=> Len(s) = 1
         /\ b # <<>> =>
              /\ z \in Seq(RunRows) /\ Len(z) = Len(s) - 1 /\ z # <<>> /\ Len(s) - 1 \in Nat
              /\ Last(b).pending = s[Len(s) - 1].pending
              /\ z[1] = [s[1] EXCEPT !.childSteps = s[1].childSteps + n]
              /\ \A i \in 1..Len(z) : i > 1 => z[i] = s[i]
<1>1. Len(s) \in Nat /\ Len(s) >= 1 /\ Len(s) - 1 \in Nat /\ \A i \in 1..Len(s) : s[i] \in RunRows
  BY Elements
<1>2. /\ b \in Seq(RunRows) /\ Len(b) = Len(s) - 1
      /\ \A i \in 1..(Len(s) - 1) : b[i] = s[i]
  <2>1. 1 \in Int /\ Len(s) - 1 \in Int /\ \A i \in 1..(Len(s) - 1) : s[i] \in RunRows
    BY <1>1
  <2>2. /\ b \in Seq(RunRows) /\ Len(b) = (IF 1 <= Len(s) - 1 THEN Len(s) - 1 - 1 + 1 ELSE 0)
        /\ \A i \in 1..(Len(s) - 1 - 1 + 1) : b[i] = s[1 + i - 1]
    BY <2>1, SubSeqProperties DEF Rest
  <2>3. Len(b) = Len(s) - 1 /\ Len(s) - 1 - 1 + 1 = Len(s) - 1
    <3> DEFINE len == Len(s)  short == Len(b)
    <3>1. len \in Nat /\ len >= 1 /\ short = (IF 1 <= len - 1 THEN len - 1 - 1 + 1 ELSE 0)
      BY <1>1, <2>2
    <3> HIDE DEF len, short
    <3>2. short = len - 1 /\ len - 1 - 1 + 1 = len - 1
      BY ONLY <3>1
    <3> QED BY <3>2 DEF len, short
  <2>4. ASSUME NEW i \in 1..(Len(s) - 1) PROVE b[i] = s[i]
    <3>1. 1 + i - 1 = i /\ i \in 1..(Len(s) - 1 - 1 + 1)
      BY <1>1
    <3> QED BY ONLY <2>2, <3>1
  <2> QED BY <2>2, <2>3, <2>4
<1>3. b = <<>> <=> Len(s) = 1
  <2>1. b = <<>> => Len(b) = 0
    OBVIOUS
  <2>2. Len(b) = 0 => b = <<>>
    BY ONLY <1>2, EmptySeq
  <2> QED BY <1>1, <1>2, <2>1, <2>2
<1>4. ASSUME b # <<>> PROVE /\ z \in Seq(RunRows) /\ Len(z) = Len(s) - 1 /\ z # <<>>
                            /\ Last(b).pending = s[Len(s) - 1].pending
                            /\ z[1] = [s[1] EXCEPT !.childSteps = s[1].childSteps + n]
                            /\ \A i \in 1..Len(z) : i > 1 => z[i] = s[i]
  <2>1. Len(s) - 1 >= 1 /\ 1 \in 1..Len(b) /\ 1 \in 1..Len(s) /\ 1 \in 1..(Len(s) - 1)
    BY ONLY <1>1, <1>2, <1>3, <1>4
  <2>2. s[1] \in RunRows /\ b[1] = s[1] /\ s[1].childSteps + n \in Nat
    <3> DEFINE x == s[1]
    <3>1. x \in RunRows /\ b[1] = x
      BY ONLY <1>1, <1>2, <2>1
    <3> HIDE DEF x
    <3>2. x.childSteps + n \in Nat
      BY <3>1 DEF RunRows
    <3> QED BY <3>1, <3>2 DEF x
  <2> DEFINE r == [s[1] EXCEPT !.childSteps = s[1].childSteps + n]
  <2>3. r \in RunRows
    BY <2>2, Edited
  <2>4. z = [b EXCEPT ![1] = r]
    BY <2>2 DEF Counted
  <2> HIDE DEF r
  <2>5. /\ z \in Seq(RunRows) /\ Len(z) = Len(b)
        /\ \A i \in 1..Len(b) : z[i] = IF i = 1 THEN r ELSE b[i]
    BY ONLY <1>2, <2>1, <2>3, <2>4, PutAt
  <2>6. z # <<>> /\ z[1] = r
    <3>1. Len(z) # 0
      BY <1>1, <1>2, <2>1, <2>5
    <3> QED BY <2>1, <2>5, <3>1
  <2>7. ASSUME NEW i \in 1..Len(z), i > 1 PROVE z[i] = s[i]
    BY <1>1, <1>2, <2>5, <2>7
  <2>8. Last(b) = s[Len(s) - 1]
    <3>1. Len(s) - 1 \in 1..(Len(s) - 1)
      BY <1>1, <2>1
    <3> QED BY <1>2, <3>1 DEF Last
  <2> QED BY <1>2, <2>5, <2>6, <2>7, <2>8 DEF r
<1> QED BY <1>1, <1>3, <1>4

\* A child on top of its parent, which keeps the call in pending; the root counts the delegation.
Held(s, c) == [s EXCEPT ![Len(s)] = [Last(s) EXCEPT !.pending = c]]
Charged(h) == [h EXCEPT ![1].delegations = @ + 1]

On(z, s, c, child) ==
  /\ z \in Seq(RunRows) /\ Len(z) = Len(s) + 1 /\ z # <<>> /\ Last(z) = child /\ z[Len(s) + 1] = child
  /\ \A i \in 1..Len(s) :
       /\ z[i] \in RunRows /\ z[i].id = s[i].id /\ z[i].steps = s[i].steps /\ z[i].status = s[i].status
       /\ z[i].tainted = s[i].tainted /\ z[i].childSteps = s[i].childSteps
       /\ z[i].delegations = (IF i = 1 THEN s[1].delegations + 1 ELSE s[i].delegations)
       /\ z[i].pending = (IF i = Len(s) THEN c ELSE s[i].pending)

LEMMA Pushed ==
  ASSUME NEW s \in Seq(RunRows), s # <<>>, NEW c \in Calls, NEW child \in RunRows,
         NEW h, h = Held(s, c), NEW k, k = Charged(h), NEW z, z = Append(k, child)
  PROVE  On(z, s, c, child)
<1>1. /\ Len(s) \in Nat /\ Len(s) >= 1 /\ Len(s) \in 1..Len(s) /\ 1 \in 1..Len(s)
      /\ Last(s) = s[Len(s)] /\ Last(s) \in RunRows /\ \A i \in 1..Len(s) : s[i] \in RunRows
  BY Elements
<1> DEFINE top == [Last(s) EXCEPT !.pending = c]
<1>2. /\ top \in RunRows /\ top.id = Last(s).id /\ top.steps = Last(s).steps /\ top.status = Last(s).status
      /\ top.tainted = Last(s).tainted /\ top.childSteps = Last(s).childSteps
      /\ top.delegations = Last(s).delegations /\ top.pending = c
  <2> DEFINE x == Last(s)
  <2>1. x \in RunRows /\ c \in Calls \cup {NoCall}
    BY <1>1
  <2> HIDE DEF x
  <2>2. /\ [x EXCEPT !.pending = c] \in RunRows /\ [x EXCEPT !.pending = c].id = x.id
        /\ [x EXCEPT !.pending = c].steps = x.steps /\ [x EXCEPT !.pending = c].status = x.status
        /\ [x EXCEPT !.pending = c].tainted = x.tainted /\ [x EXCEPT !.pending = c].childSteps = x.childSteps
        /\ [x EXCEPT !.pending = c].delegations = x.delegations /\ [x EXCEPT !.pending = c].pending = c
    BY <2>1 DEF RunRows
  <2> QED BY <2>2 DEF x
<1>3. h = [s EXCEPT ![Len(s)] = top]
  BY DEF Held
<1> HIDE DEF top
<1>4. /\ h \in Seq(RunRows) /\ Len(h) = Len(s) /\ h # <<>> /\ h[Len(s)] = top
      /\ \A i \in 1..Len(s) : i < Len(s) => h[i] = s[i]
  BY ONLY s \in Seq(RunRows), s # <<>>, <1>2, <1>3, TopSet
<1> DEFINE first == [h[1] EXCEPT !.delegations = h[1].delegations + 1]
<1>5. h[1] \in RunRows /\ h[1].delegations + 1 \in Nat
  <2> DEFINE x == h[1]
  <2>1. x \in RunRows
    BY <1>1, <1>4, Elements
  <2> HIDE DEF x
  <2>2. x.delegations + 1 \in Nat
    BY <2>1 DEF RunRows
  <2> QED BY <2>1, <2>2 DEF x
<1>6. /\ first \in RunRows /\ first.id = h[1].id /\ first.steps = h[1].steps /\ first.status = h[1].status
      /\ first.tainted = h[1].tainted /\ first.childSteps = h[1].childSteps
      /\ first.delegations = h[1].delegations + 1 /\ first.pending = h[1].pending
  <2> DEFINE x == h[1]  n == h[1].delegations + 1
  <2>1. x \in RunRows /\ n \in Nat
    BY <1>5
  <2> HIDE DEF x, n
  <2>2. /\ [x EXCEPT !.delegations = n] \in RunRows /\ [x EXCEPT !.delegations = n].id = x.id
        /\ [x EXCEPT !.delegations = n].steps = x.steps /\ [x EXCEPT !.delegations = n].status = x.status
        /\ [x EXCEPT !.delegations = n].tainted = x.tainted /\ [x EXCEPT !.delegations = n].childSteps = x.childSteps
        /\ [x EXCEPT !.delegations = n].delegations = n /\ [x EXCEPT !.delegations = n].pending = x.pending
    BY <2>1, Edited
  <2> QED BY <2>2 DEF x, n
<1>7. k = [h EXCEPT ![1] = first]
  BY DEF Charged
<1> HIDE DEF first
<1>8. /\ k \in Seq(RunRows) /\ Len(k) = Len(s)
      /\ \A i \in 1..Len(s) : k[i] = IF i = 1 THEN first ELSE h[i]
  <2>1. 1 \in 1..Len(h) /\ first \in RunRows
    BY <1>1, <1>4, <1>6
  <2> QED BY ONLY <1>4, <1>7, <2>1, PutAt
<1>9. /\ z \in Seq(RunRows) /\ Len(z) = Len(s) + 1 /\ z[Len(s) + 1] = child /\ z # <<>>
      /\ \A i \in 1..Len(s) : z[i] = k[i]
  BY <1>8, AppendProperties
<1>10. Last(z) = child
  BY <1>9 DEF Last
<1>11. ASSUME NEW i \in 1..Len(s)
       PROVE  /\ z[i] \in RunRows /\ z[i].id = s[i].id /\ z[i].steps = s[i].steps /\ z[i].status = s[i].status
              /\ z[i].tainted = s[i].tainted /\ z[i].childSteps = s[i].childSteps
              /\ z[i].delegations = (IF i = 1 THEN s[1].delegations + 1 ELSE s[i].delegations)
              /\ z[i].pending = (IF i = Len(s) THEN c ELSE s[i].pending)
  <2>1. /\ h[i].id = s[i].id /\ h[i].steps = s[i].steps /\ h[i].status = s[i].status
        /\ h[i].tainted = s[i].tainted /\ h[i].childSteps = s[i].childSteps /\ h[i].delegations = s[i].delegations
        /\ h[i].pending = (IF i = Len(s) THEN c ELSE s[i].pending) /\ h[i] \in RunRows
    <3>1. CASE i = Len(s)
      BY ONLY <1>1, <1>2, <1>4, <3>1
    <3>2. CASE i # Len(s)
      <4>1. h[i] = s[i]
        BY <1>1, <1>4, <3>2
      <4> QED BY ONLY <1>1, <3>2, <4>1, i \in 1..Len(s)
    <3> QED BY ONLY <3>1, <3>2
  <2>2. CASE i = 1
    <3>1. z[i] = first
      BY ONLY <1>8, <1>9, <2>2, i \in 1..Len(s)
    <3> QED BY ONLY <1>6, <2>1, <2>2, <3>1
  <2>3. CASE i # 1
    <3>1. z[i] = h[i]
      BY ONLY <1>8, <1>9, <2>3, i \in 1..Len(s)
    <3> QED BY ONLY <2>1, <2>3, <3>1
  <2> QED BY ONLY <2>2, <2>3
<1>12. \A i \in 1..Len(s) :
              /\ z[i] \in RunRows /\ z[i].id = s[i].id /\ z[i].steps = s[i].steps /\ z[i].status = s[i].status
              /\ z[i].tainted = s[i].tainted /\ z[i].childSteps = s[i].childSteps
              /\ z[i].delegations = (IF i = 1 THEN s[1].delegations + 1 ELSE s[i].delegations)
              /\ z[i].pending = (IF i = Len(s) THEN c ELSE s[i].pending)
  BY ONLY <1>11
<1> QED BY ONLY <1>9, <1>10, <1>12 DEF On

-----------------------------------------------------------------------------
(* How a step changes a stack, and what becomes of its shape. *)

Retop(v, w, run) ==
  /\ Len(w.stack) = Len(v.stack) /\ w.stack # <<>> /\ Last(w.stack) = run /\ w.stack[Len(v.stack)] = run
  /\ \A i \in 1..Len(v.stack) : i < Len(v.stack) => w.stack[i] = v.stack[i]

Pop(v, w, n) ==
  /\ w.stack # <<>> /\ Len(w.stack) = Len(v.stack) - 1 /\ Len(v.stack) - 1 \in Nat
  /\ w.stack[1] = [v.stack[1] EXCEPT !.childSteps = v.stack[1].childSteps + n]
  /\ \A i \in 1..Len(w.stack) : i > 1 => w.stack[i] = v.stack[i]
  /\ w.call = v.stack[Len(v.stack) - 1].pending /\ w.pc = "record" /\ w.ok = v.ok

Push(v, w, child) ==
  /\ Len(w.stack) = Len(v.stack) + 1 /\ w.stack # <<>>
  /\ Last(w.stack) = child /\ w.stack[Len(v.stack) + 1] = child
  /\ \A i \in 1..Len(v.stack) :
       /\ w.stack[i].id = v.stack[i].id /\ w.stack[i].steps = v.stack[i].steps /\ w.stack[i].status = v.stack[i].status
       /\ w.stack[i].tainted = v.stack[i].tainted /\ w.stack[i].childSteps = v.stack[i].childSteps
       /\ w.stack[i].delegations = (IF i = 1 THEN v.stack[1].delegations + 1 ELSE v.stack[i].delegations)
       /\ w.stack[i].pending = (IF i = Len(v.stack) THEN v.call ELSE v.stack[i].pending)

LEMMA Limits ==
  /\ StepLimit \in Nat /\ StepLimit >= 1 /\ MaxDepth \in Nat /\ MaxDepth >= 1
  /\ MaxDelegations \in Nat /\ MaxDelegations >= 1 /\ MaxChildSteps \in Nat /\ MaxChildSteps >= 1
BY AgentAssumption

LEMMA Allowed ==
  /\ \A n \in 1..(MaxDepth + 1) : AllowedSteps(n) \in Nat /\ AllowedSteps(n) >= MaxChildSteps - 1
  /\ \A n \in 1..MaxDepth : AllowedSteps(n) = AllowedSteps(n + 1) + StepLimit
<1>1. \A n \in 1..(MaxDepth + 1) : (MaxDepth + 1 - n) * StepLimit \in Nat
  <2> TAKE n \in 1..(MaxDepth + 1)
  <2>1. MaxDepth + 1 - n \in Nat
    BY Limits
  <2> QED BY <2>1, Limits
<1>2. \A n \in 1..(MaxDepth + 1) : AllowedSteps(n) \in Nat /\ AllowedSteps(n) >= MaxChildSteps - 1
  <2> TAKE n \in 1..(MaxDepth + 1)
  <2> DEFINE left == (MaxDepth + 1 - n) * StepLimit
  <2>1. left \in Nat /\ AllowedSteps(n) = MaxChildSteps - 1 + left
    BY <1>1 DEF AllowedSteps
  <2> HIDE DEF left
  <2> QED BY <2>1, Limits
<1>3. ASSUME NEW n \in 1..MaxDepth PROVE AllowedSteps(n) = AllowedSteps(n + 1) + StepLimit
  <2> DEFINE k == MaxDepth + 1 - (n + 1)
  <2>1. k \in Nat /\ MaxDepth + 1 - n = k + 1
    BY Limits
  <2>2. AllowedSteps(n) = MaxChildSteps - 1 + (k + 1) * StepLimit /\ AllowedSteps(n + 1) = MaxChildSteps - 1 + k * StepLimit
    BY <2>1 DEF AllowedSteps
  <2> HIDE DEF k
  <2>3. (k + 1) * StepLimit = k * StepLimit + StepLimit /\ k * StepLimit \in Nat
    BY <2>1, Limits
  <2> DEFINE m == k * StepLimit
  <2>4. AllowedSteps(n) = MaxChildSteps - 1 + (m + StepLimit) /\ AllowedSteps(n + 1) = MaxChildSteps - 1 + m /\ m \in Nat
    BY <2>2, <2>3
  <2> HIDE DEF m
  <2> QED BY <2>4, Limits
<1> QED BY <1>2, <1>3

LEMMA ShapeRetop ==
  ASSUME NEW v \in ThreadRows, NEW w \in ThreadRows, Shape(v), v.stack # <<>>, NEW run \in RunRows,
         Retop(v, w, run), RowOK(run), w.pc # "idle",
         run.delegations = Last(v.stack).delegations, run.childSteps = Last(v.stack).childSteps
  PROVE  Shape(w)
<1> DEFINE s == v.stack  z == w.stack
<1>1. s \in Seq(RunRows) /\ Len(s) \in Nat /\ Len(s) >= 1 /\ Last(s) = s[Len(s)] /\ Len(s) <= MaxDepth + 1
  BY Fields, Elements DEF Shape
<1>2. /\ \A i \in 1..Len(s) :
           /\ RowOK(s[i]) /\ (i > 1 => s[i].delegations = 0 /\ s[i].childSteps = 0)
           /\ (i < Len(s) => Below(s[i]))
      /\ s[1].childSteps <= AllowedSteps(Len(s))
  BY DEF Shape
<1>3. /\ Len(z) = Len(s) /\ z # <<>> /\ z[Len(s)] = run /\ \A i \in 1..Len(s) : i < Len(s) => z[i] = s[i]
  BY DEF Retop
<1>4. run.delegations = s[Len(s)].delegations /\ run.childSteps = s[Len(s)].childSteps
  BY <1>1
<1> HIDE DEF s, z
<1>5. ASSUME NEW i \in 1..Len(s)
      PROVE /\ RowOK(z[i]) /\ (i > 1 => z[i].delegations = 0 /\ z[i].childSteps = 0)
            /\ (i < Len(s) => Below(z[i])) /\ z[i].childSteps = s[i].childSteps
  <2>1. CASE i < Len(s)
    BY <1>2, <1>3, <2>1
  <2>2. CASE i = Len(s)
    BY <1>1, <1>2, <1>3, <1>4, <2>2
  <2> QED BY <1>1, <2>1, <2>2
<1>6. z[1].childSteps <= AllowedSteps(Len(z))
  BY <1>1, <1>2, <1>3, <1>5
<1> QED BY <1>1, <1>3, <1>5, <1>6 DEF Shape, s, z

LEMMA ShapePop ==
  ASSUME NEW v \in ThreadRows, NEW w \in ThreadRows, Shape(v), v.stack # <<>>,
         NEW n \in Nat, n <= StepLimit, Pop(v, w, n)
  PROVE  /\ Shape(w)
         /\ w.call \in Delegates \ Last(w.stack).steps /\ Spare(Last(w.stack)) /\ Last(w.stack).status = "running"
<1> DEFINE s == v.stack  z == w.stack
<1>1. s \in Seq(RunRows) /\ z \in Seq(RunRows) /\ Len(s) \in Nat /\ Len(s) <= MaxDepth + 1
  BY Fields, Elements DEF Shape
<1>2. /\ \A i \in 1..Len(s) :
           /\ RowOK(s[i]) /\ (i > 1 => s[i].delegations = 0 /\ s[i].childSteps = 0)
           /\ (i < Len(s) => Below(s[i]))
      /\ s[1].childSteps <= AllowedSteps(Len(s))
  BY DEF Shape
<1>3. /\ Len(z) = Len(s) - 1 /\ z # <<>> /\ z[1] = [s[1] EXCEPT !.childSteps = s[1].childSteps + n]
      /\ \A i \in 1..Len(z) : i > 1 => z[i] = s[i]
      /\ w.call = s[Len(s) - 1].pending
  BY DEF Pop
<1>4. w.pc # "idle"
  BY DEF Pop
<1> HIDE DEF s, z
<1>5. /\ Len(z) \in Nat /\ Len(z) >= 1 /\ Len(z) \in 1..Len(s) /\ 1 \in 1..Len(s) /\ 1 \in 1..Len(z)
      /\ Last(z) = z[Len(z)] /\ Len(z) < Len(s) /\ Len(z) \in 1..MaxDepth
  BY <1>1, <1>3, Elements, Limits
<1>6. /\ z[1].steps = s[1].steps /\ z[1].delegations = s[1].delegations /\ z[1].status = s[1].status
      /\ z[1].pending = s[1].pending /\ z[1].childSteps = s[1].childSteps + n
      /\ s[1].childSteps \in Nat
  <2> DEFINE x == s[1]
  <2>1. x \in RunRows
    BY <1>1, <1>5, ReadAt
  <2> HIDE DEF x
  <2>2. x.childSteps + n \in Nat /\ x.childSteps \in Nat
    BY <2>1 DEF RunRows
  <2> DEFINE y == [x EXCEPT !.childSteps = x.childSteps + n]
  <2>3. /\ y.steps = x.steps /\ y.delegations = x.delegations /\ y.status = x.status
        /\ y.pending = x.pending /\ y.childSteps = x.childSteps + n
    BY <2>1 DEF RunRows
  <2>4. z[1] = y
    BY <1>3 DEF x
  <2> QED BY <2>2, <2>3, <2>4 DEF x
<1>7. ASSUME NEW i \in 1..Len(z)
      PROVE /\ z[i].steps = s[i].steps /\ z[i].delegations = s[i].delegations /\ z[i].status = s[i].status
            /\ z[i].pending = s[i].pending /\ (i > 1 => z[i].childSteps = s[i].childSteps)
            /\ i \in 1..Len(s) /\ i < Len(s)
  <2>1. i = 1 \/ i > 1
    BY <1>5
  <2>2. i \in 1..Len(s) /\ i < Len(s)
    BY <1>1, <1>5
  <2> QED BY <1>3, <1>6, <2>1, <2>2
<1>8. ASSUME NEW i \in 1..Len(z)
      PROVE /\ RowOK(z[i]) /\ (i > 1 => z[i].delegations = 0 /\ z[i].childSteps = 0) /\ Below(z[i])
  BY <1>2, <1>7 DEF RowOK, Below, Spare
<1>9. z[1].childSteps <= AllowedSteps(Len(z))
  <2>1. AllowedSteps(Len(z)) = AllowedSteps(Len(s)) + StepLimit /\ AllowedSteps(Len(s)) \in Nat
    <3>1. Len(s) = Len(z) + 1 /\ Len(s) \in 1..(MaxDepth + 1)
      BY <1>1, <1>3, <1>5, Limits
    <3> QED BY <1>5, <3>1, Allowed
  <2> QED BY <1>2, <1>6, <2>1, Limits
<1>10. Shape(w)
  <2>1. Len(z) <= MaxDepth + 1
    BY <1>5, Limits
  <2> QED BY <1>3, <1>4, <1>8, <1>9, <2>1 DEF Shape, z
<1>11. w.call = z[Len(z)].pending
  <2>1. Len(z) \in 1..Len(z) /\ Len(s) - 1 = Len(z)
    BY <1>3, <1>5
  <2> QED BY <1>3, <1>7, <2>1
<1>12. Below(z[Len(z)])
  BY <1>5, <1>8
<1> QED BY <1>5, <1>10, <1>11, <1>12 DEF Below, z

LEMMA ShapePush ==
  ASSUME NEW v \in ThreadRows, NEW w \in ThreadRows, Shape(v), v.stack # <<>>, NEW child \in RunRows,
         Push(v, w, child), w.pc = "think", RowOK(child), child.delegations = 0, child.childSteps = 0,
         v.call \in Delegates \ Last(v.stack).steps, Spare(Last(v.stack)), Last(v.stack).status = "running",
         Len(v.stack) <= MaxDepth, v.stack[1].delegations < MaxDelegations, v.stack[1].childSteps < MaxChildSteps
  PROVE  Shape(w)
<1> DEFINE s == v.stack  z == w.stack
<1>1. s \in Seq(RunRows) /\ z \in Seq(RunRows) /\ Len(s) \in Nat /\ Len(s) >= 1 /\ Last(s) = s[Len(s)] /\ 1 \in 1..Len(s)
  BY Fields, Elements
<1>2. /\ \A i \in 1..Len(s) :
           /\ RowOK(s[i]) /\ (i > 1 => s[i].delegations = 0 /\ s[i].childSteps = 0)
           /\ (i < Len(s) => Below(s[i]))
  BY DEF Shape
<1>3. /\ Len(z) = Len(s) + 1 /\ z # <<>> /\ z[Len(s) + 1] = child
      /\ \A i \in 1..Len(s) :
       /\ z[i].id = s[i].id /\ z[i].steps = s[i].steps /\ z[i].status = s[i].status
       /\ z[i].tainted = s[i].tainted /\ z[i].childSteps = s[i].childSteps
       /\ z[i].delegations = (IF i = 1 THEN s[1].delegations + 1 ELSE s[i].delegations)
       /\ z[i].pending = (IF i = Len(s) THEN v.call ELSE s[i].pending)
  BY DEF Push
<1>4. /\ v.call \in Delegates \ s[Len(s)].steps /\ Spare(s[Len(s)]) /\ s[Len(s)].status = "running"
      /\ Len(s) <= MaxDepth /\ s[1].delegations < MaxDelegations /\ s[1].childSteps < MaxChildSteps
  BY <1>1
<1>5. s[1].childSteps \in Nat /\ s[1].delegations \in Nat
  <2> DEFINE x == s[1]
  <2>1. x \in RunRows
    BY <1>1, ReadAt
  <2> HIDE DEF x
  <2>2. x.childSteps \in Nat /\ x.delegations \in Nat
    BY <2>1 DEF RunRows
  <2> QED BY <2>2 DEF x
<1> HIDE DEF s, z
<1>6. ASSUME NEW i \in 1..Len(s)
      PROVE RowOK(z[i]) /\ (i > 1 => z[i].delegations = 0 /\ z[i].childSteps = 0) /\ Below(z[i])
  <2>1. RowOK(z[i]) /\ (i > 1 => z[i].delegations = 0 /\ z[i].childSteps = 0)
    <3>1. CASE i = 1
      BY <1>2, <1>3, <1>4, <1>5, <3>1, Limits DEF RowOK
    <3>2. CASE i # 1
      BY <1>1, <1>2, <1>3, <3>2 DEF RowOK
    <3> QED BY <3>1, <3>2
  <2>2. Below(z[i])
    <3>1. CASE i = Len(s)
      BY <1>3, <1>4, <3>1 DEF Below, Spare
    <3>2. CASE i # Len(s)
      <4>1. Below(s[i])
        BY <1>1, <1>2, <3>2
      <4> QED BY <1>3, <3>2, <4>1 DEF Below, Spare
    <3> QED BY <3>1, <3>2
  <2> QED BY <2>1, <2>2
<1>7. ASSUME NEW i \in 1..Len(z)
      PROVE /\ RowOK(z[i]) /\ (i > 1 => z[i].delegations = 0 /\ z[i].childSteps = 0) /\ (i < Len(z) => Below(z[i]))
  <2>1. CASE i \in 1..Len(s)
    BY <1>6, <2>1
  <2>2. CASE i = Len(s) + 1
    BY <1>1, <1>3, <2>2
  <2> QED BY <1>1, <1>3, <2>1, <2>2
<1>8. z[1].childSteps <= AllowedSteps(Len(z))
  <2>1. Len(z) \in 1..(MaxDepth + 1)
    BY <1>1, <1>3, <1>4, Limits
  <2>2. AllowedSteps(Len(z)) \in Nat /\ AllowedSteps(Len(z)) >= MaxChildSteps - 1
    BY <2>1, Allowed
  <2> QED BY <1>1, <1>3, <1>4, <1>5, <2>2, Limits
<1>9. Len(z) <= MaxDepth + 1
  BY <1>1, <1>3, <1>4, Limits
<1> QED BY <1>3, <1>7, <1>8, <1>9 DEF Shape, z

LEMMA ShapeSingle ==
  ASSUME NEW w \in ThreadRows, NEW run \in RunRows, w.stack = <<run>>, w.pc # "idle", RowOK(run),
         run.childSteps <= AllowedSteps(1)
  PROVE  Shape(w) /\ Last(w.stack) = run /\ Len(w.stack) = 1
<1>1. Len(w.stack) = 1 /\ w.stack[1] = run /\ w.stack # <<>>
  OBVIOUS
<1>2. Last(w.stack) = run
  BY <1>1 DEF Last
<1>3. 1..Len(w.stack) = {1} /\ 1 <= MaxDepth + 1
  BY <1>1, Limits
<1> QED BY <1>1, <1>2, <1>3 DEF Shape

\* A thread that rests.
LEMMA AtRest ==
  ASSUME NEW S
  PROVE  /\ IdleThread \in ThreadRows /\ IdleThread.stack = <<>> /\ IdleThread.pc = "idle"
         /\ Shape(IdleThread) /\ Stage(IdleThread, S)
<1>1. IdleThread \in ThreadRows /\ IdleThread.stack = <<>> /\ IdleThread.pc = "idle"
  <2>1. <<>> \in Seq(RunRows)
    OBVIOUS
  <2> QED BY <2>1 DEF IdleThread, ThreadRows
<1>2. Len(<<>>) = 0 /\ 1..0 = {} /\ 0 <= MaxDepth + 1
  BY Limits
<1> QED BY <1>1, <1>2 DEF Shape, Stage

\* Nothing that is stored is lost.
LEMMA StageKept ==
  ASSUME NEW v \in ThreadRows, NEW S, NEW new, Shape(v), Stage(v, S), \A r \in RunIds : S[r] # NoRun => new[r] # NoRun
  PROVE  Stage(v, new)
<1>1. v.pc \in {"close", "claim"} => Last(v.stack).id \in RunIds
  <2> SUFFICES ASSUME v.pc \in {"close", "claim"} PROVE Last(v.stack).id \in RunIds
    OBVIOUS
  <2> DEFINE x == Last(v.stack)
  <2>1. x \in RunRows
    BY Fields, Elements DEF Shape
  <2> HIDE DEF x
  <2>2. x.id \in RunIds
    BY <2>1 DEF RunRows
  <2> QED BY <2>2 DEF x
<1> QED BY <1>1 DEF Stage

-----------------------------------------------------------------------------
(* What each action makes of a thread. *)

\* A step of thread t alone.
Moves(t) == thread' \in [Threads -> ThreadRows] /\ \A u \in Threads \ {t} : thread'[u] = thread[u]

LEMMA Moved ==
  ASSUME AgTypes, NEW t \in Threads, NEW w \in ThreadRows, thread' = [thread EXCEPT ![t] = w]
  PROVE  Moves(t) /\ thread'[t] = w
BY DEF AgTypes, Moves

\* A step that names the fields of the thread it changes.
LEMMA FieldsOf ==
  ASSUME AgTypes, NEW t \in Threads, NEW pc, NEW s, NEW c, NEW ok
  PROVE  /\ [thread EXCEPT ![t].pc = pc, ![t].stack = s] = [thread EXCEPT ![t] = [thread[t] EXCEPT !.pc = pc, !.stack = s]]
         /\ [thread EXCEPT ![t].pc = pc] = [thread EXCEPT ![t] = [thread[t] EXCEPT !.pc = pc]]
         /\ [thread EXCEPT ![t].pc = pc, ![t].call = c, ![t].ok = ok]
              = [thread EXCEPT ![t] = [thread[t] EXCEPT !.pc = pc, !.call = c, !.ok = ok]]
BY DEF AgTypes

LEMMA Leaving ==
  ASSUME AgTypes, NEW t \in Threads, thread[t].stack # <<>>, NEW n \in Nat
  PROVE  Leave(t, n) \in ThreadRows /\ (Leave(t, n) = IdleThread \/ Pop(thread[t], Leave(t, n), n))
<1> DEFINE v == thread[t]  s == v.stack  b == Rest(s)  z == Counted(b, n)  c == Last(b).pending
           w == WithBoth(v, "record", z, c)
<1>1. v \in ThreadRows /\ s \in Seq(RunRows) /\ s # <<>>
  BY Fields DEF AgTypes
<1>2. Leave(t, n) = IF b = <<>> THEN IdleThread ELSE w
  BY DEF Leave, Rest, Counted, WithBoth
<1>3. s = v.stack /\ b = Rest(s) /\ z = Counted(b, n) /\ v = thread[t] /\ c = Last(b).pending /\ n \in Nat
  OBVIOUS
<1>4. w = WithBoth(v, "record", z, c)
  OBVIOUS
<1> HIDE DEF v, s, b, z, c, w
<1>5. /\ b = <<>> <=> Len(s) = 1
      /\ b # <<>> =>
           /\ z \in Seq(RunRows) /\ Len(z) = Len(s) - 1 /\ z # <<>> /\ Len(s) - 1 \in Nat
           /\ Last(b).pending = s[Len(s) - 1].pending
           /\ z[1] = [s[1] EXCEPT !.childSteps = s[1].childSteps + n]
           /\ \A i \in 1..Len(z) : i > 1 => z[i] = s[i]
  BY ONLY <1>1, <1>3, Popped
<1>6. CASE b = <<>>
  BY <1>2, <1>6, AtRest
<1>7. CASE b # <<>>
  <2>1. w = At("record", z, c, v.ok)
    BY ONLY <1>1, <1>4, Changed
  <2>2. c \in Calls \cup {NoCall}
    <3> DEFINE x == s[Len(s) - 1]
    <3>1. Len(s) \in Nat /\ Len(s) >= 1 /\ Len(s) # 1
      BY <1>1, <1>5, <1>7, Elements
    <3>2. Len(s) - 1 \in 1..Len(s)
      BY ONLY <3>1, Shorter
    <3>3. x \in RunRows
      BY <1>1, <3>2, ReadAt
    <3> HIDE DEF x
    <3>4. x.pending \in Calls \cup {NoCall}
      BY <3>3 DEF RunRows
    <3> QED BY <1>3, <1>5, <1>7, <3>4 DEF x
  <2>3. v.ok \in BOOLEAN
    BY <1>1, Fields
  <2>4. w \in ThreadRows /\ w.pc = "record" /\ w.stack = z /\ w.call = c /\ w.ok = v.ok
    BY <1>5, <1>7, <2>1, <2>2, <2>3 DEF At, ThreadRows
  <2>5. Pop(v, w, n)
    BY <1>3, <1>5, <1>7, <2>4 DEF Pop
  <2> QED BY <1>2, <1>3, <1>7, <2>4, <2>5
<1> QED BY <1>6, <1>7

LEMMA NewTop ==
  ASSUME AgTypes, NEW t \in Threads, thread[t].stack # <<>>, NEW run \in RunRows,
         NEW w \in ThreadRows, w.stack = SetTop(t, run)
  PROVE  Retop(thread[t], w, run)
<1> DEFINE s == thread[t].stack  z == w.stack
<1>1. s \in Seq(RunRows)
  BY Fields DEF AgTypes
<1>2. z = [s EXCEPT ![Len(s)] = run]
  BY DEF SetTop
<1> HIDE DEF s, z
<1>3. /\ z \in Seq(RunRows) /\ Len(z) = Len(s) /\ z # <<>>
      /\ Last(z) = run /\ z[Len(s)] = run
      /\ \A i \in 1..Len(s) : i < Len(s) => z[i] = s[i]
  BY <1>1, <1>2, TopSet DEF s
<1> QED BY <1>3 DEF Retop, s, z

LEMMA SetTopType ==
  ASSUME AgTypes, NEW t \in Threads, thread[t].stack # <<>>, NEW run \in RunRows
  PROVE  SetTop(t, run) \in Seq(RunRows)
<1> DEFINE s == thread[t].stack
<1>1. s \in Seq(RunRows)
  BY Fields DEF AgTypes
<1> HIDE DEF s
<1>2. [s EXCEPT ![Len(s)] = run] \in Seq(RunRows)
  BY <1>1, TopSet DEF s
<1> QED BY <1>2 DEF SetTop, s

LEMMA TopType ==
  ASSUME AgTypes, NEW t \in Threads, thread[t].stack # <<>>
  PROVE  Top(t) \in RunRows /\ Top(t) = Last(thread[t].stack)
BY Fields, Elements DEF AgTypes, Top

LEMMA Breaks ==
  ASSUME AgTypes, NEW t \in Threads, thread[t].stack # <<>>, NEW run \in RunRows, SaveRaises(t, run)
  PROVE  /\ Moves(t) /\ UNCHANGED store /\ Retop(thread[t], thread'[t], run)
         /\ thread'[t].pc = "broken" /\ thread'[t].call = thread[t].call /\ thread'[t].ok = thread[t].ok
<1> DEFINE v == thread[t]  z == SetTop(t, run)  w == At("broken", z, v.call, v.ok)
<1>1. v \in ThreadRows
  BY DEF AgTypes
<1>2. z \in Seq(RunRows)
  BY SetTopType
<1>3. w \in ThreadRows /\ w.pc = "broken" /\ w.stack = z /\ w.call = v.call /\ w.ok = v.ok
  <2>1. v.call \in Calls \cup {NoCall} /\ v.ok \in BOOLEAN
    BY <1>1, Fields
  <2> HIDE DEF v, z
  <2> QED BY <1>2, <2>1 DEF At, ThreadRows
<1>4. thread' = [thread EXCEPT ![t] = w]
  <2>1. WithStack(v, "broken", z) = w
    <3> HIDE DEF v, z
    <3> QED BY <1>1, Changed
  <2>2. thread' = [thread EXCEPT ![t].pc = "broken", ![t].stack = z]
    BY DEF SaveRaises
  <2>3. thread' = [thread EXCEPT ![t] = WithStack(v, "broken", z)]
    <3> HIDE DEF z
    <3> QED BY <2>2, FieldsOf DEF WithStack
  <2> QED BY <2>1, <2>3
<1> HIDE DEF w
<1>5. Moves(t) /\ thread'[t] = w
  BY <1>3, <1>4, Moved
<1>6. Retop(v, w, run)
  BY <1>3, NewTop
<1> QED BY <1>3, <1>5, <1>6 DEF SaveRaises

\* The run on top of a thread that is at work.
LEMMA Working ==
  ASSUME BudgetInv, NEW t \in Threads, thread[t].pc # "idle"
  PROVE  /\ AgTypes /\ thread[t] \in ThreadRows /\ thread[t].stack # <<>> /\ thread[t].stack \in Seq(RunRows)
         /\ Shape(thread[t]) /\ Stage(thread[t], store)
         /\ Top(t) \in RunRows /\ Top(t) = Last(thread[t].stack) /\ Top(t) = thread[t].stack[Len(thread[t].stack)]
         /\ RowOK(Top(t)) /\ Top(t).childSteps <= AllowedSteps(1)
         /\ Len(thread[t].stack) \in Nat /\ Len(thread[t].stack) >= 1
<1> DEFINE v == thread[t]  s == v.stack  len == Len(s)  x == Top(t)
<1>1. AgTypes /\ v \in ThreadRows /\ Shape(v) /\ Stage(v, store)
  BY DEF BudgetInv, AgTypes
<1>2. s # <<>> /\ s \in Seq(RunRows)
  BY <1>1, Fields DEF Shape
<1>3. x \in RunRows /\ x = Last(s) /\ x = s[len] /\ len \in Nat /\ len >= 1 /\ len \in 1..len
  <2> HIDE DEF v
  <2> QED BY <1>1, <1>2, Elements DEF Top, v
<1>4. /\ \A i \in 1..len : RowOK(s[i]) /\ (i > 1 => s[i].childSteps = 0)
      /\ s[1].childSteps <= AllowedSteps(len) /\ len <= MaxDepth + 1
  BY <1>1, <1>2 DEF Shape
<1> HIDE DEF v, s, len, x
<1>5. RowOK(x)
  BY <1>3, <1>4
<1>6. x.childSteps <= AllowedSteps(1)
  <2>1. 1 \in 1..(MaxDepth + 1) /\ AllowedSteps(1) \in Nat
    BY Limits, Allowed
  <2>2. CASE len = 1
    BY <1>3, <1>4, <2>2
  <2>3. CASE len # 1
    BY <1>3, <1>4, <2>1, <2>3
  <2> QED BY <2>2, <2>3
<1> QED BY <1>1, <1>2, <1>3, <1>5, <1>6 DEF v, s, len, x

LEMMA Counts ==
  ASSUME NEW x \in RunRows, RowOK(x)
  PROVE  /\ IsFiniteSet(x.steps) /\ Cardinality(x.steps) \in Nat /\ Cardinality(x.steps) <= StepLimit
         /\ x.steps \in SUBSET Calls /\ x.delegations \in Nat /\ x.childSteps \in Nat
         /\ x.delegations <= MaxDelegations
         /\ \A c \in Calls \ x.steps : Spare(x) =>
              /\ IsFiniteSet(x.steps \cup {c}) /\ x.steps \cup {c} \in SUBSET Calls
              /\ Cardinality(x.steps \cup {c}) <= StepLimit /\ Cardinality(x.steps \cup {c}) \in Nat
<1>1. IsFiniteSet(x.steps) /\ Cardinality(x.steps) \in Nat /\ Cardinality(x.steps) <= StepLimit
  BY FS_CardinalityType DEF RowOK
<1>2. x.steps \in SUBSET Calls /\ x.delegations \in Nat /\ x.childSteps \in Nat
  BY DEF RunRows
<1>3. ASSUME NEW c \in Calls \ x.steps, Spare(x)
      PROVE  /\ IsFiniteSet(x.steps \cup {c}) /\ x.steps \cup {c} \in SUBSET Calls
             /\ Cardinality(x.steps \cup {c}) <= StepLimit /\ Cardinality(x.steps \cup {c}) \in Nat
  <2>1. IsFiniteSet(x.steps \cup {c}) /\ Cardinality(x.steps \cup {c}) = Cardinality(x.steps) + 1
    BY <1>1, FS_AddElement
  <2> DEFINE n == Cardinality(x.steps)
  <2>2. n \in Nat /\ n < StepLimit
    BY <1>1, <1>3 DEF Spare
  <2> HIDE DEF n
  <2>3. n + 1 <= StepLimit /\ n + 1 \in Nat
    BY <2>2, Limits
  <2> QED BY <1>2, <2>1, <2>3 DEF n
<1> QED BY <1>1, <1>2, <1>3 DEF RowOK

\* A change of a run's state that keeps its id and its counters.
SameRun(x, y) ==
  y \in RunRows /\ y.id = x.id /\ y.delegations = x.delegations /\ y.childSteps = x.childSteps

LEMMA EditClosed ==
  ASSUME NEW x \in RunRows, NEW st \in Statuses
  PROVE  /\ SameRun(x, Closed(x, st)) /\ Closed(x, st).status = st /\ Closed(x, st).pending = NoCall
         /\ Closed(x, st).steps = x.steps /\ Closed(x, st).tainted = x.tainted
<1> DEFINE a == [x EXCEPT !.status = st]  b == [a EXCEPT !.pending = NoCall]
<1>1. /\ a \in RunRows /\ a.id = x.id /\ a.status = st /\ a.steps = x.steps /\ a.tainted = x.tainted
      /\ a.delegations = x.delegations /\ a.childSteps = x.childSteps
  BY DEF RunRows
<1>2. Closed(x, st) = b
  BY DEF Closed
<1> HIDE DEF a
<1>3. /\ b \in RunRows /\ b.id = a.id /\ b.status = a.status /\ b.steps = a.steps /\ b.tainted = a.tainted
      /\ b.pending = NoCall /\ b.delegations = a.delegations /\ b.childSteps = a.childSteps
  BY <1>1 DEF RunRows
<1> HIDE DEF b
<1> QED BY <1>1, <1>2, <1>3 DEF SameRun

LEMMA EditRecorded ==
  ASSUME NEW x \in RunRows, NEW c \in Calls
  PROVE  /\ SameRun(x, Recorded(x, c)) /\ Recorded(x, c).status = x.status /\ Recorded(x, c).pending = NoCall
         /\ Recorded(x, c).steps = x.steps \cup {c} /\ Recorded(x, c).tainted = (x.tainted \/ c \in Taints)
<1> DEFINE a == [x EXCEPT !.steps = x.steps \cup {c}]  dirty == x.tainted \/ c \in Taints
           b == [a EXCEPT !.tainted = dirty]  d == [b EXCEPT !.pending = NoCall]
<1>1. /\ a \in RunRows /\ a.id = x.id /\ a.status = x.status /\ a.steps = x.steps \cup {c}
      /\ a.delegations = x.delegations /\ a.childSteps = x.childSteps
  BY DEF RunRows
<1>2. Recorded(x, c) = d
  BY DEF Recorded
<1>3. dirty \in BOOLEAN
  OBVIOUS
<1> HIDE DEF a, dirty
<1>4. /\ b \in RunRows /\ b.id = a.id /\ b.status = a.status /\ b.steps = a.steps /\ b.tainted = dirty
      /\ b.delegations = a.delegations /\ b.childSteps = a.childSteps
  BY <1>1, <1>3 DEF RunRows
<1> HIDE DEF b
<1>5. /\ d \in RunRows /\ d.id = b.id /\ d.status = b.status /\ d.steps = b.steps /\ d.tainted = b.tainted
      /\ d.pending = NoCall /\ d.delegations = b.delegations /\ d.childSteps = b.childSteps
  BY <1>4 DEF RunRows
<1> HIDE DEF d
<1> DEFINE z == Recorded(x, c)
<1>6. z = d
  BY <1>2
<1> HIDE DEF z
<1>7. /\ SameRun(x, z) /\ z.status = x.status /\ z.pending = NoCall /\ z.steps = x.steps \cup {c}
      /\ z.tainted = dirty
  BY <1>1, <1>4, <1>5, <1>6 DEF SameRun
<1> QED BY <1>7 DEF z, dirty

\* A run that comes to wait for a decision, and one whose call was rejected.
Waiting(x, c) == [x EXCEPT !.status = "awaiting_approval", !.pending = c]
Stepped(x, c) == [x EXCEPT !.steps = @ \cup {c}]

LEMMA EditWaiting ==
  ASSUME NEW x \in RunRows, NEW c \in Calls
  PROVE  /\ SameRun(x, Waiting(x, c)) /\ Waiting(x, c).status = "awaiting_approval" /\ Waiting(x, c).pending = c
         /\ Waiting(x, c).steps = x.steps /\ Waiting(x, c).tainted = x.tainted
<1> DEFINE a == [x EXCEPT !.status = "awaiting_approval"]  b == [a EXCEPT !.pending = c]
<1>1. /\ a \in RunRows /\ a.id = x.id /\ a.status = "awaiting_approval" /\ a.steps = x.steps /\ a.tainted = x.tainted
      /\ a.delegations = x.delegations /\ a.childSteps = x.childSteps
  BY DEF RunRows, Statuses
<1>2. Waiting(x, c) = b
  BY DEF Waiting
<1> HIDE DEF a
<1>3. /\ b \in RunRows /\ b.id = a.id /\ b.status = a.status /\ b.steps = a.steps /\ b.tainted = a.tainted
      /\ b.pending = c /\ b.delegations = a.delegations /\ b.childSteps = a.childSteps
  BY <1>1 DEF RunRows
<1> HIDE DEF b
<1> QED BY <1>1, <1>2, <1>3 DEF SameRun

LEMMA EditStepped ==
  ASSUME NEW x \in RunRows, NEW c \in Calls
  PROVE  /\ SameRun(x, Stepped(x, c)) /\ Stepped(x, c).status = x.status /\ Stepped(x, c).pending = x.pending
         /\ Stepped(x, c).steps = x.steps \cup {c} /\ Stepped(x, c).tainted = x.tainted
BY DEF Stepped, SameRun, RunRows

LEMMA Stores ==
  ASSUME AgTypes, StoreOK, NEW y \in RunRows, StoredOK(y), store' = [store EXCEPT ![y.id] = y]
  PROVE  /\ AgTypeOK' /\ StoreOK' /\ \A r \in RunIds : store[r] # NoRun => store'[r] # NoRun
         /\ y.id \in RunIds /\ store'[y.id] = y /\ store'[y.id] # NoRun
         /\ \A r \in RunIds : r # y.id => store'[r] = store[r]
<1>1. y.id \in RunIds /\ y.pending \in Calls \cup {NoCall}
  BY DEF RunRows
<1>2. y.status = "awaiting_approval" => y.pending # NoCall
  BY AgentAssumption DEF StoredOK
<1>3. y # NoRun
  BY RowAssumption
<1>4. /\ store \in [RunIds -> {NoRun} \cup RunRows] /\ \A r \in RunIds : store[r] # NoRun => store[r].id = r
      /\ \A r \in RunIds : store[r] # NoRun /\ store[r].status = "awaiting_approval" => store[r].pending # NoCall
  BY DEF AgTypes, AgTypeOK
<1>5. /\ store' \in [RunIds -> {NoRun} \cup RunRows] /\ store'[y.id] = y
      /\ \A r \in RunIds : r # y.id => store'[r] = store[r]
  BY <1>1, <1>4
<1>6. AgTypeOK'
  <2>1. \A r \in RunIds : store'[r] # NoRun => store'[r].id = r
    BY <1>4, <1>5
  <2>2. \A r \in RunIds : store'[r] # NoRun /\ store'[r].status = "awaiting_approval" => store'[r].pending # NoCall
    BY <1>2, <1>4, <1>5
  <2> QED BY <1>5, <2>1, <2>2 DEF AgTypeOK
<1>7. StoreOK'
  BY <1>5 DEF StoreOK
<1> QED BY <1>1, <1>3, <1>5, <1>6, <1>7

\* A run that its thread saves and that does not wait for a decision.
LEMMA Storable ==
  ASSUME NEW x \in RunRows, NEW y, SameRun(x, y), RowOK(x), x.childSteps <= AllowedSteps(1),
         IsFiniteSet(y.steps), Cardinality(y.steps) <= StepLimit
  PROVE  RowOK(y) /\ (y.status # "awaiting_approval" => StoredOK(y))
BY DEF SameRun, RowOK, StoredOK

\* The end of the run on top: what is saved, and what the thread does next.
Ends(t, n) == Moves(t) /\ (thread'[t] = IdleThread \/ Pop(thread[t], thread'[t], n))

LEMMA Ending ==
  ASSUME AgTypes, NEW t \in Threads, thread[t].stack # <<>>, NEW n \in Nat, thread' = [thread EXCEPT ![t] = Leave(t, n)]
  PROVE  Ends(t, n)
<1> DEFINE w == Leave(t, n)
<1>1. w \in ThreadRows /\ (w = IdleThread \/ Pop(thread[t], w, n))
  BY Leaving
<1>2. thread' = [thread EXCEPT ![t] = w]
  OBVIOUS
<1> HIDE DEF w
<1>3. Moves(t) /\ thread'[t] = w
  BY <1>1, <1>2, Moved
<1> QED BY <1>1, <1>3 DEF Ends

\* Every other thread keeps its shape and its stage.
LEMMA BudgetStep ==
  ASSUME BudgetInv, NEW t \in Threads, Moves(t), OtherTypes', AgTypeOK', StoreOK',
         \A r \in RunIds : store[r] # NoRun => store'[r] # NoRun,
         Shape(thread'[t]), Stage(thread'[t], store')
  PROVE  BudgetInv'
<1>1. ASSUME NEW u \in Threads PROVE Shape(thread'[u]) /\ Stage(thread'[u], store')
  <2>1. CASE u = t
    BY <2>1
  <2>2. CASE u # t
    <3>1. thread'[u] = thread[u] /\ thread[u] \in ThreadRows /\ Shape(thread[u]) /\ Stage(thread[u], store)
      BY <2>2 DEF Moves, BudgetInv, AgTypes
    <3>2. Stage(thread[u], store')
      BY <3>1, StageKept
    <3> QED BY <3>1, <3>2
  <2> QED BY <2>1, <2>2
<1>2. AgTypes'
  BY DEF AgTypes, Moves
<1> QED BY <1>1, <1>2 DEF BudgetInv

LEMMA BudgetEnds ==
  ASSUME BudgetInv, NEW t \in Threads, thread[t].pc # "idle", NEW n \in Nat, n <= StepLimit, Ends(t, n),
         OtherTypes', AgTypeOK', StoreOK', \A r \in RunIds : store[r] # NoRun => store'[r] # NoRun
  PROVE  BudgetInv'
<1> DEFINE v == thread[t]  w == thread'[t]
<1>1. v \in ThreadRows /\ v.stack # <<>> /\ Shape(v)
  BY Working
<1>2. w \in ThreadRows
  BY DEF Ends, Moves
<1>3. Shape(w) /\ Stage(w, store')
  <2>1. CASE w = IdleThread
    BY <2>1, AtRest
  <2>2. CASE Pop(v, w, n)
    <3> HIDE DEF v, w
    <3>1. /\ Shape(w)
          /\ w.call \in Delegates \ Last(w.stack).steps /\ Spare(Last(w.stack)) /\ Last(w.stack).status = "running"
      BY <1>1, <1>2, <2>2, ShapePop
    <3>2. w.pc = "record"
      BY <2>2 DEF Pop
    <3> QED BY <3>1, <3>2, AgentAssumption DEF Stage
  <2> QED BY <2>1, <2>2 DEF Ends
<1> HIDE DEF v, w
<1>4. Moves(t)
  BY DEF Ends
<1> QED BY <1>3, <1>4, BudgetStep DEF v, w

LEMMA BudgetBreaks ==
  ASSUME BudgetInv, NEW t \in Threads, thread[t].pc # "idle", NEW run, SameRun(Top(t), run), RowOK(run),
         SaveRaises(t, run), OtherTypes'
  PROVE  BudgetInv'
<1> DEFINE v == thread[t]  w == thread'[t]  x == Top(t)
<1>1. v \in ThreadRows /\ v.stack # <<>> /\ Shape(v) /\ AgTypes /\ x = Last(v.stack) /\ StoreOK
  BY Working DEF BudgetInv
<1>2. run \in RunRows /\ run.delegations = x.delegations /\ run.childSteps = x.childSteps
  BY DEF SameRun
<1>3. Moves(t) /\ UNCHANGED store /\ Retop(v, w, run) /\ w.pc = "broken"
  BY <1>1, <1>2, Breaks
<1>4. w \in ThreadRows
  BY <1>3 DEF Moves
<1> HIDE DEF v, w, x
<1>5. Shape(w)
  BY <1>1, <1>2, <1>3, <1>4, ShapeRetop
<1>6. Stage(w, store')
  BY <1>3 DEF Stage
<1>7. AgTypeOK' /\ StoreOK' /\ \A r \in RunIds : store[r] # NoRun => store'[r] # NoRun
  BY <1>1, <1>3 DEF AgTypes, AgTypeOK, StoreOK
<1> QED BY <1>3, <1>5, <1>6, <1>7, BudgetStep DEF w

LEMMA BudgetFinish ==
  ASSUME BudgetInv, NEW t \in Threads, thread[t].pc # "idle", NEW run, SameRun(Top(t), run), RowOK(run),
         NEW status \in Statuses \ {"awaiting_approval"}, Finish(t, run, status), OtherTypes'
  PROVE  BudgetInv'
<1> DEFINE y == Closed(run, status)  n == Cardinality(run.steps)
<1>1. CASE SaveRaises(t, run)
  BY <1>1, BudgetBreaks
<1>2. CASE Saved(y) /\ thread' = [thread EXCEPT ![t] = Leave(t, n)]
  <2>1. AgTypes /\ StoreOK /\ thread[t].stack # <<>> /\ Top(t) \in RunRows /\ RowOK(Top(t)) /\ Top(t).childSteps <= AllowedSteps(1)
    BY Working DEF BudgetInv
  <2>2. run \in RunRows /\ run.childSteps <= AllowedSteps(1)
    BY <2>1 DEF SameRun
  <2>3. n \in Nat /\ n <= StepLimit
    BY <2>2, Counts
  <2>4. y \in RunRows /\ y.steps = run.steps /\ y.status = status /\ StoredOK(y)
    <3>1. SameRun(run, y) /\ y.steps = run.steps /\ y.status = status
      BY <2>2, EditClosed
    <3> HIDE DEF y
    <3> QED BY <2>2, <3>1 DEF StoredOK, RowOK, SameRun
  <2>5. store' = [store EXCEPT ![y.id] = y] /\ thread' = [thread EXCEPT ![t] = Leave(t, n)]
    BY <1>2 DEF Saved
  <2> HIDE DEF y, n
  <2>6. AgTypeOK' /\ StoreOK' /\ \A r \in RunIds : store[r] # NoRun => store'[r] # NoRun
    BY <2>1, <2>4, <2>5, Stores
  <2>7. Ends(t, n)
    BY <2>1, <2>3, <2>5, Ending
  <2> QED BY <2>3, <2>6, <2>7, BudgetEnds
<1> QED BY <1>1, <1>2 DEF Finish

\* A thread that goes on with the same stack.
Stays(t, pc, c, ok) ==
  /\ Moves(t) /\ thread'[t].stack = thread[t].stack
  /\ thread'[t].pc = pc /\ thread'[t].call = c /\ thread'[t].ok = ok

LEMMA Staying ==
  ASSUME AgTypes, NEW t \in Threads, NEW pc \in {"think", "tool", "record"},
         NEW c \in Calls \cup {NoCall}, NEW ok \in BOOLEAN,
         \/ thread' = [thread EXCEPT ![t].pc = pc, ![t].call = c, ![t].ok = ok]
         \/ thread' = [thread EXCEPT ![t].pc = pc] /\ c = thread[t].call /\ ok = thread[t].ok
  PROVE  Stays(t, pc, c, ok)
<1> DEFINE v == thread[t]  w == At(pc, v.stack, c, ok)
<1>1. v \in ThreadRows /\ v.stack \in Seq(RunRows)
  BY Fields DEF AgTypes
<1>2. w \in ThreadRows /\ w.pc = pc /\ w.stack = v.stack /\ w.call = c /\ w.ok = ok
  <2> HIDE DEF v
  <2> QED BY <1>1 DEF At, ThreadRows
<1>3. thread' = [thread EXCEPT ![t] = w]
  <2>1. CASE thread' = [thread EXCEPT ![t].pc = pc, ![t].call = c, ![t].ok = ok]
    <3>1. thread' = [thread EXCEPT ![t] = WithCall(v, pc, c, ok)]
      BY <2>1, FieldsOf DEF WithCall
    <3>2. WithCall(v, pc, c, ok) = w
      <4> HIDE DEF v
      <4> QED BY <1>1, Changed
    <3> QED BY <3>1, <3>2
  <2>2. CASE thread' = [thread EXCEPT ![t].pc = pc] /\ c = thread[t].call /\ ok = thread[t].ok
    <3>1. thread' = [thread EXCEPT ![t] = WithPc(v, pc)]
      BY <2>2, FieldsOf DEF WithPc
    <3>2. WithPc(v, pc) = w
      <4>1. c = v.call /\ ok = v.ok
        BY <2>2
      <4> HIDE DEF v
      <4> QED BY <1>1, <4>1, Changed
    <3> QED BY <3>1, <3>2
  <2> QED BY <2>1, <2>2
<1> HIDE DEF w
<1>4. Moves(t) /\ thread'[t] = w
  BY <1>2, <1>3, Moved
<1> QED BY <1>2, <1>4 DEF Stays

LEMMA BudgetStays ==
  ASSUME BudgetInv, NEW t \in Threads, thread[t].pc # "idle", NEW pc \in {"tool", "record"}, NEW c, NEW ok,
         Stays(t, pc, c, ok), UNCHANGED store, OtherTypes',
         c \in Calls \ Top(t).steps, Spare(Top(t)), Top(t).status = "running"
  PROVE  BudgetInv'
<1> DEFINE v == thread[t]  w == thread'[t]  x == Top(t)
<1>1. v.stack # <<>> /\ Shape(v) /\ AgTypes /\ StoreOK /\ x = Last(v.stack)
  BY Working DEF BudgetInv
<1>2. Moves(t) /\ w.stack = v.stack /\ w.pc = pc /\ w.call = c
  BY DEF Stays
<1>3. v.pc # "idle"
  OBVIOUS
<1>4. c \in Calls \ x.steps /\ Spare(x) /\ x.status = "running"
  OBVIOUS
<1> HIDE DEF v, w, x
<1>5. Shape(w)
  BY <1>1, <1>2, <1>3 DEF Shape
<1>6. Stage(w, store')
  BY <1>1, <1>2, <1>4 DEF Stage
<1>7. AgTypeOK' /\ StoreOK' /\ \A r \in RunIds : store[r] # NoRun => store'[r] # NoRun
  BY <1>1 DEF AgTypes, AgTypeOK, StoreOK
<1> QED BY <1>2, <1>5, <1>6, <1>7, BudgetStep DEF w

LEMMA TakeMove ==
  ASSUME BudgetInv, NEW t \in Threads, NEW c \in Calls, TakeAction(t, c)
  PROVE  /\ Stays(t, "tool", c, FALSE) /\ c \notin Top(t).steps /\ Spare(Top(t)) /\ Top(t).status = "running"
<1>1. thread[t].pc = "think" /\ AgTypes /\ Top(t) \in RunRows /\ RowOK(Top(t)) /\ Stage(thread[t], store) /\ Top(t) = Last(thread[t].stack)
  BY Working DEF TakeAction
<1>2. Stays(t, "tool", c, FALSE)
  <2>1. thread' = [thread EXCEPT ![t].pc = "tool", ![t].call = c, ![t].ok = FALSE]
    BY DEF TakeAction
  <2>2. "tool" \in {"think", "tool", "record"} /\ c \in Calls \cup {NoCall} /\ FALSE \in BOOLEAN
    OBVIOUS
  <2> QED BY ONLY <1>1, <2>1, <2>2, t \in Threads, Staying
<1>3. Spare(Top(t))
  <2> DEFINE n == Cardinality(Top(t).steps)
  <2>1. n \in Nat /\ ~(n >= StepLimit)
    BY <1>1, Counts DEF TakeAction, AtStepLimit
  <2> HIDE DEF n
  <2>2. n < StepLimit
    BY <2>1, Limits
  <2> QED BY <2>2 DEF Spare, n
<1> QED BY <1>1, <1>2, <1>3 DEF TakeAction, Repeated, Stage

\* Where a tool call is about to be answered, recorded or rejected.
LEMMA AtCall ==
  ASSUME BudgetInv, NEW t \in Threads, thread[t].pc \in {"tool", "record", "reject"}
  PROVE  /\ thread[t].pc # "idle" /\ AgTypes /\ thread[t].call \in Calls \ Top(t).steps /\ Spare(Top(t)) /\ Top(t).status = "running"
         /\ Top(t) \in RunRows /\ RowOK(Top(t)) /\ Top(t).childSteps <= AllowedSteps(1) /\ thread[t].ok \in BOOLEAN
BY Working, Fields DEF Stage

LEMMA ToolMove ==
  ASSUME BudgetInv, NEW t \in Threads, Effect(t) \/ DelegateRefused(t)
  PROVE  Stays(t, "record", thread[t].call, thread[t].ok)
<1>1. thread[t].pc = "tool" /\ thread' = [thread EXCEPT ![t].pc = "record"]
  BY DEF Effect, DelegateRefused
<1>2. AgTypes /\ thread[t].call \in Calls \cup {NoCall} /\ thread[t].ok \in BOOLEAN
  BY <1>1, AtCall
<1> DEFINE c == thread[t].call  ok == thread[t].ok
<1>3. thread' = [thread EXCEPT ![t].pc = "record"] /\ c = thread[t].call /\ ok = thread[t].ok /\ c \in Calls \cup {NoCall} /\ ok \in BOOLEAN
  BY <1>1, <1>2
<1> HIDE DEF c, ok
<1>4. Stays(t, "record", c, ok)
  BY <1>2, <1>3, Staying
<1> QED BY <1>4 DEF c, ok

\* A thread that goes on with a new top of its stack.
Retops(t, run, pc, c, ok) ==
  /\ Moves(t) /\ Retop(thread[t], thread'[t], run)
  /\ thread'[t].pc = pc /\ thread'[t].call = c /\ thread'[t].ok = ok

LEMMA Retopping ==
  ASSUME AgTypes, NEW t \in Threads, thread[t].stack # <<>>, NEW run \in RunRows, NEW pc \in {"think", "close"},
         NEW c \in Calls \cup {NoCall}, NEW ok \in BOOLEAN,
         thread' = [thread EXCEPT ![t] = At(pc, SetTop(t, run), c, ok)]
  PROVE  Retops(t, run, pc, c, ok)
<1> DEFINE z == SetTop(t, run)  w == At(pc, z, c, ok)
<1>1. z \in Seq(RunRows) /\ z = SetTop(t, run)
  BY SetTopType
<1>2. thread' = [thread EXCEPT ![t] = w]
  OBVIOUS
<1>3. w = At(pc, z, c, ok)
  OBVIOUS
<1> HIDE DEF z, w
<1>4. w \in ThreadRows /\ w.pc = pc /\ w.stack = z /\ w.call = c /\ w.ok = ok
  BY <1>1, <1>3 DEF At, ThreadRows
<1>5. Moves(t) /\ thread'[t] = w
  BY <1>2, <1>4, Moved
<1>6. Retop(thread[t], w, run)
  BY <1>1, <1>4, NewTop
<1> QED BY <1>4, <1>5, <1>6 DEF Retops

LEMMA BudgetRetops ==
  ASSUME BudgetInv, NEW t \in Threads, thread[t].pc # "idle", NEW run, SameRun(Top(t), run), RowOK(run),
         NEW pc \in {"think", "close"}, NEW c, NEW ok, Retops(t, run, pc, c, ok), OtherTypes', AgTypeOK', StoreOK',
         \A r \in RunIds : store[r] # NoRun => store'[r] # NoRun,
         pc = "think" => run.status = "running", store'[run.id] # NoRun
  PROVE  BudgetInv'
<1> DEFINE v == thread[t]  w == thread'[t]  x == Top(t)
<1>1. v \in ThreadRows /\ v.stack # <<>> /\ Shape(v) /\ x = Last(v.stack)
  BY Working
<1>2. run \in RunRows /\ run.delegations = x.delegations /\ run.childSteps = x.childSteps
  BY DEF SameRun
<1>3. Moves(t) /\ Retop(v, w, run) /\ w.pc = pc
  BY DEF Retops
<1>4. w \in ThreadRows
  BY <1>3 DEF Moves
<1> HIDE DEF v, w, x
<1>5. Shape(w)
  BY <1>1, <1>2, <1>3, <1>4, ShapeRetop
<1>6. Last(w.stack) = run
  BY <1>3 DEF Retop
<1>7. Stage(w, store')
  BY <1>3, <1>6 DEF Stage
<1> QED BY <1>3, <1>5, <1>7, BudgetStep DEF w

Paused(t, c) == Waiting(Top(t), c)

LEMMA PauseMove ==
  ASSUME BudgetInv, NEW t \in Threads, NEW c \in Calls, Pause(t, c)
  PROVE  /\ thread[t].pc = "think" /\ SameRun(Top(t), Paused(t, c)) /\ RowOK(Paused(t, c)) /\ StoredOK(Paused(t, c))
         /\ Paused(t, c).status = "awaiting_approval" /\ Paused(t, c).pending = c
         /\ Paused(t, c).steps = Top(t).steps /\ Paused(t, c).tainted = Top(t).tainted
         /\ \/ SaveRaises(t, Paused(t, c))
            \/ /\ store' = [store EXCEPT ![Paused(t, c).id] = Paused(t, c)] /\ UNCHANGED saveFaults
               /\ \/ Moves(t) /\ thread'[t] = IdleThread
                  \/ Retops(t, Paused(t, c), "close", thread[t].call, thread[t].ok)
<1> DEFINE x == Top(t)  y == Paused(t, c)
<1>1. /\ thread[t].pc = "think" /\ AgTypes /\ x \in RunRows /\ RowOK(x) /\ x.childSteps <= AllowedSteps(1)
      /\ thread[t] \in ThreadRows /\ thread[t].stack # <<>>
  BY Working DEF Pause
<1>2. Spare(x) /\ c \notin x.steps
  <2> DEFINE n == Cardinality(x.steps)
  <2>1. n \in Nat /\ ~(n >= StepLimit) /\ c \notin x.steps
    BY <1>1, Counts DEF Pause, AtStepLimit, Repeated
  <2> HIDE DEF n
  <2>2. n < StepLimit
    BY <2>1, Limits
  <2> QED BY <2>1, <2>2 DEF Spare, n
<1>3. /\ SameRun(x, y) /\ y.status = "awaiting_approval" /\ y.pending = c /\ y.steps = x.steps /\ y.tainted = x.tainted
  <2>1. y = Waiting(x, c)
    BY DEF Paused
  <2> HIDE DEF x, y
  <2> QED BY <1>1, <2>1, EditWaiting
<1>4. \/ SaveRaises(t, y)
      \/ /\ store' = [store EXCEPT ![y.id] = y] /\ UNCHANGED saveFaults
         /\ thread' = [thread EXCEPT ![t] = IF Len(thread[t].stack) = 1 THEN IdleThread
                                            ELSE WithStack(thread[t], "close", SetTop(t, y))]
  BY <1>1 DEF Pause, Saved, Paused, Waiting, WithStack, AgTypes
<1> HIDE DEF x, y
<1>5. RowOK(y) /\ StoredOK(y)
  BY <1>1, <1>2, <1>3 DEF SameRun, RowOK, StoredOK, Spare
<1>6. y \in RunRows
  BY <1>3 DEF SameRun
<1>7. ASSUME thread' = [thread EXCEPT ![t] = IF Len(thread[t].stack) = 1 THEN IdleThread
                                            ELSE WithStack(thread[t], "close", SetTop(t, y))]
      PROVE  \/ Moves(t) /\ thread'[t] = IdleThread
             \/ Retops(t, y, "close", thread[t].call, thread[t].ok)
  <2>1. CASE Len(thread[t].stack) = 1
    <3>1. thread' = [thread EXCEPT ![t] = IdleThread] /\ IdleThread \in ThreadRows
      BY <1>7, <2>1, AtRest
    <3> QED BY <1>1, <3>1, Moved
  <2>2. CASE Len(thread[t].stack) # 1
    <3> DEFINE v == thread[t]  k == v.call  ok == v.ok  z == SetTop(t, y)
    <3>1. v \in ThreadRows /\ k \in Calls \cup {NoCall} /\ ok \in BOOLEAN /\ k = v.call /\ ok = v.ok /\ z = SetTop(t, y)
      BY <1>1, Fields
    <3>2. thread' = [thread EXCEPT ![t] = WithStack(v, "close", z)]
      BY <1>7, <2>2
    <3> HIDE DEF v, k, ok, z
    <3>3. WithStack(v, "close", z) = At("close", z, k, ok)
      BY <3>1, Changed
    <3>4. thread' = [thread EXCEPT ![t] = At("close", SetTop(t, y), k, ok)]
      BY <3>1, <3>2, <3>3
    <3>5. "close" \in {"think", "close"}
      OBVIOUS
    <3>6. Retops(t, y, "close", k, ok)
      BY ONLY t \in Threads, <1>1, <1>6, <3>1, <3>4, <3>5, Retopping
    <3> QED BY <3>6 DEF k, ok, v
  <2> QED BY <2>1, <2>2
<1> QED BY <1>1, <1>3, <1>4, <1>5, <1>7 DEF x, y

LEMMA RecordMove ==
  ASSUME BudgetInv, NEW t \in Threads, RecordStep(t)
  PROVE  LET run == Recorded(Top(t), thread[t].call) IN
         /\ thread[t].pc = "record" /\ SameRun(Top(t), run) /\ RowOK(run) /\ StoredOK(run)
         /\ run.status = "running" /\ run.steps = Top(t).steps \cup {thread[t].call}
         /\ run.tainted = (Top(t).tainted \/ thread[t].call \in Taints)
         /\ \/ SaveRaises(t, run)
            \/ /\ store' = [store EXCEPT ![run.id] = run] /\ UNCHANGED saveFaults
               /\ Retops(t, run, "think", NoCall, FALSE)
<1> DEFINE x == Top(t)  c == thread[t].call  run == Recorded(x, c)
<1>1. /\ thread[t].pc = "record" /\ AgTypes /\ thread[t].call \in Calls \ x.steps /\ Spare(x) /\ x.status = "running"
      /\ x \in RunRows /\ RowOK(x) /\ x.childSteps <= AllowedSteps(1)
      /\ thread[t] \in ThreadRows /\ thread[t].stack # <<>>
  BY Working, AtCall DEF RecordStep
<1>2. /\ SameRun(x, run) /\ run.status = x.status /\ run.pending = NoCall /\ run.steps = x.steps \cup {c}
      /\ run.tainted = (x.tainted \/ c \in Taints)
  <2>1. c \in Calls
    BY <1>1
  <2> HIDE DEF x, c
  <2> QED BY <1>1, <2>1, EditRecorded
<1>3. \/ SaveRaises(t, run)
      \/ /\ store' = [store EXCEPT ![run.id] = run] /\ UNCHANGED saveFaults
         /\ thread' = [thread EXCEPT ![t] = WithAll(thread[t], "think", SetTop(t, run), NoCall, FALSE)]
  BY <1>1 DEF RecordStep, Saved, WithAll, AgTypes
<1>8. c = thread[t].call
  OBVIOUS
<1> HIDE DEF x, c, run
<1>4. RowOK(run) /\ StoredOK(run)
  <2>1. IsFiniteSet(run.steps) /\ Cardinality(run.steps) <= StepLimit
    BY <1>1, <1>2, <1>8, Counts
  <2> QED BY <1>1, <1>2, <2>1, Storable
<1>5. run \in RunRows
  BY <1>2 DEF SameRun
<1>6. ASSUME thread' = [thread EXCEPT ![t] = WithAll(thread[t], "think", SetTop(t, run), NoCall, FALSE)]
      PROVE  Retops(t, run, "think", NoCall, FALSE)
  <2> DEFINE v == thread[t]  z == SetTop(t, run)  ok == FALSE
  <2>1. v \in ThreadRows /\ z = SetTop(t, run)
    BY <1>1
  <2>2. thread' = [thread EXCEPT ![t] = WithAll(v, "think", z, NoCall, FALSE)]
    BY <1>6
  <2>3. WithAll(v, "think", z, NoCall, ok) = At("think", z, NoCall, ok)
    <3> HIDE DEF v, z, ok
    <3> QED BY <2>1, Changed
  <2> HIDE DEF v, z
  <2>4. thread' = [thread EXCEPT ![t] = At("think", SetTop(t, run), NoCall, FALSE)]
    BY <2>1, <2>2, <2>3
  <2>5. "think" \in {"think", "close"} /\ NoCall \in Calls \cup {NoCall} /\ FALSE \in BOOLEAN
    OBVIOUS
  <2> QED BY ONLY t \in Threads, <1>1, <1>5, <2>4, <2>5, Retopping
<1>7. /\ SameRun(x, run) /\ RowOK(run) /\ StoredOK(run)
      /\ run.status = "running" /\ run.steps = x.steps \cup {c} /\ run.tainted = (x.tainted \/ c \in Taints)
      /\ \/ SaveRaises(t, run)
         \/ /\ store' = [store EXCEPT ![run.id] = run] /\ UNCHANGED saveFaults
            /\ Retops(t, run, "think", NoCall, FALSE)
  BY <1>1, <1>2, <1>3, <1>4, <1>6
<1> QED BY <1>1, <1>7 DEF x, c, run

\* A thread that takes one run in hand.
Singles(t, run, pc, c, ok) ==
  /\ Moves(t) /\ thread'[t].stack = <<run>>
  /\ thread'[t].pc = pc /\ thread'[t].call = c /\ thread'[t].ok = ok

LEMMA Taking ==
  ASSUME AgTypes, NEW t \in Threads, NEW run \in RunRows, NEW pc \in {"think", "claim", "tool", "reject"},
         NEW c \in Calls \cup {NoCall}, NEW ok \in BOOLEAN,
         thread' = [thread EXCEPT ![t] = At(pc, <<run>>, c, ok)]
  PROVE  Singles(t, run, pc, c, ok)
<1> DEFINE z == <<run>>  w == At(pc, z, c, ok)
<1>1. z \in Seq(RunRows) /\ z = <<run>>
  OBVIOUS
<1>2. thread' = [thread EXCEPT ![t] = w]
  OBVIOUS
<1>3. w = At(pc, z, c, ok)
  OBVIOUS
<1> HIDE DEF z, w
<1>4. w \in ThreadRows /\ w.pc = pc /\ w.stack = z /\ w.call = c /\ w.ok = ok
  BY <1>1, <1>3 DEF At, ThreadRows
<1>5. Moves(t) /\ thread'[t] = w
  BY <1>2, <1>4, Moved
<1> QED BY <1>1, <1>4, <1>5 DEF Singles

LEMMA BudgetSingles ==
  ASSUME BudgetInv, NEW t \in Threads, NEW run \in RunRows, RowOK(run), run.childSteps <= AllowedSteps(1),
         NEW pc \in {"think", "claim", "tool", "reject"}, NEW c, NEW ok, Singles(t, run, pc, c, ok),
         OtherTypes', AgTypeOK', StoreOK', \A r \in RunIds : store[r] # NoRun => store'[r] # NoRun,
         pc # "think" => c \in Calls \ run.steps /\ Spare(run),
         pc # "claim" => run.status = "running",
         pc = "claim" => /\ store'[run.id] # NoRun /\ StoredOK(run)
                         /\ run.status = "awaiting_approval" /\ c = run.pending
  PROVE  BudgetInv'
<1> DEFINE w == thread'[t]
<1>1. Moves(t) /\ w \in ThreadRows /\ w.stack = <<run>> /\ w.pc = pc /\ w.call = c
  BY DEF Singles, Moves
<1> HIDE DEF w
<1>2. Shape(w) /\ Last(w.stack) = run /\ Len(w.stack) = 1
  BY <1>1, ShapeSingle
<1>3. Stage(w, store')
  BY <1>1, <1>2 DEF Stage
<1> QED BY <1>1, <1>2, <1>3, BudgetStep DEF w

LEMMA FreshRun ==
  ASSUME NEW id \in RunIds, NEW b \in BOOLEAN
  PROVE  LET new == NewRun(id, b) IN
         /\ new \in RunRows /\ new.id = id /\ new.tainted = b /\ new.status = "running" /\ new.steps = {}
         /\ RowOK(new) /\ new.delegations = 0 /\ new.childSteps = 0 /\ 0 <= AllowedSteps(1)
<1> DEFINE new == NewRun(id, b)
<1>1. /\ new \in RunRows /\ new.id = id /\ new.tainted = b /\ new.status = "running" /\ new.steps = {}
      /\ new.delegations = 0 /\ new.childSteps = 0
  BY DEF NewRun, RunRows, Statuses
<1>2. IsFiniteSet({}) /\ Cardinality({}) = 0
  BY FS_EmptySet
<1>3. 0 <= StepLimit /\ 0 <= MaxDelegations /\ 1 \in 1..(MaxDepth + 1)
  BY Limits
<1>4. 0 <= AllowedSteps(1)
  BY <1>3, Allowed
<1> HIDE DEF new
<1>5. RowOK(new)
  BY <1>1, <1>2, <1>3 DEF RowOK
<1> QED BY <1>1, <1>4, <1>5 DEF new

LEMMA RunMove ==
  ASSUME BudgetInv, NEW t \in Threads, NEW tainted \in BOOLEAN, Run(t, tainted)
  PROVE  nextRun \in RunIds /\ Singles(t, NewRun(nextRun, tainted), "think", NoCall, FALSE)
<1> DEFINE new == NewRun(nextRun, tainted)  z == <<new>>  ok == FALSE
<1>1. AgTypes /\ nextRun \in RunIds
  BY AgentAssumption DEF BudgetInv, Run
<1>2. new \in RunRows
  BY <1>1, FreshRun
<1>3. thread' = [thread EXCEPT ![t] = WithStack(IdleThread, "think", z)]
  BY DEF Run, WithStack
<1>4. IdleThread \in ThreadRows /\ IdleThread.call = NoCall /\ IdleThread.ok = ok
  BY AtRest DEF IdleThread
<1>5. z = <<new>>
  OBVIOUS
<1>6. ok \in BOOLEAN /\ NoCall \in Calls \cup {NoCall} /\ "think" \in {"think", "claim", "tool", "reject"}
  OBVIOUS
<1>7. WithStack(IdleThread, "think", z) = At("think", z, NoCall, ok)
  <2> HIDE DEF z, ok
  <2> QED BY <1>4, Changed
<1> HIDE DEF new, z, ok
<1>8. thread' = [thread EXCEPT ![t] = At("think", <<new>>, NoCall, ok)]
  BY <1>3, <1>5, <1>7
<1>9. Singles(t, new, "think", NoCall, ok)
  BY ONLY t \in Threads, <1>1, <1>2, <1>6, <1>8, Taking
<1> QED BY <1>1, <1>9 DEF new, ok

LEMMA ResumeMove ==
  ASSUME BudgetInv, NEW t \in Threads, NEW r \in RunIds, NEW ok \in BOOLEAN, Resume(t, r, ok)
  PROVE  /\ Singles(t, store[r], "claim", store[r].pending, ok)
         /\ store[r] \in RunRows /\ store[r].id = r /\ store[r].status = "awaiting_approval" /\ StoredOK(store[r])
<1> DEFINE x == store[r]  z == <<x>>  c == x.pending
<1>1. AgTypes /\ x \in RunRows /\ x.id = r /\ x.status = "awaiting_approval" /\ StoredOK(x) /\ x.pending \in Calls
  BY DEF BudgetInv, AgTypes, AgTypeOK, StoreOK, StoredOK, Resume
<1>2. thread' = [thread EXCEPT ![t] = WithAll(IdleThread, "claim", z, c, ok)]
  BY DEF Resume, WithAll
<1>3. IdleThread \in ThreadRows
  BY AtRest
<1>4. z = <<x>> /\ c = x.pending
  OBVIOUS
<1>5. WithAll(IdleThread, "claim", z, c, ok) = At("claim", z, c, ok)
  <2> HIDE DEF z, c
  <2> QED BY <1>3, Changed
<1> HIDE DEF x, z, c
<1>6. thread' = [thread EXCEPT ![t] = At("claim", <<x>>, c, ok)] /\ c \in Calls \cup {NoCall}
  BY <1>1, <1>2, <1>4, <1>5
<1>7. "claim" \in {"think", "claim", "tool", "reject"}
  OBVIOUS
<1>8. Singles(t, x, "claim", c, ok)
  BY ONLY t \in Threads, ok \in BOOLEAN, <1>1, <1>6, <1>7, Taking
<1> QED BY <1>1, <1>4, <1>8 DEF x

\* The run that a resume() has claimed.
Claimed(t) == Closed(Top(t), "running")

LEMMA ClaimMove ==
  ASSUME BudgetInv, NEW t \in Threads, Claim(t)
  PROVE  /\ thread[t].pc = "claim" /\ SameRun(Top(t), Claimed(t)) /\ RowOK(Claimed(t)) /\ StoredOK(Claimed(t))
         /\ Claimed(t).status = "running" /\ Claimed(t).steps = Top(t).steps /\ Claimed(t).tainted = Top(t).tainted
         /\ Len(thread[t].stack) = 1 /\ Top(t).status = "awaiting_approval" /\ store[Top(t).id] # NoRun
         /\ thread[t].call \in Calls \ Top(t).steps /\ Spare(Top(t)) /\ thread[t].ok \in BOOLEAN
         /\ \/ /\ Claimable(Top(t).id) /\ store' = [store EXCEPT ![Claimed(t).id] = Claimed(t)] /\ UNCHANGED saveFaults
               /\ Singles(t, Claimed(t), IF thread[t].ok THEN "tool" ELSE "reject", thread[t].call, thread[t].ok)
               /\ overtaken' = IF store[Top(t).id].status = "awaiting_approval" /\ store[Top(t).id] # Top(t)
                               THEN overtaken \cup {Top(t).id} ELSE overtaken
            \/ Moves(t) /\ thread'[t] = IdleThread /\ UNCHANGED <<store, overtaken>>
<1> DEFINE v == thread[t]  x == Top(t)  y == Claimed(t)
<1>1. /\ v.pc = "claim" /\ AgTypes /\ v \in ThreadRows /\ x \in RunRows /\ RowOK(x) /\ x.childSteps <= AllowedSteps(1)
      /\ Len(v.stack) = 1 /\ x.status = "awaiting_approval" /\ store[x.id] # NoRun
      /\ v.call \in Calls \ x.steps /\ Spare(x)
  BY Working DEF Claim, Stage
<1>2. v.ok \in BOOLEAN
  BY <1>1, Fields
<1>3. SameRun(x, y) /\ y.status = "running" /\ y.steps = x.steps /\ y.tainted = x.tainted
  <2>1. "running" \in Statuses /\ y = Closed(x, "running")
    BY DEF Statuses, Claimed
  <2> HIDE DEF x, y
  <2> QED BY <1>1, <2>1, EditClosed
<1>4. RowOK(y) /\ StoredOK(y) /\ y \in RunRows /\ y.id = x.id
  <2> HIDE DEF x, y
  <2> QED BY <1>1, <1>3 DEF SameRun, RowOK, StoredOK
<1> DEFINE pc == IF v.ok THEN "tool" ELSE "reject"
<1>5. \/ /\ Claimable(y.id) /\ Saved(y)
         /\ thread' = [thread EXCEPT ![t].pc = pc, ![t].stack = <<y>>]
         /\ overtaken' = IF store[y.id].status = "awaiting_approval" /\ store[y.id] # x
                         THEN overtaken \cup {y.id} ELSE overtaken
      \/ thread' = [thread EXCEPT ![t] = IdleThread] /\ UNCHANGED <<store, overtaken>>
  BY DEF Claim, Claimed, Closed
<1>6. CASE thread' = [thread EXCEPT ![t] = IdleThread] /\ UNCHANGED <<store, overtaken>>
  <2>1. Moves(t) /\ thread'[t] = IdleThread
    BY <1>1, <1>6, AtRest, Moved
  <2> QED BY <1>1, <1>2, <1>3, <1>4, <1>6, <2>1
<1>7. CASE /\ Claimable(y.id) /\ Saved(y)
           /\ thread' = [thread EXCEPT ![t].pc = pc, ![t].stack = <<y>>]
           /\ overtaken' = IF store[y.id].status = "awaiting_approval" /\ store[y.id] # x
                           THEN overtaken \cup {y.id} ELSE overtaken
  <2> DEFINE z == <<y>>  c == v.call  ok == v.ok
  <2>1. thread' = [thread EXCEPT ![t] = WithStack(v, pc, z)]
    <3>1. thread' = [thread EXCEPT ![t].pc = pc, ![t].stack = z]
      BY <1>7
    <3> HIDE DEF z, pc
    <3> QED BY <1>1, <3>1, FieldsOf DEF WithStack
  <2>2. pc \in {"think", "claim", "tool", "reject"} /\ z = <<y>> /\ c \in Calls \cup {NoCall} /\ ok \in BOOLEAN /\ c = v.call /\ ok = v.ok
    BY <1>1, <1>2
  <2>6. v \in ThreadRows /\ AgTypes /\ y \in RunRows
    BY <1>1, <1>4
  <2> HIDE DEF z, pc, c, ok, v, y
  <2>3. WithStack(v, pc, z) = At(pc, z, c, ok)
    BY <2>2, <2>6, Changed
  <2>4. thread' = [thread EXCEPT ![t] = At(pc, <<y>>, c, ok)]
    BY <2>1, <2>2, <2>3
  <2>5. Singles(t, y, pc, c, ok)
    BY ONLY t \in Threads, <2>2, <2>4, <2>6, Taking
  <2>7. /\ Claimable(x.id) /\ store' = [store EXCEPT ![y.id] = y] /\ UNCHANGED saveFaults
        /\ overtaken' = IF store[x.id].status = "awaiting_approval" /\ store[x.id] # x
                        THEN overtaken \cup {x.id} ELSE overtaken
    BY <1>4, <1>7 DEF Saved
  <2> QED BY <1>1, <1>2, <1>3, <1>4, <2>5, <2>7 DEF c, ok, pc, v, y
<1> QED BY <1>5, <1>6, <1>7

\* A delegate call within its limits.
LEMMA DelegateMove ==
  ASSUME BudgetInv, NEW t \in Threads, Delegate(t)
  PROVE  LET new == NewRun(nextRun, Top(t).tainted) IN
         /\ thread[t].pc = "tool" /\ thread[t].call \in Delegates /\ nextRun \in RunIds /\ new \in RunRows
         /\ Moves(t) /\ Push(thread[t], thread'[t], new)
         /\ thread'[t].pc = "think" /\ thread'[t].call = NoCall /\ thread'[t].ok = FALSE
         /\ Len(thread[t].stack) <= MaxDepth /\ thread[t].stack[1].delegations < MaxDelegations
         /\ thread[t].stack[1].childSteps < MaxChildSteps
<1> DEFINE v == thread[t]  s == v.stack  c == v.call  x == Top(t)  new == NewRun(nextRun, x.tainted)
           h == Held(s, c)  k == Charged(h)  z == Append(k, new)  ok == FALSE  w == At("think", z, NoCall, ok)
<1>1. /\ v.pc = "tool" /\ c \in Delegates /\ nextRun \in RunIds /\ MayDelegate(t) /\ v.pc # "idle"
  BY DEF Delegate
<1>2. AgTypes /\ v \in ThreadRows /\ s \in Seq(RunRows) /\ s # <<>> /\ x \in RunRows /\ x = Last(s)
  BY <1>1, Working
<1>3. thread' = [thread EXCEPT ![t] = WithStack(IdleThread, "think", z)]
  BY DEF Delegate, WithStack, ChildTaint, Held, Charged, SetTop, Top
<1>4. new \in RunRows
  <2>1. x.tainted \in BOOLEAN
    <3> HIDE DEF x
    <3> QED BY <1>2 DEF RunRows
  <2> HIDE DEF x
  <2> QED BY <1>1, <2>1, FreshRun
<1>5. c \in Calls /\ h = Held(s, c) /\ k = Charged(h) /\ z = Append(k, new) /\ c = v.call /\ s = v.stack /\ ok = FALSE
  BY <1>1, AgentAssumption
<1>6. w = At("think", z, NoCall, ok)
  OBVIOUS
<1>7. Len(s) <= MaxDepth /\ s[1].delegations < MaxDelegations /\ s[1].childSteps < MaxChildSteps
  BY <1>1 DEF MayDelegate, Root
<1>8. IdleThread \in ThreadRows /\ ok \in BOOLEAN
  BY AtRest
<1> HIDE DEF v, s, c, x, new, h, k, z, ok, w
<1>9. WithStack(IdleThread, "think", z) = w
  BY <1>5, <1>6, <1>8, Changed DEF IdleThread
<1>14. On(z, s, c, new)
  BY ONLY <1>2, <1>4, <1>5, Pushed
<1>10. /\ z \in Seq(RunRows) /\ Len(z) = Len(s) + 1 /\ z # <<>> /\ Last(z) = new /\ z[Len(s) + 1] = new
       /\ \A i \in 1..Len(s) :
            /\ z[i] \in RunRows /\ z[i].id = s[i].id /\ z[i].steps = s[i].steps /\ z[i].status = s[i].status
            /\ z[i].tainted = s[i].tainted /\ z[i].childSteps = s[i].childSteps
            /\ z[i].delegations = (IF i = 1 THEN s[1].delegations + 1 ELSE s[i].delegations)
            /\ z[i].pending = (IF i = Len(s) THEN c ELSE s[i].pending)
  BY ONLY <1>14 DEF On
<1>11. w \in ThreadRows /\ w.pc = "think" /\ w.stack = z /\ w.call = NoCall /\ w.ok = ok
  BY <1>6, <1>8, <1>10 DEF At, ThreadRows
<1>12. Moves(t) /\ thread'[t] = w
  BY <1>2, <1>3, <1>9, <1>11, Moved
<1>13. Push(v, w, new)
  BY <1>5, <1>10, <1>11 DEF Push
<1> QED BY <1>1, <1>4, <1>5, <1>7, <1>11, <1>12, <1>13 DEF new, x, v, s

-----------------------------------------------------------------------------
(* The budget of the delegate tool. *)

LEMMA OtherKept == ASSUME OtherTypes, UNCHANGED <<atomic, nextRun, ran, seen, overtaken>> PROVE OtherTypes'
BY DEF OtherTypes

LEMMA StoreKept ==
  ASSUME AgTypes, StoreOK, UNCHANGED store
  PROVE  AgTypeOK' /\ StoreOK' /\ \A r \in RunIds : store[r] # NoRun => store'[r] # NoRun
BY DEF AgTypes, AgTypeOK, StoreOK

LEMMA BudgetRun ==
  ASSUME BudgetInv, NEW t \in Threads, NEW tainted \in BOOLEAN, Run(t, tainted)
  PROVE  BudgetInv'
<1> DEFINE new == NewRun(nextRun, tainted)  ok == FALSE
<1>1. nextRun \in RunIds /\ Singles(t, new, "think", NoCall, ok) /\ OtherTypes /\ AgTypes /\ StoreOK
  BY RunMove DEF BudgetInv, AgTypes
<1>2. new \in RunRows /\ RowOK(new) /\ new.childSteps <= AllowedSteps(1) /\ new.status = "running"
  BY <1>1, FreshRun
<1>3. OtherTypes'
  BY <1>1 DEF Run, OtherTypes
<1>4. UNCHANGED store
  BY DEF Run
<1>5. AgTypeOK' /\ StoreOK' /\ \A r \in RunIds : store[r] # NoRun => store'[r] # NoRun
  BY <1>1, <1>4, StoreKept
<1> HIDE DEF new, ok
<1>6. "think" \in {"think", "claim", "tool", "reject"}
  OBVIOUS
<1> QED BY <1>1, <1>2, <1>3, <1>5, <1>6, BudgetSingles

LEMMA BudgetPause ==
  ASSUME BudgetInv, NEW t \in Threads, NEW c \in Calls, Pause(t, c)
  PROVE  BudgetInv'
<1> DEFINE y == Paused(t, c)  v == thread[t]
<1>1. /\ v.pc # "idle" /\ SameRun(Top(t), y) /\ RowOK(y) /\ StoredOK(y) /\ y.status = "awaiting_approval"
      /\ \/ SaveRaises(t, y)
         \/ /\ store' = [store EXCEPT ![y.id] = y]
            /\ \/ Moves(t) /\ thread'[t] = IdleThread
               \/ Retops(t, y, "close", v.call, v.ok)
  BY PauseMove
<1>2. y \in RunRows /\ AgTypes /\ StoreOK /\ OtherTypes
  BY <1>1 DEF SameRun, BudgetInv, AgTypes
<1>3. OtherTypes'
  BY <1>2, OtherKept DEF Pause
<1> HIDE DEF y
<1>4. CASE SaveRaises(t, y)
  BY <1>1, <1>3, <1>4, BudgetBreaks
<1>5. CASE store' = [store EXCEPT ![y.id] = y]
  <2>1. AgTypeOK' /\ StoreOK' /\ store'[y.id] # NoRun /\ \A r \in RunIds : store[r] # NoRun => store'[r] # NoRun
    BY <1>1, <1>2, <1>5, Stores
  <2>2. CASE Moves(t) /\ thread'[t] = IdleThread
    <3>1. Shape(thread'[t]) /\ Stage(thread'[t], store')
      BY <2>2, AtRest
    <3> QED BY <1>3, <2>1, <2>2, <3>1, BudgetStep
  <2>3. CASE Retops(t, y, "close", v.call, v.ok)
    <3> DEFINE k == v.call  ok == v.ok  pc == "close"
    <3>1. Retops(t, y, pc, k, ok) /\ pc \in {"think", "close"} /\ pc # "think" /\ v.pc # "idle"
      BY <1>1, <2>3
    <3> HIDE DEF k, ok, pc
    <3> QED BY <1>1, <1>3, <2>1, <3>1, BudgetRetops
  <2>4. CASE SaveRaises(t, y)
    BY <1>4, <2>4
  <2> QED BY <1>1, <2>2, <2>3, <2>4
<1> QED BY <1>1, <1>4, <1>5

LEMMA BudgetRecord ==
  ASSUME BudgetInv, NEW t \in Threads, RecordStep(t)
  PROVE  BudgetInv'
<1> DEFINE y == Recorded(Top(t), thread[t].call)
<1>1. /\ thread[t].pc # "idle" /\ SameRun(Top(t), y) /\ RowOK(y) /\ StoredOK(y) /\ y.status = "running"
      /\ \/ SaveRaises(t, y)
         \/ store' = [store EXCEPT ![y.id] = y] /\ Retops(t, y, "think", NoCall, FALSE)
  BY RecordMove
<1>2. y \in RunRows /\ AgTypes /\ StoreOK /\ OtherTypes
  BY <1>1 DEF SameRun, BudgetInv, AgTypes
<1>3. OtherTypes'
  BY <1>2, OtherKept DEF RecordStep
<1> HIDE DEF y
<1>4. CASE SaveRaises(t, y)
  BY <1>1, <1>3, <1>4, BudgetBreaks
<1>5. CASE store' = [store EXCEPT ![y.id] = y] /\ Retops(t, y, "think", NoCall, FALSE)
  <2>1. AgTypeOK' /\ StoreOK' /\ store'[y.id] # NoRun /\ \A r \in RunIds : store[r] # NoRun => store'[r] # NoRun
    BY <1>1, <1>2, <1>5, Stores
  <2> DEFINE ok == FALSE
  <2>2. Retops(t, y, "think", NoCall, ok) /\ "think" \in {"think", "close"}
    BY <1>5
  <2> HIDE DEF ok
  <2> QED BY <1>1, <1>3, <2>1, <2>2, BudgetRetops
<1> QED BY <1>1, <1>4, <1>5

LEMMA BudgetResume ==
  ASSUME BudgetInv, NEW t \in Threads, NEW r \in RunIds, NEW ok \in BOOLEAN, Resume(t, r, ok)
  PROVE  BudgetInv'
<1> DEFINE x == store[r]  c == x.pending  pc == "claim"
<1>1. /\ Singles(t, x, pc, c, ok) /\ x \in RunRows /\ x.id = r /\ x.status = "awaiting_approval" /\ StoredOK(x)
  BY ResumeMove
<1>2. RowOK(x) /\ x.childSteps <= AllowedSteps(1) /\ c \in Calls \ x.steps /\ Spare(x)
  BY <1>1 DEF StoredOK
<1>3. AgTypes /\ StoreOK /\ OtherTypes /\ UNCHANGED store
  BY DEF BudgetInv, AgTypes, Resume
<1>4. OtherTypes'
  BY <1>3, OtherKept DEF Resume
<1>5. AgTypeOK' /\ StoreOK' /\ \A q \in RunIds : store[q] # NoRun => store'[q] # NoRun
  BY <1>3, StoreKept
<1>6. store'[x.id] # NoRun
  BY <1>1, <1>3, RowAssumption
<1>7. c = x.pending /\ pc = "claim" /\ pc \in {"think", "claim", "tool", "reject"} /\ pc # "think"
  OBVIOUS
<1> HIDE DEF x, c, pc
<1> QED BY <1>1, <1>2, <1>4, <1>5, <1>6, <1>7, BudgetSingles

LEMMA BudgetClaim ==
  ASSUME BudgetInv, NEW t \in Threads, Claim(t)
  PROVE  BudgetInv'
<1> DEFINE x == Top(t)  y == Claimed(t)  v == thread[t]  pc == IF v.ok THEN "tool" ELSE "reject"  c == v.call  ok == v.ok
<1>1. /\ SameRun(x, y) /\ RowOK(y) /\ StoredOK(y) /\ y.status = "running" /\ y.steps = x.steps
      /\ c \in Calls \ x.steps /\ Spare(x) /\ v.pc = "claim"
      /\ \/ /\ store' = [store EXCEPT ![y.id] = y] /\ Singles(t, y, pc, c, ok)
            /\ overtaken' \subseteq overtaken \cup {x.id}
         \/ Moves(t) /\ thread'[t] = IdleThread /\ UNCHANGED <<store, overtaken>>
  BY ClaimMove
<1>2. AgTypes /\ StoreOK /\ OtherTypes /\ x.id \in RunIds /\ y \in RunRows
  <2>1. x \in RunRows
    BY <1>1, Working
  <2> HIDE DEF x, y
  <2>2. x.id \in RunIds
    BY <2>1 DEF RunRows
  <2> QED BY <1>1, <2>2 DEF BudgetInv, AgTypes, SameRun
<1>3. UNCHANGED <<atomic, nextRun, ran, seen>>
  BY DEF Claim
<1>4. OtherTypes'
  BY <1>1, <1>2, <1>3 DEF OtherTypes
<1>5. pc \in {"think", "claim", "tool", "reject"} /\ pc # "think" /\ pc # "claim"
  OBVIOUS
<1> HIDE DEF x, y, v, pc, c, ok
<1>6. CASE store' = [store EXCEPT ![y.id] = y] /\ Singles(t, y, pc, c, ok)
  <2>1. AgTypeOK' /\ StoreOK' /\ \A r \in RunIds : store[r] # NoRun => store'[r] # NoRun
    BY <1>1, <1>2, <1>6, Stores
  <2>2. c \in Calls \ y.steps /\ Spare(y) /\ y.childSteps <= AllowedSteps(1)
    BY <1>1 DEF Spare, StoredOK
  <2> QED BY <1>1, <1>2, <1>4, <1>5, <1>6, <2>1, <2>2, BudgetSingles
<1>7. CASE Moves(t) /\ thread'[t] = IdleThread /\ UNCHANGED <<store, overtaken>>
  <2>1. AgTypeOK' /\ StoreOK' /\ \A r \in RunIds : store[r] # NoRun => store'[r] # NoRun
    BY <1>2, <1>7, StoreKept
  <2>2. Shape(thread'[t]) /\ Stage(thread'[t], store')
    BY <1>7, AtRest
  <2> QED BY <1>4, <1>7, <2>1, <2>2, BudgetStep
<1> QED BY <1>1, <1>6, <1>7

LEMMA BudgetTake ==
  ASSUME BudgetInv, NEW t \in Threads, NEW c \in Calls, TakeAction(t, c)
  PROVE  BudgetInv'
<1> DEFINE ok == FALSE  pc == "tool"
<1>1. Stays(t, pc, c, ok) /\ c \in Calls \ Top(t).steps /\ Spare(Top(t)) /\ Top(t).status = "running"
  BY TakeMove
<1>2. thread[t].pc # "idle" /\ UNCHANGED store /\ pc \in {"tool", "record"}
  BY DEF TakeAction
<1>3. OtherTypes'
  BY OtherKept DEF TakeAction, BudgetInv, AgTypes
<1> HIDE DEF ok, pc
<1> QED BY <1>1, <1>2, <1>3, BudgetStays

LEMMA BudgetTool ==
  ASSUME BudgetInv, NEW t \in Threads, Effect(t) \/ DelegateRefused(t), OtherTypes'
  PROVE  BudgetInv'
<1> DEFINE c == thread[t].call  ok == thread[t].ok  pc == "record"
<1>1. thread[t].pc = "tool" /\ UNCHANGED store /\ pc \in {"tool", "record"} /\ thread[t].pc # "idle"
  BY DEF Effect, DelegateRefused
<1>2. Stays(t, pc, c, ok)
  BY ToolMove
<1>3. c \in Calls \ Top(t).steps /\ Spare(Top(t)) /\ Top(t).status = "running"
  BY <1>1, AtCall
<1> HIDE DEF c, ok, pc
<1> QED BY <1>1, <1>2, <1>3, BudgetStays

\* The threads that work hold runs with ids.
LEMMA IdsType ==
  ASSUME AgTypes, NEW t \in Threads
  PROVE  \A i \in 1..Len(thread[t].stack) : thread[t].stack[i] \in RunRows /\ thread[t].stack[i].id \in RunIds
<1> TAKE i \in 1..Len(thread[t].stack)
<1> DEFINE s == thread[t].stack  x == s[i]
<1>1. s \in Seq(RunRows)
  BY Fields DEF AgTypes
<1>2. i \in 1..Len(s)
  OBVIOUS
<1>3. x \in RunRows
  <2> HIDE DEF s
  <2> QED BY <1>1, <1>2, ReadAt
<1> HIDE DEF x
<1>4. x.id \in RunIds
  BY <1>3 DEF RunRows
<1> QED BY <1>3, <1>4 DEF x

LEMMA EffectTypes ==
  ASSUME BudgetInv, NEW t \in Threads, Effect(t)
  PROVE  OtherTypes'
<1>1. OtherTypes /\ AgTypes /\ UNCHANGED <<atomic, nextRun, overtaken>> /\ thread[t].pc = "tool"
  BY DEF BudgetInv, AgTypes, Effect
<1>2. thread[t].call \in Calls /\ Top(t).id \in RunIds
  <2> DEFINE x == Top(t)
  <2>1. x \in RunRows /\ thread[t].call \in Calls
    BY <1>1, AtCall
  <2> HIDE DEF x
  <2>2. x.id \in RunIds
    BY <2>1 DEF RunRows
  <2> QED BY <2>1, <2>2 DEF x
<1>3. ran' \in [RunIds -> [Calls -> Nat]]
  <2> DEFINE r == Top(t).id  c == thread[t].call  row == ran[r]  new == [row EXCEPT ![c] = row[c] + 1]
  <2>1. ran' = [ran EXCEPT ![r] = new]
    BY DEF Effect
  <2>2. r \in RunIds /\ c \in Calls /\ ran \in [RunIds -> [Calls -> Nat]]
    BY <1>1, <1>2 DEF OtherTypes
  <2> HIDE DEF r, c
  <2>3. row \in [Calls -> Nat]
    BY <2>2
  <2> HIDE DEF row
  <2>4. new \in [Calls -> Nat]
    BY <2>2, <2>3
  <2> HIDE DEF new
  <2> QED BY <2>1, <2>2, <2>4
<1>4. seen' \subseteq RunIds
  <2>1. {thread[t].stack[i].id : i \in 1..Len(thread[t].stack)} \subseteq RunIds
    BY <1>1, IdsType
  <2>2. seen' = seen \/ seen' = seen \cup {thread[t].stack[i].id : i \in 1..Len(thread[t].stack)}
    BY DEF Effect
  <2> QED BY <1>1, <2>1, <2>2 DEF OtherTypes
<1> QED BY <1>1, <1>3, <1>4 DEF OtherTypes

LEMMA BudgetDelegate ==
  ASSUME BudgetInv, NEW t \in Threads, Delegate(t)
  PROVE  BudgetInv'
<1> DEFINE v == thread[t]  w == thread'[t]  x == Top(t)  new == NewRun(nextRun, x.tainted)
<1>1. /\ v.pc = "tool" /\ v.call \in Delegates /\ nextRun \in RunIds /\ new \in RunRows
      /\ Moves(t) /\ Push(v, w, new)
      /\ w.pc = "think" /\ w.call = NoCall
      /\ Len(v.stack) <= MaxDepth /\ v.stack[1].delegations < MaxDelegations
      /\ v.stack[1].childSteps < MaxChildSteps
  BY DelegateMove
<1>2. v \in ThreadRows /\ Shape(v) /\ v.stack # <<>> /\ x = Last(v.stack) /\ x \in RunRows /\ AgTypes /\ StoreOK /\ OtherTypes
  BY <1>1, Working DEF BudgetInv, AgTypes
<1>3. v.call \in Delegates \ x.steps /\ Spare(x) /\ x.status = "running"
  BY <1>1, AtCall
<1>4. w \in ThreadRows
  BY <1>1 DEF Moves
<1>5. /\ RowOK(new) /\ new.delegations = 0 /\ new.childSteps = 0 /\ new.status = "running"
  <2>1. x.tainted \in BOOLEAN
    <3> HIDE DEF x
    <3> QED BY <1>2 DEF RunRows
  <2> HIDE DEF x
  <2> QED BY <1>1, <2>1, FreshRun
<1>6. OtherTypes'
  BY <1>1, <1>2 DEF Delegate, OtherTypes
<1>7. AgTypeOK' /\ StoreOK' /\ \A r \in RunIds : store[r] # NoRun => store'[r] # NoRun
  BY <1>2, StoreKept DEF Delegate
<1> HIDE DEF v, w, x, new
<1>8. Shape(w)
  BY <1>1, <1>2, <1>3, <1>4, <1>5, ShapePush
<1>9. Last(w.stack) = new
  BY <1>1 DEF Push
<1>10. Stage(w, store')
  BY <1>1, <1>5, <1>9 DEF Stage
<1> QED BY <1>1, <1>6, <1>7, <1>8, <1>10, BudgetStep DEF w

LEMMA BudgetStop ==
  ASSUME BudgetInv, NEW t \in Threads, StopDriving(t)
  PROVE  BudgetInv'
<1>1. thread[t].pc # "idle" /\ \E status \in {"stopped", "failed", "done"} : Finish(t, Top(t), status)
  BY DEF StopDriving
<1>2. PICK status \in {"stopped", "failed", "done"} : Finish(t, Top(t), status)
  BY <1>1
<1>3. status \in Statuses \ {"awaiting_approval"}
  BY DEF Statuses
<1>4. SameRun(Top(t), Top(t)) /\ RowOK(Top(t))
  BY <1>1, Working DEF SameRun
<1>5. OtherTypes'
  BY OtherKept DEF StopDriving, BudgetInv, AgTypes
<1> QED BY <1>1, <1>2, <1>3, <1>4, <1>5, BudgetFinish

\* The run whose call was rejected.
Refused(t) == Stepped(Top(t), thread[t].call)

LEMMA RejectMove ==
  ASSUME BudgetInv, NEW t \in Threads, RejectCall(t)
  PROVE  /\ thread[t].pc = "reject" /\ SameRun(Top(t), Refused(t)) /\ RowOK(Refused(t)) /\ Refused(t).tainted = Top(t).tainted
         /\ Refused(t).steps = Top(t).steps \cup {thread[t].call}
         /\ Finish(t, Refused(t), "rejected")
<1> DEFINE x == Top(t)  c == thread[t].call  y == Refused(t)
<1>1. /\ thread[t].pc = "reject" /\ x \in RunRows /\ RowOK(x) /\ c \in Calls \ x.steps /\ Spare(x) /\ x.childSteps <= AllowedSteps(1)
  BY AtCall DEF RejectCall
<1>2. Finish(t, y, "rejected")
  BY DEF RejectCall, Refused, Stepped
<1>3. y = Stepped(x, c)
  BY DEF Refused
<1> HIDE DEF x, c, y
<1>4. SameRun(x, y) /\ y.steps = x.steps \cup {c} /\ y.tainted = x.tainted
  BY <1>1, <1>3, EditStepped
<1>5. RowOK(y)
  <2>1. IsFiniteSet(y.steps) /\ Cardinality(y.steps) <= StepLimit
    BY <1>1, <1>4, Counts
  <2> QED BY <1>1, <1>4, <2>1, Storable
<1> QED BY <1>1, <1>2, <1>4, <1>5 DEF x, c, y

LEMMA BudgetReject ==
  ASSUME BudgetInv, NEW t \in Threads, RejectCall(t)
  PROVE  BudgetInv'
<1>1. thread[t].pc # "idle" /\ SameRun(Top(t), Refused(t)) /\ RowOK(Refused(t)) /\ Finish(t, Refused(t), "rejected")
  BY RejectMove
<1>2. "rejected" \in Statuses \ {"awaiting_approval"}
  BY DEF Statuses
<1>3. OtherTypes'
  BY OtherKept DEF RejectCall, BudgetInv, AgTypes
<1> QED BY <1>1, <1>2, <1>3, BudgetFinish

\* The run that is saved as failed after a save has failed.
LEMMA BrokenMove ==
  ASSUME BudgetInv, NEW t \in Threads, FinishBroken(t)
  PROVE  LET y == Closed(Top(t), "failed") IN
         /\ thread[t].pc = "broken" /\ y \in RunRows /\ y.id = Top(t).id /\ y.status = "failed" /\ StoredOK(y)
         /\ \/ store' = [store EXCEPT ![y.id] = y] /\ Ends(t, Cardinality(Top(t).steps))
            \/ UNCHANGED store /\ Ends(t, 0)
<1> DEFINE x == Top(t)  y == Closed(x, "failed")  n == Cardinality(x.steps)
<1>1. /\ thread[t].pc = "broken" /\ AgTypes /\ thread[t].stack # <<>> /\ x \in RunRows /\ RowOK(x) /\ x.childSteps <= AllowedSteps(1)
  BY Working DEF FinishBroken
<1>2. n \in Nat /\ 0 \in Nat
  <2> HIDE DEF x
  <2> QED BY <1>1, Counts
<1>3. SameRun(x, y) /\ y.steps = x.steps /\ y.status = "failed"
  <2>1. "failed" \in Statuses /\ y = Closed(x, "failed")
    BY DEF Statuses
  <2> HIDE DEF x, y
  <2> QED BY <1>1, <2>1, EditClosed
<1>4. \/ store' = [store EXCEPT ![y.id] = y] /\ thread' = [thread EXCEPT ![t] = Leave(t, n)]
      \/ UNCHANGED store /\ thread' = [thread EXCEPT ![t] = Leave(t, 0)]
  BY DEF FinishBroken, Saved
<1> HIDE DEF x, y, n
<1>5. y \in RunRows /\ y.id = x.id /\ StoredOK(y)
  BY <1>1, <1>3 DEF SameRun, StoredOK, RowOK
<1>6. \/ store' = [store EXCEPT ![y.id] = y] /\ Ends(t, n)
      \/ UNCHANGED store /\ Ends(t, 0)
  BY <1>1, <1>2, <1>4, Ending
<1>7. /\ thread[t].pc = "broken" /\ y \in RunRows /\ y.id = x.id /\ y.status = "failed" /\ StoredOK(y)
      /\ \/ store' = [store EXCEPT ![y.id] = y] /\ Ends(t, n)
         \/ UNCHANGED store /\ Ends(t, 0)
  BY <1>1, <1>3, <1>5, <1>6
<1> QED BY <1>7 DEF x, y, n

LEMMA BudgetBroken ==
  ASSUME BudgetInv, NEW t \in Threads, FinishBroken(t)
  PROVE  BudgetInv'
<1> DEFINE y == Closed(Top(t), "failed")  n == Cardinality(Top(t).steps)
<1>1. /\ thread[t].pc # "idle" /\ y \in RunRows /\ StoredOK(y)
      /\ \/ store' = [store EXCEPT ![y.id] = y] /\ Ends(t, n)
         \/ UNCHANGED store /\ Ends(t, 0)
  BY BrokenMove
<1>2. AgTypes /\ StoreOK /\ OtherTypes /\ n \in Nat /\ n <= StepLimit /\ 0 <= StepLimit
  <2>1. Top(t) \in RunRows /\ RowOK(Top(t))
    BY <1>1, Working
  <2> QED BY <2>1, Counts, Limits DEF BudgetInv, AgTypes
<1>3. OtherTypes'
  BY <1>2, OtherKept DEF FinishBroken
<1> HIDE DEF y, n
<1>4. CASE store' = [store EXCEPT ![y.id] = y] /\ Ends(t, n)
  <2>1. AgTypeOK' /\ StoreOK' /\ \A r \in RunIds : store[r] # NoRun => store'[r] # NoRun
    BY <1>1, <1>2, <1>4, Stores
  <2> QED BY <1>1, <1>2, <1>3, <1>4, <2>1, BudgetEnds
<1>5. CASE UNCHANGED store /\ Ends(t, 0)
  <2>1. AgTypeOK' /\ StoreOK' /\ \A r \in RunIds : store[r] # NoRun => store'[r] # NoRun
    BY <1>2, <1>5, StoreKept
  <2> DEFINE k == 0
  <2>2. k \in Nat /\ k <= StepLimit /\ Ends(t, k)
    BY <1>2, <1>5
  <2> HIDE DEF k
  <2> QED BY <1>1, <1>3, <2>1, <2>2, BudgetEnds
<1> QED BY <1>1, <1>4, <1>5

\* A child that waits is closed with the state its thread has saved.
LEMMA UnapprovedMove ==
  ASSUME BudgetInv, NEW t \in Threads, StopUnapproved(t)
  PROVE  LET y == Closed(store[Top(t).id], "stopped") IN
         /\ thread[t].pc = "close" /\ y \in RunRows /\ y.id = Top(t).id /\ y.status = "stopped" /\ StoredOK(y)
         /\ store' = [store EXCEPT ![y.id] = y] /\ Ends(t, Cardinality(Top(t).steps))
<1> DEFINE x == Top(t)  z == store[x.id]  y == Closed(z, "stopped")  n == Cardinality(x.steps)
<1>1. /\ thread[t].pc = "close" /\ AgTypes /\ thread[t].stack # <<>> /\ x \in RunRows /\ RowOK(x) /\ store[x.id] # NoRun
  BY Working DEF StopUnapproved, Stage
<1>2. n \in Nat
  <2> HIDE DEF x
  <2> QED BY <1>1, Counts
<1>3. x.id \in RunIds
  <2> HIDE DEF x
  <2> QED BY <1>1 DEF RunRows
<1>4. z \in RunRows /\ z.id = x.id /\ StoredOK(z)
  <2> HIDE DEF x
  <2> QED BY <1>1, <1>3 DEF BudgetInv, AgTypes, AgTypeOK, StoreOK
<1>5. "stopped" \in Statuses /\ y = Closed(z, "stopped")
  BY DEF Statuses
<1>6. store' = [store EXCEPT ![y.id] = y] /\ thread' = [thread EXCEPT ![t] = Leave(t, n)]
  BY DEF StopUnapproved, Saved
<1> HIDE DEF x, y, z, n
<1>7. SameRun(z, y) /\ y.steps = z.steps /\ y.status = "stopped"
  BY <1>4, <1>5, EditClosed
<1>8. y \in RunRows /\ y.id = x.id /\ StoredOK(y)
  BY <1>4, <1>7 DEF SameRun, StoredOK, RowOK
<1>9. Ends(t, n)
  BY <1>1, <1>2, <1>6, Ending
<1> QED BY <1>1, <1>6, <1>7, <1>8, <1>9 DEF x, y, z, n

LEMMA BudgetUnapproved ==
  ASSUME BudgetInv, NEW t \in Threads, StopUnapproved(t)
  PROVE  BudgetInv'
<1> DEFINE y == Closed(store[Top(t).id], "stopped")  n == Cardinality(Top(t).steps)
<1>1. thread[t].pc # "idle" /\ y \in RunRows /\ StoredOK(y) /\ store' = [store EXCEPT ![y.id] = y] /\ Ends(t, n)
  BY UnapprovedMove
<1>2. AgTypes /\ StoreOK /\ OtherTypes /\ n \in Nat /\ n <= StepLimit
  <2>1. Top(t) \in RunRows /\ RowOK(Top(t))
    BY <1>1, Working
  <2> QED BY <2>1, Counts DEF BudgetInv, AgTypes
<1>3. OtherTypes'
  BY <1>2, OtherKept DEF StopUnapproved
<1> HIDE DEF y, n
<1>4. AgTypeOK' /\ StoreOK' /\ \A r \in RunIds : store[r] # NoRun => store'[r] # NoRun
  BY <1>1, <1>2, Stores
<1> QED BY <1>1, <1>2, <1>3, <1>4, BudgetEnds

LEMMA BudgetCrash == ASSUME BudgetInv, AgCrash PROVE BudgetInv'
<1>1. AgTypes /\ StoreOK /\ OtherTypes /\ UNCHANGED store /\ thread' = [t \in Threads |-> IdleThread]
  BY DEF BudgetInv, AgTypes, AgCrash
<1>2. OtherTypes'
  BY <1>1, OtherKept DEF AgCrash
<1>3. AgTypeOK' /\ StoreOK'
  BY <1>1, StoreKept
<1>4. thread' \in [Threads -> ThreadRows] /\ \A t \in Threads : Shape(thread'[t]) /\ Stage(thread'[t], store')
  BY <1>1, AtRest
<1> QED BY <1>2, <1>3, <1>4 DEF BudgetInv, AgTypes

LEMMA BudgetStart == AgInit => BudgetInv
<1> SUFFICES ASSUME AgInit PROVE BudgetInv
  OBVIOUS
<1>1. OtherTypes
  BY DEF AgInit, OtherTypes
<1>2. AgTypeOK /\ StoreOK
  BY DEF AgInit, AgTypeOK, StoreOK
<1>3. thread \in [Threads -> ThreadRows] /\ \A t \in Threads : Shape(thread[t]) /\ Stage(thread[t], store)
  BY AtRest DEF AgInit
<1> QED BY <1>1, <1>2, <1>3 DEF BudgetInv, AgTypes

LEMMA BudgetIdle == ASSUME BudgetInv, UNCHANGED agVars PROVE BudgetInv'
BY DEF BudgetInv, AgTypes, OtherTypes, AgTypeOK, StoreOK, agVars

LEMMA BudgetKept == BudgetInv /\ [AgNext]_agVars => BudgetInv'
<1> SUFFICES ASSUME BudgetInv, [AgNext]_agVars PROVE BudgetInv'
  OBVIOUS
<1>1. ASSUME NEW t \in Threads, AgStep(t) PROVE BudgetInv'
  <2>1. CASE StopDriving(t)
    BY <2>1, BudgetStop
  <2>2. CASE Effect(t)
    BY <2>2, EffectTypes, BudgetTool
  <2>3. CASE DelegateRefused(t)
    <3>1. OtherTypes'
      BY <2>3, OtherKept DEF DelegateRefused, BudgetInv, AgTypes
    <3> QED BY <2>3, <3>1, BudgetTool
  <2>4. CASE Delegate(t)
    BY <2>4, BudgetDelegate
  <2>5. CASE StopUnapproved(t)
    BY <2>5, BudgetUnapproved
  <2>6. CASE RecordStep(t)
    BY <2>6, BudgetRecord
  <2>7. CASE Claim(t)
    BY <2>7, BudgetClaim
  <2>8. CASE RejectCall(t)
    BY <2>8, BudgetReject
  <2>9. CASE FinishBroken(t)
    BY <2>9, BudgetBroken
  <2> QED BY <1>1, <2>1, <2>2, <2>3, <2>4, <2>5, <2>6, <2>7, <2>8, <2>9 DEF AgStep
<1>2. ASSUME NEW t \in Threads, NEW c \in Calls, TakeAction(t, c) \/ Pause(t, c) PROVE BudgetInv'
  BY <1>2, BudgetTake, BudgetPause
<1>3. ASSUME NEW t \in Threads, NEW tainted \in BOOLEAN, Run(t, tainted) PROVE BudgetInv'
  BY <1>3, BudgetRun
<1>4. ASSUME NEW t \in Threads, NEW r \in RunIds, NEW ok \in BOOLEAN, Resume(t, r, ok) PROVE BudgetInv'
  BY <1>4, BudgetResume
<1>5. CASE AgCrash
  BY <1>5, BudgetCrash
<1>6. CASE UNCHANGED agVars
  BY <1>6, BudgetIdle
<1> QED BY <1>1, <1>2, <1>3, <1>4, <1>5, <1>6 DEF AgNext

\* The budget of the delegate tool bounds the delegations of a root run and the steps of its
\* children, whatever children run inside children, however saves fail (delegate.py).
THEOREM BudgetHolds == AgSpec => []DelegationBudget
<1>1. BudgetInv => DelegationBudget
  <2> SUFFICES ASSUME BudgetInv, NEW t \in Threads, thread[t].stack # <<>>
               PROVE  Root(t).delegations <= MaxDelegations /\ Root(t).childSteps <= MaxChildSteps - 1 + MaxDepth * StepLimit
    BY DEF DelegationBudget
  <2> DEFINE s == thread[t].stack  x == s[1]  n == Len(s)
  <2>1. s \in Seq(RunRows) /\ s # <<>> /\ Shape(thread[t])
    BY Fields DEF BudgetInv, AgTypes
  <2>2. n \in Nat /\ n >= 1 /\ 1 \in 1..n
    <3> HIDE DEF s
    <3> QED BY <2>1, Elements
  <2>3. RowOK(x) /\ x.childSteps <= AllowedSteps(n) /\ n <= MaxDepth + 1
    BY <2>1, <2>2 DEF Shape
  <2>4. x \in RunRows
    <3> HIDE DEF s
    <3> QED BY <2>1, <2>2, ReadAt
  <2>5. x = Root(t)
    BY DEF Root
  <2> HIDE DEF s, n, x
  <2>6. AllowedSteps(n) <= MaxChildSteps - 1 + MaxDepth * StepLimit /\ AllowedSteps(n) \in Int /\ MaxDepth * StepLimit \in Int
    <3> DEFINE k == MaxDepth + 1 - n  m == n - 1
    <3>1. k \in Nat /\ m \in Nat /\ MaxDepth = k + m
      BY <2>2, <2>3, Limits
    <3> HIDE DEF k, m
    <3>2. MaxDepth * StepLimit = k * StepLimit + m * StepLimit /\ k * StepLimit \in Nat /\ m * StepLimit \in Nat
      BY <3>1, Limits
    <3>3. AllowedSteps(n) = MaxChildSteps - 1 + k * StepLimit
      BY DEF AllowedSteps, k
    <3> DEFINE p == k * StepLimit  q == m * StepLimit  r == MaxDepth * StepLimit
    <3>4. p \in Nat /\ q \in Nat /\ r = p + q /\ AllowedSteps(n) = MaxChildSteps - 1 + p
      BY <3>2, <3>3
    <3> HIDE DEF p, q, r
    <3>5. AllowedSteps(n) <= MaxChildSteps - 1 + r /\ AllowedSteps(n) \in Int /\ r \in Int
      BY <3>4, Limits
    <3> QED BY <3>5 DEF r
  <2>7. x.delegations <= MaxDelegations /\ x.childSteps \in Nat
    BY <2>3, <2>4, Counts
  <2> DEFINE a == AllowedSteps(n)  b == MaxDepth * StepLimit  e == x.childSteps
  <2>8. a \in Int /\ b \in Int /\ e \in Nat /\ e <= a /\ a <= MaxChildSteps - 1 + b
    BY <2>3, <2>6, <2>7
  <2> HIDE DEF a, b, e
  <2>9. e <= MaxChildSteps - 1 + b
    BY <2>8, Limits
  <2> QED BY <2>5, <2>7, <2>9 DEF b, e
<1> QED BY <1>1, BudgetStart, BudgetKept, PTL DEF AgSpec

-----------------------------------------------------------------------------
(* Who works on a run, and what its effects were. *)

LEMMA OwnPlaces ==
  ASSUME NEW v \in ThreadRows
  PROVE  Own(v) \subseteq 1..Len(v.stack) /\ Len(v.stack) \in Nat /\ \A i \in Own(v) : v.stack[i].id \in IdsOf(v)
BY Fields DEF Own, IdsOf

\* A thread that works on no new run, and forgets no call.
Goes(v, w) ==
  /\ Len(w.stack) <= Len(v.stack)
  /\ \A i \in 1..Len(w.stack) : w.stack[i].id = v.stack[i].id
  /\ Own(w) \subseteq Own(v)
  /\ \A i \in Own(w), c \in Calls :
       c \in v.stack[i].steps \/ (i = Len(v.stack) /\ v.pc = "record" /\ c = v.call) =>
         c \in w.stack[i].steps \/ (i = Len(w.stack) /\ w.pc = "record" /\ c = w.call)

LEMMA GoesIdle ==
  ASSUME NEW v \in ThreadRows
  PROVE  Goes(v, IdleThread) /\ Own(IdleThread) = {}
<1>1. IdleThread.stack = <<>> /\ Len(<<>>) = 0 /\ 1..0 = {} /\ Len(v.stack) \in Nat
  BY AtRest, OwnPlaces
<1>2. Own(IdleThread) = {}
  BY <1>1 DEF Own
<1> QED BY <1>1, <1>2 DEF Goes

LEMMA GoesPop ==
  ASSUME NEW v \in ThreadRows, NEW w \in ThreadRows, NEW n \in Nat, Pop(v, w, n), v.stack # <<>>
  PROVE  Goes(v, w) /\ (\A i \in Own(w) : i \in 1..Len(v.stack) /\ i < Len(v.stack)) /\ w.pc = "record"
         /\ \A i \in 1..Len(w.stack) : /\ w.stack[i].steps = v.stack[i].steps /\ w.stack[i].tainted = v.stack[i].tainted
<1> DEFINE s == v.stack  z == w.stack  k == Len(s)  m == Len(z)
<1>1. s \in Seq(RunRows) /\ z \in Seq(RunRows) /\ k \in Nat /\ m \in Nat /\ k >= 1 /\ 1 \in 1..k
  BY Fields, Elements
<1>2. /\ m = k - 1 /\ z[1] = [s[1] EXCEPT !.childSteps = s[1].childSteps + n]
      /\ \A i \in 1..m : i > 1 => z[i] = s[i]
      /\ w.pc = "record"
  BY DEF Pop
<1>3. s[1] \in RunRows
  <2> HIDE DEF s
  <2> QED BY <1>1, ReadAt
<1> HIDE DEF s, z, k, m
<1>4. z[1].id = s[1].id /\ z[1].steps = s[1].steps /\ z[1].tainted = s[1].tainted
  <2> DEFINE x == s[1]  y == [x EXCEPT !.childSteps = x.childSteps + n]
  <2>1. x \in RunRows /\ z[1] = y
    BY <1>2, <1>3
  <2> HIDE DEF x
  <2>2. y.id = x.id /\ y.steps = x.steps /\ y.tainted = x.tainted
    BY <2>1 DEF RunRows
  <2> QED BY <2>1, <2>2 DEF x
<1>5. \A i \in 1..m : z[i].id = s[i].id /\ z[i].steps = s[i].steps /\ z[i].tainted = s[i].tainted
  <2> TAKE i \in 1..m
  <2>1. i = 1 \/ i > 1
    BY <1>1
  <2> QED BY <1>2, <1>4, <2>1
<1>6. m <= k /\ \A i \in 1..m : i \in 1..k /\ i < k
  BY <1>1, <1>2
<1>7. Own(w) \subseteq 1..m /\ Own(w) \subseteq Own(v)
  BY <1>6 DEF Own, s, z, k, m
<1>8. \A i \in Own(w), c \in Calls : c \in s[i].steps \/ (i = k /\ v.pc = "record" /\ c = v.call) => c \in z[i].steps
  <2> TAKE i \in Own(w), c \in Calls
  <2>1. i \in 1..m /\ i # k
    BY <1>1, <1>6, <1>7
  <2> QED BY <1>5, <2>1
<1>9. Goes(v, w)
  BY <1>5, <1>6, <1>7, <1>8 DEF Goes, s, z, k, m
<1> QED BY <1>2, <1>5, <1>6, <1>7, <1>9 DEF s, z, k, m

LEMMA GoesRetop ==
  ASSUME NEW v \in ThreadRows, NEW w \in ThreadRows, NEW run \in RunRows, Retop(v, w, run), v.stack # <<>>,
         run.id = Last(v.stack).id, v.pc \notin {"claim", "close"},
         \/ w.pc = "close"
         \/ Last(v.stack).steps \subseteq run.steps /\ (v.pc = "record" => v.call \in run.steps)
  PROVE  /\ Goes(v, w)
         /\ \A i \in Own(w) : i < Len(v.stack) \/ (w.pc # "close" /\ i = Len(v.stack) /\ w.stack[i] = run)
         /\ \A i \in Own(w) : i < Len(v.stack) => w.stack[i] = v.stack[i]
<1> DEFINE s == v.stack  z == w.stack  k == Len(s)
<1>1. s \in Seq(RunRows) /\ k \in Nat /\ k >= 1 /\ Last(s) = s[k]
  BY Fields, Elements
<1>2. Len(z) = k /\ z[k] = run /\ \A i \in 1..k : i < k => z[i] = s[i]
  BY DEF Retop
<1>3. run.id = s[k].id /\ (w.pc = "close" \/ (s[k].steps \subseteq run.steps /\ (v.pc = "record" => v.call \in run.steps)))
  BY <1>1
<1> HIDE DEF s, z, k
<1>4. \A i \in 1..k : i = k \/ i < k
  BY <1>1
<1>5. \A i \in 1..k : z[i].id = s[i].id
  BY <1>2, <1>3, <1>4
<1>6. Own(w) \subseteq 1..k /\ Own(v) = 1..k
  BY <1>2 DEF Own, s, z, k
<1>7. \A i \in Own(w) : i < k \/ (w.pc # "close" /\ i = k)
  BY <1>2, <1>4, <1>6 DEF Own, z
<1>8. \A i \in Own(w), c \in Calls : c \in s[i].steps \/ (i = k /\ v.pc = "record" /\ c = v.call) => c \in z[i].steps
  <2> TAKE i \in Own(w), c \in Calls
  <2>1. CASE i < k
    BY <1>1, <1>2, <1>6, <2>1
  <2>2. CASE w.pc # "close" /\ i = k
    BY <1>2, <1>3, <2>2
  <2> QED BY <1>7, <2>1, <2>2
<1>9. Goes(v, w)
  BY <1>1, <1>2, <1>5, <1>6, <1>8 DEF Goes, s, z, k
<1> QED BY <1>2, <1>6, <1>7, <1>9 DEF s, z, k

LEMMA GoesStay ==
  ASSUME NEW v \in ThreadRows, NEW w \in ThreadRows, w.stack = v.stack, v.pc \in {"think", "tool"}, w.pc \in {"tool", "record"}
  PROVE  Goes(v, w) /\ Own(w) = 1..Len(v.stack) /\ Own(v) = 1..Len(v.stack)
<1>1. Own(w) = 1..Len(v.stack) /\ Own(v) = 1..Len(v.stack) /\ Len(v.stack) \in Nat
  BY OwnPlaces DEF Own
<1> QED BY <1>1 DEF Goes

LEMMA ShareGoes ==
  ASSUME NEW v \in ThreadRows, NEW w \in ThreadRows, NEW S, NEW new, NEW next, NEW R, NEW over,
         Share(v, S, next, R, over), Goes(v, w),
         \A i \in Own(w) : w.stack[i].id \notin over /\ new[w.stack[i].id] # NoRun =>
            new[w.stack[i].id] = S[w.stack[i].id] \/ new[w.stack[i].id].status # "awaiting_approval"
  PROVE  Share(w, new, next, R, over)
<1> DEFINE s == v.stack  z == w.stack  k == Len(s)  m == Len(z)
<1>1. k \in Nat /\ m \in Nat /\ m <= k /\ Own(w) \subseteq 1..m /\ Own(w) \subseteq Own(v)
  BY OwnPlaces DEF Goes
<1>2. /\ \A i \in 1..m : z[i].id = s[i].id
      /\ \A i \in Own(w), c \in Calls :
           c \in s[i].steps \/ (i = k /\ v.pc = "record" /\ c = v.call) =>
             c \in z[i].steps \/ (i = m /\ w.pc = "record" /\ c = w.call)
  BY DEF Goes
<1>3. /\ \A i \in 1..k : s[i].id < next
      /\ \A i, j \in 1..k : s[i].id = s[j].id => i = j
      /\ \A i \in Own(v) : s[i].id \notin over =>
           /\ S[s[i].id] # NoRun => S[s[i].id].status # "awaiting_approval"
           /\ \A c \in Calls : R[s[i].id][c] > 0 => c \in s[i].steps \/ (i = k /\ v.pc = "record" /\ c = v.call)
  BY DEF Share, Knows
<1>4. \A i \in Own(w) : z[i].id \notin over /\ new[z[i].id] # NoRun =>
            new[z[i].id] = S[z[i].id] \/ new[z[i].id].status # "awaiting_approval"
  OBVIOUS
<1> HIDE DEF s, z, k, m
<1>5. \A i \in 1..m : i \in 1..k
  BY <1>1
<1>6. \A i \in 1..m : z[i].id < next
  BY <1>2, <1>3, <1>5
<1>7. \A i, j \in 1..m : z[i].id = z[j].id => i = j
  BY <1>2, <1>3, <1>5
<1>8. ASSUME NEW i \in Own(w), z[i].id \notin over
      PROVE  /\ new[z[i].id] # NoRun => new[z[i].id].status # "awaiting_approval"
             /\ \A c \in Calls : R[z[i].id][c] > 0 => c \in z[i].steps \/ (i = m /\ w.pc = "record" /\ c = w.call)
  <2>1. i \in 1..m /\ i \in Own(v) /\ z[i].id = s[i].id
    BY <1>1, <1>2
  <2> QED BY <1>2, <1>3, <1>4, <1>8, <2>1
<1> QED BY <1>6, <1>7, <1>8 DEF Share, Knows, z, m

LEMMA KnowsOther ==
  ASSUME NEW r \in RunIds, NEW S, NEW new, NEW next \in Nat, NEW later \in Nat, next <= later, NEW R, NEW Rn,
         NEW over, NEW more, over \subseteq more, StoreKnows(r, S, next, R, over), new[r] = S[r], Rn[r] = R[r], r \in Nat
  PROVE  StoreKnows(r, new, later, Rn, more)
BY DEF StoreKnows

\* A step of thread t, seen from the other threads.
LEMMA OwnerStep ==
  ASSUME BudgetInv, Owned, NEW t \in Threads, Moves(t),
         nextRun' \in Nat, nextRun <= nextRun', overtaken \subseteq overtaken',
         Share(thread'[t], store', nextRun', ran', overtaken'),
         \A r \in RunIds : StoreKnows(r, store', nextRun', ran', overtaken'),
         \A u \in Threads \ {t} : IdsOf(thread'[t]) \cap IdsOf(thread[u]) \subseteq overtaken',
         \A r \in RunIds : r \notin IdsOf(thread[t]) \cup overtaken' =>
            /\ ran'[r] = ran[r]
            /\ store'[r] # NoRun => store'[r] = store[r] \/ store'[r].status # "awaiting_approval"
  PROVE  Owned'
<1>1. AgTypes /\ nextRun \in Nat
  BY DEF BudgetInv, AgTypes, OtherTypes
<1>2. ASSUME NEW u \in Threads \ {t}
      PROVE Share(thread'[u], store', nextRun', ran', overtaken')
  <2> DEFINE v == thread[u]  s == v.stack
  <2>1. v \in ThreadRows /\ thread'[u] = v
    BY <1>1 DEF AgTypes, Moves
  <2>2. Share(v, store, nextRun, ran, overtaken)
    BY DEF Owned
  <2>3. \A i \in 1..Len(s) : s[i].id \in RunIds /\ s[i].id \in Nat
    BY <1>1, IdsType, AgentAssumption
  <2>4. Own(v) \subseteq 1..Len(s) /\ \A i \in Own(v) : s[i].id \in IdsOf(v)
    BY <2>1, OwnPlaces
  <2>5. IdsOf(v) \cap IdsOf(thread[t]) \subseteq overtaken
    BY DEF Owned, Apart
  <2> HIDE DEF v, s
  <2>6. ASSUME NEW i \in Own(v), s[i].id \notin overtaken'
        PROVE  /\ ran'[s[i].id] = ran[s[i].id] /\ s[i].id \notin overtaken
               /\ store'[s[i].id] # NoRun => store'[s[i].id] = store[s[i].id] \/ store'[s[i].id].status # "awaiting_approval"
    BY <2>3, <2>4, <2>5, <2>6
  <2>7. \A i \in 1..Len(s) : s[i].id < nextRun'
    BY <1>1, <2>2, <2>3 DEF Share, s
  <2>8. /\ \A i, j \in 1..Len(s) : s[i].id = s[j].id => i = j
        /\ \A i \in Own(v) : s[i].id \notin overtaken =>
             /\ store[s[i].id] # NoRun => store[s[i].id].status # "awaiting_approval"
             /\ \A c \in Calls : ran[s[i].id][c] > 0 => c \in s[i].steps \/ (i = Len(s) /\ v.pc = "record" /\ c = v.call)
    BY <2>2 DEF Share, Knows, s
  <2>9. ASSUME NEW i \in Own(v), s[i].id \notin overtaken'
        PROVE  /\ store'[s[i].id] # NoRun => store'[s[i].id].status # "awaiting_approval"
               /\ \A c \in Calls : ran'[s[i].id][c] > 0 => c \in s[i].steps \/ (i = Len(s) /\ v.pc = "record" /\ c = v.call)
    BY <2>6, <2>8, <2>9
  <2> QED BY <2>1, <2>7, <2>8, <2>9 DEF Share, Knows, s
<1>3. \A u \in Threads : Share(thread'[u], store', nextRun', ran', overtaken')
  BY <1>2
<1>4. Apart(thread', overtaken')
  <2> SUFFICES ASSUME NEW a \in Threads, NEW b \in Threads, a # b
               PROVE IdsOf(thread'[a]) \cap IdsOf(thread'[b]) \subseteq overtaken'
    BY DEF Apart
  <2>1. CASE a = t
    BY <2>1 DEF Moves
  <2>2. CASE b = t
    BY <2>2 DEF Moves
  <2>3. CASE a # t /\ b # t
    <3>1. thread'[a] = thread[a] /\ thread'[b] = thread[b]
      BY <2>3 DEF Moves
    <3>2. IdsOf(thread[a]) \cap IdsOf(thread[b]) \subseteq overtaken
      BY DEF Owned, Apart
    <3> QED BY <3>1, <3>2
  <2> QED BY <2>1, <2>2, <2>3
<1> QED BY <1>3, <1>4 DEF Owned

\* What a step of a thread may save.
Puts(t, y) ==
  /\ y \in RunRows /\ y.id = Top(t).id /\ store' = [store EXCEPT ![y.id] = y]
  /\ y.status = "awaiting_approval" =>
       thread[t].pc = "think" /\ y.steps = Top(t).steps /\ \A i \in Own(thread'[t]) : i < Len(thread[t].stack)

LEMMA IdsGoes ==
  ASSUME NEW v \in ThreadRows, NEW w \in ThreadRows, Goes(v, w)
  PROVE  IdsOf(w) \subseteq IdsOf(v)
<1> SUFFICES ASSUME NEW i \in Own(w) PROVE w.stack[i].id \in IdsOf(v)
  BY DEF IdsOf
<1>1. i \in 1..Len(w.stack) /\ i \in Own(v)
  BY OwnPlaces DEF Goes
<1>2. w.stack[i].id = v.stack[i].id
  BY <1>1 DEF Goes
<1> QED BY <1>1, <1>2, OwnPlaces

\* A step that has no effect in the world and takes up no run.
LEMMA OwnerGoes ==
  ASSUME BudgetInv, Owned, NEW t \in Threads, thread[t].pc # "idle", Moves(t), Goes(thread[t], thread'[t]),
         UNCHANGED <<nextRun, ran, overtaken>>, NEW y, UNCHANGED store \/ Puts(t, y)
  PROVE  Owned'
<1> DEFINE v == thread[t]  w == thread'[t]  x == Top(t)  s == v.stack  k == Len(s)  z == w.stack
<1>1. AgTypes /\ v \in ThreadRows /\ x \in RunRows /\ x = s[k] /\ k \in Nat /\ k >= 1 /\ k \in 1..k /\ nextRun \in Nat
  <2>1. AgTypes /\ v \in ThreadRows /\ x \in RunRows /\ x = s[k] /\ k \in Nat /\ k >= 1
    BY Working
  <2> HIDE DEF k
  <2> QED BY <2>1 DEF BudgetInv, AgTypes, OtherTypes
<1>2. w \in ThreadRows
  BY DEF Moves
<1>3. Share(v, store, nextRun, ran, overtaken) /\ \A r \in RunIds : StoreKnows(r, store, nextRun, ran, overtaken)
  BY DEF Owned
<1>4. Goes(v, w)
  OBVIOUS
<1>5. IdsOf(w) \subseteq IdsOf(v)
  BY <1>1, <1>2, <1>4, IdsGoes
<1>6. x.id \in RunIds /\ x.id < nextRun /\ x.id \in Nat
  <2>1. x.id \in RunIds
    <3> HIDE DEF x
    <3> QED BY <1>1 DEF RunRows
  <2> QED BY <1>1, <1>3, <2>1, AgentAssumption DEF Share
<1>7. UNCHANGED store \/ (/\ y \in RunRows /\ y.id = x.id /\ store' = [store EXCEPT ![y.id] = y]
                          /\ y.status = "awaiting_approval" =>
                               v.pc = "think" /\ y.steps = x.steps /\ \A i \in Own(w) : i < k)
  BY DEF Puts
<1>8. UNCHANGED store \/ (store'[x.id] = y /\ \A r \in RunIds : r # x.id => store'[r] = store[r])
  BY <1>1, <1>6, <1>7 DEF AgTypes, AgTypeOK
<1>9. y.status = "awaiting_approval" /\ ~UNCHANGED store => x.id \in IdsOf(v) /\ k \in Own(v)
  <2>1. v.pc = "think" => k \in Own(v)
    BY <1>1 DEF Own
  <2>2. k \in Own(v) => x.id \in IdsOf(v)
    BY <1>1 DEF IdsOf
  <2> QED BY <1>7, <2>1, <2>2
<1>10. \A i \in Own(w) : i \in 1..Len(z) /\ i \in 1..k /\ z[i].id = s[i].id /\ s[i].id \in RunIds
  <2>1. \A i \in 1..k : s[i].id \in RunIds
    BY <1>1, IdsType
  <2>2. Own(w) \subseteq 1..Len(z) /\ Own(v) \subseteq 1..k
    BY <1>1, <1>2, OwnPlaces
  <2> QED BY <1>4, <2>1, <2>2 DEF Goes
<1>11. \A i, j \in 1..k : s[i].id = s[j].id => i = j
  BY <1>3 DEF Share
<1> HIDE DEF v, w, x, s, k, z
<1>12. ASSUME NEW i \in Own(w), z[i].id \notin overtaken, store'[z[i].id] # NoRun
       PROVE  store'[z[i].id] = store[z[i].id] \/ store'[z[i].id].status # "awaiting_approval"
  <2>1. CASE z[i].id # x.id \/ UNCHANGED store
    BY <1>8, <1>10, <2>1
  <2>2. CASE z[i].id = x.id /\ ~UNCHANGED store
    <3>1. y.status # "awaiting_approval"
      <4> SUFFICES ASSUME y.status = "awaiting_approval" PROVE FALSE
        OBVIOUS
      <4>1. i < k
        BY <1>7, <2>2
      <4>2. i = k
        BY <1>1, <1>10, <1>11, <2>2
      <4> QED BY <1>1, <4>1, <4>2
    <3> QED BY <1>8, <2>2, <3>1
  <2> QED BY <2>1, <2>2
<1>13. Share(w, store', nextRun, ran, overtaken)
  BY <1>1, <1>2, <1>3, <1>4, <1>12, ShareGoes DEF z
<1>14. ASSUME NEW r \in RunIds PROVE StoreKnows(r, store', nextRun, ran, overtaken)
  <2>1. CASE store'[r] = store[r]
    BY <1>3, <2>1 DEF StoreKnows
  <2>2. CASE store'[r] # store[r]
    <3>1. r = x.id /\ store'[r] = y /\ ~UNCHANGED store
      BY <1>8, <2>2
    <3>2. ASSUME y.status = "awaiting_approval", r \notin overtaken, NEW c \in Calls, ran[r][c] > 0 PROVE c \in y.steps
      <4>1. v.pc = "think" /\ y.steps = x.steps /\ k \in Own(v)
        BY <1>7, <1>9, <3>1, <3>2
      <4>2. Knows(v, k, ran)
        BY <1>1, <1>3, <3>1, <3>2, <4>1 DEF Share, k, s
      <4> QED BY <1>1, <3>1, <3>2, <4>1, <4>2 DEF Knows, s
    <3> QED BY <1>3, <1>6, <3>1, <3>2 DEF StoreKnows
  <2> QED BY <2>1, <2>2
<1>15. ASSUME NEW r \in RunIds, r \notin IdsOf(v) \cup overtaken, store'[r] # NoRun
       PROVE store'[r] = store[r] \/ store'[r].status # "awaiting_approval"
  BY <1>8, <1>9, <1>15
<1>16. \A u \in Threads \ {t} : IdsOf(w) \cap IdsOf(thread[u]) \subseteq overtaken
  BY <1>5 DEF Owned, Apart, v
<1>17. nextRun' = nextRun /\ ran' = ran /\ overtaken' = overtaken
  OBVIOUS
<1>18. /\ nextRun' \in Nat /\ nextRun <= nextRun' /\ overtaken \subseteq overtaken'
       /\ Share(w, store', nextRun', ran', overtaken')
       /\ \A r \in RunIds : StoreKnows(r, store', nextRun', ran', overtaken')
       /\ \A u \in Threads \ {t} : IdsOf(w) \cap IdsOf(thread[u]) \subseteq overtaken'
       /\ \A r \in RunIds : r \notin IdsOf(v) \cup overtaken' =>
            /\ ran'[r] = ran[r]
            /\ store'[r] # NoRun => store'[r] = store[r] \/ store'[r].status # "awaiting_approval"
  BY <1>1, <1>13, <1>14, <1>15, <1>16, <1>17
<1> QED BY <1>18, OwnerStep DEF v, w

LEMMA EndsGoes ==
  ASSUME BudgetInv, NEW t \in Threads, thread[t].pc # "idle", NEW n \in Nat, Ends(t, n)
  PROVE  Moves(t) /\ thread'[t] \in ThreadRows /\ Goes(thread[t], thread'[t])
<1> DEFINE v == thread[t]  w == thread'[t]
<1>1. v \in ThreadRows /\ v.stack # <<>> /\ Moves(t) /\ w \in ThreadRows /\ (w = IdleThread \/ Pop(v, w, n))
  BY Working DEF Ends, Moves
<1> HIDE DEF v, w
<1>2. Goes(v, w)
  BY <1>1, GoesIdle, GoesPop
<1> QED BY <1>1, <1>2 DEF v, w

LEMMA OwnerEnds ==
  ASSUME BudgetInv, Owned, NEW t \in Threads, thread[t].pc \notin {"idle", "claim"}, NEW n \in Nat, Ends(t, n),
         UNCHANGED <<nextRun, ran, overtaken>>, NEW y,
         \/ UNCHANGED store
         \/ y \in RunRows /\ y.id = Top(t).id /\ store' = [store EXCEPT ![y.id] = y] /\ y.status # "awaiting_approval"
  PROVE  Owned'
<1>1. Moves(t) /\ Goes(thread[t], thread'[t])
  BY EndsGoes
<1>2. UNCHANGED store \/ Puts(t, y)
  BY DEF Puts
<1> QED BY <1>1, <1>2, OwnerGoes

LEMMA BreaksGoes ==
  ASSUME BudgetInv, NEW t \in Threads, thread[t].pc \notin {"idle", "claim", "close"}, NEW run, SameRun(Top(t), run),
         Top(t).steps \subseteq run.steps, thread[t].pc = "record" => thread[t].call \in run.steps, SaveRaises(t, run)
  PROVE  /\ Moves(t) /\ UNCHANGED store /\ thread'[t] \in ThreadRows /\ Goes(thread[t], thread'[t]) /\ thread'[t].pc = "broken"
         /\ \A i \in Own(thread'[t]) : i < Len(thread[t].stack) \/ (i = Len(thread[t].stack) /\ thread'[t].stack[i] = run)
         /\ \A i \in Own(thread'[t]) : i < Len(thread[t].stack) => thread'[t].stack[i] = thread[t].stack[i]
         /\ Len(thread'[t].stack) = Len(thread[t].stack)
<1> DEFINE v == thread[t]  w == thread'[t]  x == Top(t)
<1>1. AgTypes /\ v \in ThreadRows /\ v.stack # <<>> /\ x = Last(v.stack) /\ run \in RunRows
  BY Working DEF SameRun
<1>2. Moves(t) /\ UNCHANGED store /\ Retop(v, w, run) /\ w.pc = "broken"
  BY <1>1, Breaks
<1>3. w \in ThreadRows /\ Len(w.stack) = Len(v.stack)
  BY <1>2 DEF Moves, Retop
<1>4. run.id = x.id /\ x.steps \subseteq run.steps /\ (v.pc = "record" => v.call \in run.steps) /\ v.pc \notin {"claim", "close"}
  BY DEF SameRun
<1> HIDE DEF v, w, x
<1>5. /\ Goes(v, w)
      /\ \A i \in Own(w) : i < Len(v.stack) \/ (w.pc # "close" /\ i = Len(v.stack) /\ w.stack[i] = run)
      /\ \A i \in Own(w) : i < Len(v.stack) => w.stack[i] = v.stack[i]
  BY <1>1, <1>2, <1>3, <1>4, GoesRetop
<1> QED BY <1>2, <1>3, <1>5 DEF v, w

LEMMA OwnerBreaks ==
  ASSUME BudgetInv, Owned, NEW t \in Threads, thread[t].pc \notin {"idle", "claim", "close"}, NEW run, SameRun(Top(t), run),
         Top(t).steps \subseteq run.steps, thread[t].pc = "record" => thread[t].call \in run.steps, SaveRaises(t, run),
         UNCHANGED <<nextRun, ran, overtaken>>
  PROVE  Owned'
<1>1. Moves(t) /\ UNCHANGED store /\ Goes(thread[t], thread'[t])
  BY BreaksGoes
<1>2. thread[t].pc \notin {"idle", "claim"}
  OBVIOUS
<1> QED BY <1>1, <1>2, OwnerGoes

LEMMA OwnerFinish ==
  ASSUME BudgetInv, Owned, NEW t \in Threads, thread[t].pc \in {"think", "reject"}, NEW run, SameRun(Top(t), run), RowOK(run),
         Top(t).steps \subseteq run.steps,
         NEW status \in Statuses \ {"awaiting_approval"}, Finish(t, run, status), UNCHANGED <<nextRun, ran, overtaken>>
  PROVE  Owned'
<1> DEFINE y == Closed(run, status)  n == Cardinality(run.steps)
<1>1. CASE SaveRaises(t, run)
  BY <1>1, OwnerBreaks
<1>2. CASE Saved(y) /\ thread' = [thread EXCEPT ![t] = Leave(t, n)]
  <2>1. AgTypes /\ thread[t].stack # <<>> /\ run \in RunRows /\ run.id = Top(t).id
    BY Working DEF SameRun
  <2>2. n \in Nat
    BY <2>1, Counts
  <2>3. SameRun(run, y) /\ y.status = status
    BY <2>1, EditClosed
  <2>4. y \in RunRows /\ y.id = Top(t).id /\ y.status # "awaiting_approval"
    BY <2>1, <2>3 DEF SameRun
  <2>5. store' = [store EXCEPT ![y.id] = y] /\ thread' = [thread EXCEPT ![t] = Leave(t, n)]
    BY <1>2 DEF Saved
  <2>6. thread[t].pc \notin {"idle", "claim"}
    OBVIOUS
  <2> HIDE DEF y, n
  <2>7. Ends(t, n)
    BY <2>1, <2>2, <2>5, Ending
  <2> QED BY <2>2, <2>4, <2>5, <2>6, <2>7, OwnerEnds
<1> QED BY <1>1, <1>2 DEF Finish

LEMMA OwnerStop ==
  ASSUME BudgetInv, Owned, NEW t \in Threads, StopDriving(t)
  PROVE  Owned'
<1>1. thread[t].pc = "think" /\ \E status \in {"stopped", "failed", "done"} : Finish(t, Top(t), status)
  BY DEF StopDriving
<1>2. PICK status \in {"stopped", "failed", "done"} : Finish(t, Top(t), status)
  BY <1>1
<1>3. status \in Statuses \ {"awaiting_approval"}
  BY DEF Statuses
<1>4. SameRun(Top(t), Top(t)) /\ RowOK(Top(t))
  BY <1>1, Working DEF SameRun
<1>5. UNCHANGED <<nextRun, ran, overtaken>>
  BY DEF StopDriving
<1>6. thread[t].pc \in {"think", "reject"} /\ Top(t).steps \subseteq Top(t).steps
  BY <1>1
<1> QED BY <1>2, <1>3, <1>4, <1>5, <1>6, OwnerFinish

LEMMA OwnerReject ==
  ASSUME BudgetInv, Owned, NEW t \in Threads, RejectCall(t)
  PROVE  Owned'
<1>1. /\ thread[t].pc \in {"think", "reject"} /\ SameRun(Top(t), Refused(t)) /\ RowOK(Refused(t))
      /\ Top(t).steps \subseteq Refused(t).steps /\ Finish(t, Refused(t), "rejected")
  BY RejectMove
<1>2. "rejected" \in Statuses \ {"awaiting_approval"}
  BY DEF Statuses
<1>3. UNCHANGED <<nextRun, ran, overtaken>>
  BY DEF RejectCall
<1> QED BY <1>1, <1>2, <1>3, OwnerFinish

LEMMA OwnerBroken ==
  ASSUME BudgetInv, Owned, NEW t \in Threads, FinishBroken(t)
  PROVE  Owned'
<1> DEFINE y == Closed(Top(t), "failed")  n == Cardinality(Top(t).steps)
<1>1. /\ thread[t].pc \notin {"idle", "claim"} /\ y \in RunRows /\ y.id = Top(t).id /\ y.status # "awaiting_approval"
      /\ \/ store' = [store EXCEPT ![y.id] = y] /\ Ends(t, n)
         \/ UNCHANGED store /\ Ends(t, 0)
  BY BrokenMove
<1>2. n \in Nat /\ 0 \in Nat
  <2>1. Top(t) \in RunRows /\ RowOK(Top(t))
    BY <1>1, Working
  <2> QED BY <2>1, Counts
<1>3. UNCHANGED <<nextRun, ran, overtaken>>
  BY DEF FinishBroken
<1> HIDE DEF y, n
<1> QED BY <1>1, <1>2, <1>3, OwnerEnds

LEMMA OwnerUnapproved ==
  ASSUME BudgetInv, Owned, NEW t \in Threads, StopUnapproved(t)
  PROVE  Owned'
<1> DEFINE y == Closed(store[Top(t).id], "stopped")  n == Cardinality(Top(t).steps)
<1>1. /\ thread[t].pc \notin {"idle", "claim"} /\ y \in RunRows /\ y.id = Top(t).id /\ y.status # "awaiting_approval"
      /\ store' = [store EXCEPT ![y.id] = y] /\ Ends(t, n)
  BY UnapprovedMove
<1>2. n \in Nat
  <2>1. Top(t) \in RunRows /\ RowOK(Top(t))
    BY <1>1, Working
  <2> QED BY <2>1, Counts
<1>3. UNCHANGED <<nextRun, ran, overtaken>>
  BY DEF StopUnapproved
<1> HIDE DEF y, n
<1> QED BY <1>1, <1>2, <1>3, OwnerEnds

LEMMA StaysGoes ==
  ASSUME BudgetInv, NEW t \in Threads, thread[t].pc \in {"think", "tool"}, NEW pc \in {"tool", "record"}, NEW c, NEW ok,
         Stays(t, pc, c, ok)
  PROVE  /\ Moves(t) /\ Goes(thread[t], thread'[t]) /\ thread'[t] \in ThreadRows
         /\ Own(thread'[t]) = 1..Len(thread[t].stack) /\ Own(thread[t]) = 1..Len(thread[t].stack)
<1>1. thread[t] \in ThreadRows /\ Moves(t) /\ thread'[t] \in ThreadRows /\ thread'[t].stack = thread[t].stack /\ thread'[t].pc = pc
  BY DEF Stays, BudgetInv, AgTypes, Moves
<1>2. Goes(thread[t], thread'[t]) /\ Own(thread'[t]) = 1..Len(thread[t].stack) /\ Own(thread[t]) = 1..Len(thread[t].stack)
  BY <1>1, GoesStay
<1> QED BY <1>1, <1>2

LEMMA OwnerTake ==
  ASSUME BudgetInv, Owned, NEW t \in Threads, NEW c \in Calls, TakeAction(t, c)
  PROVE  Owned'
<1> DEFINE ok == FALSE  pc == "tool"
<1>1. Stays(t, pc, c, ok)
  BY TakeMove
<1>2. thread[t].pc = "think" /\ UNCHANGED <<store, nextRun, ran, overtaken>> /\ pc \in {"tool", "record"}
  BY DEF TakeAction
<1> HIDE DEF ok, pc
<1>3. Moves(t) /\ Goes(thread[t], thread'[t])
  BY <1>1, <1>2, StaysGoes
<1> QED BY <1>2, <1>3, OwnerGoes

LEMMA OwnerRefused ==
  ASSUME BudgetInv, Owned, NEW t \in Threads, DelegateRefused(t)
  PROVE  Owned'
<1> DEFINE c == thread[t].call  ok == thread[t].ok  pc == "record"
<1>1. Stays(t, pc, c, ok)
  BY ToolMove
<1>2. thread[t].pc = "tool" /\ UNCHANGED <<store, nextRun, ran, overtaken>> /\ pc \in {"tool", "record"}
  BY DEF DelegateRefused
<1> HIDE DEF ok, pc, c
<1>3. Moves(t) /\ Goes(thread[t], thread'[t])
  BY <1>1, <1>2, StaysGoes
<1> QED BY <1>2, <1>3, OwnerGoes

\* A thread whose new top of the stack is saved.
LEMMA RetopsGoes ==
  ASSUME BudgetInv, NEW t \in Threads, thread[t].pc \in {"think", "record"}, NEW run, SameRun(Top(t), run),
         Top(t).steps \subseteq run.steps, thread[t].pc = "record" => thread[t].call \in run.steps,
         NEW pc \in {"think", "close"}, NEW c, NEW ok, Retops(t, run, pc, c, ok)
  PROVE  /\ Moves(t) /\ Goes(thread[t], thread'[t]) /\ thread'[t] \in ThreadRows
         /\ \A i \in Own(thread'[t]) : i < Len(thread[t].stack) \/ (pc # "close" /\ i = Len(thread[t].stack) /\ thread'[t].stack[i] = run)
         /\ \A i \in Own(thread'[t]) : i < Len(thread[t].stack) => thread'[t].stack[i] = thread[t].stack[i]
         /\ Len(thread'[t].stack) = Len(thread[t].stack)
<1> DEFINE v == thread[t]  w == thread'[t]  x == Top(t)
<1>1. v \in ThreadRows /\ v.stack # <<>> /\ x = Last(v.stack) /\ run \in RunRows
  BY Working DEF SameRun
<1>2. Moves(t) /\ Retop(v, w, run) /\ w.pc = pc
  BY DEF Retops
<1>3. w \in ThreadRows /\ Len(w.stack) = Len(v.stack)
  BY <1>2 DEF Moves, Retop
<1>4. run.id = x.id /\ x.steps \subseteq run.steps /\ (v.pc = "record" => v.call \in run.steps) /\ v.pc \notin {"claim", "close"}
  BY DEF SameRun
<1> HIDE DEF v, w, x
<1>5. /\ Goes(v, w)
      /\ \A i \in Own(w) : i < Len(v.stack) \/ (w.pc # "close" /\ i = Len(v.stack) /\ w.stack[i] = run)
      /\ \A i \in Own(w) : i < Len(v.stack) => w.stack[i] = v.stack[i]
  BY <1>1, <1>2, <1>3, <1>4, GoesRetop
<1> QED BY <1>2, <1>3, <1>5 DEF v, w

LEMMA OwnerRecord ==
  ASSUME BudgetInv, Owned, NEW t \in Threads, RecordStep(t)
  PROVE  Owned'
<1> DEFINE y == Recorded(Top(t), thread[t].call)
<1>1. /\ thread[t].pc = "record" /\ SameRun(Top(t), y) /\ y.status # "awaiting_approval"
      /\ Top(t).steps \subseteq y.steps /\ thread[t].call \in y.steps
      /\ \/ SaveRaises(t, y)
         \/ store' = [store EXCEPT ![y.id] = y] /\ Retops(t, y, "think", NoCall, FALSE)
  BY RecordMove
<1>2. UNCHANGED <<nextRun, ran, overtaken>>
  BY DEF RecordStep
<1> DEFINE ok == FALSE  pc == "think"
<1>3. pc \in {"think", "close"} /\ (Retops(t, y, "think", NoCall, FALSE) => Retops(t, y, pc, NoCall, ok))
  OBVIOUS
<1> HIDE DEF y, ok, pc
<1>4. CASE SaveRaises(t, y)
  BY <1>1, <1>2, <1>4, OwnerBreaks
<1>5. CASE store' = [store EXCEPT ![y.id] = y] /\ Retops(t, y, pc, NoCall, ok)
  <2>1. Moves(t) /\ Goes(thread[t], thread'[t])
    BY <1>1, <1>3, <1>5, RetopsGoes
  <2>2. Puts(t, y)
    BY <1>1, <1>5 DEF Puts, SameRun
  <2> QED BY <1>1, <1>2, <2>1, <2>2, OwnerGoes
<1> QED BY <1>1, <1>3, <1>4, <1>5

LEMMA OwnerPause ==
  ASSUME BudgetInv, Owned, NEW t \in Threads, NEW c \in Calls, Pause(t, c)
  PROVE  Owned'
<1> DEFINE y == Paused(t, c)  v == thread[t]  pc == "close"  k == v.call  ok == v.ok
<1>1. /\ v.pc = "think" /\ SameRun(Top(t), y) /\ y.steps = Top(t).steps
      /\ \/ SaveRaises(t, y)
         \/ /\ store' = [store EXCEPT ![y.id] = y]
            /\ \/ Moves(t) /\ thread'[t] = IdleThread
               \/ Retops(t, y, pc, k, ok)
  BY PauseMove
<1>2. UNCHANGED <<nextRun, ran, overtaken>>
  BY DEF Pause
<1>3. pc = "close" /\ v \in ThreadRows /\ v = thread[t]
  BY DEF BudgetInv, AgTypes
<1> HIDE DEF y, pc, k, ok, v
<1>4. CASE SaveRaises(t, y)
  BY <1>1, <1>2, <1>3, <1>4, OwnerBreaks
<1>5. CASE store' = [store EXCEPT ![y.id] = y] /\ Moves(t) /\ thread'[t] = IdleThread
  <2>1. Goes(v, IdleThread) /\ Own(IdleThread) = {}
    BY <1>3, GoesIdle
  <2>2. Puts(t, y)
    BY <1>1, <1>3, <1>5, <2>1 DEF Puts, SameRun
  <2>3. Goes(thread[t], thread'[t])
    BY <1>3, <1>5, <2>1
  <2> QED BY <1>1, <1>2, <1>3, <1>5, <2>2, <2>3, OwnerGoes
<1>6. CASE store' = [store EXCEPT ![y.id] = y] /\ Retops(t, y, pc, k, ok)
  <2>1. /\ Moves(t) /\ Goes(thread[t], thread'[t])
        /\ \A i \in Own(thread'[t]) : i < Len(thread[t].stack)
    BY <1>1, <1>3, <1>6, RetopsGoes
  <2>2. Puts(t, y)
    BY <1>1, <1>3, <1>6, <2>1 DEF Puts, SameRun
  <2> QED BY <1>1, <1>2, <1>3, <2>1, <2>2, OwnerGoes
<1> QED BY <1>1, <1>4, <1>5, <1>6

\* What Effect counts.
LEMMA EffectCount ==
  ASSUME BudgetInv, NEW t \in Threads, Effect(t)
  PROVE  /\ thread[t].pc = "tool" /\ Top(t).id \in RunIds /\ thread[t].call \in Calls \ Top(t).steps
         /\ \A r \in RunIds, c \in Calls :
              ran'[r][c] = IF r = Top(t).id /\ c = thread[t].call THEN ran[r][c] + 1 ELSE ran[r][c]
         /\ \A r \in RunIds : r # Top(t).id => ran'[r] = ran[r]
         /\ \A r \in RunIds, c \in Calls : ran[r][c] \in Nat
<1> DEFINE q == Top(t).id  d == thread[t].call  row == ran[q]  new == [row EXCEPT ![d] = row[d] + 1]
<1>1. thread[t].pc = "tool" /\ d \in Calls \ Top(t).steps /\ Top(t) \in RunRows /\ ran \in [RunIds -> [Calls -> Nat]]
  BY AtCall DEF Effect, BudgetInv, AgTypes, OtherTypes
<1>2. q \in RunIds
  <2> DEFINE x == Top(t)
  <2>1. x \in RunRows
    BY <1>1
  <2> HIDE DEF x
  <2>2. x.id \in RunIds
    BY <2>1 DEF RunRows
  <2> QED BY <2>2 DEF x
<1>3. ran' = [ran EXCEPT ![q] = new]
  BY DEF Effect
<1>4. d \in Calls
  BY <1>1
<1> HIDE DEF q, d
<1>5. row \in [Calls -> Nat] /\ row = ran[q]
  BY <1>1, <1>2
<1> HIDE DEF row
<1>6. \A c \in Calls : new[c] = IF c = d THEN row[c] + 1 ELSE row[c]
  BY <1>4, <1>5
<1> HIDE DEF new
<1>7. \A r \in RunIds : ran'[r] = IF r = q THEN new ELSE ran[r]
  BY <1>1, <1>2, <1>3
<1>8. ASSUME NEW r \in RunIds, NEW c \in Calls
      PROVE  ran'[r][c] = IF r = q /\ c = d THEN ran[r][c] + 1 ELSE ran[r][c]
  BY <1>5, <1>6, <1>7
<1>9. \A r \in RunIds, c \in Calls : ran[r][c] \in Nat
  BY <1>1
<1>10. \A r \in RunIds : r # q => ran'[r] = ran[r]
  BY <1>7
<1> QED BY <1>1, <1>2, <1>8, <1>9, <1>10 DEF q, d

LEMMA OwnerEffect ==
  ASSUME BudgetInv, Owned, NEW t \in Threads, Effect(t)
  PROVE  Owned'
<1> DEFINE v == thread[t]  w == thread'[t]  x == Top(t)  s == v.stack  k == Len(s)  pc == "record"  c == v.call  ok == v.ok
<1>1. AgTypes /\ v \in ThreadRows /\ x \in RunRows /\ x = s[k] /\ k \in Nat /\ k >= 1 /\ nextRun \in Nat /\ v.pc = "tool"
  BY Working DEF BudgetInv, AgTypes, OtherTypes, Effect
<1>2. Stays(t, pc, c, ok) /\ pc \in {"tool", "record"} /\ pc = "record" /\ c = v.call
  BY ToolMove
<1>3. /\ x.id \in RunIds /\ c \in Calls \ x.steps
      /\ \A r \in RunIds, d \in Calls : ran'[r][d] = IF r = x.id /\ d = c THEN ran[r][d] + 1 ELSE ran[r][d]
      /\ \A r \in RunIds : r # x.id => ran'[r] = ran[r]
      /\ \A r \in RunIds, d \in Calls : ran[r][d] \in Nat
  BY EffectCount
<1>4. w.stack = s /\ w.pc = pc /\ w.call = c
  BY <1>2 DEF Stays
<1>5. UNCHANGED <<store, nextRun, overtaken>>
  BY DEF Effect
<1>6. Share(v, store, nextRun, ran, overtaken) /\ \A r \in RunIds : StoreKnows(r, store, nextRun, ran, overtaken)
  BY DEF Owned
<1>7. \A i \in 1..k : s[i].id \in RunIds
  BY <1>1, IdsType
<1> HIDE DEF pc, ok
<1>8. Moves(t) /\ Own(w) = 1..k /\ Own(v) = 1..k
  BY <1>1, <1>2, StaysGoes
<1>9. k \in 1..k /\ x.id \in IdsOf(v) /\ IdsOf(w) \subseteq IdsOf(v) /\ x.id < nextRun
  <2> HIDE DEF k, s
  <2>1. k \in 1..k
    BY <1>1
  <2>2. s[k].id < nextRun
    BY <1>6, <2>1 DEF Share, s, k
  <2> QED BY <1>1, <1>4, <1>8, <2>1, <2>2 DEF IdsOf, s
<1>10. /\ \A i \in 1..k : s[i].id < nextRun
       /\ \A i, j \in 1..k : s[i].id = s[j].id => i = j
       /\ \A i \in 1..k : s[i].id \notin overtaken =>
            /\ store[s[i].id] # NoRun => store[s[i].id].status # "awaiting_approval"
            /\ \A d \in Calls : ran[s[i].id][d] > 0 => d \in s[i].steps
  BY <1>1, <1>6, <1>8 DEF Share, Knows
<1> HIDE DEF v, w, x, s, k, c
<1>11. ASSUME NEW i \in 1..k, s[i].id \notin overtaken, NEW d \in Calls, ran'[s[i].id][d] > 0
       PROVE  d \in s[i].steps \/ (i = k /\ d = c)
  <2>1. CASE s[i].id = x.id /\ d = c
    <3>1. i = k
      BY <1>1, <1>9, <1>10, <2>1
    <3> QED BY <2>1, <3>1
  <2>2. CASE ~(s[i].id = x.id /\ d = c)
    <3>1. ran'[s[i].id][d] = ran[s[i].id][d]
      BY <1>3, <1>7, <2>2
    <3> QED BY <1>10, <1>11, <3>1
  <2> QED BY <2>1, <2>2
<1>12. Share(w, store', nextRun', ran', overtaken')
  BY <1>2, <1>4, <1>5, <1>8, <1>10, <1>11 DEF Share, Knows, k
<1>13. ASSUME NEW r \in RunIds PROVE StoreKnows(r, store', nextRun', ran', overtaken')
  <2>1. CASE r # x.id
    <3>1. ran'[r] = ran[r] /\ store'[r] = store[r]
      BY <1>3, <1>5, <2>1
    <3> QED BY <1>5, <1>6, <3>1 DEF StoreKnows
  <2>2. CASE r = x.id
    <3>1. r < nextRun' /\ store' = store /\ overtaken' = overtaken
      BY <1>5, <1>9, <2>2
    <3>2. ASSUME r \notin overtaken
          PROVE  /\ \A d \in Calls : ran'[r][d] <= 1
                 /\ store[r] # NoRun => store[r].status # "awaiting_approval"
      <4>1. /\ store[r] # NoRun => store[r].status # "awaiting_approval"
            /\ \A d \in Calls : ran[r][d] > 0 => d \in x.steps
        BY <1>1, <1>9, <1>10, <2>2, <3>2
      <4>2. ran[r][c] = 0
        BY <1>3, <4>1
      <4>3. \A d \in Calls : ran[r][d] <= 1
        BY <1>6, <3>2 DEF StoreKnows
      <4> QED BY <1>3, <4>1, <4>2, <4>3
    <3> QED BY <3>1, <3>2 DEF StoreKnows
  <2> QED BY <2>1, <2>2
<1>14. \A u \in Threads \ {t} : IdsOf(w) \cap IdsOf(thread[u]) \subseteq overtaken'
  BY <1>5, <1>9 DEF Owned, Apart, v
<1>15. \A r \in RunIds : r \notin IdsOf(v) \cup overtaken' =>
            /\ ran'[r] = ran[r]
            /\ store'[r] # NoRun => store'[r] = store[r] \/ store'[r].status # "awaiting_approval"
  BY <1>3, <1>5, <1>9
<1>16. nextRun' \in Nat /\ nextRun <= nextRun' /\ overtaken \subseteq overtaken'
  BY <1>1, <1>5
<1> QED BY <1>8, <1>12, <1>13, <1>14, <1>15, <1>16, OwnerStep DEF v, w

LEMMA SingleShare ==
  ASSUME NEW w, NEW run, w.stack = <<run>>, NEW S, NEW next, NEW R, NEW over, run.id < next,
         \/ w.pc = "claim"
         \/ /\ w.pc \notin {"claim", "close", "record"}
            /\ run.id \notin over =>
                /\ S[run.id] # NoRun => S[run.id].status # "awaiting_approval"
                /\ \A c \in Calls : R[run.id][c] > 0 => c \in run.steps
  PROVE  /\ Share(w, S, next, R, over) /\ IdsOf(w) \subseteq {run.id}
         /\ w.pc = "claim" => IdsOf(w) = {}
<1>1. Len(w.stack) = 1 /\ 1..Len(w.stack) = {1} /\ w.stack[1] = run
  OBVIOUS
<1>2. Own(w) \subseteq {1} /\ (w.pc = "claim" => Own(w) = {})
  BY <1>1 DEF Own
<1>3. Share(w, S, next, R, over)
  BY <1>1, <1>2 DEF Share, Knows
<1> QED BY <1>1, <1>2, <1>3 DEF IdsOf

LEMMA OwnerResume ==
  ASSUME BudgetInv, Owned, NEW t \in Threads, NEW r \in RunIds, NEW ok \in BOOLEAN, Resume(t, r, ok)
  PROVE  Owned'
<1> DEFINE x == store[r]  w == thread'[t]
<1>1. Singles(t, x, "claim", x.pending, ok) /\ x \in RunRows /\ x.id = r
  BY ResumeMove
<1>2. Moves(t) /\ w.stack = <<x>> /\ w.pc = "claim"
  BY <1>1 DEF Singles
<1>3. UNCHANGED <<store, nextRun, ran, overtaken>> /\ nextRun \in Nat /\ x # NoRun
  BY DEF Resume, BudgetInv, AgTypes, OtherTypes
<1>4. \A q \in RunIds : StoreKnows(q, store, nextRun, ran, overtaken)
  BY DEF Owned
<1>5. x.id < nextRun
  BY <1>1, <1>3, <1>4 DEF StoreKnows
<1> HIDE DEF x, w
<1>6. Share(w, store, nextRun, ran, overtaken) /\ IdsOf(w) = {}
  BY <1>2, <1>5, SingleShare
<1>7. store' = store /\ nextRun' = nextRun /\ ran' = ran /\ overtaken' = overtaken
  BY <1>3
<1>8. /\ nextRun' \in Nat /\ nextRun <= nextRun' /\ overtaken \subseteq overtaken'
      /\ Share(w, store', nextRun', ran', overtaken')
      /\ \A q \in RunIds : StoreKnows(q, store', nextRun', ran', overtaken')
      /\ \A u \in Threads \ {t} : IdsOf(w) \cap IdsOf(thread[u]) \subseteq overtaken'
      /\ \A q \in RunIds : q \notin IdsOf(thread[t]) \cup overtaken' =>
            /\ ran'[q] = ran[q]
            /\ store'[q] # NoRun => store'[q] = store[q] \/ store'[q].status # "awaiting_approval"
  BY <1>3, <1>4, <1>6, <1>7
<1> QED BY <1>2, <1>8, OwnerStep DEF w

\* The next run id is free.
LEMMA FreshId ==
  ASSUME BudgetInv, Owned, nextRun \in RunIds
  PROVE  /\ nextRun \in Nat /\ store[nextRun] = NoRun /\ \A c \in Calls : ~(ran[nextRun][c] > 0)
         /\ \A u \in Threads : nextRun \notin IdsOf(thread[u])
         /\ \A q \in RunIds : StoreKnows(q, store, nextRun + 1, ran, overtaken)
<1>1. nextRun \in Nat /\ \A q \in RunIds : q \in Nat /\ StoreKnows(q, store, nextRun, ran, overtaken)
  BY AgentAssumption DEF Owned
<1>2. store[nextRun] = NoRun /\ \A c \in Calls : ~(ran[nextRun][c] > 0)
  BY <1>1 DEF StoreKnows
<1>3. ASSUME NEW q \in RunIds PROVE StoreKnows(q, store, nextRun + 1, ran, overtaken)
  BY <1>1 DEF StoreKnows
<1>4. ASSUME NEW u \in Threads PROVE nextRun \notin IdsOf(thread[u])
  <2> DEFINE v == thread[u]
  <2>1. v \in ThreadRows /\ Share(v, store, nextRun, ran, overtaken)
    BY DEF BudgetInv, AgTypes, Owned
  <2> HIDE DEF v
  <2>2. \A i \in Own(v) : v.stack[i].id < nextRun
    BY <2>1, OwnPlaces DEF Share
  <2>3. nextRun \notin IdsOf(v)
    BY <1>1, <2>2 DEF IdsOf
  <2> QED BY <2>3 DEF v
<1> QED BY <1>1, <1>2, <1>3, <1>4

LEMMA OwnerRun ==
  ASSUME BudgetInv, Owned, NEW t \in Threads, NEW tainted \in BOOLEAN, Run(t, tainted)
  PROVE  Owned'
<1> DEFINE new == NewRun(nextRun, tainted)  w == thread'[t]
<1>1. nextRun \in RunIds /\ Singles(t, new, "think", NoCall, FALSE)
  BY RunMove
<1>2. new.id = nextRun
  BY DEF NewRun
<1>3. Moves(t) /\ w.stack = <<new>> /\ w.pc = "think"
  BY <1>1 DEF Singles
<1>4. store' = store /\ nextRun' = nextRun + 1 /\ ran' = ran /\ overtaken' = overtaken
  BY DEF Run
<1>5. /\ nextRun \in Nat /\ store[nextRun] = NoRun /\ \A c \in Calls : ~(ran[nextRun][c] > 0)
      /\ \A u \in Threads : nextRun \notin IdsOf(thread[u])
      /\ \A q \in RunIds : StoreKnows(q, store, nextRun + 1, ran, overtaken)
  BY <1>1, FreshId
<1>6. new.id < nextRun + 1
  BY <1>2, <1>5
<1> HIDE DEF new, w
<1>7. Share(w, store, nextRun + 1, ran, overtaken) /\ IdsOf(w) \subseteq {nextRun}
  BY <1>2, <1>3, <1>5, <1>6, SingleShare
<1>8. /\ nextRun' \in Nat /\ nextRun <= nextRun' /\ overtaken \subseteq overtaken'
      /\ Share(w, store', nextRun', ran', overtaken')
      /\ \A q \in RunIds : StoreKnows(q, store', nextRun', ran', overtaken')
      /\ \A u \in Threads \ {t} : IdsOf(w) \cap IdsOf(thread[u]) \subseteq overtaken'
      /\ \A q \in RunIds : q \notin IdsOf(thread[t]) \cup overtaken' =>
            /\ ran'[q] = ran[q]
            /\ store'[q] # NoRun => store'[q] = store[q] \/ store'[q].status # "awaiting_approval"
  BY <1>4, <1>5, <1>7
<1> QED BY <1>3, <1>8, OwnerStep DEF w

LEMMA OwnerDelegate ==
  ASSUME BudgetInv, Owned, NEW t \in Threads, Delegate(t)
  PROVE  Owned'
<1> DEFINE v == thread[t]  w == thread'[t]  x == Top(t)  new == NewRun(nextRun, x.tainted)  s == v.stack  z == w.stack  k == Len(s)
<1>1. v.pc = "tool" /\ nextRun \in RunIds /\ Moves(t) /\ Push(v, w, new) /\ w.pc = "think"
  BY DelegateMove
<1>2. v \in ThreadRows /\ w \in ThreadRows /\ k \in Nat /\ Share(v, store, nextRun, ran, overtaken) /\ \A i \in 1..k : s[i].id \in Nat
  <2>1. v \in ThreadRows /\ AgTypes /\ k \in Nat
    BY <1>1, Working
  <2>2. \A i \in 1..k : s[i].id \in Nat
    BY <2>1, IdsType, AgentAssumption
  <2> QED BY <1>1, <2>1, <2>2 DEF Moves, Owned
<1>3. new.id = nextRun
  BY DEF NewRun
<1>4. store' = store /\ nextRun' = nextRun + 1 /\ ran' = ran /\ overtaken' = overtaken
  BY DEF Delegate
<1>5. /\ nextRun \in Nat /\ store[nextRun] = NoRun /\ \A c \in Calls : ~(ran[nextRun][c] > 0)
      /\ \A u \in Threads : nextRun \notin IdsOf(thread[u])
      /\ \A q \in RunIds : StoreKnows(q, store, nextRun + 1, ran, overtaken)
  BY <1>1, FreshId
<1>6. /\ Len(z) = k + 1 /\ z[k + 1] = new
      /\ \A i \in 1..k : z[i].id = s[i].id /\ z[i].steps = s[i].steps
  BY <1>1 DEF Push
<1>7. Own(v) = 1..k /\ Own(w) = 1..(k + 1)
  <2>1. Own(v) = {i \in 1..k : TRUE} /\ Own(w) = {i \in 1..Len(z) : TRUE}
    BY <1>1 DEF Own
  <2> QED BY <1>6, <2>1
<1>8. /\ \A i \in 1..k : s[i].id < nextRun
      /\ \A i, j \in 1..k : s[i].id = s[j].id => i = j
      /\ \A i \in 1..k : s[i].id \notin overtaken =>
            /\ store[s[i].id] # NoRun => store[s[i].id].status # "awaiting_approval"
            /\ \A c \in Calls : ran[s[i].id][c] > 0 => c \in s[i].steps
  BY <1>1, <1>2, <1>7 DEF Share, Knows
<1>9. IdsOf(v) = {s[i].id : i \in 1..k} /\ IdsOf(w) = {z[i].id : i \in 1..(k + 1)}
  BY <1>7 DEF IdsOf
<1> HIDE DEF v, w, x, new, s, z, k
<1>10. \A i \in 1..(k + 1) : i \in 1..k \/ i = k + 1
  BY <1>2
<1>11. \A i \in 1..(k + 1) : z[i].id < nextRun + 1
  BY <1>2, <1>3, <1>5, <1>6, <1>8, <1>10
<1>12. ASSUME NEW i \in 1..(k + 1), NEW j \in 1..(k + 1), z[i].id = z[j].id PROVE i = j
  <2>1. CASE i \in 1..k /\ j \in 1..k
    BY <1>6, <1>8, <1>12, <2>1
  <2>2. CASE i = k + 1 /\ j \in 1..k
    BY <1>2, <1>3, <1>5, <1>6, <1>8, <1>12, <2>2
  <2>3. CASE i \in 1..k /\ j = k + 1
    BY <1>2, <1>3, <1>5, <1>6, <1>8, <1>12, <2>3
  <2> QED BY <1>10, <2>1, <2>2, <2>3
<1>13. ASSUME NEW i \in 1..(k + 1), z[i].id \notin overtaken
       PROVE  /\ store[z[i].id] # NoRun => store[z[i].id].status # "awaiting_approval"
              /\ \A c \in Calls : ran[z[i].id][c] > 0 => c \in z[i].steps
  <2>1. CASE i \in 1..k
    BY <1>6, <1>8, <1>13, <2>1
  <2>2. CASE i = k + 1
    BY <1>3, <1>5, <1>6, <2>2
  <2> QED BY <1>10, <2>1, <2>2
<1>14. Share(w, store, nextRun + 1, ran, overtaken)
  BY <1>6, <1>7, <1>11, <1>12, <1>13 DEF Share, Knows, z
<1>15. IdsOf(w) \subseteq IdsOf(v) \cup {nextRun}
  BY <1>3, <1>6, <1>9, <1>10
<1>16. \A u \in Threads \ {t} : IdsOf(w) \cap IdsOf(thread[u]) \subseteq overtaken
  BY <1>5, <1>15 DEF Owned, Apart, v
<1>17. /\ nextRun' \in Nat /\ nextRun <= nextRun' /\ overtaken \subseteq overtaken'
       /\ Share(w, store', nextRun', ran', overtaken')
       /\ \A q \in RunIds : StoreKnows(q, store', nextRun', ran', overtaken')
       /\ \A u \in Threads \ {t} : IdsOf(w) \cap IdsOf(thread[u]) \subseteq overtaken'
       /\ \A q \in RunIds : q \notin IdsOf(thread[t]) \cup overtaken' =>
            /\ ran'[q] = ran[q]
            /\ store'[q] # NoRun => store'[q] = store[q] \/ store'[q].status # "awaiting_approval"
  BY <1>4, <1>5, <1>14, <1>16
<1> QED BY <1>1, <1>17, OwnerStep DEF w

\* The claim of a run that nobody else has in hand, or that is overtaken.
LEMMA OwnerClaim ==
  ASSUME BudgetInv, Owned, atomic, NEW t \in Threads, Claim(t)
  PROVE  Owned'
<1> DEFINE v == thread[t]  w == thread'[t]  x == Top(t)  y == Claimed(t)  r == x.id  pc == IF v.ok THEN "tool" ELSE "reject"
<1>1. /\ v.pc = "claim" /\ SameRun(x, y) /\ y.status = "running" /\ y.steps = x.steps /\ store[r] # NoRun
      /\ \/ /\ Claimable(r) /\ store' = [store EXCEPT ![y.id] = y] /\ Singles(t, y, pc, v.call, v.ok)
            /\ overtaken' = IF store[r].status = "awaiting_approval" /\ store[r] # x THEN overtaken \cup {r} ELSE overtaken
         \/ Moves(t) /\ w = IdleThread /\ UNCHANGED <<store, overtaken>>
  BY ClaimMove
<1>2. UNCHANGED <<nextRun, ran>>
  BY DEF Claim
<1>3. v \in ThreadRows /\ AgTypes /\ x \in RunRows /\ nextRun \in Nat /\ Len(v.stack) \in 1..Len(v.stack) /\ x = v.stack[Len(v.stack)]
  <2>1. v \in ThreadRows /\ AgTypes /\ x \in RunRows /\ x = v.stack[Len(v.stack)] /\ v.stack # <<>> /\ v.stack \in Seq(RunRows)
    BY <1>1, Working
  <2> QED BY <2>1, Elements DEF AgTypes, OtherTypes
<1>4. r < nextRun /\ Share(v, store, nextRun, ran, overtaken) /\ \A q \in RunIds : StoreKnows(q, store, nextRun, ran, overtaken)
  BY <1>3 DEF Owned, Share
<1>5. pc \notin {"claim", "close", "record"}
  OBVIOUS
<1>6. r \in RunIds /\ y \in RunRows /\ y.id = r
  <2> HIDE DEF x, y
  <2> QED BY <1>1, <1>3 DEF RunRows, SameRun
<1>7. CASE Moves(t) /\ w = IdleThread /\ UNCHANGED <<store, overtaken>>
  <2>1. Goes(v, IdleThread)
    <3> HIDE DEF v
    <3> QED BY <1>3, GoesIdle
  <2>2. Moves(t) /\ Goes(thread[t], thread'[t]) /\ thread[t].pc # "idle"
    BY <1>1, <1>7, <2>1
  <2> QED BY <1>2, <1>7, <2>2, OwnerGoes
<1>8. CASE /\ Claimable(r) /\ store' = [store EXCEPT ![y.id] = y] /\ Singles(t, y, pc, v.call, v.ok)
           /\ overtaken' = IF store[r].status = "awaiting_approval" /\ store[r] # x THEN overtaken \cup {r} ELSE overtaken
  <2>1. store[r].status = "awaiting_approval" /\ Moves(t) /\ w.stack = <<y>> /\ w.pc = pc
    BY <1>8 DEF Claimable, Singles
  <2>2. store'[r] = y /\ \A q \in RunIds : q # r => store'[q] = store[q]
    BY <1>3, <1>6, <1>8 DEF AgTypes, AgTypeOK
  <2>3. overtaken \subseteq overtaken' /\ (r \notin overtaken' => r \notin overtaken /\ store[r] = x)
    BY <1>8, <2>1
  <2> HIDE DEF v, w, x, y, r, pc
  <2>4. \A c \in Calls : r \notin overtaken' /\ ran[r][c] > 0 => c \in y.steps
    BY <1>1, <1>4, <1>6, <2>1, <2>3 DEF StoreKnows
  <2>5. Share(w, store', nextRun, ran, overtaken') /\ IdsOf(w) \subseteq {r}
    BY <1>1, <1>4, <1>5, <1>6, <2>1, <2>2, <2>3, <2>4, SingleShare
  <2>6. ASSUME NEW q \in RunIds PROVE StoreKnows(q, store', nextRun, ran, overtaken')
    <3>1. CASE q = r
      BY <1>1, <1>4, <1>6, <2>2, <2>3, <3>1 DEF StoreKnows
    <3>2. CASE q # r
      <4>1. store'[q] = store[q] /\ StoreKnows(q, store, nextRun, ran, overtaken)
        BY <1>4, <2>2, <3>2
      <4> QED BY <2>3, <4>1 DEF StoreKnows
    <3> QED BY <3>1, <3>2
  <2>7. ASSUME NEW u \in Threads \ {t} PROVE IdsOf(w) \cap IdsOf(thread[u]) \subseteq overtaken'
    <3> SUFFICES ASSUME r \in IdsOf(thread[u]), r \notin overtaken' PROVE FALSE
      BY <2>5
    <3> DEFINE a == thread[u]
    <3>1. Share(a, store, nextRun, ran, overtaken) /\ r \in IdsOf(a)
      BY DEF Owned
    <3> HIDE DEF a
    <3>2. PICK i \in Own(a) : a.stack[i].id = r
      BY <3>1 DEF IdsOf
    <3> QED BY <1>1, <2>1, <2>3, <3>1, <3>2 DEF Share
  <2>8. \A q \in RunIds : store'[q] # NoRun => store'[q] = store[q] \/ store'[q].status # "awaiting_approval"
    BY <1>1, <2>2
  <2>9. nextRun' = nextRun /\ ran' = ran
    BY <1>2
  <2>10. /\ nextRun' \in Nat /\ nextRun <= nextRun' /\ overtaken \subseteq overtaken'
         /\ Share(w, store', nextRun', ran', overtaken')
         /\ \A q \in RunIds : StoreKnows(q, store', nextRun', ran', overtaken')
         /\ \A u \in Threads \ {t} : IdsOf(w) \cap IdsOf(thread[u]) \subseteq overtaken'
         /\ \A q \in RunIds : q \notin IdsOf(thread[t]) \cup overtaken' =>
              /\ ran'[q] = ran[q]
              /\ store'[q] # NoRun => store'[q] = store[q] \/ store'[q].status # "awaiting_approval"
    BY <1>3, <2>3, <2>5, <2>6, <2>7, <2>8, <2>9
  <2> QED BY <2>1, <2>10, OwnerStep DEF w
<1> QED BY <1>1, <1>7, <1>8

LEMMA OwnerCrash == ASSUME BudgetInv, Owned, AgCrash PROVE Owned'
<1>1. thread' = [t \in Threads |-> IdleThread] /\ store' = store /\ nextRun' = nextRun /\ ran' = ran /\ overtaken' = overtaken
  BY DEF AgCrash
<1>2. IdleThread \in ThreadRows /\ IdleThread.stack = <<>> /\ Len(<<>>) = 0 /\ 1..0 = {}
  BY AtRest
<1>3. Own(IdleThread) = {} /\ IdsOf(IdleThread) = {}
  BY <1>2 DEF Own, IdsOf
<1>4. Share(IdleThread, store', nextRun', ran', overtaken')
  BY <1>2, <1>3 DEF Share
<1>5. \A t \in Threads : Share(thread'[t], store', nextRun', ran', overtaken')
  BY <1>1, <1>4
<1>6. Apart(thread', overtaken')
  BY <1>1, <1>3 DEF Apart
<1> QED BY <1>1, <1>5, <1>6 DEF Owned

LEMMA OwnerStart == AgInit => Owned
<1> SUFFICES ASSUME AgInit PROVE Owned
  OBVIOUS
<1>1. thread = [t \in Threads |-> IdleThread] /\ store = [r \in RunIds |-> NoRun] /\ ran = [r \in RunIds |-> [c \in Calls |-> 0]]
  BY DEF AgInit
<1>2. IdleThread \in ThreadRows /\ IdleThread.stack = <<>> /\ Len(<<>>) = 0 /\ 1..0 = {}
  BY AtRest
<1>3. Own(IdleThread) = {} /\ IdsOf(IdleThread) = {}
  BY <1>2 DEF Own, IdsOf
<1>4. Share(IdleThread, store, nextRun, ran, overtaken)
  BY <1>2, <1>3 DEF Share
<1>5. \A t \in Threads : Share(thread[t], store, nextRun, ran, overtaken)
  BY <1>1, <1>4
<1>6. Apart(thread, overtaken)
  BY <1>1, <1>3 DEF Apart
<1>7. \A r \in RunIds : StoreKnows(r, store, nextRun, ran, overtaken)
  BY <1>1 DEF StoreKnows
<1> QED BY <1>5, <1>6, <1>7 DEF Owned

LEMMA OwnerKept == BudgetInv /\ OwnerInv /\ [AgNext]_agVars => OwnerInv'
<1> SUFFICES ASSUME BudgetInv, OwnerInv, [AgNext]_agVars, atomic' PROVE Owned'
  BY DEF OwnerInv
<1>1. CASE UNCHANGED agVars
  BY <1>1 DEF agVars, OwnerInv, Owned, Apart
<1>2. CASE AgNext
  <2>1. atomic' = atomic
    BY <1>2 DEF AgNext, AgStep, StopDriving, Effect, DelegateRefused, Delegate, StopUnapproved, RecordStep, Claim,
                RejectCall, FinishBroken, TakeAction, Pause, Run, Resume, AgCrash
  <2>2. atomic /\ Owned
    BY <2>1 DEF OwnerInv
  <2>3. ASSUME NEW t \in Threads, AgStep(t) PROVE Owned'
    BY <2>2, <2>3, OwnerStop, OwnerEffect, OwnerRefused, OwnerDelegate, OwnerUnapproved, OwnerRecord, OwnerClaim,
       OwnerReject, OwnerBroken DEF AgStep
  <2>4. ASSUME NEW t \in Threads, NEW c \in Calls, TakeAction(t, c) \/ Pause(t, c) PROVE Owned'
    BY <2>2, <2>4, OwnerTake, OwnerPause
  <2>5. ASSUME NEW t \in Threads, NEW tainted \in BOOLEAN, Run(t, tainted) PROVE Owned'
    BY <2>2, <2>5, OwnerRun
  <2>6. ASSUME NEW t \in Threads, NEW r \in RunIds, NEW ok \in BOOLEAN, Resume(t, r, ok) PROVE Owned'
    BY <2>2, <2>6, OwnerResume
  <2>7. CASE AgCrash
    BY <2>2, <2>7, OwnerCrash
  <2> QED BY <1>2, <2>3, <2>4, <2>5, <2>6, <2>7 DEF AgNext
<1> QED BY <1>1, <1>2

\* With a store that can claim atomically, a call of a run has its effect at most once, through
\* every crash, failed save and second resume(), unless a resume() overtakes another (agent.py).
THEOREM EffectIsOnce == AgSpec => []EffectOnce
<1>1. AgInit => BudgetInv /\ OwnerInv
  BY BudgetStart, OwnerStart DEF OwnerInv
<1>2. (BudgetInv /\ OwnerInv) /\ [AgNext]_agVars => (BudgetInv /\ OwnerInv)'
  BY BudgetKept, OwnerKept
<1>3. OwnerInv => EffectOnce
  BY DEF OwnerInv, Owned, StoreKnows, EffectOnce
<1> QED BY <1>1, <1>2, <1>3, PTL DEF AgSpec

-----------------------------------------------------------------------------
(* What a run has been shown, and what its threads know of it. *)

\* The thread knows that the run at place i of its stack has been shown outside content.
Told(v, i) ==
  \/ v.stack[i].tainted
  \/ i < Len(v.stack) /\ Taints # {}
  \/ i = Len(v.stack) /\ v.pc = "record" /\ v.call \in Taints

\* No outbound call runs that a tainted run should have asked about.
Asked(v) == v.pc = "tool" /\ ~v.ok /\ v.call \in Outbound => ~Last(v.stack).tainted

LEMMA MarkedBy ==
  ASSUME NEW v, NEW shown
  PROVE  Marked(v, shown) <=> Asked(v) /\ \A i \in Own(v) : v.stack[i].id \in shown => Told(v, i)
BY DEF Marked, Asked, Told

LEMMA MarkedOther ==
  ASSUME NEW v \in ThreadRows, NEW shown, NEW more, Marked(v, shown), more \cap IdsOf(v) \subseteq shown
  PROVE  Marked(v, more)
<1>1. \A i \in Own(v) : v.stack[i].id \in IdsOf(v)
  BY OwnPlaces
<1>2. \A i \in Own(v) : v.stack[i].id \in more => Told(v, i)
  BY <1>1, MarkedBy
<1> QED BY <1>2, MarkedBy

LEMMA MarkedIdle == ASSUME NEW shown PROVE Marked(IdleThread, shown)
<1>1. IdleThread.stack = <<>> /\ IdleThread.pc = "idle" /\ Len(<<>>) = 0 /\ 1..0 = {}
  BY AtRest
<1>2. Own(IdleThread) = {}
  BY <1>1 DEF Own
<1>3. Asked(IdleThread)
  BY <1>1 DEF Asked
<1> QED BY <1>2, <1>3, MarkedBy

LEMMA MarkedPop ==
  ASSUME NEW v \in ThreadRows, NEW w \in ThreadRows, NEW n \in Nat, NEW shown, Marked(v, shown), Pop(v, w, n),
         v.stack # <<>>, w.call \in Delegates
  PROVE  Marked(w, shown)
<1>1. /\ Goes(v, w) /\ (\A i \in Own(w) : i < Len(v.stack)) /\ w.pc = "record"
      /\ \A i \in 1..Len(w.stack) : w.stack[i].tainted = v.stack[i].tainted
  BY GoesPop
<1>2. Own(w) \subseteq 1..Len(w.stack) /\ Len(w.stack) \in Nat /\ Len(v.stack) \in Nat
  BY OwnPlaces
<1>3. ASSUME NEW i \in Own(w), w.stack[i].id \in shown PROVE Told(w, i)
  <2>1. i \in 1..Len(w.stack) /\ i \in Own(v) /\ w.stack[i].id = v.stack[i].id /\ i < Len(v.stack)
    BY <1>1, <1>2 DEF Goes
  <2>2. Told(v, i)
    BY <1>3, <2>1, MarkedBy
  <2>3. v.stack[i].tainted \/ Taints # {}
    BY <2>2 DEF Told
  <2>4. i < Len(w.stack) \/ i = Len(w.stack)
    BY <1>2, <2>1
  <2>5. Taints # {} => w.call \in Taints
    BY DelegateAssumption
  <2> QED BY <1>1, <2>1, <2>3, <2>4, <2>5 DEF Told
<1>4. Asked(w)
  BY <1>1 DEF Asked
<1> QED BY <1>3, <1>4, MarkedBy

LEMMA MarkedRetop ==
  ASSUME NEW v \in ThreadRows, NEW w \in ThreadRows, NEW shown, Marked(v, shown), Goes(v, w), w.pc # "tool",
         Len(w.stack) = Len(v.stack), NEW run,
         \A i \in Own(w) : i < Len(v.stack) \/ (i = Len(v.stack) /\ w.stack[i] = run),
         \A i \in Own(w) : i < Len(v.stack) => w.stack[i] = v.stack[i],
         Told(v, Len(v.stack)) => run.tainted
  PROVE  Marked(w, shown)
<1>1. Own(w) \subseteq 1..Len(w.stack)
  BY OwnPlaces
<1>2. Len(v.stack) \in Nat
  BY OwnPlaces
<1>3. ASSUME NEW i \in Own(w), w.stack[i].id \in shown PROVE Told(w, i)
  <2>1. i \in Own(v) /\ w.stack[i].id = v.stack[i].id
    BY <1>1 DEF Goes
  <2>2. Told(v, i)
    BY <1>3, <2>1, MarkedBy
  <2>3. CASE i < Len(v.stack)
    <3>1. w.stack[i] = v.stack[i] /\ i # Len(v.stack)
      BY <1>1, <1>2, <2>3
    <3>2. v.stack[i].tainted \/ Taints # {}
      BY <2>2, <3>1 DEF Told
    <3> QED BY <2>3, <3>1, <3>2 DEF Told
  <2>4. CASE i = Len(v.stack) /\ w.stack[i] = run
    <3>1. w.stack[i].tainted
      BY <2>2, <2>4
    <3> QED BY <3>1 DEF Told
  <2> QED BY <2>3, <2>4
<1>4. Asked(w)
  BY DEF Asked
<1> QED BY <1>3, <1>4, MarkedBy

LEMMA MarkedStay ==
  ASSUME NEW v \in ThreadRows, NEW w \in ThreadRows, NEW shown, Marked(v, shown), w.stack = v.stack, Asked(w),
         v.pc \in {"think", "tool"}, w.pc \in {"tool", "record"}
  PROVE  Marked(w, shown)
<1>1. Own(w) = Own(v)
  BY GoesStay
<1>2. \A i : Told(v, i) => Told(w, i)
  BY DEF Told
<1> QED BY <1>1, <1>2, MarkedBy

LEMMA MarkedSingle ==
  ASSUME NEW w, NEW run, w.stack = <<run>>, NEW shown, w.pc = "claim" \/ (run.id \in shown => run.tainted),
         w.pc = "tool" => w.ok
  PROVE  Marked(w, shown)
<1>1. Len(w.stack) = 1 /\ 1..Len(w.stack) = {1} /\ w.stack[1] = run
  OBVIOUS
<1>2. Own(w) \subseteq {1} /\ (w.pc = "claim" => Own(w) = {})
  BY <1>1 DEF Own
<1>3. ASSUME NEW i \in Own(w), w.stack[i].id \in shown PROVE Told(w, i)
  BY <1>1, <1>2, <1>3 DEF Told
<1>4. Asked(w)
  BY DEF Asked
<1> QED BY <1>3, <1>4, MarkedBy

\* What is known of the runs that have been shown outside content.
ShownOK(shown, S, next) ==
  \A r \in shown : r < next /\ (S[r] # NoRun /\ S[r].status = "awaiting_approval" => S[r].tainted)

\* A step of thread t, seen from the other threads.
LEMMA TaintStep ==
  ASSUME BudgetInv, TaintKnown, NEW t \in Threads, Moves(t), Marked(thread'[t], seen'),
         \A u \in Threads \ {t} : seen' \cap IdsOf(thread[u]) \subseteq seen,
         ShownOK(seen', store', nextRun'), loose' = {}
  PROVE  TaintKnown'
<1>1. ASSUME NEW u \in Threads PROVE Marked(thread'[u], seen')
  <2>1. CASE u = t
    BY <2>1
  <2>2. CASE u # t
    <3> DEFINE v == thread[u]  shown == seen  more == seen'
    <3>1. v \in ThreadRows /\ thread'[u] = v
      BY <2>2 DEF Moves, BudgetInv, AgTypes
    <3>2. Marked(v, shown) /\ more \cap IdsOf(v) \subseteq shown
      BY <2>2 DEF TaintKnown
    <3>3. more = seen'
      OBVIOUS
    <3> HIDE DEF v, shown, more
    <3>4. Marked(v, more)
      BY <3>1, <3>2, MarkedOther
    <3> QED BY <3>1, <3>3, <3>4
  <2> QED BY <2>1, <2>2
<1> QED BY <1>1 DEF TaintKnown, ShownOK

\* A step that shows nothing to any run.
LEMMA TaintGoes ==
  ASSUME BudgetInv, TaintKnown, NEW t \in Threads, Moves(t), Marked(thread'[t], seen), UNCHANGED <<nextRun, seen, loose>>,
         NEW y, \/ UNCHANGED store
                \/ /\ y \in RunRows /\ store' = [store EXCEPT ![y.id] = y]
                   /\ y.status = "awaiting_approval" /\ y.id \in seen => y.tainted
  PROVE  TaintKnown'
<1>1. seen' = seen /\ loose' = {} /\ nextRun' = nextRun
  BY DEF TaintKnown
<1>2. store \in [RunIds -> {NoRun} \cup RunRows] /\ seen \subseteq RunIds
  BY DEF BudgetInv, AgTypes, AgTypeOK, OtherTypes
<1>3. \A r \in seen : r < nextRun /\ (store[r] # NoRun /\ store[r].status = "awaiting_approval" => store[r].tainted)
  BY DEF TaintKnown
<1>4. ASSUME NEW r \in seen PROVE store'[r] # NoRun /\ store'[r].status = "awaiting_approval" => store'[r].tainted
  BY <1>2, <1>3
<1>5. ShownOK(seen', store', nextRun')
  BY <1>1, <1>3, <1>4 DEF ShownOK
<1>6. Marked(thread'[t], seen') /\ \A u \in Threads \ {t} : seen' \cap IdsOf(thread[u]) \subseteq seen
  BY <1>1
<1> QED BY <1>1, <1>5, <1>6, TaintStep

LEMMA TaintEnds ==
  ASSUME BudgetInv, TaintKnown, NEW t \in Threads, thread[t].pc # "idle", NEW n \in Nat, n <= StepLimit, Ends(t, n),
         UNCHANGED <<nextRun, seen, loose>>, NEW y,
         \/ UNCHANGED store
         \/ y \in RunRows /\ store' = [store EXCEPT ![y.id] = y] /\ y.status # "awaiting_approval"
  PROVE  TaintKnown'
<1> DEFINE v == thread[t]  w == thread'[t]  shown == seen
<1>1. Moves(t) /\ v \in ThreadRows /\ w \in ThreadRows /\ v.stack # <<>> /\ Shape(v) /\ (w = IdleThread \/ Pop(v, w, n))
  BY Working DEF Ends, Moves
<1>2. Marked(v, shown)
  BY DEF TaintKnown
<1> HIDE DEF v, w, shown
<1>3. ASSUME w = IdleThread PROVE Marked(w, shown)
  BY <1>3, MarkedIdle
<1>4. ASSUME Pop(v, w, n) PROVE Marked(w, shown)
  <2>1. w.call \in Delegates
    BY <1>1, <1>4, ShapePop
  <2> QED BY <1>1, <1>2, <1>4, <2>1, MarkedPop
<1>5. Marked(w, shown)
  BY <1>1, <1>3, <1>4
<1> QED BY <1>1, <1>5, TaintGoes DEF w, shown

\* What the thread of a working run knows of the run on top.
LEMMA TopTold ==
  ASSUME BudgetInv, TaintKnown, NEW t \in Threads, thread[t].pc \notin {"idle", "claim", "close"}, Top(t).id \in seen
  PROVE  Told(thread[t], Len(thread[t].stack))
<1> DEFINE v == thread[t]  k == Len(v.stack)
<1>1. Top(t) = v.stack[k] /\ k \in Nat /\ k >= 1
  BY Working
<1>2. Marked(v, seen)
  BY DEF TaintKnown
<1>3. k \in 1..k
  <2> HIDE DEF k
  <2> QED BY <1>1
<1>4. k \in Own(v)
  BY <1>3 DEF Own
<1> QED BY <1>1, <1>2, <1>4, MarkedBy

LEMMA ToldTop ==
  ASSUME BudgetInv, NEW t \in Threads, thread[t].pc # "idle", Told(thread[t], Len(thread[t].stack))
  PROVE  Top(t).tainted \/ (thread[t].pc = "record" /\ thread[t].call \in Taints)
<1> DEFINE v == thread[t]  k == Len(v.stack)
<1>1. Top(t) = v.stack[k] /\ k \in Nat
  BY Working
<1>2. ~(k < k)
  BY <1>1
<1> QED BY <1>1, <1>2 DEF Told

LEMMA TaintBreaks ==
  ASSUME BudgetInv, TaintKnown, NEW t \in Threads, thread[t].pc \notin {"idle", "claim", "close"}, NEW run, SameRun(Top(t), run),
         Top(t).steps \subseteq run.steps, thread[t].pc = "record" => thread[t].call \in run.steps, SaveRaises(t, run),
         Top(t).tainted => run.tainted, thread[t].pc = "record" /\ thread[t].call \in Taints => run.tainted,
         UNCHANGED <<nextRun, seen, loose>>
  PROVE  TaintKnown'
<1> DEFINE v == thread[t]  w == thread'[t]  shown == seen
<1>1. /\ Moves(t) /\ UNCHANGED store /\ w \in ThreadRows /\ Goes(v, w) /\ w.pc = "broken"
      /\ \A i \in Own(w) : i < Len(v.stack) \/ (i = Len(v.stack) /\ w.stack[i] = run)
      /\ \A i \in Own(w) : i < Len(v.stack) => w.stack[i] = v.stack[i]
      /\ Len(w.stack) = Len(v.stack)
  BY BreaksGoes
<1>2. v \in ThreadRows /\ Marked(v, shown)
  BY DEF TaintKnown, BudgetInv, AgTypes
<1>3. Told(v, Len(v.stack)) => run.tainted
  BY ToldTop
<1> HIDE DEF v, w, shown
<1>4. Marked(w, shown)
  BY <1>1, <1>2, <1>3, MarkedRetop
<1> QED BY <1>1, <1>4, TaintGoes DEF w, shown

LEMMA TaintFinish ==
  ASSUME BudgetInv, TaintKnown, NEW t \in Threads, thread[t].pc \in {"think", "reject"}, NEW run, SameRun(Top(t), run), RowOK(run),
         Top(t).steps \subseteq run.steps, run.tainted = Top(t).tainted,
         NEW status \in Statuses \ {"awaiting_approval"}, Finish(t, run, status), UNCHANGED <<nextRun, seen, loose>>
  PROVE  TaintKnown'
<1> DEFINE y == Closed(run, status)  n == Cardinality(run.steps)
<1>1. CASE SaveRaises(t, run)
  BY <1>1, TaintBreaks
<1>2. CASE Saved(y) /\ thread' = [thread EXCEPT ![t] = Leave(t, n)]
  <2>1. AgTypes /\ thread[t].stack # <<>> /\ run \in RunRows
    BY Working DEF SameRun
  <2>2. n \in Nat /\ n <= StepLimit
    BY <2>1, Counts
  <2>3. y \in RunRows /\ y.status # "awaiting_approval"
    BY <2>1, EditClosed DEF SameRun
  <2>4. store' = [store EXCEPT ![y.id] = y] /\ thread' = [thread EXCEPT ![t] = Leave(t, n)] /\ thread[t].pc # "idle"
    BY <1>2 DEF Saved
  <2> HIDE DEF y, n
  <2>5. Ends(t, n)
    BY <2>1, <2>2, <2>4, Ending
  <2> QED BY <2>2, <2>3, <2>4, <2>5, TaintEnds
<1> QED BY <1>1, <1>2 DEF Finish

LEMMA TaintStop ==
  ASSUME BudgetInv, TaintKnown, NEW t \in Threads, StopDriving(t)
  PROVE  TaintKnown'
<1>1. thread[t].pc = "think" /\ \E status \in {"stopped", "failed", "done"} : Finish(t, Top(t), status)
  BY DEF StopDriving
<1>2. PICK status \in {"stopped", "failed", "done"} : Finish(t, Top(t), status)
  BY <1>1
<1>3. status \in Statuses \ {"awaiting_approval"}
  BY DEF Statuses
<1>4. SameRun(Top(t), Top(t)) /\ RowOK(Top(t))
  BY <1>1, Working DEF SameRun
<1>5. UNCHANGED <<nextRun, seen, loose>>
  BY DEF StopDriving
<1>6. thread[t].pc \in {"think", "reject"} /\ Top(t).steps \subseteq Top(t).steps
  BY <1>1
<1> QED BY <1>2, <1>3, <1>4, <1>5, <1>6, TaintFinish

LEMMA TaintReject ==
  ASSUME BudgetInv, TaintKnown, NEW t \in Threads, RejectCall(t)
  PROVE  TaintKnown'
<1>1. /\ thread[t].pc \in {"think", "reject"} /\ SameRun(Top(t), Refused(t)) /\ RowOK(Refused(t))
      /\ Top(t).steps \subseteq Refused(t).steps /\ Finish(t, Refused(t), "rejected")
      /\ Refused(t).tainted = Top(t).tainted
  BY RejectMove
<1>2. "rejected" \in Statuses \ {"awaiting_approval"}
  BY DEF Statuses
<1>3. UNCHANGED <<nextRun, seen, loose>>
  BY DEF RejectCall
<1> QED BY <1>1, <1>2, <1>3, TaintFinish

LEMMA TaintBroken ==
  ASSUME BudgetInv, TaintKnown, NEW t \in Threads, FinishBroken(t)
  PROVE  TaintKnown'
<1> DEFINE y == Closed(Top(t), "failed")  n == Cardinality(Top(t).steps)
<1>1. /\ thread[t].pc # "idle" /\ y \in RunRows /\ y.status # "awaiting_approval"
      /\ \/ store' = [store EXCEPT ![y.id] = y] /\ Ends(t, n)
         \/ UNCHANGED store /\ Ends(t, 0)
  BY BrokenMove
<1>2. n \in Nat /\ 0 \in Nat /\ n <= StepLimit /\ 0 <= StepLimit
  <2>1. Top(t) \in RunRows /\ RowOK(Top(t))
    BY <1>1, Working
  <2> QED BY <2>1, Counts, Limits
<1>3. UNCHANGED <<nextRun, seen, loose>>
  BY DEF FinishBroken
<1> HIDE DEF y, n
<1> QED BY <1>1, <1>2, <1>3, TaintEnds

LEMMA TaintUnapproved ==
  ASSUME BudgetInv, TaintKnown, NEW t \in Threads, StopUnapproved(t)
  PROVE  TaintKnown'
<1> DEFINE y == Closed(store[Top(t).id], "stopped")  n == Cardinality(Top(t).steps)
<1>1. /\ thread[t].pc # "idle" /\ y \in RunRows /\ y.status # "awaiting_approval"
      /\ store' = [store EXCEPT ![y.id] = y] /\ Ends(t, n)
  BY UnapprovedMove
<1>2. n \in Nat /\ n <= StepLimit
  <2>1. Top(t) \in RunRows /\ RowOK(Top(t))
    BY <1>1, Working
  <2> QED BY <2>1, Counts
<1>3. UNCHANGED <<nextRun, seen, loose>>
  BY DEF StopUnapproved
<1> HIDE DEF y, n
<1> QED BY <1>1, <1>2, <1>3, TaintEnds

LEMMA TaintStays ==
  ASSUME BudgetInv, TaintKnown, NEW t \in Threads, thread[t].pc \in {"think", "tool"}, NEW pc \in {"tool", "record"}, NEW c, NEW ok,
         Stays(t, pc, c, ok), pc = "tool" /\ ~ok /\ c \in Outbound => ~Top(t).tainted,
         UNCHANGED <<store, nextRun, seen, loose>>
  PROVE  TaintKnown'
<1> DEFINE v == thread[t]  w == thread'[t]  shown == seen
<1>1. Moves(t) /\ w \in ThreadRows /\ w.stack = v.stack /\ w.pc = pc /\ w.call = c /\ w.ok = ok
  BY StaysGoes DEF Stays
<1>2. v \in ThreadRows /\ Marked(v, shown)
  BY DEF TaintKnown, BudgetInv, AgTypes
<1>3. Last(v.stack) = Top(t)
  BY DEF Top
<1>4. Asked(w)
  BY <1>1, <1>3 DEF Asked
<1> HIDE DEF v, w, shown
<1>5. v.pc \in {"think", "tool"}
  BY DEF v
<1>6. Marked(w, shown)
  BY <1>1, <1>2, <1>4, <1>5, MarkedStay
<1> QED BY <1>1, <1>6, TaintGoes DEF w, shown

LEMMA TaintTake ==
  ASSUME BudgetInv, TaintKnown, NEW t \in Threads, NEW c \in Calls, TakeAction(t, c)
  PROVE  TaintKnown'
<1> DEFINE ok == FALSE  pc == "tool"
<1>1. Stays(t, pc, c, ok)
  BY TakeMove
<1>2. /\ thread[t].pc = "think" /\ UNCHANGED <<store, nextRun, seen, loose>> /\ pc \in {"tool", "record"}
      /\ c \in Outbound => ~Top(t).tainted
  BY DEF TakeAction, NeedsApproval
<1> HIDE DEF ok, pc
<1> QED BY <1>1, <1>2, TaintStays

LEMMA TaintRefused ==
  ASSUME BudgetInv, TaintKnown, NEW t \in Threads, DelegateRefused(t)
  PROVE  TaintKnown'
<1> DEFINE c == thread[t].call  ok == thread[t].ok  pc == "record"
<1>1. Stays(t, pc, c, ok)
  BY ToolMove
<1>2. thread[t].pc = "tool" /\ UNCHANGED <<store, nextRun, seen, loose>> /\ pc \in {"tool", "record"} /\ pc # "tool"
  BY DEF DelegateRefused
<1> HIDE DEF ok, pc, c
<1> QED BY <1>1, <1>2, TaintStays

LEMMA TaintRetops ==
  ASSUME BudgetInv, TaintKnown, NEW t \in Threads, thread[t].pc \in {"think", "record"}, NEW run, SameRun(Top(t), run),
         Top(t).steps \subseteq run.steps, thread[t].pc = "record" => thread[t].call \in run.steps,
         Top(t).tainted => run.tainted, thread[t].pc = "record" /\ thread[t].call \in Taints => run.tainted,
         NEW pc \in {"think", "close"}, NEW c, NEW ok, Retops(t, run, pc, c, ok),
         store' = [store EXCEPT ![run.id] = run], UNCHANGED <<nextRun, seen, loose>>
  PROVE  TaintKnown'
<1> DEFINE v == thread[t]  w == thread'[t]  shown == seen
<1>1. /\ Moves(t) /\ w \in ThreadRows /\ Goes(v, w)
      /\ \A i \in Own(w) : i < Len(v.stack) \/ (i = Len(v.stack) /\ w.stack[i] = run)
      /\ \A i \in Own(w) : i < Len(v.stack) => w.stack[i] = v.stack[i]
      /\ Len(w.stack) = Len(v.stack)
  BY RetopsGoes
<1>2. v \in ThreadRows /\ Marked(v, shown)
  BY DEF TaintKnown, BudgetInv, AgTypes
<1>3. Told(v, Len(v.stack)) => run.tainted
  BY ToldTop
<1>4. w.pc # "tool"
  BY DEF Retops
<1>5. Top(t).id \in seen => run.tainted
  <2>1. thread[t].pc \notin {"idle", "claim", "close"}
    OBVIOUS
  <2> QED BY <1>3, <2>1, TopTold
<1>6. run \in RunRows /\ run.id = Top(t).id
  BY DEF SameRun
<1> HIDE DEF v, w, shown
<1>7. Marked(w, shown)
  BY <1>1, <1>2, <1>3, <1>4, MarkedRetop
<1> QED BY <1>1, <1>5, <1>6, <1>7, TaintGoes DEF w, shown

LEMMA TaintRecord ==
  ASSUME BudgetInv, TaintKnown, NEW t \in Threads, RecordStep(t)
  PROVE  TaintKnown'
<1> DEFINE y == Recorded(Top(t), thread[t].call)  ok == FALSE  pc == "think"
<1>1. /\ thread[t].pc = "record" /\ SameRun(Top(t), y)
      /\ Top(t).steps \subseteq y.steps /\ thread[t].call \in y.steps
      /\ y.tainted = (Top(t).tainted \/ thread[t].call \in Taints)
      /\ \/ SaveRaises(t, y)
         \/ store' = [store EXCEPT ![y.id] = y] /\ Retops(t, y, pc, NoCall, ok)
  BY RecordMove
<1>2. UNCHANGED <<nextRun, seen, loose>> /\ pc \in {"think", "close"}
  BY DEF RecordStep
<1> HIDE DEF y, ok, pc
<1>3. (Top(t).tainted => y.tainted) /\ (thread[t].call \in Taints => y.tainted)
  BY <1>1
<1>4. thread[t].pc \notin {"idle", "claim", "close"} /\ thread[t].pc \in {"think", "record"}
  BY <1>1
<1> QED BY <1>1, <1>2, <1>3, <1>4, TaintBreaks, TaintRetops

LEMMA TaintPause ==
  ASSUME BudgetInv, TaintKnown, NEW t \in Threads, NEW c \in Calls, Pause(t, c)
  PROVE  TaintKnown'
<1> DEFINE y == Paused(t, c)  pc == "close"  k == thread[t].call  ok == thread[t].ok
<1>1. /\ thread[t].pc = "think" /\ SameRun(Top(t), y) /\ y.steps = Top(t).steps /\ y.tainted = Top(t).tainted
      /\ \/ SaveRaises(t, y)
         \/ /\ store' = [store EXCEPT ![y.id] = y]
            /\ \/ Moves(t) /\ thread'[t] = IdleThread
               \/ Retops(t, y, pc, k, ok)
  BY PauseMove
<1>2. UNCHANGED <<nextRun, seen, loose>> /\ pc \in {"think", "close"}
  BY DEF Pause
<1>3. Top(t).id \in seen => Top(t).tainted
  <2>1. thread[t].pc \notin {"idle", "claim", "close"} /\ thread[t].pc # "idle"
    BY <1>1
  <2> QED BY <1>1, <2>1, TopTold, ToldTop
<1> HIDE DEF y, pc, k, ok
<1>4. thread[t].pc \notin {"idle", "claim", "close"} /\ thread[t].pc \in {"think", "record"} /\ thread[t].pc # "record"
  BY <1>1
<1>5. y \in RunRows /\ y.id = Top(t).id
  BY <1>1 DEF SameRun
<1>6. CASE SaveRaises(t, y)
  BY <1>1, <1>2, <1>4, <1>6, TaintBreaks
<1>7. CASE store' = [store EXCEPT ![y.id] = y] /\ Moves(t) /\ thread'[t] = IdleThread
  <2>1. Marked(thread'[t], seen)
    BY <1>7, MarkedIdle
  <2> QED BY <1>1, <1>2, <1>3, <1>5, <1>7, <2>1, TaintGoes
<1>8. CASE store' = [store EXCEPT ![y.id] = y] /\ Retops(t, y, pc, k, ok)
  BY <1>1, <1>2, <1>4, <1>8, TaintRetops
<1> QED BY <1>1, <1>6, <1>7, <1>8

LEMMA TaintResume ==
  ASSUME BudgetInv, TaintKnown, NEW t \in Threads, NEW r \in RunIds, NEW ok \in BOOLEAN, Resume(t, r, ok)
  PROVE  TaintKnown'
<1> DEFINE x == store[r]  w == thread'[t]
<1>1. Singles(t, x, "claim", x.pending, ok)
  BY ResumeMove
<1>2. Moves(t) /\ w.stack = <<x>> /\ w.pc = "claim" /\ w.pc # "tool"
  BY <1>1 DEF Singles
<1>3. UNCHANGED <<store, nextRun, seen, loose>>
  BY DEF Resume
<1> HIDE DEF x, w
<1>4. Marked(w, seen)
  BY <1>2, MarkedSingle
<1> QED BY <1>2, <1>3, <1>4, TaintGoes DEF w

\* The claim of a run that has not been overtaken: the copy is the run that waits.
LEMMA TaintClaim ==
  ASSUME BudgetInv, TaintKnown, atomic, NEW t \in Threads, Claim(t), overtaken' = {}
  PROVE  TaintKnown'
<1> DEFINE v == thread[t]  w == thread'[t]  x == Top(t)  y == Claimed(t)  r == x.id  pc == IF v.ok THEN "tool" ELSE "reject"
<1>1. /\ SameRun(x, y) /\ y.status = "running" /\ y.tainted = x.tainted /\ store[r] # NoRun
      /\ \/ /\ Claimable(r) /\ store' = [store EXCEPT ![y.id] = y] /\ Singles(t, y, pc, v.call, v.ok)
            /\ overtaken' = IF store[r].status = "awaiting_approval" /\ store[r] # x THEN overtaken \cup {r} ELSE overtaken
         \/ Moves(t) /\ w = IdleThread /\ UNCHANGED <<store, overtaken>>
  BY ClaimMove
<1>2. UNCHANGED <<nextRun, seen, loose>>
  BY DEF Claim
<1>3. CASE Moves(t) /\ w = IdleThread /\ UNCHANGED <<store, overtaken>>
  <2>1. Marked(w, seen)
    BY <1>3, MarkedIdle
  <2> HIDE DEF w
  <2> QED BY <1>2, <1>3, <2>1, TaintGoes DEF w
<1>4. CASE /\ Claimable(r) /\ store' = [store EXCEPT ![y.id] = y] /\ Singles(t, y, pc, v.call, v.ok)
           /\ overtaken' = IF store[r].status = "awaiting_approval" /\ store[r] # x THEN overtaken \cup {r} ELSE overtaken
  <2>1. store[r].status = "awaiting_approval" /\ Moves(t) /\ w.stack = <<y>> /\ w.pc = pc /\ w.ok = v.ok
    BY <1>4 DEF Claimable, Singles
  <2>2. store[r] = x
    BY <1>4, <2>1
  <2>3. y \in RunRows /\ y.id = r /\ y.status # "awaiting_approval" /\ (w.pc = "tool" => w.ok)
    BY <1>1, <2>1 DEF SameRun
  <2>4. r \in seen => x.tainted
    BY <1>1, <2>1, <2>2 DEF TaintKnown
  <2> HIDE DEF v, w, x, y, r, pc
  <2>5. y.id \in seen => y.tainted
    BY <1>1, <2>3, <2>4
  <2>6. Marked(w, seen)
    BY <2>1, <2>3, <2>5, MarkedSingle
  <2> QED BY <1>2, <1>4, <2>1, <2>3, <2>6, TaintGoes DEF w
<1> QED BY <1>1, <1>3, <1>4

\* The next run id has been shown nothing.
LEMMA Unshown == ASSUME BudgetInv, TaintKnown, nextRun \in RunIds PROVE nextRun \in Nat /\ nextRun \notin seen /\ seen \subseteq Nat
<1>1. nextRun \in Nat /\ seen \subseteq Nat
  BY AgentAssumption DEF BudgetInv, AgTypes, OtherTypes
<1>2. \A r \in seen : r < nextRun
  BY DEF TaintKnown
<1> QED BY <1>1, <1>2

\* A step that takes up the next run, which may have been shown what its thread has.
LEMMA TaintNew ==
  ASSUME BudgetInv, Owned, TaintKnown, NEW t \in Threads, Moves(t), nextRun \in RunIds, Marked(thread'[t], seen'),
         seen' \subseteq seen \cup {nextRun}, nextRun' = nextRun + 1, UNCHANGED <<store, loose>>
  PROVE  TaintKnown'
<1>1. nextRun \in Nat /\ seen \subseteq Nat
  BY Unshown
<1>2. store[nextRun] = NoRun /\ \A u \in Threads : nextRun \notin IdsOf(thread[u])
  BY FreshId
<1>3. \A r \in seen : r < nextRun /\ (store[r] # NoRun /\ store[r].status = "awaiting_approval" => store[r].tainted)
  BY DEF TaintKnown
<1>4. \A r \in seen' : r < nextRun + 1 /\ (store[r] # NoRun /\ store[r].status = "awaiting_approval" => store[r].tainted)
  BY <1>1, <1>2, <1>3
<1>5. ShownOK(seen', store', nextRun') /\ loose' = {}
  BY <1>4 DEF ShownOK, TaintKnown
<1>6. \A u \in Threads \ {t} : seen' \cap IdsOf(thread[u]) \subseteq seen
  BY <1>2
<1> QED BY <1>5, <1>6, TaintStep

LEMMA TaintRun ==
  ASSUME BudgetInv, Owned, TaintKnown, NEW t \in Threads, NEW tainted \in BOOLEAN, Run(t, tainted)
  PROVE  TaintKnown'
<1> DEFINE new == NewRun(nextRun, tainted)  w == thread'[t]  shown == seen'
<1>1. nextRun \in RunIds /\ Singles(t, new, "think", NoCall, FALSE)
  BY RunMove
<1>2. new.id = nextRun /\ new.tainted = tainted
  BY DEF NewRun
<1>3. Moves(t) /\ w.stack = <<new>> /\ w.pc = "think" /\ w.pc # "tool"
  BY <1>1 DEF Singles
<1>4. /\ nextRun' = nextRun + 1 /\ UNCHANGED <<store, loose>>
      /\ shown = IF tainted THEN seen \cup {nextRun} ELSE seen
  BY DEF Run
<1>5. nextRun \notin seen
  BY <1>1, Unshown
<1>6. new.id \in shown => new.tainted
  BY <1>2, <1>4, <1>5
<1>7. shown = seen' /\ shown \subseteq seen \cup {nextRun}
  BY <1>4
<1> HIDE DEF new, w, shown
<1>8. Marked(w, shown)
  BY <1>3, <1>6, MarkedSingle
<1>9. Marked(thread'[t], seen') /\ seen' \subseteq seen \cup {nextRun}
  BY <1>7, <1>8 DEF w
<1> QED BY <1>1, <1>3, <1>4, <1>9, TaintNew

LEMMA TaintDelegate ==
  ASSUME BudgetInv, Owned, TaintKnown, NEW t \in Threads, Delegate(t)
  PROVE  TaintKnown'
<1> DEFINE v == thread[t]  w == thread'[t]  x == Top(t)  new == NewRun(nextRun, x.tainted)  s == v.stack  z == w.stack  k == Len(s)
           shown == seen'
<1>1. v.pc = "tool" /\ nextRun \in RunIds /\ Moves(t) /\ Push(v, w, new) /\ w.pc = "think"
  BY DelegateMove
<1>2. v \in ThreadRows /\ w \in ThreadRows /\ k \in Nat /\ x = s[k]
  BY <1>1, Working DEF Moves
<1>3. new.id = nextRun /\ new.tainted = x.tainted
  BY DEF NewRun
<1>4. /\ nextRun' = nextRun + 1 /\ UNCHANGED <<store, loose>>
      /\ shown = IF x.id \in seen THEN seen \cup {nextRun} ELSE seen
  BY DEF Delegate
<1>5. nextRun \notin seen /\ \A u \in Threads : nextRun \notin IdsOf(thread[u])
  BY <1>1, Unshown, FreshId
<1>6. /\ Len(z) = k + 1 /\ z[k + 1] = new
      /\ \A i \in 1..k : z[i].id = s[i].id /\ z[i].tainted = s[i].tainted
  BY <1>1 DEF Push
<1>7. Own(v) = 1..k /\ Own(w) = 1..(k + 1)
  <2>1. Own(v) = {i \in 1..k : TRUE} /\ Own(w) = {i \in 1..Len(z) : TRUE}
    BY <1>1 DEF Own
  <2> QED BY <1>6, <2>1
<1>8. x.id \in seen => x.tainted
  <2>1. v.pc \notin {"idle", "claim", "close"} /\ v.pc # "idle" /\ v.pc # "record"
    BY <1>1
  <2> QED BY <2>1, TopTold, ToldTop
<1>9. Marked(v, seen) /\ nextRun \notin IdsOf(v)
  BY <1>5 DEF TaintKnown
<1>10. shown = seen' /\ shown \subseteq seen \cup {nextRun}
  BY <1>4
<1>11. \A i \in 1..k : s[i].id \in IdsOf(v)
  BY <1>7 DEF IdsOf
<1> HIDE DEF v, w, x, new, s, z, k, shown
<1>12. ASSUME NEW i \in 1..(k + 1), z[i].id \in shown PROVE Told(w, i)
  <2>1. CASE i = k + 1
    <3>1. x.id \in seen
      BY <1>3, <1>4, <1>5, <1>6, <1>12, <2>1
    <3>2. z[i].tainted
      BY <1>3, <1>6, <1>8, <2>1, <3>1
    <3> QED BY <3>2 DEF Told, z
  <2>2. CASE i # k + 1
    <3>1. i \in 1..k /\ i < k + 1
      BY <1>2, <2>2
    <3>2. z[i].id = s[i].id /\ z[i].tainted = s[i].tainted /\ s[i].id \in seen
      BY <1>6, <1>9, <1>10, <1>11, <1>12, <3>1
    <3>3. Told(v, i)
      BY <1>7, <1>9, <3>1, <3>2, MarkedBy DEF s
    <3>4. s[i].tainted \/ Taints # {}
      BY <3>3 DEF Told, s
    <3> QED BY <1>6, <3>1, <3>2, <3>4 DEF Told, z
  <2> QED BY <2>1, <2>2
<1>13. Asked(w)
  BY <1>1 DEF Asked
<1>14. Marked(w, shown)
  BY <1>7, <1>12, <1>13, MarkedBy DEF z
<1>15. Marked(thread'[t], seen') /\ seen' \subseteq seen \cup {nextRun}
  BY <1>10, <1>14 DEF w
<1> QED BY <1>1, <1>4, <1>15, TaintNew

\* An effect of a tool: what it reads reaches every run on the stack, and an outbound one that a
\* tainted run has not asked about does not come to run.
LEMMA TaintEffect ==
  ASSUME BudgetInv, Owned, TaintKnown, overtaken = {}, NEW t \in Threads, Effect(t)
  PROVE  TaintKnown'
<1> DEFINE v == thread[t]  w == thread'[t]  x == Top(t)  s == v.stack  k == Len(s)  c == v.call  shown == seen'
           pc == "record"  ok == v.ok  ids == {s[i].id : i \in 1..k}
<1>1. AgTypes /\ v \in ThreadRows /\ x \in RunRows /\ x = s[k] /\ k \in Nat /\ v.pc = "tool" /\ Last(s) = x
  BY Working DEF Effect
<1>2. Stays(t, pc, c, ok) /\ pc \in {"tool", "record"} /\ pc = "record"
  BY ToolMove
<1>3. w.stack = s /\ w.pc = pc /\ w.call = c
  BY <1>2 DEF Stays
<1>4. /\ UNCHANGED <<store, nextRun>> /\ shown = IF c \in Taints THEN seen \cup ids ELSE seen
      /\ loose' = IF c \in Outbound /\ x.id \in seen /\ ~ok THEN loose \cup {x.id} ELSE loose
  BY DEF Effect
<1>5. Marked(v, seen) /\ loose = {} /\ Share(v, store, nextRun, ran, {})
  BY DEF TaintKnown, Owned
<1>6. x.id \in seen => x.tainted
  <2>1. v.pc \notin {"idle", "claim", "close"} /\ v.pc # "idle" /\ v.pc # "record"
    BY <1>1
  <2> QED BY <2>1, TopTold, ToldTop
<1>7. loose' = {}
  BY <1>1, <1>4, <1>5, <1>6 DEF Marked
<1> HIDE DEF pc, ok
<1>8. Moves(t) /\ Own(w) = 1..k /\ Own(v) = 1..k
  BY <1>1, <1>2, StaysGoes
<1>9. IdsOf(v) = ids
  BY <1>8 DEF IdsOf
<1>10. \A u \in Threads \ {t} : ids \cap IdsOf(thread[u]) = {}
  <2>1. Apart(thread, {})
    BY DEF Owned
  <2> QED BY <1>9, <2>1 DEF Apart
<1>11. /\ \A i \in 1..k : s[i].id < nextRun
       /\ \A i \in 1..k : store[s[i].id] # NoRun => store[s[i].id].status # "awaiting_approval"
  BY <1>5, <1>8 DEF Share
<1>12. \A r \in ids : r < nextRun /\ ~(store[r] # NoRun /\ store[r].status = "awaiting_approval")
  BY <1>11
<1>13. \A r \in seen : r < nextRun /\ (store[r] # NoRun /\ store[r].status = "awaiting_approval" => store[r].tainted)
  BY DEF TaintKnown
<1>14. shown = seen'
  OBVIOUS
<1> HIDE DEF v, w, x, s, k, c, shown, ids
<1>15. ShownOK(shown, store, nextRun)
  BY <1>4, <1>12, <1>13 DEF ShownOK
<1>16. \A u \in Threads \ {t} : shown \cap IdsOf(thread[u]) \subseteq seen
  BY <1>4, <1>10
<1>17. ASSUME NEW i \in 1..k, s[i].id \in shown PROVE Told(w, i)
  <2>1. CASE c \in Taints
    <3>1. i < k \/ i = k
      BY <1>1
    <3> QED BY <1>2, <1>3, <2>1, <3>1 DEF Told, k
  <2>2. CASE c \notin Taints
    <3>1. Told(v, i)
      BY <1>4, <1>5, <1>8, <1>17, <2>2, MarkedBy DEF s
    <3> QED BY <1>1, <1>3, <3>1 DEF Told, k, s
  <2> QED BY <2>1, <2>2
<1>18. Asked(w)
  BY <1>2, <1>3 DEF Asked
<1>19. Marked(w, shown)
  BY <1>3, <1>8, <1>17, <1>18, MarkedBy
<1>20. store' = store /\ nextRun' = nextRun
  BY <1>4
<1>21. /\ Marked(thread'[t], seen') /\ ShownOK(seen', store', nextRun')
       /\ \A u \in Threads \ {t} : seen' \cap IdsOf(thread[u]) \subseteq seen
  BY <1>14, <1>15, <1>16, <1>19, <1>20 DEF w
<1> QED BY <1>7, <1>8, <1>21, TaintStep

LEMMA TaintCrash == ASSUME TaintKnown, AgCrash PROVE TaintKnown'
<1>1. /\ thread' = [t \in Threads |-> IdleThread]
      /\ store' = store /\ nextRun' = nextRun /\ seen' = seen /\ loose' = loose
  BY DEF AgCrash
<1>2. Marked(IdleThread, seen)
  BY MarkedIdle
<1>3. \A t \in Threads : Marked(thread'[t], seen')
  BY <1>1, <1>2
<1> QED BY <1>1, <1>3 DEF TaintKnown

LEMMA TaintStart == AgInit => TaintKnown
<1> SUFFICES ASSUME AgInit PROVE TaintKnown
  OBVIOUS
<1>1. thread = [t \in Threads |-> IdleThread] /\ seen = {} /\ loose = {}
  BY DEF AgInit
<1>2. Marked(IdleThread, seen)
  BY MarkedIdle
<1> QED BY <1>1, <1>2 DEF TaintKnown

\* No run ceases to be one that was overtaken.
LEMMA OvertakenGrows == ASSUME BudgetInv, AgNext PROVE overtaken \subseteq overtaken' /\ atomic' = atomic
<1>1. atomic' = atomic
  BY DEF AgNext, AgStep, StopDriving, Effect, DelegateRefused, Delegate, StopUnapproved, RecordStep, Claim,
         RejectCall, FinishBroken, TakeAction, Pause, Run, Resume, AgCrash
<1>2. ASSUME NEW t \in Threads, Claim(t) PROVE overtaken \subseteq overtaken'
  BY <1>2, ClaimMove
<1>3. (\E t \in Threads : Claim(t)) \/ overtaken' = overtaken
  BY DEF AgNext, AgStep, StopDriving, Effect, DelegateRefused, Delegate, StopUnapproved, RecordStep,
         RejectCall, FinishBroken, TakeAction, Pause, Run, Resume, AgCrash
<1> QED BY <1>1, <1>2, <1>3

LEMMA TaintKept == BudgetInv /\ OwnerInv /\ TaintInv /\ [AgNext]_agVars => TaintInv'
<1> SUFFICES ASSUME BudgetInv, OwnerInv, TaintInv, [AgNext]_agVars, atomic', overtaken' = {} PROVE TaintKnown'
  BY DEF TaintInv
<1>1. CASE UNCHANGED agVars
  BY <1>1 DEF agVars, TaintInv, TaintKnown
<1>2. CASE AgNext
  <2>1. atomic /\ overtaken = {} /\ Owned /\ TaintKnown
    BY <1>2, OvertakenGrows DEF OwnerInv, TaintInv
  <2>2. ASSUME NEW t \in Threads, AgStep(t) PROVE TaintKnown'
    BY <2>1, <2>2, TaintStop, TaintEffect, TaintRefused, TaintDelegate, TaintUnapproved, TaintRecord, TaintClaim,
       TaintReject, TaintBroken DEF AgStep
  <2>3. ASSUME NEW t \in Threads, NEW c \in Calls, TakeAction(t, c) \/ Pause(t, c) PROVE TaintKnown'
    BY <2>1, <2>3, TaintTake, TaintPause
  <2>4. ASSUME NEW t \in Threads, NEW tainted \in BOOLEAN, Run(t, tainted) PROVE TaintKnown'
    BY <2>1, <2>4, TaintRun
  <2>5. ASSUME NEW t \in Threads, NEW r \in RunIds, NEW ok \in BOOLEAN, Resume(t, r, ok) PROVE TaintKnown'
    BY <2>1, <2>5, TaintResume
  <2>6. CASE AgCrash
    BY <2>1, <2>6, TaintCrash
  <2> QED BY <1>2, <2>2, <2>3, <2>4, <2>5, <2>6 DEF AgNext
<1> QED BY <1>1, <1>2

\* The taint rule of agent.py and delegate.py: with a store that can claim atomically, no outbound
\* call of a run that has been shown outside content has its effect unless a decision approved
\* it, through pauses, children, crashes and failed saves, as long as no resume() overtakes another.
THEOREM NothingGoesLoose == AgSpec => []OutboundApproved
<1>1. AgInit => BudgetInv /\ OwnerInv /\ TaintInv
  BY BudgetStart, OwnerStart, TaintStart DEF OwnerInv, TaintInv
<1>2. (BudgetInv /\ OwnerInv /\ TaintInv) /\ [AgNext]_agVars => (BudgetInv /\ OwnerInv /\ TaintInv)'
  BY BudgetKept, OwnerKept, TaintKept
<1>3. TaintInv => OutboundApproved
  BY DEF TaintInv, TaintKnown, OutboundApproved
<1> QED BY <1>1, <1>2, <1>3, PTL DEF AgSpec

\* What an agent run promises: the taint rule, a call's effect at most once and the budget of the
\* delegate tool, for any number of threads, runs, calls and failed saves.
THEOREM AgentRunsHold == AgSpec => []AgentRunsAreSound
BY NothingGoesLoose, EffectIsOnce, BudgetHolds, PTL DEF AgentRunsAreSound
=============================================================================
