---------------------------- MODULE ServerProofs ----------------------------
(***************************************************************************)
(* What holds of the parts of the server for any number of clients,        *)
(* threads, grants and failures: the sandbox runner with the file grants,  *)
(* the queue of the background sync, the throttle of API keys, the chat    *)
(* channels and telephone calls.                                           *)
(***************************************************************************)
EXTENDS AuthThrottle, Sandbox, DataSync, Conversations, Pipeline, FiniteSetTheorems, SequenceTheorems,
        WellFoundedInduction, TLAPS

-----------------------------------------------------------------------------
(* The sandbox: the invariant. *)

Busy == {"admit", "create", "start", "poll", "delete", "finish"}
Holding == {"start", "poll", "delete"}

BoxRequests == [pc : {"idle", "arrived", "reply"} \cup Busy, kind : {"none", "run", "files", "stage"},
                app : Apps \cup {"none"}, grant : Grants \cup {"none"},
                plan : Seq(Folders \cup StepNames), seen : SUBSET Folders, replied : BOOLEAN]

ContainerRows == [of : Handlers \cup {"nobody"}, nr : Nat, folder : Folders \cup StepNames,
                  runs : BOOLEAN, lawful : BOOLEAN]

BoxTypes ==
  /\ grants \in [Grants -> GrantRows \cup {NoGrant}] /\ switch \in BOOLEAN /\ knownNames \subseteq Grants
  /\ handler \in [Handlers -> BoxRequests]
  /\ runLock \in Handlers \cup {Free}
  /\ containers \subseteq ContainerRows
  /\ runnerUp \in BOOLEAN /\ dockerFaults \in Nat /\ stops \in Nat

\* The folders of a plan were granted while the request was under way.
PlanIsSeen(r) == \A i \in DOMAIN r.plan : r.plan[i] \in Folders => r.plan[i] \in r.seen

\* A request has seen what is granted now, and the lock is its own from its admission to its end.
RequestFits(r) ==
  /\ r.pc # "idle" => GrantedIn(grants, switch) \subseteq r.seen
  /\ PlanIsSeen(r)
  /\ r.pc \in {"create"} \cup Holding => r.plan # <<>>
  /\ r.kind = "stage" => ~r.replied

LockOK(h) ==
  /\ handler[h].pc \in Busy <=> runLock = h
  /\ handler[h].pc # "idle" => runnerUp

Strays == {c \in containers : c.of = "nobody"}

\* Every Docker call that failed left one container behind at most, and a runner that was killed
\* one more; every other container is the one of the run that holds the lock.
ContainersOK ==
  /\ IsFiniteSet(Strays)
  /\ Cardinality(Strays) <= dockerFaults + (IF runnerUp THEN 0 ELSE 1)
  /\ \A c \in containers : c.lawful
  /\ \A c \in containers \ Strays : c.of = runLock /\ handler[c.of].pc \in Holding
  /\ \A c, d \in containers \ Strays : c = d

BoxInv ==
  /\ BoxTypes
  /\ \A h \in Handlers : RequestFits(handler[h]) /\ LockOK(h)
  /\ ContainersOK /\ ~refusedByOwn

-----------------------------------------------------------------------------
(* The sandbox: requests. *)

LEMMA NoRequestFits ==
  /\ NoRequest \in BoxRequests /\ NoRequest.pc = "idle" /\ RequestFits(NoRequest)
<1>1. /\ NoRequest.pc = "idle" /\ NoRequest.plan = <<>> /\ NoRequest.kind = "none"
      /\ NoRequest \in BoxRequests
  BY DEF NoRequest, BoxRequests
<1> QED BY <1>1 DEF RequestFits, PlanIsSeen, Holding

\* The pieces of a request that a step changes.
LEMMA WithPc ==
  ASSUME NEW r \in BoxRequests, NEW pc \in {"idle", "arrived", "reply"} \cup Busy
  PROVE  /\ [r EXCEPT !.pc = pc] \in BoxRequests
         /\ [r EXCEPT !.pc = pc] = [pc |-> pc, kind |-> r.kind, app |-> r.app, grant |-> r.grant,
                                    plan |-> r.plan, seen |-> r.seen, replied |-> r.replied]
<1>1. r = [pc |-> r.pc, kind |-> r.kind, app |-> r.app, grant |-> r.grant,
           plan |-> r.plan, seen |-> r.seen, replied |-> r.replied]
  BY DEF BoxRequests
<1> DEFINE r1 == [r EXCEPT !.pc = pc]
<1>2. r1 = [pc |-> pc, kind |-> r.kind, app |-> r.app, grant |-> r.grant,
            plan |-> r.plan, seen |-> r.seen, replied |-> r.replied]
  BY <1>1
<1>3. r1 \in BoxRequests
  BY <1>2 DEF BoxRequests
<1> QED BY <1>2, <1>3

LEMMA WithPlan ==
  ASSUME NEW r \in BoxRequests, NEW plan \in Seq(Folders \cup StepNames)
  PROVE  /\ [r EXCEPT !.plan = plan] \in BoxRequests
         /\ [r EXCEPT !.plan = plan] = [pc |-> r.pc, kind |-> r.kind, app |-> r.app, grant |-> r.grant,
                                        plan |-> plan, seen |-> r.seen, replied |-> r.replied]
<1>1. r = [pc |-> r.pc, kind |-> r.kind, app |-> r.app, grant |-> r.grant,
           plan |-> r.plan, seen |-> r.seen, replied |-> r.replied]
  BY DEF BoxRequests
<1> DEFINE r1 == [r EXCEPT !.plan = plan]
<1>2. r1 = [pc |-> r.pc, kind |-> r.kind, app |-> r.app, grant |-> r.grant,
            plan |-> plan, seen |-> r.seen, replied |-> r.replied]
  BY <1>1
<1>3. r1 \in BoxRequests
  BY <1>2 DEF BoxRequests
<1> QED BY <1>2, <1>3

\* One or two fields of one thread's request, set by one EXCEPT.
LEMMA SetPc ==
  ASSUME NEW S, NEW f, NEW h \in S, DOMAIN f = S, NEW pc
  PROVE  [f EXCEPT ![h].pc = pc] = [f EXCEPT ![h] = [f[h] EXCEPT !.pc = pc]]
OBVIOUS

LEMMA SetPcAndPlan ==
  ASSUME NEW S, NEW f, NEW h \in S, DOMAIN f = S, NEW pc, NEW plan
  PROVE  [f EXCEPT ![h].pc = pc, ![h].plan = plan] = [f EXCEPT ![h] = [[f[h] EXCEPT !.pc = pc] EXCEPT !.plan = plan]]
<1> DEFINE r1 == [f[h] EXCEPT !.pc = pc]
           g1 == [f EXCEPT ![h].pc = pc]
<1>1. g1 = [f EXCEPT ![h] = r1]
  OBVIOUS
<1>2. [f EXCEPT ![h].pc = pc, ![h].plan = plan] = [g1 EXCEPT ![h].plan = plan]
  OBVIOUS
<1> HIDE DEF g1, r1
<1>3. g1[h] = r1 /\ DOMAIN g1 = S
  BY <1>1
<1>4. [g1 EXCEPT ![h].plan = plan] = [g1 EXCEPT ![h] = [r1 EXCEPT !.plan = plan]]
  BY <1>3
<1> DEFINE r2 == [r1 EXCEPT !.plan = plan]
<1> HIDE DEF r2
<1>5. [g1 EXCEPT ![h] = r2] = [f EXCEPT ![h] = r2]
  BY <1>1
<1> QED BY <1>1, <1>2, <1>4, <1>5 DEF g1, r1, r2

\* A thread's request at another place of its work, and with another plan.
Moved(h, pc) == [handler EXCEPT ![h].pc = pc]
Planned(h, pc, plan) == [handler EXCEPT ![h].pc = pc, ![h].plan = plan]

LEMMA AtPc ==
  ASSUME handler \in [Handlers -> BoxRequests], NEW h \in Handlers,
         NEW pc \in {"idle", "arrived", "reply"} \cup Busy
  PROVE  \E r \in BoxRequests :
           /\ Moved(h, pc) = [handler EXCEPT ![h] = r]
           /\ r.pc = pc /\ r.kind = handler[h].kind /\ r.app = handler[h].app /\ r.grant = handler[h].grant
           /\ r.plan = handler[h].plan /\ r.seen = handler[h].seen /\ r.replied = handler[h].replied
<1> DEFINE r0 == handler[h]
           r == [r0 EXCEPT !.pc = pc]
<1>1. r0 \in BoxRequests /\ DOMAIN handler = Handlers
  OBVIOUS
<1>2. Moved(h, pc) = [handler EXCEPT ![h] = r]
  BY <1>1, SetPc DEF Moved
<1> HIDE DEF r0
<1>3. r \in BoxRequests /\ r = [pc |-> pc, kind |-> r0.kind, app |-> r0.app, grant |-> r0.grant,
                               plan |-> r0.plan, seen |-> r0.seen, replied |-> r0.replied]
  BY <1>1, WithPc
<1> HIDE DEF r
<1>4. /\ r.pc = pc /\ r.kind = r0.kind /\ r.app = r0.app /\ r.grant = r0.grant
      /\ r.plan = r0.plan /\ r.seen = r0.seen /\ r.replied = r0.replied
  BY <1>3
<1> QED BY <1>2, <1>3, <1>4 DEF r0

LEMMA AtPcWithPlan ==
  ASSUME handler \in [Handlers -> BoxRequests], NEW h \in Handlers,
         NEW pc \in {"idle", "arrived", "reply"} \cup Busy, NEW plan \in Seq(Folders \cup StepNames)
  PROVE  \E r \in BoxRequests :
           /\ Planned(h, pc, plan) = [handler EXCEPT ![h] = r]
           /\ r.pc = pc /\ r.kind = handler[h].kind /\ r.app = handler[h].app /\ r.grant = handler[h].grant
           /\ r.plan = plan /\ r.seen = handler[h].seen /\ r.replied = handler[h].replied
<1> DEFINE r0 == handler[h]
           r1 == [r0 EXCEPT !.pc = pc]
           r == [r1 EXCEPT !.plan = plan]
<1>1. r0 \in BoxRequests /\ DOMAIN handler = Handlers
  OBVIOUS
<1>2. Planned(h, pc, plan) = [handler EXCEPT ![h] = r]
  BY <1>1, SetPcAndPlan DEF Planned
<1> HIDE DEF r0
<1>3. r1 \in BoxRequests /\ r1 = [pc |-> pc, kind |-> r0.kind, app |-> r0.app, grant |-> r0.grant,
                                 plan |-> r0.plan, seen |-> r0.seen, replied |-> r0.replied]
  BY <1>1, WithPc
<1> HIDE DEF r1
<1>4. r \in BoxRequests /\ r = [pc |-> r1.pc, kind |-> r1.kind, app |-> r1.app, grant |-> r1.grant,
                               plan |-> plan, seen |-> r1.seen, replied |-> r1.replied]
  BY <1>3, WithPlan
<1> HIDE DEF r
<1>5. /\ r1.pc = pc /\ r1.kind = r0.kind /\ r1.app = r0.app /\ r1.grant = r0.grant
      /\ r1.seen = r0.seen /\ r1.replied = r0.replied
  BY <1>3
<1>6. /\ r.pc = pc /\ r.kind = r0.kind /\ r.app = r0.app /\ r.grant = r0.grant
      /\ r.plan = plan /\ r.seen = r0.seen /\ r.replied = r0.replied
  BY <1>4, <1>5
<1> QED BY <1>2, <1>4, <1>6 DEF r0

\* A step of one thread that leaves the grants alone.
LEMMA HandlerStep ==
  ASSUME BoxInv, NEW h \in Handlers, NEW r \in BoxRequests, handler' = [handler EXCEPT ![h] = r],
         UNCHANGED <<grants, switch, knownNames, runnerUp, stops>>, RequestFits(r),
         r.pc # "idle" => runnerUp,
         runLock' \in Handlers \cup {Free}, r.pc \in Busy <=> runLock' = h,
         \A d \in Handlers \ {h} : runLock' = d <=> runLock = d,
         containers' \subseteq ContainerRows, dockerFaults' \in Nat, ContainersOK',
         refusedByOwn' = refusedByOwn
  PROVE  BoxInv'
<1>1. handler \in [Handlers -> BoxRequests]
  BY DEF BoxInv, BoxTypes
<1>2. /\ handler' \in [Handlers -> BoxRequests] /\ handler'[h] = r
      /\ \A d \in Handlers \ {h} : handler'[d] = handler[d]
  BY <1>1
<1>3. BoxTypes'
  BY <1>2 DEF BoxInv, BoxTypes
<1>4. ASSUME NEW d \in Handlers PROVE RequestFits(handler[d])' /\ LockOK(d)'
  <2>1. grants' = grants /\ switch' = switch /\ runnerUp' = runnerUp
    OBVIOUS
  <2>2. CASE d = h
    BY <1>2, <2>1, <2>2 DEF RequestFits, LockOK
  <2>3. CASE d # h
    <3>1. handler'[d] = handler[d] /\ (runLock' = d <=> runLock = d) /\ RequestFits(handler[d]) /\ LockOK(d)
      BY <1>2, <2>3 DEF BoxInv
    <3> QED BY <2>1, <3>1 DEF RequestFits, LockOK
  <2> QED BY <2>2, <2>3
<1> QED BY <1>3, <1>4 DEF BoxInv

\* A step that moves no container, nor the request whose container there is.
LEMMA ContainersStay ==
  ASSUME BoxInv, UNCHANGED <<containers, runnerUp, dockerFaults>>,
         \A c \in containers \ Strays : runLock' = runLock /\ handler'[c.of].pc \in Holding
  PROVE  ContainersOK' /\ containers' \subseteq ContainerRows /\ dockerFaults' \in Nat
<1>1. Strays' = Strays
  BY DEF Strays
<1> QED BY <1>1 DEF BoxInv, BoxTypes, ContainersOK

\* Nothing that the invariant is about changes.
LEMMA BoxFrame ==
  ASSUME BoxInv, knownNames' \subseteq Grants,
         UNCHANGED <<grants, switch, handler, runLock, containers, refusedByOwn, runnerUp, dockerFaults, stops>>
  PROVE  BoxInv'
<1>1. Strays' = Strays
  BY DEF Strays
<1>2. BoxTypes' /\ ContainersOK'
  BY <1>1 DEF BoxInv, BoxTypes, ContainersOK
<1>3. \A h \in Handlers : RequestFits(handler[h])' /\ LockOK(h)'
  BY DEF BoxInv, RequestFits, LockOK
<1> QED BY <1>2, <1>3 DEF BoxInv

LEMMA GrantedFolders ==
  ASSUME NEW gs \in [Grants -> GrantRows \cup {NoGrant}], NEW on \in BOOLEAN
  PROVE  /\ GrantedIn(gs, on) \subseteq Folders
         /\ \A g \in ActiveIn(gs, on) : gs[g].folder \in Folders /\ gs[g].folder \in GrantedIn(gs, on)
BY DEF GrantedIn, ActiveIn, GrantRows

\* The owner's steps: what is granted from now on is seen by every request under way.
LEMMA OwnerStepHolds ==
  ASSUME BoxInv, NEW gs \in [Grants -> GrantRows \cup {NoGrant}], NEW on \in BOOLEAN, OwnerStep(gs, on)
  PROVE  BoxInv'
<1> DEFINE granted == GrantedIn(gs, on)
           more(h) == [handler[h] EXCEPT !.seen = @ \cup granted]
<1>1. /\ grants' = gs /\ switch' = on
      /\ handler' = [h \in Handlers |-> IF handler[h].pc = "idle" THEN handler[h] ELSE more(h)]
      /\ UNCHANGED <<knownNames, runLock, containers, refusedByOwn, runnerUp, dockerFaults, stops>>
  BY DEF OwnerStep, Witnessed
<1>2. granted \subseteq Folders
  BY GrantedFolders
<1> HIDE DEF granted
<1>3. ASSUME NEW h \in Handlers
      PROVE  /\ more(h) \in BoxRequests /\ more(h).pc = handler[h].pc /\ more(h).plan = handler[h].plan
             /\ more(h).kind = handler[h].kind /\ more(h).replied = handler[h].replied
             /\ more(h).seen = handler[h].seen \cup granted
  <2>1. handler[h] \in BoxRequests
    BY DEF BoxInv, BoxTypes
  <2> QED BY <1>2, <2>1 DEF BoxRequests
<1> HIDE DEF more
<1>4. ASSUME NEW h \in Handlers
      PROVE  /\ handler'[h] \in BoxRequests /\ handler'[h].pc = handler[h].pc
             /\ handler'[h].plan = handler[h].plan /\ handler'[h].kind = handler[h].kind
             /\ handler'[h].replied = handler[h].replied /\ handler[h].seen \subseteq handler'[h].seen
             /\ handler[h].pc # "idle" => granted \subseteq handler'[h].seen
  <2>1. handler[h] \in BoxRequests
    BY DEF BoxInv, BoxTypes
  <2>2. handler'[h] = IF handler[h].pc = "idle" THEN handler[h] ELSE more(h)
    BY <1>1
  <2> QED BY <1>3, <2>1, <2>2
<1>5. BoxTypes'
  <2>1. handler' \in [Handlers -> BoxRequests]
    <3>1. DOMAIN handler' = Handlers /\ handler' = [h \in Handlers |-> handler'[h]]
      BY <1>1
    <3> QED BY <1>4, <3>1
  <2> QED BY <1>1, <2>1 DEF BoxInv, BoxTypes
<1>6. ASSUME NEW h \in Handlers PROVE RequestFits(handler[h])' /\ LockOK(h)'
  <2>1. RequestFits(handler[h]) /\ LockOK(h)
    BY DEF BoxInv
  <2>2. GrantedIn(grants, switch)' = granted /\ runLock' = runLock /\ runnerUp' = runnerUp
    BY <1>1 DEF granted
  <2>3. PlanIsSeen(handler'[h])
    BY <1>4, <2>1 DEF RequestFits, PlanIsSeen
  <2>4. handler'[h].pc # "idle" => GrantedIn(grants', switch') \subseteq handler'[h].seen
    BY <1>4, <2>2
  <2>5. LockOK(h)'
    BY <1>4, <2>1, <2>2 DEF LockOK
  <2> QED BY <1>4, <2>1, <2>3, <2>4, <2>5 DEF RequestFits
<1>7. ContainersOK'
  <2>1. \A c \in containers \ Strays : runLock' = runLock /\ handler'[c.of].pc \in Holding
    <3> SUFFICES ASSUME NEW c \in containers \ Strays PROVE handler'[c.of].pc \in Holding
      BY <1>1
    <3>1. c.of \in Handlers /\ handler[c.of].pc \in Holding
      BY DEF BoxInv, BoxTypes, ContainersOK, ContainerRows, Strays
    <3> QED BY <1>4, <3>1
  <2> QED BY <1>1, <2>1, ContainersStay
<1> QED BY <1>1, <1>5, <1>6, <1>7 DEF BoxInv

LEMMA OwnerActions ==
  ASSUME BoxInv, CmdAdd \/ CmdRemove \/ CmdOff \/ CmdOn \/ GrantExpires
  PROVE  BoxInv'
<1>0. grants \in [Grants -> GrantRows \cup {NoGrant}] /\ switch \in BOOLEAN
  BY DEF BoxInv, BoxTypes
<1>1. CASE CmdAdd
  <2>1. PICK g \in Grants, f \in Folders, p \in {"use", "knowledge"} :
          OwnerStep([grants EXCEPT ![g] = [folder |-> f, purpose |-> p, expired |-> FALSE]], switch)
    BY <1>1 DEF CmdAdd
  <2> DEFINE new == [folder |-> f, purpose |-> p, expired |-> FALSE]
  <2>2. new \in GrantRows
    BY DEF GrantRows
  <2> HIDE DEF new
  <2>3. [grants EXCEPT ![g] = new] \in [Grants -> GrantRows \cup {NoGrant}]
    BY <1>0, <2>2
  <2>4. OwnerStep([grants EXCEPT ![g] = new], switch)
    BY <2>1 DEF new
  <2> QED BY <1>0, <2>3, <2>4, OwnerStepHolds
<1>2. CASE CmdRemove
  <2>1. PICK g \in Grants : OwnerStep([grants EXCEPT ![g] = NoGrant], switch)
    BY <1>2 DEF CmdRemove
  <2>2. [grants EXCEPT ![g] = NoGrant] \in [Grants -> GrantRows \cup {NoGrant}]
    BY <1>0
  <2> QED BY <1>0, <2>1, <2>2, OwnerStepHolds
<1>3. CASE CmdOff \/ CmdOn
  BY <1>0, <1>3, OwnerStepHolds DEF CmdOff, CmdOn
<1>4. CASE GrantExpires
  <2>1. PICK g \in Grants : grants[g] # NoGrant /\ OwnerStep([grants EXCEPT ![g].expired = TRUE], switch)
    BY <1>4 DEF GrantExpires
  <2> DEFINE over == [grants[g] EXCEPT !.expired = TRUE]
  <2>2. over \in GrantRows
    BY <1>0, <2>1 DEF GrantRows
  <2>3. [grants EXCEPT ![g].expired = TRUE] = [grants EXCEPT ![g] = over]
    BY <1>0
  <2> HIDE DEF over
  <2>4. [grants EXCEPT ![g] = over] \in [Grants -> GrantRows \cup {NoGrant}]
    BY <1>0, <2>2
  <2> QED BY <1>0, <2>1, <2>3, <2>4, OwnerStepHolds
<1> QED BY <1>1, <1>2, <1>3, <1>4

-----------------------------------------------------------------------------
(* The sandbox: requests up to their first container, and their end. *)

\* The threads' steps keep to these: containers belong to the thread with the lock.
LEMMA WhoseContainer ==
  ASSUME BoxInv, NEW c \in containers \ Strays
  PROVE  c.of \in Handlers /\ c.of = runLock /\ handler[c.of].pc \in Holding
BY DEF BoxInv, BoxTypes, ContainersOK, ContainerRows, Strays

\* A thread without a container moves, and the lock stays with whoever has a container.
LEMMA EmptyHanded ==
  ASSUME BoxInv, NEW h \in Handlers, NEW r \in BoxRequests, handler' = [handler EXCEPT ![h] = r],
         handler[h].pc \notin Holding, runLock # h => (runLock' = runLock \/ runLock = Free),
         UNCHANGED <<containers, runnerUp, dockerFaults>>
  PROVE  ContainersOK' /\ containers' \subseteq ContainerRows /\ dockerFaults' \in Nat
<1>1. ASSUME NEW c \in containers \ Strays PROVE runLock' = runLock /\ handler'[c.of].pc \in Holding
  <2>1. c.of \in Handlers /\ c.of = runLock /\ handler[c.of].pc \in Holding
    BY WhoseContainer
  <2>2. c.of # h /\ runLock # Free
    BY <2>1, SandboxAssumption
  <2>3. handler'[c.of] = handler[c.of]
    BY <2>1, <2>2 DEF BoxInv, BoxTypes
  <2> QED BY <2>1, <2>2, <2>3
<1> QED BY <1>1, ContainersStay

\* The request that a client sends, as one record.
Arrived(kind, a, g, seen) ==
  [NoRequest EXCEPT !.pc = "arrived", !.kind = kind, !.app = a, !.grant = g, !.seen = seen]

LEMMA ArrivedFields ==
  ASSUME NEW p, NEW n, NEW b, NEW c, NEW l, NEW s, NEW d, NEW kind, NEW a, NEW g, NEW seen,
         NoRequest = [pc |-> p, kind |-> n, app |-> b, grant |-> c, plan |-> l, seen |-> s, replied |-> d]
  PROVE  Arrived(kind, a, g, seen)
           = [pc |-> "arrived", kind |-> kind, app |-> a, grant |-> g, plan |-> l, seen |-> seen, replied |-> d]
<1> DEFINE r1 == [NoRequest EXCEPT !.pc = "arrived"]
           r2 == [r1 EXCEPT !.kind = kind]
           r3 == [r2 EXCEPT !.app = a]
           r4 == [r3 EXCEPT !.grant = g]
           r5 == [r4 EXCEPT !.seen = seen]
<1>2. r1 = [pc |-> "arrived", kind |-> n, app |-> b, grant |-> c, plan |-> l, seen |-> s, replied |-> d]
  OBVIOUS
<1> HIDE DEF r1
<1>3. r2 = [pc |-> "arrived", kind |-> kind, app |-> b, grant |-> c, plan |-> l, seen |-> s, replied |-> d]
  BY <1>2
<1> HIDE DEF r2
<1>4. r3 = [pc |-> "arrived", kind |-> kind, app |-> a, grant |-> c, plan |-> l, seen |-> s, replied |-> d]
  BY <1>3
<1> HIDE DEF r3
<1>5. r4 = [pc |-> "arrived", kind |-> kind, app |-> a, grant |-> g, plan |-> l, seen |-> s, replied |-> d]
  BY <1>4
<1> HIDE DEF r4
<1>6. r5 = [pc |-> "arrived", kind |-> kind, app |-> a, grant |-> g, plan |-> l, seen |-> seen, replied |-> d]
  BY <1>5
<1>7. Arrived(kind, a, g, seen) = r5
  BY DEF r1, r2, r3, r4, Arrived
<1> HIDE DEF r5
<1> QED BY <1>6, <1>7

LEMMA ArrivedRequest ==
  ASSUME NEW kind, NEW a, NEW g, NEW seen
  PROVE  Arrived(kind, a, g, seen)
           = [pc |-> "arrived", kind |-> kind, app |-> a, grant |-> g, plan |-> <<>>, seen |-> seen, replied |-> FALSE]
<1>1. NoRequest = [pc |-> "idle", kind |-> "none", app |-> "none", grant |-> "none", plan |-> <<>>, seen |-> {},
                   replied |-> FALSE]
  BY DEF NoRequest
<1> QED BY <1>1, ArrivedFields

LEMMA RequestStep ==
  ASSUME BoxInv, NEW a \in Apps, Request(a)
  PROVE  BoxInv'
<1>1. PICK h \in Handlers, kind \in {"run", "files", "stage"} :
        \E g \in IF kind = "files" THEN knownNames ELSE {"none"} :
          handler[h].pc = "idle" /\ handler' = [handler EXCEPT ![h] = Arrived(kind, a, g, GrantedIn(grants, switch))]
  BY ZenonT(30) DEF Request, Arrived
<1>2. PICK g \in IF kind = "files" THEN knownNames ELSE {"none"} :
          handler[h].pc = "idle" /\ handler' = [handler EXCEPT ![h] = Arrived(kind, a, g, GrantedIn(grants, switch))]
  BY <1>1
<1> DEFINE r == [pc |-> "arrived", kind |-> kind, app |-> a, grant |-> g, plan |-> <<>>,
                 seen |-> GrantedIn(grants, switch), replied |-> FALSE]
<1>3. /\ runnerUp
      /\ UNCHANGED <<grants, switch, knownNames, runLock, containers, refusedByOwn, runnerUp, dockerFaults, stops>>
  BY ZenonT(30) DEF Request
<1>4. GrantedIn(grants, switch) \subseteq Folders /\ g \in Grants \cup {"none"}
  <2>1. GrantedIn(grants, switch) \subseteq Folders
    BY GrantedFolders DEF BoxInv, BoxTypes
  <2> QED BY <2>1 DEF BoxInv, BoxTypes
<1>5. handler' = [handler EXCEPT ![h] = r]
  BY <1>2, ArrivedRequest
<1>6. r \in BoxRequests /\ r.pc = "arrived" /\ RequestFits(r)
  <2>1. r \in BoxRequests
    BY <1>4 DEF BoxRequests
  <2> QED BY <2>1 DEF RequestFits, PlanIsSeen, Holding
<1> HIDE DEF r
<1>7. r.pc \in Busy <=> runLock' = h
  BY <1>2, <1>3, <1>6 DEF BoxInv, LockOK, Busy
<1>8. ContainersOK' /\ containers' \subseteq ContainerRows /\ dockerFaults' \in Nat
  BY <1>2, <1>3, <1>5, <1>6, EmptyHanded DEF Holding
<1>9. runLock' \in Handlers \cup {Free} /\ \A d \in Handlers \ {h} : runLock' = d <=> runLock = d
  BY <1>3 DEF BoxInv, BoxTypes
<1> QED BY <1>3, <1>5, <1>6, <1>7, <1>8, <1>9, HandlerStep

\* 429, or the lock.
LEMMA LockStep ==
  ASSUME BoxInv, NEW h \in Handlers, Lock(h)
  PROVE  BoxInv'
<1>0. /\ handler[h].pc = "arrived" /\ runLock # h /\ runnerUp
      /\ UNCHANGED <<grants, switch, knownNames, containers, runnerUp, dockerFaults, stops>>
      /\ handler \in [Handlers -> BoxRequests] /\ handler[h] \in BoxRequests /\ RequestFits(handler[h])
      /\ runLock \in Handlers \cup {Free} /\ refusedByOwn = FALSE
  BY DEF Lock, BoxInv, BoxTypes, LockOK, Busy
<1>1. CASE runLock = Free
  <2>1. runLock' = h /\ handler' = Moved(h, "admit") /\ refusedByOwn' = refusedByOwn
    BY <1>1 DEF Lock, Moved
  <2>2. PICK r \in BoxRequests :
          /\ handler' = [handler EXCEPT ![h] = r]
          /\ r.pc = "admit" /\ r.kind = handler[h].kind /\ r.plan = handler[h].plan
          /\ r.seen = handler[h].seen /\ r.replied = handler[h].replied
    <3>1. "admit" \in {"idle", "arrived", "reply"} \cup Busy
      BY DEF Busy
    <3> QED BY <1>0, <2>1, <3>1, AtPc
  <2>3. RequestFits(r)
    BY <1>0, <2>2 DEF RequestFits, PlanIsSeen, Holding
  <2>4. ContainersOK' /\ containers' \subseteq ContainerRows /\ dockerFaults' \in Nat
    BY <1>0, <1>1, <2>2, <2>3, EmptyHanded DEF Holding
  <2>5. \A d \in Handlers \ {h} : runLock' = d <=> runLock = d
    BY <1>1, <2>1, SandboxAssumption
  <2> QED BY <1>0, <2>1, <2>2, <2>3, <2>4, <2>5, HandlerStep DEF Busy
<1>2. CASE runLock # Free
  <2>1. /\ runLock' = runLock /\ handler' = [handler EXCEPT ![h] = NoRequest]
        /\ refusedByOwn' = (refusedByOwn \/ /\ handler[runLock].replied
                                            /\ handler[runLock].kind = "stage"
                                            /\ handler[runLock].app = handler[h].app)
    BY <1>2 DEF Lock
  <2>2. ~refusedByOwn'
    <3>1. runLock \in Handlers /\ RequestFits(handler[runLock])
      BY <1>0, <1>2 DEF BoxInv
    <3> QED BY <1>0, <2>1, <3>1 DEF RequestFits
  <2>3. ContainersOK' /\ containers' \subseteq ContainerRows /\ dockerFaults' \in Nat
    BY <1>0, <2>1, NoRequestFits, EmptyHanded DEF Holding
  <2> QED BY <1>0, <2>1, <2>2, <2>3, NoRequestFits, HandlerStep DEF Busy
<1> QED BY <1>1, <1>2

-----------------------------------------------------------------------------
(* The sandbox: the run that holds the lock, and its containers. *)

LEMMA StagePlanFits ==
  ASSUME BoxInv, NEW p \in StagePlans
  PROVE  /\ p \in Seq(Folders \cup StepNames) /\ p # <<>>
         /\ \A i \in DOMAIN p : p[i] \in Folders => p[i] \in GrantedIn(grants, switch)
<1> DEFINE T == KnowledgeFolders \cup {"prepare", "prune"}
<1>1. KnowledgeFolders \subseteq GrantedIn(grants, switch) /\ KnowledgeFolders \subseteq Folders
  <2>1. grants \in [Grants -> GrantRows \cup {NoGrant}] /\ switch \in BOOLEAN
    BY DEF BoxInv, BoxTypes
  <2>2. KnowledgeFolders \subseteq GrantedIn(grants, switch)
    BY DEF KnowledgeFolders, GrantedIn, Active
  <2>3. GrantedIn(grants, switch) \subseteq Folders
    BY <2>1, GrantedFolders
  <2> QED BY <2>2, <2>3
<1>2. PICK s \in UNION {[1..n -> KnowledgeFolders] : n \in 0..Cardinality(KnowledgeFolders)} :
        p = <<"prepare">> \o s \o <<"prune">>
  BY Zenon DEF StagePlans
<1>3. PICK n \in 0..Cardinality(KnowledgeFolders) : s \in [1..n -> KnowledgeFolders]
  BY <1>2
<1>4. s \in Seq(KnowledgeFolders)
  BY <1>3
<1>5. s \in Seq(T) /\ <<"prepare">> \in Seq(T) /\ <<"prune">> \in Seq(T)
  BY <1>4
<1>6. p \in Seq(T) /\ Len(p) = Len(s) + 2 /\ Len(s) \in Nat
  BY <1>2, <1>5
<1>7. \A i \in DOMAIN p : p[i] \in T
  BY <1>6
<1>8. T \cap Folders \subseteq KnowledgeFolders /\ T \subseteq Folders \cup StepNames
  BY <1>1, SandboxAssumption DEF StepNames
<1> HIDE DEF T
<1>9. p \in Seq(Folders \cup StepNames) /\ p # <<>>
  BY <1>6, <1>8
<1> QED BY <1>1, <1>7, <1>8, <1>9

\* file_op, stage_op, run_in_sandbox: the plan holds what is granted now.
LEMMA AdmitStep ==
  ASSUME BoxInv, NEW h \in Handlers, Admit(h)
  PROVE  BoxInv'
<1>0. /\ handler[h].pc = "admit" /\ runLock = h /\ runnerUp
      /\ handler \in [Handlers -> BoxRequests] /\ handler[h] \in BoxRequests /\ RequestFits(handler[h])
      /\ GrantedIn(grants, switch) \subseteq handler[h].seen
  BY DEF Admit, BoxInv, BoxTypes, LockOK, Busy, RequestFits
<1>00. UNCHANGED <<grants, switch, knownNames, app, runLock, containers, refusedByOwn,
                   runnerUp, requests, ownerSteps, dockerFaults, stops>>
  BY Zenon DEF Admit
<1>1. ASSUME NEW plan \in Seq(Folders \cup StepNames), plan # <<>>,
             \A i \in DOMAIN plan : plan[i] \in Folders => plan[i] \in GrantedIn(grants, switch),
             handler' = Planned(h, "create", plan)
      PROVE  BoxInv'
  <2>1. "create" \in {"idle", "arrived", "reply"} \cup Busy
    BY DEF Busy
  <2>2. PICK r \in BoxRequests :
          /\ handler' = [handler EXCEPT ![h] = r]
          /\ r.pc = "create" /\ r.kind = handler[h].kind /\ r.plan = plan
          /\ r.seen = handler[h].seen /\ r.replied = handler[h].replied
    BY <1>0, <1>1, <2>1, AtPcWithPlan
  <2>3. RequestFits(r)
    BY <1>0, <1>1, <2>2 DEF RequestFits, PlanIsSeen
  <2>4. ContainersOK' /\ containers' \subseteq ContainerRows /\ dockerFaults' \in Nat
    BY <1>0, <1>00, <2>2, EmptyHanded DEF Holding
  <2> QED BY <1>0, <1>00, <2>2, <2>3, <2>4, HandlerStep DEF Busy
<1>2. CASE handler' = [handler EXCEPT ![h].pc = "finish"]
  <2>1. "finish" \in {"idle", "arrived", "reply"} \cup Busy /\ handler' = Moved(h, "finish")
    BY <1>2 DEF Busy, Moved
  <2>2. PICK r \in BoxRequests :
          /\ handler' = [handler EXCEPT ![h] = r]
          /\ r.pc = "finish" /\ r.kind = handler[h].kind /\ r.plan = handler[h].plan
          /\ r.seen = handler[h].seen /\ r.replied = handler[h].replied
    BY <1>0, <2>1, AtPc
  <2>3. RequestFits(r)
    BY <1>0, <2>2 DEF RequestFits, PlanIsSeen, Holding
  <2>4. ContainersOK' /\ containers' \subseteq ContainerRows /\ dockerFaults' \in Nat
    BY <1>0, <1>00, <2>2, EmptyHanded DEF Holding
  <2> QED BY <1>0, <1>00, <2>2, <2>3, <2>4, HandlerStep DEF Busy
<1>3. CASE handler' = [handler EXCEPT ![h].pc = "create", ![h].plan = <<"code">>]
  <2>1. handler' = Planned(h, "create", <<"code">>)
    BY <1>3 DEF Planned
  <2>2. <<"code">> \in Seq(Folders \cup StepNames) /\ <<"code">> # <<>>
    BY DEF StepNames
  <2>3. \A i \in DOMAIN <<"code">> : <<"code">>[i] \notin Folders
    BY SandboxAssumption DEF StepNames
  <2> QED BY <1>1, <2>1, <2>2, <2>3
<1>4. ASSUME GrantFound(handler[h].grant),
             handler' = [handler EXCEPT ![h].pc = "create", ![h].plan = <<grants[handler[h].grant].folder>>]
      PROVE  BoxInv'
  <2> DEFINE f == grants[handler[h].grant].folder
  <2>1. f \in Folders /\ f \in GrantedIn(grants, switch)
    BY <1>4, GrantedFolders DEF GrantFound, Active, BoxInv, BoxTypes
  <2>2. handler' = Planned(h, "create", <<f>>)
    BY <1>4 DEF Planned
  <2> HIDE DEF f
  <2>3. <<f>> \in Seq(Folders \cup StepNames) /\ <<f>> # <<>>
        /\ \A i \in DOMAIN <<f>> : <<f>>[i] \in GrantedIn(grants, switch)
    BY <2>1
  <2> QED BY <1>1, <2>2, <2>3
<1>5. ASSUME NEW p \in StagePlans, handler' = [handler EXCEPT ![h].pc = "create", ![h].plan = p]
      PROVE  BoxInv'
  <2>1. handler' = Planned(h, "create", p)
    BY <1>5 DEF Planned
  <2> QED BY <1>1, <2>1, StagePlanFits
<1> QED BY <1>2, <1>3, <1>4, <1>5, ZenonT(30) DEF Admit

LEMMA FewMore ==
  ASSUME NEW S, IsFiniteSet(S), NEW x
  PROVE  IsFiniteSet(S \cup {x}) /\ Cardinality(S \cup {x}) <= Cardinality(S) + 1
<1>1. Cardinality(S) \in Nat
  BY FS_CardinalityType
<1> QED BY <1>1, FS_AddElement

\* The containers are those that nobody knows and the one of the run at work.
LEMMA ContainersAre ==
  ASSUME NEW S \in SUBSET ContainerRows, NEW M \in SUBSET ContainerRows, containers' = S \cup M,
         \A c \in S : c.of = "nobody" /\ c.lawful,
         \A c \in M : c.of \in Handlers /\ c.of = runLock' /\ c.lawful /\ handler'[c.of].pc \in Holding,
         \A c, d \in M : c = d,
         IsFiniteSet(S), Cardinality(S) <= dockerFaults' + (IF runnerUp' THEN 0 ELSE 1)
  PROVE  ContainersOK' /\ containers' \subseteq ContainerRows
<1>1. Strays' = S /\ containers' \ Strays' = M
  BY SandboxAssumption DEF Strays
<1> QED BY <1>1 DEF ContainersOK

\* At a step of the run that holds the lock.
LEMMA MineAre ==
  ASSUME BoxInv, NEW h \in Handlers, handler[h].pc \in Busy
  PROVE  /\ runLock = h /\ runnerUp /\ containers = Strays \cup Mine(h)
         /\ Strays \in SUBSET ContainerRows /\ Mine(h) \in SUBSET ContainerRows
         /\ \A c \in Strays : c.of = "nobody" /\ c.lawful
         /\ \A c \in Mine(h) : c.of = h /\ c.lawful
         /\ \A c, d \in Mine(h) : c = d
         /\ handler[h].pc \notin Holding => Mine(h) = {}
         /\ containers \ Mine(h) = Strays
         /\ IsFiniteSet(Strays) /\ Cardinality(Strays) <= dockerFaults /\ dockerFaults \in Nat
         /\ Cardinality(Strays) \in Nat
<1>1. runLock = h /\ runnerUp
  BY DEF BoxInv, LockOK, Busy
<1>2. containers \ Strays = Mine(h)
  <2>1. ASSUME NEW c \in containers PROVE c \notin Strays <=> c \in Mine(h)
    <3>1. h # "nobody"
      BY SandboxAssumption
    <3>2. ASSUME c \notin Strays PROVE c.of = h
      BY <1>1, <3>2 DEF BoxInv, ContainersOK
    <3> QED BY <3>1, <3>2 DEF Strays, Mine
  <2> QED BY <2>1 DEF Mine
<1>3. containers \subseteq ContainerRows /\ dockerFaults \in Nat /\ ContainersOK
  BY DEF BoxInv, BoxTypes
<1>4. Cardinality(Strays) \in Nat
  BY <1>3, FS_CardinalityType DEF ContainersOK
<1> QED BY <1>1, <1>2, <1>3, <1>4 DEF ContainersOK, Strays, Mine

LEMMA AbandonedRow ==
  ASSUME NEW c \in ContainerRows
  PROVE  /\ Abandoned(c) \in ContainerRows /\ Abandoned(c).of = "nobody" /\ Abandoned(c).lawful = c.lawful
         /\ c.of = "nobody" => Abandoned(c) = c
<1>1. c = [of |-> c.of, nr |-> c.nr, folder |-> c.folder, runs |-> c.runs, lawful |-> c.lawful]
  BY DEF ContainerRows
<1>2. Abandoned(c) = [of |-> "nobody", nr |-> c.nr, folder |-> c.folder, runs |-> c.runs, lawful |-> c.lawful]
  BY <1>1 DEF Abandoned
<1>3. Abandoned(c) \in ContainerRows
  BY <1>2 DEF ContainerRows
<1> QED BY <1>1, <1>2, <1>3

\* One container, when there is one, is left to nobody.
LeftOf(M) == {Abandoned(c) : c \in M}

LEMMA LeftBehind ==
  ASSUME NEW S \in SUBSET ContainerRows, IsFiniteSet(S), \A c \in S : c.of = "nobody" /\ c.lawful,
         NEW M \in SUBSET ContainerRows, \A c \in M : c.lawful, \A c, d \in M : c = d,
         NEW T, T = S \cup LeftOf(M)
  PROVE  /\ T \in SUBSET ContainerRows /\ \A c \in T : c.of = "nobody" /\ c.lawful
         /\ IsFiniteSet(T) /\ Cardinality(T) <= Cardinality(S) + 1
<1>1. CASE M = {}
  <2>1. T = S /\ Cardinality(S) \in Nat
    BY <1>1, FS_CardinalityType DEF LeftOf
  <2>2. Cardinality(S) <= Cardinality(S) + 1
    BY <2>1
  <2> QED BY <2>1, <2>2
<1>2. CASE M # {}
  <2>1. PICK c \in M : TRUE
    BY <1>2
  <2>2. T = S \cup {Abandoned(c)}
    BY <2>1 DEF LeftOf
  <2>3. Abandoned(c) \in ContainerRows /\ Abandoned(c).of = "nobody" /\ Abandoned(c).lawful
    BY <2>1, AbandonedRow
  <2> HIDE DEF Abandoned
  <2> QED BY <2>2, <2>3, FewMore
<1> QED BY <1>1, <1>2

\* The request of a run that goes on.
LEMMA MovedRequest ==
  ASSUME handler \in [Handlers -> BoxRequests], NEW h \in Handlers, NEW pc \in Busy,
         NEW plan \in Seq(Folders \cup StepNames),
         handler' = Planned(h, pc, plan) \/ (handler' = Moved(h, pc) /\ plan = handler[h].plan)
  PROVE  \E r \in BoxRequests :
           /\ handler' = [handler EXCEPT ![h] = r]
           /\ r.pc = pc /\ r.kind = handler[h].kind /\ r.plan = plan
           /\ r.seen = handler[h].seen /\ r.replied = handler[h].replied
<1>1. pc \in {"idle", "arrived", "reply"} \cup Busy
  OBVIOUS
<1>2. CASE handler' = Planned(h, pc, plan)
  BY <1>1, <1>2, AtPcWithPlan
<1>3. CASE handler' = Moved(h, pc) /\ plan = handler[h].plan
  BY <1>1, <1>3, AtPc
<1> QED BY <1>2, <1>3

\* The run at work goes on: its place, its plan and the containers.
LEMMA RunStep ==
  ASSUME BoxInv, NEW h \in Handlers, handler[h].pc \in Busy, NEW pc \in Busy,
         NEW plan \in Seq(Folders \cup StepNames),
         \A i \in DOMAIN plan : plan[i] \in Folders => plan[i] \in handler[h].seen,
         pc \in {"create"} \cup Holding => plan # <<>>,
         handler' = Planned(h, pc, plan) \/ (handler' = Moved(h, pc) /\ plan = handler[h].plan),
         UNCHANGED <<grants, switch, knownNames, runLock, refusedByOwn, runnerUp, stops>>,
         NEW S \in SUBSET ContainerRows, NEW M \in SUBSET ContainerRows, containers' = S \cup M,
         \A c \in S : c.of = "nobody" /\ c.lawful,
         \A c \in M : c.of = h /\ c.lawful, M # {} => pc \in Holding,
         \A c, d \in M : c = d,
         IsFiniteSet(S), Cardinality(S) <= dockerFaults', dockerFaults' \in Nat
  PROVE  BoxInv'
<1>0. /\ runLock = h /\ runnerUp /\ handler \in [Handlers -> BoxRequests] /\ handler[h] \in BoxRequests
      /\ RequestFits(handler[h])
  BY DEF BoxInv, BoxTypes, LockOK, Busy
<1>1. PICK r \in BoxRequests :
        /\ handler' = [handler EXCEPT ![h] = r]
        /\ r.pc = pc /\ r.kind = handler[h].kind /\ r.plan = plan
        /\ r.seen = handler[h].seen /\ r.replied = handler[h].replied
  BY <1>0, MovedRequest
<1>2. RequestFits(r)
  <2>1. handler[h].pc # "idle" /\ pc # "idle"
    BY DEF Busy
  <2> QED BY <1>0, <1>1, <2>1 DEF RequestFits, PlanIsSeen
<1>3. handler'[h].pc = pc
  BY <1>0, <1>1
<1>4. Cardinality(S) <= dockerFaults' + (IF runnerUp' THEN 0 ELSE 1)
  BY <1>0
<1>5. ContainersOK' /\ containers' \subseteq ContainerRows
  <2>1. \A c \in M : c.of \in Handlers /\ c.of = runLock' /\ c.lawful /\ handler'[c.of].pc \in Holding
    BY <1>0, <1>3
  <2> QED BY <1>4, <2>1, ContainersAre
<1>6. pc \in Busy /\ runLock' = h
  BY <1>0
<1> QED BY <1>0, <1>1, <1>2, <1>5, <1>6, HandlerStep

\* What RunStep asks of a step that leaves the plan alone.
LEMMA PlanStays ==
  ASSUME BoxInv, NEW h \in Handlers
  PROVE  /\ handler[h].plan \in Seq(Folders \cup StepNames)
         /\ \A i \in DOMAIN handler[h].plan : handler[h].plan[i] \in Folders => handler[h].plan[i] \in handler[h].seen
         /\ handler[h].pc \in {"create"} \cup Holding => handler[h].plan # <<>>
BY DEF BoxInv, BoxTypes, BoxRequests, RequestFits, PlanIsSeen

LEMMA CreateStep ==
  ASSUME BoxInv, NEW h \in Handlers, CreateContainer(h)
  PROVE  BoxInv'
<1> DEFINE f == handler[h].plan[1]
           new == [of |-> h, nr |-> dockerFaults + stops, folder |-> f, runs |-> FALSE,
                   lawful |-> f \notin Folders \/ f \in handler[h].seen]
           plan == handler[h].plan
<1>1. /\ handler[h].pc = "create"
      /\ UNCHANGED <<grants, switch, knownNames, runLock, refusedByOwn, runnerUp, stops>>
  BY DEF CreateContainer
<1>2. \/ containers' = containers \cup {new} /\ handler' = Moved(h, "start") /\ dockerFaults' = dockerFaults
      \/ /\ dockerFaults' = dockerFaults + 1 /\ handler' = Moved(h, "finish")
         /\ containers' \in {containers, containers \cup {Abandoned(new)}}
  BY DEF CreateContainer, DockerFault, Moved
<1>3. handler[h].pc \in Busy /\ handler[h].pc \notin Holding /\ handler[h].pc \in {"create"} \cup Holding
      /\ "start" \in Busy /\ "start" \in Holding /\ "finish" \in Busy /\ "finish" \notin Holding /\ "finish" # "create"
  BY <1>1 DEF Busy, Holding
<1>4. /\ Mine(h) = {} /\ containers = Strays /\ Strays \in SUBSET ContainerRows
      /\ \A c \in Strays : c.of = "nobody" /\ c.lawful
      /\ IsFiniteSet(Strays) /\ Cardinality(Strays) <= dockerFaults /\ dockerFaults \in Nat
      /\ Cardinality(Strays) \in Nat
  <2>1. handler[h].pc \in Busy /\ handler[h].pc \notin Holding
    BY <1>3
  <2> HIDE DEF f, new, plan
  <2>2. /\ Mine(h) = {} /\ containers = Strays \cup Mine(h) /\ Strays \in SUBSET ContainerRows
        /\ \A c \in Strays : c.of = "nobody" /\ c.lawful
        /\ IsFiniteSet(Strays) /\ Cardinality(Strays) <= dockerFaults /\ dockerFaults \in Nat
        /\ Cardinality(Strays) \in Nat
    BY ONLY BoxInv, h \in Handlers, <2>1, MineAre
  <2> QED BY ONLY <2>2
<1>5. /\ plan \in Seq(Folders \cup StepNames) /\ plan # <<>>
      /\ \A i \in DOMAIN plan : plan[i] \in Folders => plan[i] \in handler[h].seen
  BY <1>3, PlanStays
<1>6. f \in Folders \cup StepNames /\ (f \notin Folders \/ f \in handler[h].seen)
  <2>1. 1 \in DOMAIN plan
    BY <1>5
  <2> QED BY <1>5, <2>1
<1>7. new \in ContainerRows /\ new.of = h /\ new.lawful
  <2>1. dockerFaults + stops \in Nat
    BY DEF BoxInv, BoxTypes
  <2> HIDE DEF f
  <2> QED BY <1>6, <2>1 DEF ContainerRows
<1> HIDE DEF new, f, plan
<1>8. CASE containers' = containers \cup {new} /\ handler' = Moved(h, "start") /\ dockerFaults' = dockerFaults
  <2> DEFINE M == {new}
  <2>1. containers' = Strays \cup M /\ M \in SUBSET ContainerRows
    BY <1>4, <1>7, <1>8
  <2>2. /\ \A c \in M : c.of = h /\ c.lawful
        /\ \A c, d \in M : c = d
    BY <1>7
  <2>3. Cardinality(Strays) <= dockerFaults' /\ dockerFaults' \in Nat
    BY <1>4, <1>8
  <2> HIDE DEF M
  <2>4. handler' = Moved(h, "start") /\ plan = handler[h].plan
    BY <1>8 DEF plan
  <2> QED BY <1>1, <1>3, <1>4, <1>5, <2>1, <2>2, <2>3, <2>4, RunStep
<1>9. CASE /\ dockerFaults' = dockerFaults + 1 /\ handler' = Moved(h, "finish")
           /\ containers' \in {containers, containers \cup {Abandoned(new)}}
  <2>1. PICK S : /\ containers' = S /\ S \in SUBSET ContainerRows /\ \A c \in S : c.of = "nobody" /\ c.lawful
                 /\ IsFiniteSet(S) /\ Cardinality(S) <= dockerFaults + 1
    <3>1. Abandoned(new) \in ContainerRows /\ Abandoned(new).of = "nobody" /\ Abandoned(new).lawful
      BY <1>7, AbandonedRow
    <3> DEFINE left == Abandoned(new)
               S == Strays \cup {left}
    <3> HIDE DEF left
    <3>2. IsFiniteSet(S) /\ Cardinality(S) <= Cardinality(Strays) + 1 /\ Cardinality(S) \in Nat
      BY <1>4, FewMore, FS_CardinalityType
    <3>3. S \in SUBSET ContainerRows /\ \A c \in S : c.of = "nobody" /\ c.lawful
      BY <1>4, <3>1 DEF left
    <3> HIDE DEF S
    <3>4. CASE containers' = containers
      BY <1>4, <3>4
    <3>5. CASE containers' = containers \cup {Abandoned(new)}
      <4>1. containers' = S
        BY <1>4, <3>5 DEF S, left
      <4>2. Cardinality(S) <= dockerFaults + 1
        BY <1>4, <3>2
      <4> QED BY <3>2, <3>3, <4>1, <4>2
    <3> QED BY <1>9, <3>4, <3>5
  <2> DEFINE M == {}
  <2>2. /\ containers' = S \cup M /\ M \in SUBSET ContainerRows /\ M = {}
        /\ \A c \in M : c.of = h /\ c.lawful
        /\ \A c, d \in M : c = d
    BY <2>1
  <2> HIDE DEF M
  <2>3. Cardinality(S) <= dockerFaults' /\ dockerFaults' \in Nat
    BY <1>4, <1>9, <2>1
  <2>4. handler' = Moved(h, "finish") /\ plan = handler[h].plan
    BY <1>9 DEF plan
  <2> QED BY <1>1, <1>3, <1>5, <2>1, <2>2, <2>3, <2>4, RunStep
<1> QED BY <1>2, <1>8, <1>9

LEMMA RunningRow ==
  ASSUME NEW c \in ContainerRows, NEW b \in BOOLEAN
  PROVE  /\ [c EXCEPT !.runs = b] \in ContainerRows /\ [c EXCEPT !.runs = b].of = c.of
         /\ [c EXCEPT !.runs = b].lawful = c.lawful
<1> DEFINE d == [c EXCEPT !.runs = b]
<1>1. c = [of |-> c.of, nr |-> c.nr, folder |-> c.folder, runs |-> c.runs, lawful |-> c.lawful]
  BY DEF ContainerRows
<1>2. d = [of |-> c.of, nr |-> c.nr, folder |-> c.folder, runs |-> b, lawful |-> c.lawful]
  BY <1>1
<1> HIDE DEF d
<1>3. d \in ContainerRows
  BY <1>2 DEF ContainerRows
<1>4. d.of = c.of /\ d.lawful = c.lawful
  BY <1>2
<1> QED BY <1>3, <1>4 DEF d

LEMMA StartStep ==
  ASSUME BoxInv, NEW h \in Handlers, StartContainer(h)
  PROVE  BoxInv'
<1> DEFINE plan == handler[h].plan
           ran(c) == [c EXCEPT !.runs = TRUE]
<1>1. /\ handler[h].pc = "start"
      /\ UNCHANGED <<grants, switch, knownNames, runLock, refusedByOwn, runnerUp, stops>>
  BY DEF StartContainer
<1>2. \/ /\ containers' = (containers \ Mine(h)) \cup {ran(c) : c \in Mine(h)}
         /\ handler' = Moved(h, "poll") /\ dockerFaults' = dockerFaults
      \/ /\ dockerFaults' = dockerFaults + 1 /\ handler' = Planned(h, "delete", <<"failed">>)
         /\ containers' = containers
  BY DEF StartContainer, DockerFault, Moved, Planned
<1>3. handler[h].pc \in Busy /\ handler[h].pc \in {"create"} \cup Holding
      /\ "poll" \in Busy /\ "poll" \in Holding /\ "delete" \in Busy /\ "delete" \in Holding
  BY <1>1 DEF Busy, Holding
<1>4. /\ containers = Strays \cup Mine(h) /\ containers \ Mine(h) = Strays
      /\ Strays \in SUBSET ContainerRows /\ Mine(h) \in SUBSET ContainerRows
      /\ \A c \in Strays : c.of = "nobody" /\ c.lawful
      /\ \A c \in Mine(h) : c.of = h /\ c.lawful
      /\ \A c, d \in Mine(h) : c = d
      /\ IsFiniteSet(Strays) /\ Cardinality(Strays) <= dockerFaults /\ dockerFaults \in Nat
      /\ Cardinality(Strays) \in Nat
  BY <1>3, MineAre
<1>5. /\ plan \in Seq(Folders \cup StepNames) /\ plan # <<>>
      /\ \A i \in DOMAIN plan : plan[i] \in Folders => plan[i] \in handler[h].seen
  BY <1>3, PlanStays
<1> HIDE DEF plan
<1>6. CASE /\ containers' = (containers \ Mine(h)) \cup {ran(c) : c \in Mine(h)}
           /\ handler' = Moved(h, "poll") /\ dockerFaults' = dockerFaults
  <2>1. ASSUME NEW c \in ContainerRows
        PROVE  ran(c) \in ContainerRows /\ ran(c).of = c.of /\ ran(c).lawful = c.lawful
    BY RunningRow
  <2> HIDE DEF ran
  <2> DEFINE M == {ran(c) : c \in Mine(h)}
  <2>2. containers' = Strays \cup M
    BY <1>4, <1>6
  <2>3. /\ M \in SUBSET ContainerRows
        /\ \A c \in M : c.of = h /\ c.lawful
        /\ \A c, d \in M : c = d
    BY <1>4, <2>1
  <2> HIDE DEF M
  <2>4. Cardinality(Strays) <= dockerFaults' /\ dockerFaults' \in Nat
    BY <1>4, <1>6
  <2>5. handler' = Moved(h, "poll") /\ plan = handler[h].plan
    BY <1>6 DEF plan
  <2>6. /\ handler[h].pc \in Busy /\ "poll" \in Busy /\ "poll" \in Holding
        /\ Strays \in SUBSET ContainerRows /\ IsFiniteSet(Strays)
        /\ \A c \in Strays : c.of = "nobody" /\ c.lawful
    BY <1>3, <1>4
  <2> QED BY <1>1, <1>5, <2>2, <2>3, <2>4, <2>5, <2>6, RunStep
<1>7. CASE /\ dockerFaults' = dockerFaults + 1 /\ handler' = Planned(h, "delete", <<"failed">>)
           /\ containers' = containers
  <2> DEFINE next == <<"failed">>
  <2>1. /\ next \in Seq(Folders \cup StepNames) /\ next # <<>>
        /\ \A i \in DOMAIN next : next[i] \in Folders => next[i] \in handler[h].seen
    BY SandboxAssumption DEF StepNames
  <2>2. handler' = Planned(h, "delete", next)
    BY <1>7
  <2> HIDE DEF next
  <2>3. Cardinality(Strays) <= dockerFaults' /\ dockerFaults' \in Nat /\ containers' = Strays \cup Mine(h)
    BY <1>4, <1>7
  <2> QED BY <1>1, <1>3, <1>4, <2>1, <2>2, <2>3, RunStep
<1> QED BY <1>2, <1>6, <1>7

\* What the Docker calls of a deletion leave: nothing, or a container that nobody knows.
LEMMA DeletedAre ==
  ASSUME BoxInv, NEW h \in Handlers, handler[h].pc \in Busy,
         \/ containers' = containers \ Removed(h) /\ UNCHANGED dockerFaults
         \/ DockerFault /\ containers' = (containers \ Mine(h)) \cup {Abandoned(c) : c \in Mine(h)}
  PROVE  \E S \in SUBSET ContainerRows :
           /\ containers' = S /\ \A c \in S : c.of = "nobody" /\ c.lawful
           /\ IsFiniteSet(S) /\ Cardinality(S) <= dockerFaults' /\ dockerFaults' \in Nat
<1>1. /\ containers \ Mine(h) = Strays /\ Strays \in SUBSET ContainerRows /\ Mine(h) \in SUBSET ContainerRows
      /\ \A c \in Strays : c.of = "nobody" /\ c.lawful
      /\ \A c \in Mine(h) : c.lawful
      /\ \A c, d \in Mine(h) : c = d
      /\ IsFiniteSet(Strays) /\ Cardinality(Strays) <= dockerFaults /\ dockerFaults \in Nat
      /\ Cardinality(Strays) \in Nat
  BY MineAre
<1>2. CASE containers' = containers \ Removed(h) /\ dockerFaults' = dockerFaults
  BY <1>1, <1>2 DEF Removed
<1>3. CASE DockerFault /\ containers' = (containers \ Mine(h)) \cup {Abandoned(c) : c \in Mine(h)}
  <2>1. dockerFaults' = dockerFaults + 1 /\ containers' = Strays \cup LeftOf(Mine(h))
    BY <1>1, <1>3 DEF DockerFault, LeftOf
  <2> DEFINE S == Strays
             M == Mine(h)
             T == S \cup LeftOf(M)
  <2>2. /\ S \in SUBSET ContainerRows /\ IsFiniteSet(S) /\ \A c \in S : c.of = "nobody" /\ c.lawful
        /\ M \in SUBSET ContainerRows /\ \A c \in M : c.lawful
        /\ \A c, d \in M : c = d
        /\ T = S \cup LeftOf(M)
    BY <1>1
  <2>3. containers' = T
    BY <2>1
  <2> HIDE DEF T, S, M
  <2>4. /\ T \in SUBSET ContainerRows /\ \A c \in T : c.of = "nobody" /\ c.lawful
        /\ IsFiniteSet(T) /\ Cardinality(T) <= Cardinality(S) + 1
    BY ONLY <2>2, LeftBehind
  <2>5. Cardinality(T) \in Nat
    BY <2>4, FS_CardinalityType
  <2>6. Cardinality(T) <= dockerFaults' /\ dockerFaults' \in Nat
    BY <1>1, <2>1, <2>4, <2>5 DEF S
  <2> QED BY <2>3, <2>4, <2>6
<1> QED BY <1>2, <1>3

LEMMA DeleteStep ==
  ASSUME BoxInv, NEW h \in Handlers, DeleteContainer(h)
  PROVE  BoxInv'
<1> DEFINE plan == handler[h].plan
           M == {}
<1>1. /\ handler[h].pc = "delete"
      /\ UNCHANGED <<grants, switch, knownNames, runLock, refusedByOwn, runnerUp, stops>>
  BY DEF DeleteContainer
<1>2. \/ containers' = containers \ Removed(h) /\ UNCHANGED dockerFaults
      \/ DockerFault /\ containers' = (containers \ Mine(h)) \cup {Abandoned(c) : c \in Mine(h)}
  BY DEF DeleteContainer
<1>3. \/ Len(plan) > 1 /\ handler' = Planned(h, "create", Tail(plan))
      \/ handler' = Moved(h, "finish")
  BY DEF DeleteContainer, Planned, Moved
<1>4. handler[h].pc \in Busy /\ handler[h].pc \in {"create"} \cup Holding
      /\ "create" \in Busy /\ "finish" \in Busy /\ "finish" \notin {"create"} \cup Holding
  BY <1>1 DEF Busy, Holding
<1>5. PICK S \in SUBSET ContainerRows :
        /\ containers' = S /\ \A c \in S : c.of = "nobody" /\ c.lawful
        /\ IsFiniteSet(S) /\ Cardinality(S) <= dockerFaults' /\ dockerFaults' \in Nat
  BY <1>2, <1>4, DeletedAre
<1>6. /\ containers' = S \cup M /\ M \in SUBSET ContainerRows /\ M = {}
      /\ \A c \in M : c.of = h /\ c.lawful
      /\ \A c, d \in M : c = d
  BY <1>5
<1>7. /\ plan \in Seq(Folders \cup StepNames) /\ plan # <<>>
      /\ \A i \in DOMAIN plan : plan[i] \in Folders => plan[i] \in handler[h].seen
  BY <1>4, PlanStays
<1> HIDE DEF M, plan
<1>8. CASE Len(plan) > 1 /\ handler' = Planned(h, "create", Tail(plan))
  <2> DEFINE next == Tail(plan)
  <2>1. next \in Seq(Folders \cup StepNames) /\ next # <<>>
    <3>1. next \in Seq(Folders \cup StepNames) /\ Len(next) = Len(plan) - 1
      BY <1>7, HeadTailProperties
    <3> HIDE DEF next
    <3>2. Len(next) # 0
      BY <1>7, <1>8, <3>1
    <3> QED BY <3>1, <3>2
  <2>2. \A i \in DOMAIN next : next[i] \in Folders => next[i] \in handler[h].seen
    <3>1. Len(next) = Len(plan) - 1 /\ \A i \in 1..Len(next) : next[i] = plan[i + 1]
      BY <1>7, HeadTailProperties
    <3>2. ASSUME NEW i \in DOMAIN next PROVE next[i] \in Folders => next[i] \in handler[h].seen
      <4>1. i \in 1..Len(next) /\ i + 1 \in DOMAIN plan
        BY <1>7, <1>8, <2>1, <3>1
      <4> HIDE DEF next
      <4> QED BY <1>7, <3>1, <4>1
    <3> QED BY <3>2
  <2>3. handler' = Planned(h, "create", next)
    BY <1>8
  <2> HIDE DEF next
  <2> QED BY <1>1, <1>4, <1>5, <1>6, <2>1, <2>2, <2>3, RunStep
<1>9. CASE handler' = Moved(h, "finish")
  <2>1. handler' = Moved(h, "finish") /\ plan = handler[h].plan
    BY <1>9 DEF plan
  <2> QED BY <1>1, <1>4, <1>5, <1>6, <1>7, <2>1, RunStep
<1> QED BY <1>3, <1>8, <1>9

LEMMA PollStep ==
  ASSUME BoxInv, NEW h \in Handlers, PollEnds(h)
  PROVE  BoxInv'
<1> DEFINE plan == handler[h].plan
           M == Mine(h)
<1>1. /\ handler[h].pc = "poll" /\ handler' = Moved(h, "delete")
      /\ UNCHANGED <<grants, switch, knownNames, runLock, refusedByOwn, runnerUp, stops>>
      /\ containers' = containers /\ dockerFaults' = dockerFaults
  BY DEF PollEnds, Moved
<1>2. /\ handler[h].pc \in Busy /\ handler[h].pc \in {"create"} \cup Holding
      /\ "delete" \in Busy /\ "delete" \in Holding
  BY <1>1 DEF Busy, Holding
<1>3. /\ containers' = Strays \cup M
      /\ Strays \in SUBSET ContainerRows /\ M \in SUBSET ContainerRows
      /\ \A c \in Strays : c.of = "nobody" /\ c.lawful
      /\ \A c \in M : c.of = h /\ c.lawful
      /\ \A c, d \in M : c = d
      /\ IsFiniteSet(Strays) /\ Cardinality(Strays) <= dockerFaults' /\ dockerFaults' \in Nat
  BY <1>1, <1>2, MineAre
<1>4. /\ plan \in Seq(Folders \cup StepNames) /\ plan # <<>>
      /\ \A i \in DOMAIN plan : plan[i] \in Folders => plan[i] \in handler[h].seen
  BY <1>2, PlanStays
<1>5. handler' = Moved(h, "delete") /\ plan = handler[h].plan
  BY <1>1
<1>6. M # {} => "delete" \in Holding
  BY <1>2
<1>7. "delete" \in {"create"} \cup Holding => plan # <<>>
  BY <1>4
<1>8. BoxInv /\ h \in Handlers /\ handler[h].pc \in Busy /\ "delete" \in Busy
  BY <1>2
<1>9. UNCHANGED <<grants, switch, knownNames, runLock, refusedByOwn, runnerUp, stops>>
  BY <1>1
<1> HIDE DEF plan, M
<1> QED BY ONLY <1>3, <1>4, <1>5, <1>6, <1>7, <1>8, <1>9, RunStep

\* Staging releases the lock and replies then; the others reply and release it then.
LEMMA FinishStep ==
  ASSUME BoxInv, NEW h \in Handlers, Finish(h)
  PROVE  BoxInv'
<1>1. /\ handler[h].pc = "finish"
      /\ UNCHANGED <<grants, switch, knownNames, containers, refusedByOwn, runnerUp, dockerFaults, stops>>
  BY DEF Finish
<1>2. /\ runLock = h /\ runnerUp /\ handler \in [Handlers -> BoxRequests] /\ handler[h] \in BoxRequests
      /\ RequestFits(handler[h]) /\ handler[h].pc \notin Holding /\ Free \notin Handlers
  BY <1>1, SandboxAssumption DEF BoxInv, BoxTypes, LockOK, Busy, Holding
<1>3. ASSUME NEW r \in BoxRequests, handler' = [handler EXCEPT ![h] = r], RequestFits(r),
             runLock' \in {h, Free}, r.pc \in Busy <=> runLock' = h
      PROVE  BoxInv'
  <2>1. ContainersOK' /\ containers' \subseteq ContainerRows /\ dockerFaults' \in Nat
    BY <1>1, <1>2, <1>3, EmptyHanded
  <2>2. runLock' \in Handlers \cup {Free} /\ \A d \in Handlers \ {h} : runLock' = d <=> runLock = d
    BY <1>2, <1>3
  <2>3. refusedByOwn' = refusedByOwn
    BY <1>1
  <2> QED BY <1>1, <1>2, <1>3, <2>1, <2>2, <2>3, HandlerStep
<1>4. CASE runLock' = Free /\ handler[h].replied /\ handler' = [handler EXCEPT ![h] = NoRequest]
  BY <1>2, <1>3, <1>4, NoRequestFits DEF Busy
<1>5. ASSUME runLock' = Free, ~handler[h].replied,
             handler' = [handler EXCEPT ![h] = [handler[h] EXCEPT !.pc = "reply"]]
      PROVE  BoxInv'
  <2>1. handler' = Moved(h, "reply")
    <3>1. DOMAIN handler = Handlers
      BY <1>2
    <3>2. [handler EXCEPT ![h].pc = "reply"] = [handler EXCEPT ![h] = [handler[h] EXCEPT !.pc = "reply"]]
      BY <3>1, SetPc
    <3> QED BY <1>5, <3>2 DEF Moved
  <2>2. "reply" \in {"idle", "arrived", "reply"} \cup Busy
    OBVIOUS
  <2>3. PICK r \in BoxRequests :
          /\ handler' = [handler EXCEPT ![h] = r]
          /\ r.pc = "reply" /\ r.kind = handler[h].kind /\ r.plan = handler[h].plan
          /\ r.seen = handler[h].seen /\ r.replied = handler[h].replied
    BY <1>2, <2>1, <2>2, AtPc
  <2>4. RequestFits(r)
    BY <1>1, <1>2, <2>3 DEF RequestFits, PlanIsSeen, Holding
  <2> QED BY <1>2, <1>3, <1>5, <2>3, <2>4 DEF Busy
<1>6. ASSUME runLock' = runLock, handler[h].kind # "stage", handler' = [handler EXCEPT ![h].replied = TRUE]
      PROVE  BoxInv'
  <2> DEFINE r0 == handler[h]
             r == [r0 EXCEPT !.replied = TRUE]
  <2>1. r0 = [pc |-> r0.pc, kind |-> r0.kind, app |-> r0.app, grant |-> r0.grant,
              plan |-> r0.plan, seen |-> r0.seen, replied |-> r0.replied]
    BY <1>2 DEF BoxRequests
  <2>2. handler' = [handler EXCEPT ![h] = r]
    BY <1>2, <1>6
  <2>3. r0 \in BoxRequests /\ RequestFits(r0) /\ r0.pc = "finish" /\ r0.kind # "stage"
    BY <1>1, <1>2, <1>6
  <2> HIDE DEF r0
  <2>4. /\ r \in BoxRequests /\ r.pc = r0.pc /\ r.kind = r0.kind /\ r.plan = r0.plan /\ r.seen = r0.seen
    BY <2>1, <2>3 DEF BoxRequests
  <2> HIDE DEF r
  <2>5. RequestFits(r)
    BY <2>3, <2>4 DEF RequestFits, PlanIsSeen
  <2>6. r.pc \in Busy /\ runLock' = h
    BY <1>2, <1>6, <2>3, <2>4 DEF Busy
  <2> QED BY <1>3, <2>2, <2>4, <2>5, <2>6
<1> QED BY <1>4, <1>5, <1>6 DEF Finish, ReleasesFirst

LEMMA StageRepliesStep ==
  ASSUME BoxInv, NEW h \in Handlers, StageReplies(h)
  PROVE  BoxInv'
<1>1. /\ handler[h].pc = "reply" /\ handler' = [handler EXCEPT ![h] = NoRequest]
      /\ UNCHANGED <<grants, switch, knownNames, runLock, containers, refusedByOwn, runnerUp, dockerFaults, stops>>
  BY DEF StageReplies
<1>2. runLock # h /\ handler[h].pc \notin Holding /\ runLock \in Handlers \cup {Free}
  BY <1>1 DEF BoxInv, BoxTypes, LockOK, Busy, Holding
<1>3. ContainersOK' /\ containers' \subseteq ContainerRows /\ dockerFaults' \in Nat
  BY <1>1, <1>2, NoRequestFits, EmptyHanded
<1>4. /\ NoRequest.pc \in Busy <=> runLock' = h
      /\ \A d \in Handlers \ {h} : runLock' = d <=> runLock = d
  BY <1>1, <1>2, NoRequestFits DEF Busy
<1> QED BY <1>1, <1>2, <1>3, <1>4, NoRequestFits, HandlerStep

-----------------------------------------------------------------------------
(* The sandbox: containers that end, and the runner's end and start. *)

LEMMA RestAre ==
  ASSUME BoxInv
  PROVE  /\ Strays \in SUBSET ContainerRows /\ containers \ Strays \in SUBSET ContainerRows
         /\ \A c \in Strays : c.of = "nobody" /\ c.lawful
         /\ \A c \in containers \ Strays :
              c.of \in Handlers /\ c.of = runLock /\ c.lawful /\ handler[c.of].pc \in Holding
         /\ \A c, d \in containers \ Strays : c = d
         /\ containers = Strays \cup (containers \ Strays)
         /\ IsFiniteSet(Strays) /\ Cardinality(Strays) \in Nat /\ dockerFaults \in Nat
         /\ Cardinality(Strays) <= dockerFaults + (IF runnerUp THEN 0 ELSE 1)
<1>1. Strays \subseteq containers /\ \A c \in Strays : c.of = "nobody"
  BY DEF Strays
<1>2. containers \subseteq ContainerRows /\ dockerFaults \in Nat /\ ContainersOK
  BY DEF BoxInv, BoxTypes
<1>3. \A c \in containers \ Strays : c.of \in Handlers /\ c.of = runLock /\ handler[c.of].pc \in Holding
  BY WhoseContainer
<1>4. Cardinality(Strays) \in Nat
  BY <1>2, FS_CardinalityType DEF ContainersOK
<1> QED BY <1>1, <1>2, <1>3, <1>4 DEF ContainersOK

LEMMA ExitStep ==
  ASSUME BoxInv, ContainerExits
  PROVE  BoxInv'
<1> DEFINE ended(c) == [c EXCEPT !.runs = FALSE]
           M == containers \ Strays
<1>1. PICK c \in containers : c.runs /\ containers' = (containers \ {c}) \cup {ended(c)}
  BY DEF ContainerExits
<1>2. /\ UNCHANGED <<grants, switch, knownNames, handler, runLock, refusedByOwn, runnerUp, dockerFaults, stops>>
  BY DEF ContainerExits
<1>3. /\ Strays \in SUBSET ContainerRows /\ M \in SUBSET ContainerRows
      /\ \A d \in Strays : d.of = "nobody" /\ d.lawful
      /\ \A d \in M : d.of \in Handlers /\ d.of = runLock /\ d.lawful /\ handler[d.of].pc \in Holding
      /\ \A d, e \in M : d = e
      /\ containers = Strays \cup M
      /\ IsFiniteSet(Strays) /\ Cardinality(Strays) \in Nat /\ dockerFaults \in Nat
      /\ Cardinality(Strays) <= dockerFaults + (IF runnerUp THEN 0 ELSE 1)
  BY RestAre
<1>4. ended(c) \in ContainerRows /\ ended(c).of = c.of /\ ended(c).lawful = c.lawful
  BY <1>3, RunningRow
<1>5. ContainersOK' /\ containers' \subseteq ContainerRows
  <2> DEFINE e == ended(c)
  <2>1. e \in ContainerRows /\ e.of = c.of /\ e.lawful = c.lawful /\ containers' = (containers \ {c}) \cup {e}
    BY <1>1, <1>4
  <2> HIDE DEF e, M
  <2>2. CASE c \in Strays
    <3> DEFINE S == (Strays \ {c}) \cup {e}
    <3>1. S \in SUBSET ContainerRows /\ \A d \in S : d.of = "nobody" /\ d.lawful
      BY <1>3, <2>1, <2>2
    <3>2. IsFiniteSet(S) /\ Cardinality(S) <= Cardinality(Strays) /\ Cardinality(S) \in Nat
      <4>1. IsFiniteSet(Strays \ {c}) /\ Cardinality(Strays \ {c}) = Cardinality(Strays) - 1
        BY <1>3, <2>2, FS_RemoveElement
      <4>2. IsFiniteSet(S) /\ Cardinality(S) <= Cardinality(Strays \ {c}) + 1
        BY <4>1, FewMore
      <4>3. Cardinality(S) \in Nat
        BY <4>2, FS_CardinalityType
      <4> HIDE DEF S
      <4> QED BY <1>3, <4>1, <4>2, <4>3
    <3>3. containers' = S \cup M
      <4>1. c \notin M
        BY <2>2 DEF M
      <4> QED BY <1>3, <2>1, <2>2, <4>1
    <3> HIDE DEF S
    <3>4. Cardinality(S) <= dockerFaults' + (IF runnerUp' THEN 0 ELSE 1)
      BY <1>2, <1>3, <3>2
    <3>5. \A d \in M : d.of \in Handlers /\ d.of = runLock' /\ d.lawful /\ handler'[d.of].pc \in Holding
      BY <1>2, <1>3
    <3>6. M \in SUBSET ContainerRows /\ \A d, x \in M : d = x
      BY <1>3
    <3> QED BY ONLY <3>1, <3>2, <3>3, <3>4, <3>5, <3>6, ContainersAre
  <2>3. CASE c \notin Strays
    <3> DEFINE N == {e}
    <3>1. c \in M /\ M = {c}
      BY <1>3, <2>3 DEF M
    <3>2. containers' = Strays \cup N
      BY <1>3, <2>1, <2>3, <3>1
    <3>3. /\ N \in SUBSET ContainerRows
          /\ \A d \in N : d.of \in Handlers /\ d.of = runLock' /\ d.lawful /\ handler'[d.of].pc \in Holding
          /\ \A d, x \in N : d = x
      BY <1>2, <1>3, <2>1, <3>1
    <3> HIDE DEF N
    <3>4. /\ Cardinality(Strays) <= dockerFaults' + (IF runnerUp' THEN 0 ELSE 1)
          /\ Strays \in SUBSET ContainerRows /\ IsFiniteSet(Strays)
          /\ \A d \in Strays : d.of = "nobody" /\ d.lawful
      BY <1>2, <1>3
    <3> QED BY ONLY <3>2, <3>3, <3>4, ContainersAre
  <2> QED BY <2>2, <2>3
<1>6. BoxTypes'
  BY <1>2, <1>5 DEF BoxInv, BoxTypes
<1>7. \A h \in Handlers : RequestFits(handler[h])' /\ LockOK(h)'
  BY <1>2 DEF BoxInv, RequestFits, LockOK
<1> QED BY <1>2, <1>5, <1>6, <1>7 DEF BoxInv

\* A container outlives the runner that made it: one more that nobody knows.
LEMMA DiesStep ==
  ASSUME BoxInv, RunnerDies
  PROVE  BoxInv'
<1> DEFINE S == Strays
           M == containers \ Strays
           T == S \cup LeftOf(M)
<1>1. /\ runnerUp /\ runnerUp' = FALSE /\ stops' = stops + 1 /\ runLock' = Free
      /\ handler' = [h \in Handlers |-> NoRequest]
      /\ containers' = LeftOf(containers)
      /\ UNCHANGED <<grants, switch, knownNames, refusedByOwn, dockerFaults>>
  BY DEF RunnerDies, LeftOf
<1>2. /\ S \in SUBSET ContainerRows /\ M \in SUBSET ContainerRows
      /\ \A d \in S : d.of = "nobody" /\ d.lawful
      /\ \A d \in M : d.lawful
      /\ \A d, e \in M : d = e
      /\ containers = S \cup M
      /\ IsFiniteSet(S) /\ Cardinality(S) \in Nat /\ dockerFaults \in Nat
      /\ Cardinality(S) <= dockerFaults
  BY <1>1, RestAre
<1>3. containers' = T
  <2>1. LeftOf(containers) = LeftOf(S) \cup LeftOf(M)
    BY <1>2 DEF LeftOf
  <2>2. LeftOf(S) = S
    BY <1>2, AbandonedRow DEF LeftOf
  <2> QED BY <1>1, <2>1, <2>2
<1>4. T = S \cup LeftOf(M)
  OBVIOUS
<1> HIDE DEF S, M, T
<1>5. /\ T \in SUBSET ContainerRows /\ \A c \in T : c.of = "nobody" /\ c.lawful
      /\ IsFiniteSet(T) /\ Cardinality(T) <= Cardinality(S) + 1
  BY ONLY <1>2, <1>4, LeftBehind
<1>6. Cardinality(T) \in Nat
  BY <1>5, FS_CardinalityType
<1>7. ContainersOK' /\ containers' \subseteq ContainerRows
  <2> DEFINE N == {}
  <2>1. /\ containers' = T \cup N /\ N \in SUBSET ContainerRows
        /\ \A c \in N : c.of \in Handlers /\ c.of = runLock' /\ c.lawful /\ handler'[c.of].pc \in Holding
        /\ \A c, d \in N : c = d
    BY <1>3
  <2> HIDE DEF N
  <2>2. Cardinality(T) <= dockerFaults' + (IF runnerUp' THEN 0 ELSE 1)
    BY <1>1, <1>2, <1>5, <1>6
  <2> QED BY ONLY <1>5, <2>1, <2>2, ContainersAre
<1>8. /\ handler' \in [Handlers -> BoxRequests]
      /\ \A h \in Handlers : handler'[h] = NoRequest
  BY <1>1, NoRequestFits
<1>9. BoxTypes'
  <2>1. BoxTypes
    BY DEF BoxInv
  <2>2. runLock' \in Handlers \cup {Free} /\ runnerUp' \in BOOLEAN /\ stops' \in Nat /\ dockerFaults' \in Nat
    <3>1. stops \in Nat /\ stops' = stops + 1 /\ dockerFaults' \in Nat
      BY <1>1, <1>2, <2>1 DEF BoxTypes
    <3>2. runLock' = Free /\ ~runnerUp'
      BY <1>1
    <3>3. runnerUp' \in BOOLEAN
      <4>1. runnerUp' = FALSE
        BY <1>1
      <4> QED BY <4>1, Zenon
    <3> QED BY <3>1, <3>2, <3>3
  <2>3. grants' = grants /\ switch' = switch /\ knownNames' = knownNames
    BY <1>1
  <2> QED BY <1>7, <1>8, <2>1, <2>2, <2>3 DEF BoxTypes
<1>10. ASSUME NEW h \in Handlers PROVE RequestFits(handler[h])' /\ LockOK(h)'
  <2>1. NoRequest.pc = "idle" /\ RequestFits(NoRequest)
    BY NoRequestFits
  <2>2. RequestFits(handler[h])'
    BY <1>1, <1>8, <2>1 DEF RequestFits, Holding
  <2>3. LockOK(h)'
    BY <1>1, <1>8, <2>1, SandboxAssumption DEF LockOK, Busy
  <2> QED BY <2>2, <2>3
<1> QED BY <1>1, <1>7, <1>9, <1>10 DEF BoxInv

\* cleanup_orphans removes the strays, or fails and leaves them.
LEMMA StartsStep ==
  ASSUME BoxInv, RunnerStarts
  PROVE  BoxInv'
<1> DEFINE M == {}
<1>1. /\ ~runnerUp /\ runnerUp' = TRUE
      /\ \/ containers' = {} /\ dockerFaults' = dockerFaults
         \/ dockerFaults' = dockerFaults + 1 /\ containers' = containers
      /\ UNCHANGED <<grants, switch, knownNames, handler, runLock, refusedByOwn, stops>>
  BY DEF RunnerStarts, DockerFault
<1>2. \A h \in Handlers : handler[h].pc = "idle" /\ runLock # h
  BY <1>1 DEF BoxInv, LockOK, Busy
<1>3. /\ Strays \in SUBSET ContainerRows
      /\ \A d \in Strays : d.of = "nobody" /\ d.lawful
      /\ containers = Strays
      /\ IsFiniteSet(Strays) /\ Cardinality(Strays) \in Nat /\ dockerFaults \in Nat
      /\ Cardinality(Strays) <= dockerFaults + 1
  BY <1>1, <1>2, RestAre
<1>4. dockerFaults' \in Nat
  BY <1>1, <1>3
<1>5. ContainersOK' /\ containers' \subseteq ContainerRows
  <2>1. PICK S \in SUBSET ContainerRows :
          /\ containers' = S /\ \A d \in S : d.of = "nobody" /\ d.lawful
          /\ IsFiniteSet(S) /\ Cardinality(S) <= dockerFaults'
    <3>1. CASE containers' = {} /\ dockerFaults' = dockerFaults
      BY <1>3, <3>1, FS_EmptySet
    <3>2. CASE dockerFaults' = dockerFaults + 1 /\ containers' = containers
      BY <1>3, <3>2
    <3> QED BY <1>1, <3>1, <3>2
  <2>2. /\ containers' = S \cup M /\ M \in SUBSET ContainerRows
        /\ \A c \in M : c.of \in Handlers /\ c.of = runLock' /\ c.lawful /\ handler'[c.of].pc \in Holding
        /\ \A c, d \in M : c = d
    BY <2>1
  <2> HIDE DEF M
  <2>3. Cardinality(S) <= dockerFaults' + (IF runnerUp' THEN 0 ELSE 1)
    BY <1>1, <1>4, <2>1
  <2>4. S \in SUBSET ContainerRows /\ IsFiniteSet(S) /\ \A d \in S : d.of = "nobody" /\ d.lawful
    BY <2>1
  <2> QED BY ONLY <2>2, <2>3, <2>4, ContainersAre
<1>6. BoxTypes'
  BY <1>1, <1>4, <1>5 DEF BoxInv, BoxTypes
<1>7. \A h \in Handlers : RequestFits(handler[h])' /\ LockOK(h)'
  BY <1>1, <1>2 DEF BoxInv, RequestFits, LockOK
<1> QED BY <1>1, <1>5, <1>6, <1>7 DEF BoxInv

-----------------------------------------------------------------------------
(* The sandbox: the invariant holds of every behaviour. *)

LEMMA BoxInitHolds == BoxInit => BoxInv
<1> SUFFICES ASSUME BoxInit PROVE BoxInv
  OBVIOUS
<1>1. Strays = {} /\ Cardinality({}) = 0 /\ IsFiniteSet({})
  BY FS_EmptySet DEF BoxInit, Strays
<1>2. ContainersOK
  BY <1>1 DEF BoxInit, ContainersOK
<1>3. BoxTypes
  BY NoRequestFits DEF BoxInit, BoxTypes
<1>4. ASSUME NEW h \in Handlers PROVE RequestFits(handler[h]) /\ LockOK(h)
  <2>1. handler[h] = NoRequest /\ runLock = Free
    BY DEF BoxInit
  <2>2. RequestFits(handler[h])
    BY <2>1, NoRequestFits DEF BoxInit
  <2> QED BY <2>1, <2>2, NoRequestFits, SandboxAssumption DEF LockOK, Busy
<1>5. ~refusedByOwn
  BY DEF BoxInit
<1> QED BY <1>2, <1>3, <1>4, <1>5 DEF BoxInv

LEMMA BoxStepHolds == BoxInv /\ [BoxNext]_boxVars => BoxInv'
<1> SUFFICES ASSUME BoxInv, [BoxNext]_boxVars PROVE BoxInv'
  OBVIOUS
<1>1. CASE CmdAdd \/ CmdRemove \/ CmdOff \/ CmdOn \/ GrantExpires
  BY <1>1, OwnerActions
<1>2. CASE RefreshNames
  BY <1>2, BoxFrame DEF RefreshNames, Active, ActiveIn
<1>3. CASE ContainerExits
  BY <1>3, ExitStep
<1>4. CASE RunnerDies
  BY <1>4, DiesStep
<1>5. CASE RunnerStarts
  BY <1>5, StartsStep
<1>6. ASSUME NEW a \in Apps, Request(a) PROVE BoxInv'
  BY <1>6, RequestStep
<1>7. ASSUME NEW a \in Apps, StopWaiting(a) PROVE BoxInv'
  BY <1>7, BoxFrame DEF StopWaiting, BoxInv, BoxTypes
<1>8. ASSUME NEW h \in Handlers,
             \/ Lock(h) \/ Admit(h) \/ CreateContainer(h) \/ StartContainer(h) \/ PollEnds(h)
             \/ DeleteContainer(h) \/ Finish(h) \/ StageReplies(h)
      PROVE  BoxInv'
  BY <1>8, LockStep, AdmitStep, CreateStep, StartStep, PollStep, DeleteStep, FinishStep, StageRepliesStep
<1>9. CASE UNCHANGED boxVars
  BY <1>9, BoxFrame DEF boxVars, BoxInv, BoxTypes
<1> QED BY <1>1, <1>2, <1>3, <1>4, <1>5, <1>6, <1>7, <1>8, <1>9 DEF BoxNext

LEMMA BoxInvIsSound == BoxInv => SandboxIsSound
<1> SUFFICES ASSUME BoxInv PROVE SandboxIsSound
  OBVIOUS
<1>1. NoStrays
  <2> SUFFICES ASSUME runnerUp
               PROVE  Cardinality(containers) <= (IF runLock = Free THEN 0 ELSE 1) + dockerFaults
    BY DEF NoStrays
  <2> DEFINE M == containers \ Strays
  <2>1. /\ \A c \in M : c.of \in Handlers /\ c.of = runLock
        /\ \A c, d \in M : c = d
        /\ containers = Strays \cup M
        /\ IsFiniteSet(Strays) /\ Cardinality(Strays) \in Nat /\ dockerFaults \in Nat
        /\ Cardinality(Strays) <= dockerFaults
    BY RestAre
  <2> HIDE DEF M
  <2>2. CASE M = {}
    BY <2>1, <2>2
  <2>3. CASE M # {}
    <3>1. PICK c \in M : TRUE
      BY <2>3
    <3>2. containers = Strays \cup {c} /\ runLock # Free
      BY <2>1, <3>1, SandboxAssumption
    <3>3. IsFiniteSet(containers) /\ Cardinality(containers) <= Cardinality(Strays) + 1
      BY <2>1, <3>2, FewMore
    <3>4. Cardinality(containers) \in Nat
      BY <3>3, FS_CardinalityType
    <3> QED BY <2>1, <3>2, <3>3, <3>4
  <2> QED BY <2>2, <2>3
<1>2. MountsAreGranted
  BY DEF BoxInv, ContainersOK, MountsAreGranted
<1>3. LockIsLive
  BY DEF BoxInv, BoxTypes, LockOK, Busy, LockIsLive
<1> QED BY <1>1, <1>2, <1>3 DEF SandboxIsSound, BoxInv

\* Containers do not pile up, folders are mounted by grant only, the lock is never lost, and nobody
\* is refused because of its own staging that has been answered: in every behaviour of the runner,
\* for any number of clients, threads, grants and Docker failures, through the runner's crashes.
THEOREM SandboxSound == BoxSpec => []SandboxIsSound
<1>1. BoxInit => BoxInv
  BY BoxInitHolds
<1>2. BoxInv /\ [BoxNext]_boxVars => BoxInv'
  BY BoxStepHolds
<1>3. BoxInv => SandboxIsSound
  BY BoxInvIsSound
<1> QED BY <1>1, <1>2, <1>3, PTL DEF BoxSpec

-----------------------------------------------------------------------------
(* The background sync: the invariant. *)

AnyRows == Nat \cup {None}
AnyCopies == [id : Sources, row : AnyRows]
AnyJobs == [pc : {"idle", "list", "next", "inline"}, todo : Seq(AnyCopies)]
AnySyncs == [pc : {"idle", "fetch", "write", "fail"}, src : Sources \cup {None}, data : Nat]

SyncTypes ==
  /\ now \in Nat /\ held \in [Sources -> Nat] /\ ctx \in [Sources -> Nat] /\ row \in [Sources -> AnyRows]
  /\ queue \in Seq(Sources) /\ job \in [Procs -> AnyJobs] /\ sync \in [Syncers -> AnySyncs]
  /\ overtaken \subseteq Syncers

\* What a sync carries is no newer than the source, and no older than what is stored unless
\* another sync has stored the source since; only a sync about to store is overtaken.
Fresh(a) ==
  /\ a \in overtaken => sync[a].pc = "write"
  /\ sync[a].pc = "write" => sync[a].data <= held[sync[a].src]
  /\ sync[a].pc = "write" /\ a \notin overtaken => ctx[sync[a].src] <= sync[a].data

\* A job in whose thread a source is synced waits for it.
JobWaits(p) == sync[p].pc # "idle" => job[p].pc = "inline" /\ job[p].todo # <<>>

BackInv ==
  /\ SyncTypes
  /\ \A a \in Syncers : sync[a].pc # "idle" => sync[a].src \in Sources
  /\ \A a \in Syncers : Fresh(a)
  /\ \A p \in Procs : JobWaits(p)
  /\ \A s \in Sources : ctx[s] <= held[s]

\* The action of BackOnlyWhenOvertaken.
BackStep ==
  \A s \in Sources : ctx'[s] < ctx[s] => \E a \in overtaken : sync[a].src = s /\ sync[a].data = ctx'[s]

-----------------------------------------------------------------------------
(* The background sync: steps. *)

LEMMA NothingGoesBack ==
  ASSUME BackInv, ctx' = ctx
  PROVE  BackStep
BY DEF BackInv, SyncTypes, BackStep

\* A job moves, and its thread syncs nothing.
LEMMA JobMoves ==
  ASSUME BackInv, NEW p \in Procs, NEW j \in AnyJobs, job' = [job EXCEPT ![p] = j], sync[p].pc = "idle",
         UNCHANGED <<now, held, row, ctx, sync, overtaken>>, queue' \in Seq(Sources)
  PROVE  BackInv'
<1>1. job \in [Procs -> AnyJobs]
  BY DEF BackInv, SyncTypes
<1>2. SyncTypes'
  BY <1>1 DEF BackInv, SyncTypes
<1>3. ASSUME NEW q \in Procs PROVE JobWaits(q)'
  BY <1>1 DEF BackInv, JobWaits
<1> QED BY <1>2, <1>3 DEF BackInv, Fresh

\* A sync moves.
LEMMA SyncMoves ==
  ASSUME BackInv, NEW a \in Syncers, NEW x \in AnySyncs, sync' = [sync EXCEPT ![a] = x],
         x.pc # "idle" => x.src \in Sources, overtaken' = overtaken \ {a},
         x.pc = "write" => ctx[x.src] <= x.data /\ x.data <= held[x.src],
         job' \in [Procs -> AnyJobs], \A p \in Procs \ {a} : job'[p] = job[p],
         a \in Procs /\ x.pc # "idle" => job'[a].pc = "inline" /\ job'[a].todo # <<>>,
         UNCHANGED <<now, held, ctx>>, row' \in [Sources -> AnyRows], queue' \in Seq(Sources)
  PROVE  BackInv'
<1>1. /\ sync' \in [Syncers -> AnySyncs] /\ sync'[a] = x
      /\ \A b \in Syncers \ {a} : sync'[b] = sync[b]
  BY DEF BackInv, SyncTypes
<1>2. SyncTypes'
  BY <1>1 DEF BackInv, SyncTypes
<1>3. ASSUME NEW p \in Procs PROVE JobWaits(p)'
  <2>1. p \in Syncers
    BY DEF Syncers
  <2> QED BY <1>1, <2>1 DEF BackInv, JobWaits
<1>4. ASSUME NEW b \in Syncers
      PROVE  Fresh(b)' /\ (sync'[b].pc # "idle" => sync'[b].src \in Sources)
  <2>1. CASE b = a
    BY <1>1, <2>1 DEF Fresh
  <2>2. CASE b # a
    BY <1>1, <2>2 DEF BackInv, Fresh
  <2> QED BY <2>1, <2>2
<1> QED BY <1>2, <1>3, <1>4 DEF BackInv

\* A sync that is not about to store is not overtaken.
LEMMA NotOvertaken ==
  ASSUME BackInv, NEW a \in Syncers, sync[a].pc # "write"
  PROVE  overtaken = overtaken \ {a}
BY DEF BackInv, Fresh

\* A sync ends, and a job goes on in some way.
LEMMA SyncEnds ==
  ASSUME BackInv, NEW a \in Syncers, sync' = [sync EXCEPT ![a] = NoSync],
         job' \in [Procs -> AnyJobs], \A p \in Procs \ {a} : job'[p] = job[p],
         UNCHANGED <<now, held, ctx, queue>>, row' \in [Sources -> AnyRows], overtaken' = overtaken \ {a}
  PROVE  BackInv'
<1>1. NoSync \in AnySyncs /\ NoSync.pc = "idle"
  BY DEF NoSync, AnySyncs
<1>2. queue' \in Seq(Sources)
  BY DEF BackInv, SyncTypes
<1> QED BY <1>1, <1>2, SyncMoves

\* A sync starts for a source of the list or the queue.
LEMMA SyncStarts ==
  ASSUME BackInv, NEW a \in Syncers, NEW s \in Sources, sync' = [sync EXCEPT ![a] = Started(s)],
         sync[a].pc = "idle", UNCHANGED overtaken,
         job' \in [Procs -> AnyJobs], \A p \in Procs \ {a} : job'[p] = job[p],
         a \in Procs => job'[a].pc = "inline" /\ job'[a].todo # <<>>,
         UNCHANGED <<now, held, ctx, row>>, queue' \in Seq(Sources)
  PROVE  BackInv'
<1> DEFINE x == Started(s)
<1>1. x \in AnySyncs /\ x.pc = "fetch" /\ x.src = s
  BY DEF Started, AnySyncs
<1>2. a \in Syncers /\ row' \in [Sources -> AnyRows] /\ sync' = [sync EXCEPT ![a] = x]
  BY DEF BackInv, SyncTypes
<1>3. overtaken' = overtaken \ {a}
  BY NotOvertaken
<1> HIDE DEF x
<1> QED BY <1>1, <1>2, <1>3, SyncMoves

\* Nothing that the invariant is about changes.
LEMMA BackFrame ==
  ASSUME BackInv, now' \in Nat, UNCHANGED <<held, row, ctx, queue, job, sync, overtaken>>
  PROVE  BackInv'
BY DEF BackInv, SyncTypes, Fresh, JobWaits

\* The jobs after a sync in thread a has returned or raised.
LEMMA JobsAfter ==
  ASSUME BackInv, NEW a \in Syncers, sync[a].pc # "idle",
         \/ job' = IF a \in Procs THEN [job EXCEPT ![a] = [pc |-> "next", todo |-> Tail(@.todo)]] ELSE job
         \/ job' = IF a \in Procs THEN [job EXCEPT ![a] = NoJob] ELSE job
         \/ job' = job
  PROVE  job' \in [Procs -> AnyJobs] /\ \A p \in Procs \ {a} : job'[p] = job[p]
<1>1. job \in [Procs -> AnyJobs]
  BY DEF BackInv, SyncTypes
<1>2. CASE a \notin Procs \/ job' = job
  BY <1>1, <1>2
<1>3. CASE a \in Procs /\ job' # job
  <2>1. job[a].todo \in Seq(AnyCopies) /\ job[a].todo # <<>>
    BY <1>1, <1>3 DEF BackInv, JobWaits, AnyJobs
  <2> DEFINE rest == Tail(job[a].todo)
             next == [pc |-> "next", todo |-> rest]
  <2>2. rest \in Seq(AnyCopies)
    BY <2>1
  <2>3. job' = [job EXCEPT ![a] = next] \/ job' = [job EXCEPT ![a] = NoJob]
    BY <1>3
  <2> HIDE DEF rest
  <2>4. next \in AnyJobs
    BY <2>2 DEF AnyJobs
  <2>5. NoJob \in AnyJobs
    BY DEF NoJob, AnyJobs
  <2> HIDE DEF next
  <2> QED BY <1>1, <2>3, <2>4, <2>5
<1> QED BY <1>2, <1>3

\* The sync in a thread, at another place, with what it fetched.
LEMMA SyncAt ==
  ASSUME BackInv, NEW a \in Syncers, NEW pc \in {"idle", "fetch", "write", "fail"}
  PROVE  \E x \in AnySyncs : /\ [sync EXCEPT ![a].pc = pc] = [sync EXCEPT ![a] = x]
                             /\ x.pc = pc /\ x.src = sync[a].src
<1> DEFINE x0 == sync[a]
           x == [x0 EXCEPT !.pc = pc]
<1>1. x0 \in AnySyncs /\ DOMAIN sync = Syncers
  BY DEF BackInv, SyncTypes
<1>2. [sync EXCEPT ![a].pc = pc] = [sync EXCEPT ![a] = x]
  BY <1>1, SetPc
<1> HIDE DEF x0
<1>3. x0 = [pc |-> x0.pc, src |-> x0.src, data |-> x0.data]
  BY <1>1 DEF AnySyncs
<1>4. x = [pc |-> pc, src |-> x0.src, data |-> x0.data]
  BY <1>3
<1> HIDE DEF x
<1>5. x \in AnySyncs /\ x.pc = pc /\ x.src = x0.src
  BY <1>1, <1>4 DEF AnySyncs
<1> QED BY <1>2, <1>5 DEF x0

WithFetched(a, v) == [sync EXCEPT ![a].pc = "write", ![a].data = v]

LEMMA SyncFetched ==
  ASSUME BackInv, NEW a \in Syncers, NEW v \in Nat
  PROVE  \E x \in AnySyncs : /\ WithFetched(a, v) = [sync EXCEPT ![a] = x]
                             /\ x.pc = "write" /\ x.src = sync[a].src /\ x.data = v
<1> DEFINE x0 == sync[a]
           x1 == [x0 EXCEPT !.pc = "write"]
           x == [x1 EXCEPT !.data = v]
           g == [sync EXCEPT ![a].pc = "write"]
<1>1. x0 \in AnySyncs /\ DOMAIN sync = Syncers
  BY DEF BackInv, SyncTypes
<1>2. g = [sync EXCEPT ![a] = x1]
  BY <1>1
<1>3. WithFetched(a, v) = [g EXCEPT ![a].data = v]
  BY DEF WithFetched
<1> HIDE DEF g, x1
<1>4. g[a] = x1 /\ DOMAIN g = Syncers
  BY <1>1, <1>2
<1>5. [g EXCEPT ![a].data = v] = [g EXCEPT ![a] = x]
  BY <1>4
<1> HIDE DEF x
<1>6. [g EXCEPT ![a] = x] = [sync EXCEPT ![a] = x]
  BY <1>2
<1> USE DEF x1, x
<1> HIDE DEF x0
<1>7. x0 = [pc |-> x0.pc, src |-> x0.src, data |-> x0.data]
  BY <1>1 DEF AnySyncs
<1>8. x1 = [pc |-> "write", src |-> x0.src, data |-> x0.data]
  BY <1>7
<1> HIDE DEF x1
<1>9. x = [pc |-> "write", src |-> x0.src, data |-> v]
  BY <1>8
<1> HIDE DEF x
<1>10. x \in AnySyncs /\ x.pc = "write" /\ x.src = x0.src /\ x.data = v
  BY <1>1, <1>9 DEF AnySyncs
<1> QED BY <1>3, <1>5, <1>6, <1>10 DEF x0

LEMMA SourceStep ==
  ASSUME BackInv, NEW s \in Sources, SourceChanges(s)
  PROVE  BackInv'
<1>1. /\ held' = [held EXCEPT ![s] = held[s] + 1]
      /\ UNCHANGED <<now, row, ctx, queue, job, sync, overtaken>>
  BY DEF SourceChanges
<1>2. /\ held \in [Sources -> Nat] /\ held' \in [Sources -> Nat]
      /\ \A r \in Sources : held[r] <= held'[r]
  BY <1>1 DEF BackInv, SyncTypes
<1>3. SyncTypes'
  BY <1>1, <1>2 DEF BackInv, SyncTypes
<1>4. \A a \in Syncers : Fresh(a)'
  <2> SUFFICES ASSUME NEW a \in Syncers, sync[a].pc = "write" PROVE sync[a].data <= held'[sync[a].src]
    BY <1>1 DEF BackInv, Fresh
  <2>1. sync[a].src \in Sources /\ sync[a].data <= held[sync[a].src]
    BY DEF BackInv, Fresh
  <2>2. sync[a].data \in Nat
    BY DEF BackInv, SyncTypes, AnySyncs
  <2> QED BY <1>2, <2>1, <2>2
<1>5. \A r \in Sources : ctx'[r] <= held'[r]
  BY <1>1, <1>2 DEF BackInv, SyncTypes
<1> QED BY <1>1, <1>3, <1>4, <1>5 DEF BackInv, JobWaits

LEMMA FetchStep ==
  ASSUME BackInv, NEW a \in Syncers, Fetch(a)
  PROVE  BackInv'
<1>1. /\ sync[a].pc = "fetch" /\ UNCHANGED <<now, held, row, ctx, queue, job, overtaken>>
      /\ sync' = WithFetched(a, held[sync[a].src])
  BY DEF Fetch, syncOnly, WithFetched
<1>2. sync[a].src \in Sources /\ overtaken' = overtaken \ {a}
  BY <1>1, NotOvertaken DEF BackInv
<1>3. held[sync[a].src] \in Nat /\ ctx[sync[a].src] <= held[sync[a].src]
  BY <1>2 DEF BackInv, SyncTypes
<1>4. PICK x \in AnySyncs : sync' = [sync EXCEPT ![a] = x] /\ x.pc = "write" /\ x.src = sync[a].src
                            /\ x.data = held[sync[a].src]
  <2> DEFINE v == held[sync[a].src]
  <2>1. sync' = WithFetched(a, v) /\ v \in Nat /\ BackInv /\ a \in Syncers
    BY <1>1, <1>3
  <2> HIDE DEF v
  <2>2. \E x \in AnySyncs : /\ WithFetched(a, v) = [sync EXCEPT ![a] = x]
                            /\ x.pc = "write" /\ x.src = sync[a].src /\ x.data = v
    BY ONLY <2>1, SyncFetched
  <2> QED BY <2>1, <2>2 DEF v
<1>5. a \in Procs => job'[a].pc = "inline" /\ job'[a].todo # <<>>
  BY <1>1 DEF BackInv, JobWaits
<1>6. job' \in [Procs -> AnyJobs] /\ row' \in [Sources -> AnyRows] /\ queue' \in Seq(Sources)
  BY <1>1 DEF BackInv, SyncTypes
<1>7. x.data <= held[x.src] /\ ctx[x.src] <= x.data
  BY <1>3, <1>4
<1> QED BY <1>1, <1>2, <1>4, <1>5, <1>6, <1>7, SyncMoves

\* What a sync does that has not come to write, or fails to.
LEMMA FailStep ==
  ASSUME BackInv, NEW a \in Syncers, sync[a].pc # "idle", sync' = [sync EXCEPT ![a].pc = "fail"],
         UNCHANGED <<now, held, row, ctx, queue, job>>, overtaken' = overtaken \ {a}
  PROVE  BackInv'
<1>1. PICK x \in AnySyncs : sync' = [sync EXCEPT ![a] = x] /\ x.pc = "fail" /\ x.src = sync[a].src
  BY SyncAt
<1>2. sync[a].src \in Sources
  BY DEF BackInv
<1>3. a \in Procs => job'[a].pc = "inline" /\ job'[a].todo # <<>>
  BY DEF BackInv, JobWaits
<1>4. job' \in [Procs -> AnyJobs] /\ row' \in [Sources -> AnyRows] /\ queue' \in Seq(Sources)
  BY DEF BackInv, SyncTypes
<1> QED BY <1>1, <1>2, <1>3, <1>4, SyncMoves

\* last_sync_at is set, or not.
LEMMA RowsAfter ==
  ASSUME BackInv, NEW s \in Sources, row' = row \/ row' = [row EXCEPT ![s] = now]
  PROVE  row' \in [Sources -> AnyRows]
BY DEF BackInv, SyncTypes, AnyRows

LEMMA EndStep ==
  ASSUME BackInv, NEW a \in Syncers, sync[a].pc # "idle", Returns(a) \/ Raises(a),
         row' = row \/ row' = [row EXCEPT ![sync[a].src] = now],
         UNCHANGED <<now, held, ctx, queue>>, overtaken' = overtaken \ {a}
  PROVE  BackInv'
<1>1. sync' = [sync EXCEPT ![a] = NoSync]
  BY DEF Returns, Raises
<1>2. job' \in [Procs -> AnyJobs] /\ \A p \in Procs \ {a} : job'[p] = job[p]
  BY JobsAfter DEF Returns, Raises
<1>3. row' \in [Sources -> AnyRows]
  BY RowsAfter DEF BackInv
<1> QED BY <1>1, <1>2, <1>3, SyncEnds

\* A sync that is not overtaken stores nothing older than what is there; the other syncs about to
\* store the same source are overtaken by it.
LEMMA WriteStep ==
  ASSUME BackInv, NEW a \in Syncers, sync[a].pc = "write", Returns(a),
         ctx' = [ctx EXCEPT ![sync[a].src] = sync[a].data],
         row' = [row EXCEPT ![sync[a].src] = now], UNCHANGED <<now, held, queue>>,
         overtaken' = (overtaken \ {a}) \cup BehindStoreOf(a)
  PROVE  BackInv' /\ BackStep
<1> DEFINE s0 == sync[a].src
           v == sync[a].data
<1>1. s0 \in Sources /\ v \in Nat /\ v <= held[s0] /\ (a \notin overtaken => ctx[s0] <= v)
  BY DEF BackInv, SyncTypes, Fresh, AnySyncs
<1>2. /\ ctx' = [ctx EXCEPT ![s0] = v] /\ ctx \in [Sources -> Nat] /\ held \in [Sources -> Nat]
      /\ \A s \in Sources : ctx[s] <= held[s]
  BY DEF BackInv, SyncTypes
<1>3. sync' = [sync EXCEPT ![a] = NoSync]
  BY DEF Returns
<1>4. job' \in [Procs -> AnyJobs] /\ \A p \in Procs \ {a} : job'[p] = job[p]
  BY JobsAfter DEF Returns
<1>5. row' \in [Sources -> AnyRows]
  BY <1>1, RowsAfter
<1>6. BackStep
  <2> SUFFICES ASSUME NEW s \in Sources, ctx'[s] < ctx[s]
               PROVE  \E b \in overtaken : sync[b].src = s /\ sync[b].data = ctx'[s]
    BY DEF BackStep
  <2> HIDE DEF s0, v
  <2>1. s = s0 /\ ctx'[s] = v /\ a \in overtaken
    BY <1>1, <1>2
  <2> QED BY <2>1 DEF s0, v
<1>7. /\ ctx' \in [Sources -> Nat] /\ ctx'[s0] = v /\ \A s \in Sources \ {s0} : ctx'[s] = ctx[s]
      /\ \A s \in Sources : ctx'[s] <= held'[s]
  <2> HIDE DEF s0, v
  <2> QED BY <1>1, <1>2
<1>8. NoSync \in AnySyncs /\ NoSync.pc = "idle"
  BY DEF NoSync, AnySyncs
<1>9. /\ sync' \in [Syncers -> AnySyncs] /\ sync'[a].pc = "idle"
      /\ \A b \in Syncers \ {a} : sync'[b] = sync[b]
  BY <1>3, <1>8 DEF BackInv, SyncTypes
<1>10. a \notin overtaken' /\ overtaken' \subseteq Syncers
  BY DEF BehindStoreOf, BackInv, SyncTypes
<1>11. SyncTypes'
  BY <1>4, <1>5, <1>7, <1>9, <1>10 DEF BackInv, SyncTypes
<1>12. ASSUME NEW b \in Syncers PROVE Fresh(b)' /\ (sync'[b].pc # "idle" => sync'[b].src \in Sources)
  <2>1. CASE b = a
    BY <1>9, <1>10, <2>1 DEF Fresh
  <2>2. CASE b # a
    <3>1. sync'[b] = sync[b] /\ held' = held
      BY <1>9, <2>2
    <3>2. b \in overtaken' <=> b \in overtaken \/ (sync[b].pc = "write" /\ sync[b].src = s0)
      BY <2>2 DEF BehindStoreOf
    <3>3. b \in overtaken' => sync'[b].pc = "write"
      BY <3>1, <3>2 DEF BackInv, Fresh
    <3>4. ASSUME sync'[b].pc = "write", b \notin overtaken' PROVE ctx'[sync'[b].src] <= sync'[b].data
      <4>1. sync[b].src \in Sources /\ sync[b].src # s0 /\ ctx[sync[b].src] <= sync[b].data
        BY <3>1, <3>2, <3>4 DEF BackInv, Fresh
      <4> QED BY <1>7, <3>1, <4>1
    <3> QED BY <3>1, <3>3, <3>4 DEF BackInv, Fresh
  <2> QED BY <2>1, <2>2
<1>13. ASSUME NEW p \in Procs PROVE JobWaits(p)'
  <2>1. p \in Syncers
    BY DEF Syncers
  <2> QED BY <1>4, <1>9, <2>1 DEF BackInv, JobWaits
<1> QED BY <1>6, <1>7, <1>11, <1>12, <1>13 DEF BackInv

LEMMA SyncingSteps ==
  ASSUME BackInv, NEW a \in Syncers, SyncStep(a) \/ ReadFails(a)
  PROVE  BackInv' /\ BackStep
<1>0. ctx' = ctx => BackStep
  BY NothingGoesBack
<1>1. CASE Fetch(a)
  BY <1>0, <1>1, FetchStep DEF Fetch
<1>2. CASE FetchFails(a)
  BY <1>0, <1>2, FailStep, NotOvertaken DEF FetchFails, syncOnly
<1>3. CASE ReadFails(a)
  BY <1>0, <1>3, EndStep, NotOvertaken DEF ReadFails, syncOnly
<1>4. CASE Store(a)
  <2>1. sync[a].pc = "write" /\ UNCHANGED <<now, held, queue>>
    BY <1>4 DEF Store, syncOnly
  <2>2. \/ /\ ctx' = [ctx EXCEPT ![sync[a].src] = sync[a].data]
           /\ row' = [row EXCEPT ![sync[a].src] = now] /\ Returns(a)
           /\ overtaken' = (overtaken \ {a}) \cup BehindStoreOf(a)
        \/ /\ sync' = [sync EXCEPT ![a].pc = "fail"] /\ UNCHANGED <<ctx, row, job>>
           /\ overtaken' = overtaken \ {a}
    BY <1>4 DEF Store
  <2> QED BY <1>0, <2>1, <2>2, WriteStep, FailStep
<1>5. CASE StoreFailure(a)
  BY <1>0, <1>5, EndStep, NotOvertaken DEF StoreFailure, syncOnly
<1> QED BY <1>1, <1>2, <1>3, <1>4, <1>5 DEF SyncStep

\* A job's place, or its list.
LEMMA JobAt ==
  ASSUME BackInv, NEW p \in Procs, NEW pc \in {"idle", "list", "next", "inline"}
  PROVE  \E j \in AnyJobs : /\ [job EXCEPT ![p].pc = pc] = [job EXCEPT ![p] = j]
                            /\ j.pc = pc /\ j.todo = job[p].todo
<1> DEFINE j0 == job[p]
           j == [j0 EXCEPT !.pc = pc]
<1>1. j0 \in AnyJobs /\ DOMAIN job = Procs
  BY DEF BackInv, SyncTypes
<1>2. [job EXCEPT ![p].pc = pc] = [job EXCEPT ![p] = j]
  BY <1>1, SetPc
<1> HIDE DEF j0
<1>3. j0 = [pc |-> j0.pc, todo |-> j0.todo]
  BY <1>1 DEF AnyJobs
<1>4. j = [pc |-> pc, todo |-> j0.todo]
  BY <1>3
<1> HIDE DEF j
<1>5. j \in AnyJobs /\ j.pc = pc /\ j.todo = j0.todo
  BY <1>1, <1>4 DEF AnyJobs
<1> QED BY <1>2, <1>5 DEF j0

LEMMA JobShorter ==
  ASSUME BackInv, NEW p \in Procs, job[p].todo # <<>>
  PROVE  \E j \in AnyJobs : [job EXCEPT ![p].todo = Tail(@)] = [job EXCEPT ![p] = j]
<1> DEFINE j0 == job[p]
           rest == Tail(j0.todo)
           j == [j0 EXCEPT !.todo = rest]
<1>1. j0 \in AnyJobs /\ DOMAIN job = Procs
  BY DEF BackInv, SyncTypes
<1>2. [job EXCEPT ![p].todo = Tail(@)] = [job EXCEPT ![p] = j]
  BY <1>1
<1>3. rest \in Seq(AnyCopies)
  BY <1>1 DEF AnyJobs
<1> HIDE DEF j0, rest
<1>4. j0 = [pc |-> j0.pc, todo |-> j0.todo]
  BY <1>1 DEF AnyJobs
<1>5. j = [pc |-> j0.pc, todo |-> rest]
  BY <1>4
<1> HIDE DEF j
<1>6. j \in AnyJobs
  BY <1>1, <1>3, <1>5 DEF AnyJobs
<1> QED BY <1>2, <1>6

\* The source that a job has come to.
LEMMA HeadOfList ==
  ASSUME BackInv, NEW p \in Procs, job[p].todo # <<>>
  PROVE  Head(job[p].todo).id \in Sources
<1>1. job[p].todo \in Seq(AnyCopies)
  BY DEF BackInv, SyncTypes, AnyJobs
<1>2. Head(job[p].todo) \in AnyCopies
  BY <1>1
<1> QED BY <1>2 DEF AnyCopies

\* A job that is not waiting for its thread.
LEMMA NotWaiting ==
  ASSUME BackInv, NEW p \in Procs, job[p].pc # "inline"
  PROVE  sync[p].pc = "idle"
BY DEF BackInv, JobWaits

LEMMA HandleStep ==
  ASSUME BackInv, NEW p \in Procs, Handle(p)
  PROVE  BackInv'
<1>1. /\ job[p].pc = "next" /\ job[p].todo # <<>> /\ UNCHANGED <<now, held, row, ctx, overtaken>>
  BY DEF Handle
<1>2. Head(job[p].todo).id \in Sources /\ sync[p].pc = "idle" /\ queue \in Seq(Sources)
  BY <1>1, HeadOfList, NotWaiting DEF BackInv, SyncTypes
<1>3. \/ /\ queue' = Append(queue, Head(job[p].todo).id) /\ sync' = sync
         /\ job' = [job EXCEPT ![p].todo = Tail(@)]
      \/ Begin(p) /\ queue' = queue
  BY DEF Handle
<1>4. CASE /\ queue' = Append(queue, Head(job[p].todo).id) /\ sync' = sync
           /\ job' = [job EXCEPT ![p].todo = Tail(@)]
  <2>1. queue' \in Seq(Sources)
    BY <1>2, <1>4
  <2>2. PICK j \in AnyJobs : job' = [job EXCEPT ![p] = j]
    BY <1>1, <1>4, JobShorter
  <2> QED BY <1>1, <1>2, <1>4, <2>1, <2>2, JobMoves
<1>5. CASE Begin(p) /\ queue' = queue
  <2>1. p \in Syncers
    BY DEF Syncers
  <2>2. sync' = [sync EXCEPT ![p] = Started(Head(job[p].todo).id)] /\ job' = [job EXCEPT ![p].pc = "inline"]
    BY <1>5 DEF Begin
  <2>3. PICK j \in AnyJobs : job' = [job EXCEPT ![p] = j] /\ j.pc = "inline" /\ j.todo = job[p].todo
    BY <2>2, JobAt
  <2>4. /\ job' \in [Procs -> AnyJobs] /\ \A q \in Procs \ {p} : job'[q] = job[q]
        /\ job'[p].pc = "inline" /\ job'[p].todo # <<>>
    BY <1>1, <2>3 DEF BackInv, SyncTypes
  <2>5. queue' \in Seq(Sources)
    BY <1>2, <1>5
  <2> QED BY <1>1, <1>2, <2>1, <2>2, <2>4, <2>5, SyncStarts
<1> QED BY <1>3, <1>4, <1>5

\* The job's other steps.
LEMMA JobSteps ==
  ASSUME BackInv, NEW p \in Procs, StartJob(p) \/ ListSources(p) \/ PassOver(p) \/ EndJob(p) \/ JobRaises(p)
  PROVE  BackInv'
<1>0. job[p].pc # "inline" /\ UNCHANGED <<now, held, row, ctx, queue, sync, overtaken>>
  BY DEF StartJob, ListSources, PassOver, EndJob, JobRaises, jobOnly
<1>1. sync[p].pc = "idle" /\ queue' \in Seq(Sources)
  BY <1>0, NotWaiting DEF BackInv, SyncTypes
<1>2. ASSUME NEW j \in AnyJobs, job' = [job EXCEPT ![p] = j] PROVE BackInv'
  BY <1>0, <1>1, <1>2, JobMoves
<1>3. CASE StartJob(p)
  <2>1. job' = [job EXCEPT ![p].pc = "list"]
    BY <1>3 DEF StartJob
  <2>2. PICK j \in AnyJobs : job' = [job EXCEPT ![p] = j]
    BY <2>1, JobAt
  <2> QED BY <1>2, <2>2
<1>4. CASE ListSources(p)
  <2> DEFINE copies == [i \in DOMAIN SourceList |-> [id |-> SourceList[i], row |-> row[SourceList[i]]]]
             j == [pc |-> "next", todo |-> copies]
  <2>1. copies \in Seq(AnyCopies)
    <3>1. PICK n \in Nat : DOMAIN SourceList = 1..n
      BY SyncAssumption
    <3>2. \A i \in 1..n : SourceList[i] \in Sources
      BY <3>1 DEF Sources
    <3>3. ASSUME NEW i \in 1..n PROVE [id |-> SourceList[i], row |-> row[SourceList[i]]] \in AnyCopies
      BY <3>2 DEF AnyCopies, BackInv, SyncTypes
    <3>4. copies \in [1..n -> AnyCopies]
      BY <3>1, <3>3
    <3> HIDE DEF copies
    <3> QED BY <3>4
  <2>2. job' = [job EXCEPT ![p] = j]
    BY <1>4 DEF ListSources
  <2> HIDE DEF copies
  <2>3. j \in AnyJobs
    BY <2>1 DEF AnyJobs
  <2> HIDE DEF j
  <2> QED BY <1>2, <2>2, <2>3
<1>5. CASE PassOver(p)
  <2>1. job[p].todo # <<>> /\ job' = [job EXCEPT ![p].todo = Tail(@)]
    BY <1>5 DEF PassOver
  <2>2. PICK j \in AnyJobs : job' = [job EXCEPT ![p] = j]
    BY <2>1, JobShorter
  <2> QED BY <1>2, <2>2
<1>6. CASE EndJob(p) \/ JobRaises(p)
  <2>1. job' = [job EXCEPT ![p] = NoJob]
    BY <1>6 DEF EndJob, JobRaises
  <2>2. NoJob \in AnyJobs
    BY DEF NoJob, AnyJobs
  <2> QED BY <1>2, <2>1, <2>2
<1> QED BY <1>3, <1>4, <1>5, <1>6

LEMMA WorkerSteps ==
  ASSUME BackInv, SyncAssumption, NEW w \in Workers, WorkerTakes(w) \/ WorkerDies(w)
  PROVE  BackInv'
<1>1. w \notin Procs /\ w \in Syncers
  BY SyncAssumption DEF Syncers
<1>2. /\ job \in [Procs -> AnyJobs] /\ row \in [Sources -> AnyRows] /\ queue \in Seq(Sources)
  BY DEF BackInv, SyncTypes
<1>3. CASE WorkerTakes(w)
  <2>1. /\ queue # <<>> /\ sync' = [sync EXCEPT ![w] = Started(Head(queue))] /\ queue' = Tail(queue)
        /\ sync[w].pc = "idle" /\ UNCHANGED <<now, held, row, ctx, job, overtaken>>
    BY <1>3 DEF WorkerTakes
  <2>2. Head(queue) \in Sources /\ queue' \in Seq(Sources)
    BY <1>2, <2>1
  <2> QED BY <1>1, <1>2, <2>1, <2>2, SyncStarts
<1>4. CASE WorkerDies(w)
  BY <1>1, <1>2, <1>4, SyncEnds DEF WorkerDies, syncOnly
<1> QED BY <1>3, <1>4

LEMMA ServerSteps ==
  ASSUME BackInv, NEW p \in Procs,
         \/ NotLeader(p) \/ ServerStops(p) \/ ServerCrashes(p) \/ ServerStarts(p) \/ ConnectionLost(p)
  PROVE  BackInv'
<1>1. CASE NotLeader(p) \/ ServerStops(p) \/ ServerStarts(p) \/ ConnectionLost(p)
  BY <1>1, BackFrame DEF NotLeader, ServerStops, ServerStarts, ConnectionLost, syncVars, BackInv, SyncTypes
<1>2. CASE ServerCrashes(p)
  <2>1. /\ job' = [job EXCEPT ![p] = NoJob] /\ sync' = [sync EXCEPT ![p] = NoSync]
        /\ overtaken' = overtaken \ {p} /\ UNCHANGED <<now, held, row, ctx, queue>>
    BY <1>2 DEF ServerCrashes
  <2>2. NoJob \in AnyJobs /\ p \in Syncers
    BY DEF NoJob, AnyJobs, Syncers
  <2>3. /\ job' \in [Procs -> AnyJobs] /\ \A q \in Procs \ {p} : job'[q] = job[q]
        /\ row' \in [Sources -> AnyRows]
    BY <2>1, <2>2 DEF BackInv, SyncTypes
  <2> QED BY <2>1, <2>2, <2>3, SyncEnds
<1> QED BY <1>1, <1>2

LEMMA BackInitHolds == SyncAssumption /\ Init => BackInv
<1> SUFFICES ASSUME SyncAssumption, Init PROVE BackInv
  OBVIOUS
<1>1. NoSync \in AnySyncs /\ NoSync.pc = "idle" /\ NoJob \in AnyJobs
  BY DEF NoSync, AnySyncs, NoJob, AnyJobs
<1>2. \A a \in Syncers : sync[a] = NoSync
  BY DEF Init
<1>3. SyncTypes
  BY <1>1 DEF Init, SyncTypes, AnyRows
<1>4. \A s \in Sources : ctx[s] <= held[s]
  BY DEF Init
<1>5. overtaken = {}
  BY DEF Init
<1> QED BY <1>1, <1>2, <1>3, <1>4, <1>5 DEF BackInv, Fresh, JobWaits, Syncers

LEMMA BackStepHolds ==
  ASSUME SyncAssumption, BackInv, [Next]_vars
  PROVE  BackInv' /\ BackStep
<1>0. (ctx' = ctx => BackStep) /\ now \in Nat
  BY NothingGoesBack DEF BackInv, SyncTypes
<1>1. ASSUME NEW a \in Syncers, SyncStep(a) \/ ReadFails(a)
      PROVE  BackInv' /\ BackStep
  BY <1>1, SyncingSteps
<1>2. CASE Tick
  BY <1>0, <1>2, BackFrame DEF Tick
<1>3. CASE LockDropped \/ UNCHANGED vars
  BY <1>0, <1>3, BackFrame DEF LockDropped, vars, syncVars
<1>4. ASSUME NEW s \in Sources, SourceChanges(s) PROVE BackInv' /\ ctx' = ctx
  BY <1>4, SourceStep DEF SourceChanges
<1>5. ASSUME NEW s \in Sources, NEW t \in Requesters, SyncNow(t, s) PROVE BackInv' /\ ctx' = ctx
  <2>1. t \in Syncers /\ t \notin Procs
    BY SyncAssumption DEF Syncers
  <2>2. /\ job \in [Procs -> AnyJobs] /\ queue' \in Seq(Sources)
        /\ sync' = [sync EXCEPT ![t] = Started(s)] /\ sync[t].pc = "idle"
        /\ UNCHANGED <<now, held, row, ctx, job, overtaken>>
    BY <1>5 DEF SyncNow, syncOnly, BackInv, SyncTypes
  <2> QED BY <2>1, <2>2, SyncStarts
<1>6. ASSUME NEW v \in Workers, WorkerTakes(v) \/ WorkerDies(v) PROVE BackInv' /\ ctx' = ctx
  BY <1>6, WorkerSteps DEF WorkerTakes, WorkerDies
<1>7. ASSUME NEW p \in Procs, JobStep(p) \/ JobRaises(p) PROVE BackInv' /\ ctx' = ctx
  <2>1. ctx' = ctx
    BY <1>7 DEF JobStep, JobRaises, StartJob, ListSources, PassOver, Handle, EndJob, jobOnly
  <2> QED BY <1>7, <2>1, JobSteps, HandleStep DEF JobStep
<1>8. ASSUME NEW p \in Procs,
             \/ NotLeader(p) \/ ServerStops(p) \/ ServerCrashes(p) \/ ServerStarts(p) \/ ConnectionLost(p)
      PROVE  BackInv' /\ ctx' = ctx
  BY <1>8, ServerSteps DEF NotLeader, ServerStops, ServerCrashes, ServerStarts, ConnectionLost, syncVars
<1>9. CASE BackInv' /\ ctx' = ctx
  BY <1>0, <1>9
<1>10. CASE Next
  BY <1>1, <1>2, <1>3, <1>4, <1>5, <1>6, <1>7, <1>8, <1>9, <1>10 DEF Next
<1> QED BY <1>3, <1>10

\* For every number of processes, workers and requests that sync beside each other, with a queue
\* or without, through crashes, changes of leadership and statements that fail: what is stored
\* about a source goes back only by the store of a sync that another one overtook between its
\* fetch and its store, and then to what that sync fetched (sync_data_source).
THEOREM OnlyOvertakenGoesBack == Spec => BackOnlyWhenOvertaken
<1>1. Init => BackInv
  BY SyncAssumption, BackInitHolds
<1>2. BackInv /\ [Next]_vars => BackInv' /\ BackStep
  BY SyncAssumption, BackStepHolds
<1>3. BackInv /\ [Next]_vars =>
        [\A s \in Sources : ctx'[s] < ctx[s] =>
           \E a \in overtaken : sync[a].src = s /\ sync[a].data = ctx'[s]]_vars
  BY <1>2 DEF BackStep
<1>4. BackInv /\ [Next]_vars => BackInv'
  BY <1>2
<1> QED BY <1>1, <1>3, <1>4, PTL DEF Spec, BackOnlyWhenOvertaken
-----------------------------------------------------------------------------
(* The throttle: a lockout is kept. *)

\* A lockout that is not over is in the table; requests are answered before it or after it.
LockKept(c, t) ==
  /\ t <= clock
  /\ until[c] >= t + lockout_seconds \/ clock >= t + lockout_seconds
  /\ answered[c] <= t \/ answered[c] >= t + lockout_seconds

LockInv ==
  /\ clock \in Nat /\ until \in [Clients -> Nat] /\ answered \in [Clients -> Nat]
  /\ lockedAt \in [Clients -> SUBSET Nat]
  /\ \A c \in Clients : \A t \in lockedAt[c] : LockKept(c, t)

\* Room is made only of lockouts that are over.
LEMMA RoomKeepsLocks ==
  ASSUME clock \in Nat, NEW locks \in [Clients -> Nat]
  PROVE  /\ RoomLocks(locks) \in [Clients -> Nat]
         /\ \A d \in Clients : RoomLocks(locks)[d] = locks[d] \/ locks[d] <= clock
<1>1. CASE TrackedEntries(order, locks) < MAX_TRACKED_CLIENTS
  BY <1>1 DEF RoomLocks
<1>2. CASE ~(TrackedEntries(order, locks) < MAX_TRACKED_CLIENTS)
  <2>1. RoomLocks(locks) = [c \in Clients |-> IF locks[c] > clock THEN locks[c] ELSE 0]
    BY <1>2 DEF RoomLocks
  <2> QED BY <2>1
<1> QED BY <1>1, <1>2

\* A request that is not refused with 429 finds every lockout of its client over.
LEMMA AnswerKeepsLocks ==
  ASSUME LockInv, NEW c \in Clients, ~LockedOut(c), clock' = clock,
         answered' = [answered EXCEPT ![c] = clock], until' \in [Clients -> Nat],
         \A d \in Clients : d # c => until'[d] = until[d] \/ until[d] <= clock,
         \/ lockedAt' = lockedAt
         \/ lockedAt' = [lockedAt EXCEPT ![c] = @ \cup {clock}] /\ until'[c] = clock + lockout_seconds
  PROVE  LockInv'
<1>1. /\ clock \in Nat /\ until \in [Clients -> Nat] /\ lockout_seconds \in Nat
      /\ answered \in [Clients -> Nat] /\ lockedAt \in [Clients -> SUBSET Nat]
  BY ThrottleAssumption DEF LockInv
<1>2. \A d \in Clients : \A t \in lockedAt[d] :
        /\ t \in Nat /\ t <= clock
        /\ until[d] >= t + lockout_seconds \/ clock >= t + lockout_seconds
        /\ answered[d] <= t \/ answered[d] >= t + lockout_seconds
  BY <1>1 DEF LockInv, LockKept
<1>3. until[c] <= clock
  BY <1>1 DEF LockedOut
<1>4. /\ answered' \in [Clients -> Nat] /\ answered'[c] = clock
      /\ \A d \in Clients : d # c => answered'[d] = answered[d]
  BY <1>1
<1>5. /\ lockedAt' \in [Clients -> SUBSET Nat]
      /\ \A d \in Clients : d # c => lockedAt'[d] = lockedAt[d]
      /\ \A t \in lockedAt'[c] : t \in lockedAt[c] \/ (t = clock /\ until'[c] = clock + lockout_seconds)
  BY <1>1
<1>6. ASSUME NEW d \in Clients, NEW t \in lockedAt'[d]
      PROVE  /\ t <= clock
             /\ until'[d] >= t + lockout_seconds \/ clock >= t + lockout_seconds
             /\ answered'[d] <= t \/ answered'[d] >= t + lockout_seconds
  <2>1. CASE d # c
    <3>1. t \in lockedAt[d] /\ answered'[d] = answered[d] /\ (until'[d] = until[d] \/ until[d] <= clock)
      BY <1>4, <1>5, <1>6, <2>1
    <3> QED BY <1>1, <1>2, <3>1
  <2>2. CASE d = c /\ t \in lockedAt[c]
    <3>1. clock >= t + lockout_seconds /\ t <= clock
      BY <1>1, <1>2, <1>3, <2>2
    <3> QED BY <1>4, <2>2, <3>1
  <2>3. CASE d = c /\ t = clock /\ until'[c] = clock + lockout_seconds
    BY <1>1, <1>4, <2>3
  <2> QED BY <1>5, <1>6, <2>1, <2>2, <2>3
<1>7. \A d \in Clients : \A t \in lockedAt'[d] : LockKept(d, t)'
  BY <1>6 DEF LockKept
<1> QED BY <1>1, <1>4, <1>5, <1>7 DEF LockInv

LEMMA UnlockedKeeps ==
  ASSUME LockInv, NEW c \in Clients, ~LockedOut(c)
  PROVE  /\ Unlocked(c) \in [Clients -> Nat]
         /\ \A d \in Clients : d # c => Unlocked(c)[d] = until[d]
BY DEF LockInv, Unlocked

LEMMA WrongKeyStep == ASSUME LockInv, NEW c \in Clients, WrongKey(c) PROVE LockInv'
<1> DEFINE locks == Unlocked(c)
           room == RoomLocks(locks)
<1>1. /\ locks \in [Clients -> Nat] /\ ~LockedOut(c)
      /\ \A d \in Clients : d # c => locks[d] = until[d]
  BY UnlockedKeeps DEF WrongKey
<1>2. /\ clock \in Nat /\ lockout_seconds \in Nat /\ clock' = clock
      /\ answered' = [answered EXCEPT ![c] = clock]
  BY ThrottleAssumption DEF WrongKey, LockInv
<1>3. \/ /\ until' = [room EXCEPT ![c] = clock + lockout_seconds]
         /\ lockedAt' = [lockedAt EXCEPT ![c] = @ \cup {clock}]
      \/ until' = room /\ lockedAt' = lockedAt
  BY ZenonT(30) DEF WrongKey, RecordFailure
<1> HIDE DEF locks
<1>4. /\ room \in [Clients -> Nat]
      /\ \A d \in Clients : room[d] = locks[d] \/ locks[d] <= clock
  BY <1>1, <1>2, RoomKeepsLocks
<1> HIDE DEF room
<1>5. /\ until' \in [Clients -> Nat]
      /\ \A d \in Clients : d # c => until'[d] = until[d] \/ until[d] <= clock
  BY <1>1, <1>2, <1>3, <1>4
<1>6. \/ lockedAt' = lockedAt
      \/ lockedAt' = [lockedAt EXCEPT ![c] = @ \cup {clock}] /\ until'[c] = clock + lockout_seconds
  BY <1>3, <1>4
<1> QED BY <1>1, <1>2, <1>5, <1>6, AnswerKeepsLocks

LEMMA LockSteps == LockInv /\ [ThrottleNext]_throttleVars => LockInv'
<1> SUFFICES ASSUME LockInv, [ThrottleNext]_throttleVars PROVE LockInv'
  OBVIOUS
<1>1. CASE ClockTicks
  <2>1. clock' = clock + 1 /\ UNCHANGED <<until, lockedAt, answered>>
    BY <1>1 DEF ClockTicks
  <2>2. \A c \in Clients : \A t \in lockedAt[c] : LockKept(c, t)'
    BY <2>1, ThrottleAssumption DEF LockInv, LockKept
  <2> QED BY <2>1, <2>2 DEF LockInv
<1>2. CASE ThrottleRestart
  <2>1. /\ UNCHANGED <<clock, answered>> /\ until' = [c \in Clients |-> 0]
        /\ lockedAt' = [c \in Clients |-> {}]
    BY <1>2 DEF ThrottleRestart
  <2> QED BY <2>1 DEF LockInv
<1>3. ASSUME NEW c \in Clients, MissingKey(c) \/ RightKey(c) PROVE LockInv'
  <2>1. /\ ~LockedOut(c) /\ UNCHANGED <<clock, lockedAt>> /\ until' = Unlocked(c)
        /\ answered' = [answered EXCEPT ![c] = clock]
    BY <1>3 DEF MissingKey, RightKey
  <2>2. /\ until' \in [Clients -> Nat]
        /\ \A d \in Clients : d # c => until'[d] = until[d]
    BY <2>1, UnlockedKeeps
  <2> QED BY <2>1, <2>2, AnswerKeepsLocks
<1>4. ASSUME NEW c \in Clients, WrongKey(c) PROVE LockInv'
  BY <1>4, WrongKeyStep
<1>5. CASE UNCHANGED throttleVars
  BY <1>5 DEF throttleVars, LockInv, LockKept
<1> QED BY <1>1, <1>2, <1>3, <1>4, <1>5 DEF ThrottleNext, Refuse

\* A client that was locked out gets no answer but 429 for AUTH_LOCKOUT_SECONDS, not even when the
\* table overflows meanwhile, for any number of clients.
THEOREM LockoutKept == ThrottleSpec => []LockoutHonoured
<1>1. ThrottleInit => LockInv
  BY DEF ThrottleInit, LockInv
<1>2. LockInv => LockoutHonoured
  BY DEF LockInv, LockKept, LockoutHonoured
<1> QED BY <1>1, <1>2, LockSteps, PTL DEF ThrottleSpec

-----------------------------------------------------------------------------
(* The channels: the invariant. *)

AskSteps == {"approval", "feedback", "escalate", "start", "ask"}

Deliveries ==
  [pc : AskSteps \cup {"waiting", "record", "reply", "workflows"}, payload : Payloads \cup {<<>>},
   left : Seq(Messages), used : SUBSET Entries, role : ChannelRoles, own : BOOLEAN, answer : BOOLEAN]

\* The channel a delivery came in by.
CameBy(d) == ChannelOf(d.payload.messages[1].chat)

\* A delivery that is handled: what is left of it came by its channel, and
\* it was signed or the owner has opted out, which Discord has no way to.
DeliveryOK(d) ==
  /\ d \in Deliveries
  /\ d.role \in IntentRoles \/ d.own
  /\ d.pc # "waiting" =>
      /\ d.payload \in Payloads /\ d.left # <<>>
      /\ \A i \in DOMAIN d.left : ChannelOf(d.left[i].chat) = CameBy(d)
      /\ d.payload.sign = "valid" \/ (unsigned /\ CameBy(d) # "discord")
      /\ d.pc = "start" => CameBy(d) = "telegram"

\* What the log of last replies names was used for the chat it is kept under.
LogOK == \A c \in DOMAIN replyLog, e \in Entries : e \in replyLog[c] => <<c, e>> \in fed

ChanInv ==
  /\ server \in [Servers -> Deliveries]
  /\ \A s \in Servers : DeliveryOK(server[s])
  /\ undone \subseteq Payloads
  /\ importance \in [Entries -> 1..MaxImportance]
  /\ roleOf \in [ChannelNames -> ChannelRoles]
  /\ \A c \in DOMAIN replyLog : replyLog[c] \subseteq Entries
  /\ LogOK
  /\ nudged \subseteq fed

\* A payload that has texts has a first one.
LEMMA FirstText ==
  ASSUME NEW T \in SUBSET Nat, T # {}
  PROVE  \E i \in T : \A j \in T : i <= j
<1> DEFINE R == {ss \in Nat \X Nat : ss[1] < ss[2]}
<1>1. \E i \in T : \A j \in T : ~(<<j, i>> \in R)
  <2>1. IsWellFoundedOn(R, Nat) BY NatLessThanWellFounded, Zenon DEF OpToRel
  <2> HIDE DEF R
  <2> QED BY <2>1, WFMin
<1> PICK i \in T : \A j \in T : ~(<<j, i>> \in R) BY <1>1
<1>2. \A j \in Nat : (<<j, i>> \in R) <=> j < i OBVIOUS
<1> HIDE DEF R
<1>3. ASSUME NEW j \in T PROVE i <= j
  <2>1. j \in Nat /\ i \in Nat /\ ~(j < i) BY <1>2
  <2> QED BY <2>1
<1> QED BY <1>3

\* What is left of messages are some of them.
LEMMA WithTextTakes ==
  ASSUME NEW ms \in Seq(Messages)
  PROVE  /\ WithText(ms) \in Seq(Messages)
         /\ \A i \in DOMAIN WithText(ms) : \E j \in DOMAIN ms : WithText(ms)[i] = ms[j]
<1> DEFINE texts == {i \in DOMAIN ms : ms[i].kind # "empty"}
           k == CHOOSE i \in texts : \A j \in texts : i <= j
           n == Len(ms)
<1>1. n \in Nat /\ DOMAIN ms = 1..n BY LenProperties
<1>2. CASE texts = {}
  <2>1. WithText(ms) = <<>> BY <1>2 DEF WithText
  <2> QED BY <2>1, EmptySeq
<1>3. CASE texts # {}
  <2>1. texts \in SUBSET Nat BY <1>1
  <2>2. k \in texts BY <1>3, <2>1, FirstText
  <2>3. k \in 1..n BY <1>1, <2>2
  <2>4. WithText(ms) = SubSeq(ms, k, n) BY <1>3 DEF WithText
  <2> HIDE DEF k, texts, n
  <2>5. \A i \in k..n : ms[i] \in Messages BY <1>1, <2>3, ElementOfSeq DEF n
  <2>6. /\ SubSeq(ms, k, n) \in Seq(Messages) /\ Len(SubSeq(ms, k, n)) = n - k + 1
        /\ \A i \in 1..(n - k + 1) : SubSeq(ms, k, n)[i] = ms[k + i - 1]
    BY <1>1, <2>3, <2>5, SubSeqProperties
  <2>7. DOMAIN WithText(ms) = 1..(n - k + 1) BY <2>4, <2>6, LenProperties
  <2>8. \A i \in 1..(n - k + 1) : k + i - 1 \in DOMAIN ms BY <1>1, <2>3
  <2> QED BY <2>4, <2>6, <2>7, <2>8
<1> QED BY <1>2, <1>3

\* What a webhook takes was signed, or is let pass, and came by its channel.
LEMMA TakesOK ==
  ASSUME NEW p \in Payloads, Takes(p) # <<>>
  PROVE  /\ Takes(p) \in Seq(Messages)
         /\ \A i \in DOMAIN Takes(p) :
              ChannelOf(Takes(p)[i].chat) = ChannelOf(p.messages[1].chat)
         /\ p.sign = "valid" \/ (unsigned /\ ChannelOf(p.messages[1].chat) # "discord")
<1> DEFINE c == ChannelOf(p.messages[1].chat)
           ms == p.messages
<1>1. ms \in Seq(Messages) /\ \A i \in DOMAIN ms : ChannelOf(ms[i].chat) = c BY ChannelsAssumption
<1>2. /\ WithText(ms) \in Seq(Messages)
      /\ \A i \in DOMAIN WithText(ms) : \E j \in DOMAIN ms : WithText(ms)[i] = ms[j]
  BY <1>1, WithTextTakes
<1>3. Takes(p) = (CASE c = "whatsapp" -> WhatsappTakes(p) [] c = "telegram" -> TelegramTakes(p)
                    [] OTHER -> DiscordTakes(p))
  BY DEF Takes
<1> HIDE DEF c, ms
<1>4. \A i \in DOMAIN WithText(ms) : ChannelOf(WithText(ms)[i].chat) = c
  <2> SUFFICES ASSUME NEW i \in DOMAIN WithText(ms) PROVE ChannelOf(WithText(ms)[i].chat) = c OBVIOUS
  <2>1. PICK j \in DOMAIN ms : WithText(ms)[i] = ms[j] BY <1>2
  <2> QED BY <1>1, <2>1
<1>5. CASE c = "whatsapp"
  <2>1. Takes(p) = WithText(ms) /\ WhatsappAccepts(p.sign)
    BY <1>3, <1>5 DEF WhatsappTakes, ms
  <2> QED BY <1>2, <1>4, <1>5, <2>1 DEF WhatsappAccepts, c
<1>6. CASE c = "telegram"
  <2>1. Takes(p) = ms /\ TelegramAccepts(p.sign) BY <1>3, <1>6 DEF TelegramTakes, ms
  <2> QED BY <1>1, <1>6, <2>1 DEF TelegramAccepts, c
<1>7. CASE c \notin {"whatsapp", "telegram"}
  <2>1. Takes(p) = WithText(ms) /\ DiscordAccepts(p.sign)
    BY <1>3, <1>7 DEF DiscordTakes, ms
  <2> QED BY <1>2, <1>4, <2>1 DEF DiscordAccepts, c
<1> QED BY <1>5, <1>6, <1>7

LEMMA WaitingOK == DeliveryOK(Waiting) /\ Waiting.pc = "waiting"
<1>1. <<>> \in Seq(Messages) BY EmptySeq
<1>2. SupportRole \in IntentRoles /\ SupportRole \in ChannelRoles BY ChannelsAssumption
<1> QED BY <1>1, <1>2 DEF DeliveryOK, Deliveries, Waiting

\* The message in hand came by the channel of the delivery.
LEMMA MessageOK ==
  ASSUME NEW s \in Servers, DeliveryOK(server[s]), server[s].pc # "waiting"
  PROVE  /\ Msg(s) \in Messages /\ Msg(s).chat \in Chats
         /\ ChannelOf(Msg(s).chat) = CameBy(server[s]) /\ ChannelOf(Msg(s).chat) \in ChannelNames
<1> DEFINE l == server[s].left
<1>1. l \in Seq(Messages) /\ l # <<>> /\ \A i \in DOMAIN l : ChannelOf(l[i].chat) = CameBy(server[s])
  BY DEF DeliveryOK, Deliveries
<1>2. Msg(s) = Head(l) BY DEF Msg
<1> HIDE DEF l
<1>3. Head(l) \in Messages /\ Head(l) = l[1] /\ Len(l) \in Nat \ {0} BY <1>1, HeadTailProperties, EmptySeq
<1>4. 1 \in DOMAIN l BY <1>1, <1>3, LenProperties
<1>5. Msg(s).chat \in Chats BY <1>2, <1>3 DEF Messages
<1> QED BY <1>1, <1>2, <1>3, <1>4, <1>5 DEF ChannelNames

\* One delivery moves on.
LEMMA DeliveryMoves ==
  ASSUME ChanInv, NEW s \in Servers, NEW d, DeliveryOK(d), server' = [server EXCEPT ![s] = d],
         unsigned' = unsigned
  PROVE  server' \in [Servers -> Deliveries] /\ \A u \in Servers : DeliveryOK(server[u])'
<1>1. d \in Deliveries BY DEF DeliveryOK
<1>2. server' \in [Servers -> Deliveries] BY <1>1 DEF ChanInv
<1>3. server'[s] = d /\ \A u \in Servers \ {s} : server'[u] = server[u] BY DEF ChanInv
<1>4. ASSUME NEW u \in Servers PROVE DeliveryOK(server[u])'
  <2>1. DeliveryOK(server'[u]) BY <1>3 DEF ChanInv
  <2> QED BY <2>1 DEF DeliveryOK, CameBy
<1> QED BY <1>2, <1>4

\* To another step with the same message.
LEMMA GoesOK ==
  ASSUME ChanInv, NEW s \in Servers, server[s].pc # "waiting", unsigned' = unsigned,
         NEW q \in AskSteps \cup {"record", "reply", "workflows"},
         q = "start" => CameBy(server[s]) = "telegram", Goes(s, q)
  PROVE  server' \in [Servers -> Deliveries] /\ \A u \in Servers : DeliveryOK(server[u])'
<1> DEFINE r == server[s]
           d == [r EXCEPT !.pc = q]
<1>1. DeliveryOK(r) /\ r \in Deliveries BY DEF ChanInv, DeliveryOK
<1>2. server' = [server EXCEPT ![s] = d] BY DEF Goes
<1> HIDE DEF r
<1>3. d \in Deliveries BY <1>1 DEF Deliveries
<1>4. /\ d.pc = q /\ d.payload = r.payload /\ d.left = r.left /\ d.role = r.role /\ d.own = r.own
  BY <1>1 DEF Deliveries
<1> HIDE DEF d
<1>5. r.pc # "waiting" /\ (q = "start" => CameBy(r) = "telegram") BY DEF r
<1>6. DeliveryOK(d) BY <1>1, <1>3, <1>4, <1>5 DEF DeliveryOK, CameBy, AskSteps
<1> QED BY <1>2, <1>6, DeliveryMoves

\* The step after another in each adapter's list; only Telegram has a /start.
LEMMA NextStep ==
  ASSUME NEW c, NEW pc \in {"approval", "feedback", "escalate", "start"},
         pc = "start" => c = "telegram"
  PROVE  LET steps == Steps(c)
             here == CHOOSE i \in DOMAIN steps : steps[i] = pc IN
         steps[here + 1] \in AskSteps /\ (steps[here + 1] = "start" => c = "telegram")
<1> DEFINE steps == Steps(c)
           here == CHOOSE i \in DOMAIN steps : steps[i] = pc
<1>1. CASE c = "telegram"
  <2>1. steps = <<"approval", "feedback", "escalate", "start", "ask">> BY <1>1 DEF Steps, TelegramSteps
  <2>2. DOMAIN steps = 1..5 BY <2>1
  <2>3. \E i \in 1..4 : steps[i] = pc
    <3>1. steps[1] = "approval" /\ steps[2] = "feedback" /\ steps[3] = "escalate" /\ steps[4] = "start"
      BY <2>1
    <3> QED BY <3>1
  <2>4. here \in 1..5 /\ steps[here] = pc BY <2>2, <2>3
  <2> HIDE DEF here
  <2>5. here \in 1..4 BY <2>1, <2>4
  <2>6. \A i \in 1..4 : steps[i + 1] \in AskSteps BY <2>1 DEF AskSteps
  <2> QED BY <1>1, <2>5, <2>6 DEF here
<1>2. CASE c # "telegram"
  <2>1. steps = <<"approval", "feedback", "escalate", "ask">>
    BY <1>2 DEF Steps, WhatsappSteps, DiscordSteps
  <2>2. DOMAIN steps = 1..4 BY <2>1
  <2>3. \E i \in 1..3 : steps[i] = pc
    <3>1. steps[1] = "approval" /\ steps[2] = "feedback" /\ steps[3] = "escalate" BY <2>1
    <3> QED BY <1>2, <3>1
  <2>4. here \in 1..4 /\ steps[here] = pc BY <2>2, <2>3
  <2> HIDE DEF here
  <2>5. here \in 1..3 BY <2>1, <2>4
  <2>6. \A i \in 1..3 : steps[i + 1] \in AskSteps \ {"start"} BY <2>1 DEF AskSteps
  <2> QED BY <2>5, <2>6 DEF here
<1> QED BY <1>1, <1>2

LEMMA OnwardOK ==
  ASSUME ChanInv, NEW s \in Servers, server[s].pc \in {"approval", "feedback", "escalate", "start"},
         unsigned' = unsigned, Onward(s)
  PROVE  server' \in [Servers -> Deliveries] /\ \A u \in Servers : DeliveryOK(server[u])'
<1>1. DeliveryOK(server[s]) /\ server[s].pc # "waiting" BY DEF ChanInv
<1>2. ChannelOf(Msg(s).chat) = CameBy(server[s]) BY <1>1, MessageOK
<1>3. server[s].pc = "start" => ChannelOf(Msg(s).chat) = "telegram" BY <1>1, <1>2 DEF DeliveryOK
<1>4. PICK q \in AskSteps : (q = "start" => ChannelOf(Msg(s).chat) = "telegram") /\ Goes(s, q)
  BY <1>3, NextStep DEF Onward
<1> QED BY <1>1, <1>2, <1>4, GoesOK

LEMMA NextMessageOK ==
  ASSUME ChanInv, NEW s \in Servers, server[s].pc # "waiting", unsigned' = unsigned, NextMessage(s)
  PROVE  server' \in [Servers -> Deliveries] /\ \A u \in Servers : DeliveryOK(server[u])'
<1> DEFINE r == server[s]
           rest == WithText(Tail(r.left))
           d == [r EXCEPT !.pc = "approval", !.left = rest, !.answer = FALSE]
<1>1. DeliveryOK(r) /\ r \in Deliveries BY DEF ChanInv, DeliveryOK
<1>2. server' = [server EXCEPT ![s] = IF rest = <<>> THEN Waiting ELSE d] BY DEF NextMessage
<1> HIDE DEF r
<1>3. r.pc # "waiting" BY DEF r
<1>4. /\ r.left \in Seq(Messages) /\ r.left # <<>>
      /\ \A i \in DOMAIN r.left : ChannelOf(r.left[i].chat) = CameBy(r)
  BY <1>1, <1>3 DEF DeliveryOK, Deliveries
<1>5. /\ Tail(r.left) \in Seq(Messages)
      /\ \A i \in DOMAIN Tail(r.left) : ChannelOf(Tail(r.left)[i].chat) = CameBy(r)
  <2> DEFINE l == r.left
  <2> HIDE DEF l
  <2>1. /\ Tail(l) \in Seq(Messages) /\ Len(Tail(l)) = Len(l) - 1
        /\ \A i \in 1..Len(Tail(l)) : Tail(l)[i] = l[i + 1]
    BY <1>4, HeadTailProperties DEF l
  <2>2. DOMAIN l = 1..Len(l) /\ DOMAIN Tail(l) = 1..Len(Tail(l)) /\ Len(l) \in Nat
    BY <1>4, <2>1, LenProperties DEF l
  <2>3. \A i \in DOMAIN Tail(l) : i + 1 \in DOMAIN l BY <2>1, <2>2
  <2> QED BY <1>4, <2>1, <2>2, <2>3 DEF l
<1>6. /\ rest \in Seq(Messages)
      /\ \A i \in DOMAIN rest : ChannelOf(rest[i].chat) = CameBy(r)
  <2>1. rest \in Seq(Messages) /\ \A i \in DOMAIN rest : \E j \in DOMAIN Tail(r.left) : rest[i] = Tail(r.left)[j]
    BY <1>5, WithTextTakes
  <2> HIDE DEF rest
  <2> QED BY <1>5, <2>1
<1> HIDE DEF rest
<1>7. /\ d \in Deliveries /\ d.pc = "approval" /\ d.payload = r.payload /\ d.left = rest
      /\ d.role = r.role /\ d.own = r.own
  BY <1>1, <1>6 DEF Deliveries, AskSteps
<1> HIDE DEF d
<1>8. rest # <<>> => DeliveryOK(d) BY <1>1, <1>3, <1>6, <1>7 DEF DeliveryOK, CameBy
<1>9. CASE rest = <<>>
  <2>1. server' = [server EXCEPT ![s] = Waiting] BY <1>2, <1>9
  <2> QED BY <2>1, WaitingOK, DeliveryMoves
<1>10. CASE rest # <<>>
  <2>1. server' = [server EXCEPT ![s] = d] BY <1>2, <1>10
  <2> QED BY <1>8, <1>10, <2>1, DeliveryMoves
<1> QED BY <1>9, <1>10

LEMMA HandlerRaisesOK ==
  ASSUME ChanInv, NEW s \in Servers, server[s].pc # "waiting", unsigned' = unsigned, HandlerRaises(s)
  PROVE  /\ server' \in [Servers -> Deliveries] /\ \A u \in Servers : DeliveryOK(server[u])'
         /\ undone' \subseteq Payloads
<1>1. server' = [server EXCEPT ![s] = Waiting] /\ undone' = undone \cup {server[s].payload}
  BY DEF HandlerRaises
<1>2. server[s].payload \in Payloads BY DEF ChanInv, DeliveryOK
<1> QED BY <1>1, <1>2, WaitingOK, DeliveryMoves DEF ChanInv

-----------------------------------------------------------------------------
(* The channels: the steps. *)

LEMMA WebhookOK ==
  ASSUME ChanInv, NEW s \in Servers, NEW p \in Payloads, Webhook(s, p)
  PROVE  server' \in [Servers -> Deliveries] /\ \A u \in Servers : DeliveryOK(server[u])'
<1> DEFINE d == [Waiting EXCEPT !.pc = "approval", !.payload = p, !.left = Takes(p)]
<1>1. unsigned' = unsigned BY DEF Webhook, config
<1>2. CASE Takes(p) # <<>>
  <2>1. server' = [server EXCEPT ![s] = d] BY <1>2 DEF Webhook
  <2>2. /\ Takes(p) \in Seq(Messages)
        /\ \A i \in DOMAIN Takes(p) : ChannelOf(Takes(p)[i].chat) = ChannelOf(p.messages[1].chat)
        /\ p.sign = "valid" \/ (unsigned /\ ChannelOf(p.messages[1].chat) # "discord")
    BY <1>2, TakesOK
  <2>3. DeliveryOK(Waiting) /\ Waiting \in Deliveries BY WaitingOK DEF DeliveryOK
  <2>4. /\ d \in Deliveries /\ d.pc = "approval" /\ d.payload = p /\ d.left = Takes(p)
        /\ d.role = Waiting.role /\ d.own = Waiting.own
    <3>1. \A w \in Deliveries :
            LET e == [w EXCEPT !.pc = "approval", !.payload = p, !.left = Takes(p)] IN
            /\ e \in Deliveries /\ e.pc = "approval" /\ e.payload = p /\ e.left = Takes(p)
            /\ e.role = w.role /\ e.own = w.own
      BY <2>2 DEF Deliveries, AskSteps
    <3> QED BY <2>3, <3>1
  <2> HIDE DEF d
  <2>5. DeliveryOK(d) BY <1>2, <2>2, <2>3, <2>4 DEF DeliveryOK, CameBy
  <2> QED BY <1>1, <2>1, <2>5, DeliveryMoves
<1>3. CASE Takes(p) = <<>>
  <2>1. server' = server BY <1>3 DEF Webhook
  <2> QED BY <1>1, <2>1 DEF ChanInv, DeliveryOK, CameBy
<1> QED BY <1>2, <1>3

\* What is left to show when neither the memory nor the logs are touched.
LEMMA OnlyServers ==
  ASSUME ChanInv, server' \in [Servers -> Deliveries], \A u \in Servers : DeliveryOK(server[u])',
         undone' \subseteq Payloads, UNCHANGED <<importance, roleOf, replyLog, history>>
  PROVE  ChanInv'
BY DEF ChanInv, LogOK, history

LEMMA DeliverKeeps == ASSUME ChanInv, NEW s \in Servers, Deliver(s) PROVE ChanInv'
<1>1. PICK p \in Payloads : Webhook(s, p) BY DEF Deliver
<1>2. UNCHANGED <<undone, importance, roleOf, replyLog, history>> BY <1>1 DEF Deliver, Webhook
<1> QED BY <1>1, <1>2, WebhookOK, OnlyServers DEF ChanInv

LEMMA RedeliverKeeps == ASSUME ChanInv, NEW s \in Servers, Redeliver(s) PROVE ChanInv'
<1>1. PICK p \in undone \cup {server[x].payload : x \in {y \in Servers : ~At(y, "waiting")}} :
        Webhook(s, p) /\ undone' = undone \ {p}
  BY DEF Redeliver
<1>2. p \in Payloads BY DEF ChanInv, DeliveryOK, At
<1>3. UNCHANGED <<importance, roleOf, replyLog, history>> BY <1>1 DEF Webhook
<1>4. undone' \subseteq Payloads BY <1>1 DEF ChanInv
<1> QED BY <1>1, <1>2, <1>3, <1>4, WebhookOK, OnlyServers

LEMMA ApprovalKeeps == ASSUME ChanInv, NEW s \in Servers, CheckApproval(s) PROVE ChanInv'
<1>1. /\ server[s].pc = "approval" /\ unsigned' = unsigned
      /\ UNCHANGED <<undone, importance, roleOf, replyLog, history>>
  BY DEF CheckApproval, At, config
<1>2. Goes(s, "reply") \/ NextMessage(s) \/ Onward(s) BY DEF CheckApproval
<1>3. server' \in [Servers -> Deliveries] /\ \A u \in Servers : DeliveryOK(server[u])'
  BY <1>1, <1>2, GoesOK, NextMessageOK, OnwardOK
<1> QED BY <1>1, <1>3, OnlyServers DEF ChanInv

\* Feedback moves what the last reply of this chat was made of.
LEMMA FeedbackKeeps == ASSUME ChanInv, NEW s \in Servers, TakeFeedback(s) PROVE ChanInv'
<1> DEFINE chat == Msg(s).chat
           ids == LastReply(chat)
<1>1. /\ server[s].pc = "feedback" /\ unsigned' = unsigned
      /\ UNCHANGED <<undone, roleOf, replyLog, fed>>
  BY DEF TakeFeedback, At, config
<1>2. Goes(s, "reply") \/ Onward(s) BY DEF TakeFeedback
<1>3. server' \in [Servers -> Deliveries] /\ \A u \in Servers : DeliveryOK(server[u])'
  BY <1>1, <1>2, GoesOK, OnwardOK
<1>4. CASE UNCHANGED <<importance, nudged>> BY <1>1, <1>3, <1>4, OnlyServers DEF ChanInv, history
<1>5. CASE /\ importance' = Reinforced(ids, Msg(s).kind = "good")
           /\ nudged' = nudged \cup ({chat} \X ids)
  <2>1. \A e \in ids : e \in Entries /\ <<chat, e>> \in fed
    BY DEF LastReply, ReplyKey, ChanInv, LogOK
  <2>2. nudged' \subseteq fed BY <1>5, <2>1 DEF ChanInv
  <2>3. importance' \in [Entries -> 1..MaxImportance]
    <3>1. importance \in [Entries -> 1..MaxImportance] /\ MaxImportance \in Nat \ {0}
      BY ChannelsAssumption DEF ChanInv
    <3>2. ASSUME NEW good \in BOOLEAN, NEW i \in SUBSET Entries
          PROVE  Reinforced(i, good) \in [Entries -> 1..MaxImportance]
      BY <3>1 DEF Reinforced
    <3>3. ids \subseteq Entries BY <2>1
    <3> HIDE DEF ids
    <3>4. (Msg(s).kind = "good") \in BOOLEAN OBVIOUS
    <3> QED BY <1>5, <3>2, <3>3, <3>4
  <2> QED BY <1>1, <1>3, <2>2, <2>3 DEF ChanInv, LogOK
<1> QED BY <1>4, <1>5 DEF TakeFeedback

LEMMA EscalateKeeps == ASSUME ChanInv, NEW s \in Servers, Escalate(s) PROVE ChanInv'
<1>1. /\ server[s].pc = "escalate" /\ unsigned' = unsigned
      /\ UNCHANGED <<importance, roleOf, replyLog, history>>
  BY DEF Escalate, At, config
<1>2. CASE HandlerRaises(s) BY <1>1, <1>2, HandlerRaisesOK, OnlyServers
<1>3. CASE (Goes(s, "reply") \/ Onward(s)) /\ undone' = undone
  BY <1>1, <1>3, GoesOK, OnwardOK, OnlyServers DEF ChanInv
<1> QED BY <1>2, <1>3 DEF Escalate

LEMMA WelcomeKeeps == ASSUME ChanInv, NEW s \in Servers, Welcome(s) PROVE ChanInv'
<1>1. /\ server[s].pc = "start" /\ unsigned' = unsigned
      /\ UNCHANGED <<undone, importance, roleOf, replyLog, history>>
  BY DEF Welcome, At, config
<1>2. Goes(s, "reply") \/ Onward(s) BY DEF Welcome
<1> QED BY <1>1, <1>2, GoesOK, OnwardOK, OnlyServers DEF ChanInv

\* A role is one a text may choose, or the one the owner gave the channel.
LEMMA AskKeeps == ASSUME ChanInv, NEW s \in Servers, AskPipeline(s) PROVE ChanInv'
<1> DEFINE r == server[s]
           channel == ChannelOf(Msg(s).chat)
<1>1. /\ r.pc = "ask" /\ unsigned' = unsigned
      /\ UNCHANGED <<undone, importance, roleOf, replyLog, history>>
  BY DEF AskPipeline, At, config
<1>2. DeliveryOK(r) /\ r \in Deliveries BY DEF ChanInv, DeliveryOK
<1>3. CASE \E byIntent \in BOOLEAN, used \in SUBSET Entries :
             \E role \in IF byIntent THEN IntentRole ELSE ChannelRole(channel) :
                server' = [server EXCEPT ![s].pc = "record", ![s].used = used, ![s].role = role,
                                         ![s].own = (role = roleOf[channel])]
  <2>1. PICK byIntent \in BOOLEAN, used \in SUBSET Entries :
          \E role \in IF byIntent THEN IntentRole ELSE ChannelRole(channel) :
                server' = [server EXCEPT ![s].pc = "record", ![s].used = used, ![s].role = role,
                                         ![s].own = (role = roleOf[channel])]
    BY <1>3
  <2>2. PICK role \in IF byIntent THEN IntentRole ELSE ChannelRole(channel) :
                server' = [server EXCEPT ![s].pc = "record", ![s].used = used, ![s].role = role,
                                         ![s].own = (role = roleOf[channel])]
    BY <2>1
  <2>3. channel \in ChannelNames BY <1>1, <1>2, MessageOK
  <2>4. role \in ChannelRoles /\ (role \in IntentRoles \/ role = roleOf[channel])
    BY <2>3, ChannelsAssumption DEF IntentRole, ChannelRole, ChanInv
  <2>5. PICK own \in BOOLEAN : own = (role = roleOf[channel]) OBVIOUS
  <2> DEFINE d == [r EXCEPT !.pc = "record", !.used = used, !.role = role, !.own = own]
  <2>6. server' = [server EXCEPT ![s] = d] BY <2>2, <2>5 DEF ChanInv, Deliveries
  <2> HIDE DEF r
  <2>7. /\ d \in Deliveries /\ d.pc = "record" /\ d.payload = r.payload /\ d.left = r.left
        /\ d.role = role /\ d.own = own
    BY <1>2, <2>4 DEF Deliveries
  <2> HIDE DEF d
  <2>8. DeliveryOK(d) BY <1>1, <1>2, <2>4, <2>5, <2>7 DEF DeliveryOK, CameBy
  <2> QED BY <1>1, <2>6, <2>8, DeliveryMoves, OnlyServers DEF ChanInv
<1>4. CASE server' = [server EXCEPT ![s].pc = "reply", ![s].answer = TRUE]
  <2> DEFINE d == [r EXCEPT !.pc = "reply", !.answer = TRUE]
  <2>1. server' = [server EXCEPT ![s] = d] BY <1>4 DEF ChanInv, Deliveries
  <2> HIDE DEF r
  <2>2. /\ d \in Deliveries /\ d.pc = "reply" /\ d.payload = r.payload /\ d.left = r.left
        /\ d.role = r.role /\ d.own = r.own
    BY <1>2 DEF Deliveries
  <2> HIDE DEF d
  <2>3. DeliveryOK(d) BY <1>1, <1>2, <2>2 DEF DeliveryOK, CameBy
  <2> QED BY <1>1, <2>1, <2>3, DeliveryMoves, OnlyServers DEF ChanInv
<1> QED BY <1>3, <1>4 DEF AskPipeline

\* What is recorded for a chat is what its answer was made of.
LEMMA RecordKeeps == ASSUME ChanInv, NEW s \in Servers, RecordLastReply(s) PROVE ChanInv'
<1> DEFINE r == server[s]
           chat == Msg(s).chat
           used == r.used
           d == [r EXCEPT !.pc = "reply", !.answer = TRUE, !.used = {}, !.role = SupportRole, !.own = TRUE]
<1>1. /\ r.pc = "record" /\ unsigned' = unsigned
      /\ UNCHANGED <<undone, importance, roleOf, nudged>>
      /\ server' = [server EXCEPT ![s].pc = "reply", ![s].answer = TRUE, ![s].used = {},
                              ![s].role = SupportRole, ![s].own = TRUE]
      /\ fed' = fed \cup ({chat} \X used)
      /\ \/ replyLog' = replyLog
         \/ replyLog' = [k \in DOMAIN replyLog \cup {chat} |-> IF k = chat THEN used ELSE replyLog[k]]
  BY DEF RecordLastReply, At, config, ReplyKey
<1>2. DeliveryOK(r) /\ r \in Deliveries /\ used \subseteq Entries BY DEF ChanInv, DeliveryOK, Deliveries
<1>3. server' = [server EXCEPT ![s] = d] BY <1>1 DEF ChanInv, Deliveries
<1> HIDE DEF r
<1>4. SupportRole \in IntentRoles /\ SupportRole \in ChannelRoles BY ChannelsAssumption
<1>5. /\ d \in Deliveries /\ d.pc = "reply" /\ d.payload = r.payload /\ d.left = r.left
      /\ d.role = SupportRole
  BY <1>2, <1>4 DEF Deliveries
<1> HIDE DEF d
<1>6. DeliveryOK(d) BY <1>1, <1>2, <1>4, <1>5 DEF DeliveryOK, CameBy
<1>7. server' \in [Servers -> Deliveries] /\ \A u \in Servers : DeliveryOK(server[u])'
  BY <1>1, <1>3, <1>6, DeliveryMoves
<1>8. nudged' \subseteq fed' BY <1>1 DEF ChanInv
<1> HIDE DEF chat, used
<1>9. (\A c \in DOMAIN replyLog' : replyLog'[c] \subseteq Entries) /\ LogOK'
  <2>1. CASE replyLog' = replyLog BY <1>1, <2>1 DEF ChanInv, LogOK
  <2>2. CASE replyLog' = [k \in DOMAIN replyLog \cup {chat} |-> IF k = chat THEN used ELSE replyLog[k]]
    BY <1>1, <1>2, <2>2 DEF ChanInv, LogOK
  <2> QED BY <1>1, <2>1, <2>2
<1> QED BY <1>1, <1>7, <1>8, <1>9 DEF ChanInv

LEMMA ReplyKeeps == ASSUME ChanInv, NEW s \in Servers, SendReply(s) PROVE ChanInv'
<1>1. /\ server[s].pc = "reply" /\ unsigned' = unsigned
      /\ UNCHANGED <<importance, roleOf, replyLog, history>>
  BY DEF SendReply, At, config
<1>2. CASE HandlerRaises(s) BY <1>1, <1>2, HandlerRaisesOK, OnlyServers
<1>3. CASE (Goes(s, "workflows") \/ NextMessage(s)) /\ undone' = undone
  BY <1>1, <1>3, GoesOK, NextMessageOK, OnlyServers DEF ChanInv
<1> QED BY <1>2, <1>3 DEF SendReply

LEMMA WorkflowsKeep == ASSUME ChanInv, NEW s \in Servers, CallWorkflows(s) PROVE ChanInv'
<1>1. /\ server[s].pc = "workflows" /\ unsigned' = unsigned /\ NextMessage(s)
      /\ UNCHANGED <<undone, importance, roleOf, replyLog, history>>
  BY DEF CallWorkflows, At, config
<1> QED BY <1>1, NextMessageOK, OnlyServers DEF ChanInv

LEMMA SetRoleKeeps == ASSUME ChanInv, SetChannelRole PROVE ChanInv'
<1>1. /\ UNCHANGED <<server, unsigned, undone, importance, replyLog, history>>
      /\ \E c \in ChannelNames, r \in ChannelRoles : roleOf' = [roleOf EXCEPT ![c] = r]
  BY DEF SetChannelRole, config
<1>2. roleOf' \in [ChannelNames -> ChannelRoles] BY <1>1 DEF ChanInv
<1> QED BY <1>1, <1>2 DEF ChanInv, LogOK, history, DeliveryOK, CameBy

LEMMA ChanStutters == ASSUME ChanInv, UNCHANGED chanVars PROVE ChanInv'
BY DEF ChanInv, LogOK, chanVars, DeliveryOK, CameBy

LEMMA ChanStarts == ChanInit => ChanInv
<1> SUFFICES ASSUME ChanInit PROVE ChanInv OBVIOUS
<1>1. \A s \in Servers : server[s] = Waiting BY DEF ChanInit
<1>2. server \in [Servers -> Deliveries] BY WaitingOK DEF ChanInit, DeliveryOK
<1>3. \A s \in Servers : DeliveryOK(server[s]) BY <1>1, WaitingOK
<1>4. importance \in [Entries -> 1..MaxImportance] BY ChannelsAssumption DEF ChanInit
<1>5. roleOf \in [ChannelNames -> ChannelRoles] BY ChannelsAssumption DEF ChanInit
<1>6. undone = {} /\ DOMAIN replyLog = {} /\ nudged = {} BY DEF ChanInit
<1> QED BY <1>2, <1>3, <1>4, <1>5, <1>6 DEF ChanInv, LogOK

LEMMA ChanInvGives == ASSUME ChanInv PROVE ChannelsAreSound
<1>1. FeedbackStaysInItsChat BY DEF ChanInv, FeedbackStaysInItsChat
<1>2. OnlySignedIsHandled
  <2> SUFFICES ASSUME NEW s \in Servers, server[s].pc # "waiting"
               PROVE  server[s].payload.sign = "valid" \/ (unsigned /\ ChannelOf(Msg(s).chat) # "discord")
    BY DEF OnlySignedIsHandled, At
  <2>1. DeliveryOK(server[s]) BY DEF ChanInv
  <2>2. ChannelOf(Msg(s).chat) = CameBy(server[s]) BY <2>1, MessageOK
  <2>3. server[s].payload.sign = "valid" \/ (unsigned /\ CameBy(server[s]) # "discord")
    BY <2>1 DEF DeliveryOK
  <2> HIDE DEF CameBy, ChannelOf, Msg
  <2> QED BY <2>2, <2>3
<1>3. RolesAreTheOwners BY DEF ChanInv, DeliveryOK, RolesAreTheOwners
<1> QED BY <1>1, <1>2, <1>3 DEF ChannelsAreSound

LEMMA ChanSteps == ChanSpec => []ChanInv
<1>1. ChanInv /\ [ChanNext]_chanVars => ChanInv'
  <2> SUFFICES ASSUME ChanInv, [ChanNext]_chanVars PROVE ChanInv' OBVIOUS
  <2>1. ASSUME NEW s \in Servers,
               \/ Deliver(s) \/ Redeliver(s) \/ CheckApproval(s) \/ TakeFeedback(s) \/ Escalate(s) \/ Welcome(s)
               \/ AskPipeline(s) \/ RecordLastReply(s) \/ SendReply(s) \/ CallWorkflows(s)
        PROVE  ChanInv'
    BY <2>1, DeliverKeeps, RedeliverKeeps, ApprovalKeeps, FeedbackKeeps, EscalateKeeps, WelcomeKeeps,
       AskKeeps, RecordKeeps, ReplyKeeps, WorkflowsKeep
  <2> QED BY <2>1, SetRoleKeeps, ChanStutters DEF ChanNext
<1> QED BY <1>1, ChanStarts, PTL DEF ChanSpec
-----------------------------------------------------------------------------
(* A call: the invariant. *)

Frames == [ev : {"start", "media", "mark", "stop"}, loud : BOOLEAN, during : BOOLEAN]

\* A frame heard while a reply played has the mark of that reply behind it,
\* or the reply still plays.
MarkFollows ==
  playing = <<>> =>
    \A i \in DOMAIN wire : wire[i].during => \E j \in DOMAIN wire : i < j /\ wire[j].ev = "mark"

CallInv ==
  /\ wire \in Seq(Frames) /\ playing \in Seq(Nat)
  /\ collected \in 0..MaxSpeech /\ speech \in 0..MinSpeech /\ silence \in 0..SilenceEnd
  /\ hasSpeech \in BOOLEAN /\ replayed \in BOOLEAN /\ echo \in 0..EchoTail
  /\ MarkFollows
  /\ VoiceBufferIsSound

LEMMA LeastFacts ==
  ASSUME NEW m \in Nat, NEW n \in Nat
  PROVE  Least(m, n) \in Nat /\ Least(m, n) <= m /\ Least(m, n) <= n /\ (Least(m, n) = m \/ Least(m, n) = n)
BY DEF Least

\* A wire with an event more at its end.
LEMMA WireGrows ==
  ASSUME wire \in Seq(Frames), NEW e \in Frames, wire' = Append(wire, e)
  PROVE  /\ wire' \in Seq(Frames) /\ Len(wire') = Len(wire) + 1 /\ wire'[Len(wire) + 1] = e
         /\ \A i \in DOMAIN wire : i \in DOMAIN wire' /\ wire'[i] = wire[i]
         /\ DOMAIN wire = 1..Len(wire) /\ DOMAIN wire' = 1..(Len(wire) + 1) /\ Len(wire) \in Nat
<1>1. /\ DOMAIN wire = 1..Len(wire) /\ Len(wire) \in Nat BY LenProperties
<1>2. /\ wire' \in Seq(Frames) /\ Len(wire') = Len(wire) + 1
      /\ \A i \in 1..Len(wire) : wire'[i] = wire[i]
      /\ wire'[Len(wire) + 1] = e
  BY AppendProperties
<1>3. DOMAIN wire' = 1..Len(wire') BY <1>2, LenProperties
<1> QED BY <1>1, <1>2, <1>3

\* And with its first event taken.
LEMMA WireShrinks ==
  ASSUME wire \in Seq(Frames), wire # <<>>, wire' = Tail(wire)
  PROVE  /\ wire' \in Seq(Frames) /\ Head(wire) = wire[1] /\ wire[1] \in Frames /\ 1 \in DOMAIN wire
         /\ \A i \in DOMAIN wire' : i \in Nat /\ i + 1 \in DOMAIN wire /\ wire'[i] = wire[i + 1]
         /\ \A i \in DOMAIN wire : i \in Nat /\ (i # 1 => i - 1 \in DOMAIN wire')
<1>1. DOMAIN wire = 1..Len(wire) /\ Len(wire) \in Nat BY LenProperties
<1>2. /\ wire' \in Seq(Frames) /\ Len(wire') = Len(wire) - 1 /\ Len(wire) > 0
      /\ \A i \in 1..Len(wire') : wire'[i] = wire[i + 1]
  BY <1>1, HeadTailProperties
<1>3. DOMAIN wire' = 1..Len(wire') BY <1>2, LenProperties
<1>4. Head(wire) = wire[1] /\ wire[1] \in Frames BY <1>1, <1>2, ElementOfSeq, HeadTailProperties
<1> QED BY <1>1, <1>2, <1>3, <1>4

\* An event taken that is not a mark leaves the marks in their order.
LEMMA MarksStay ==
  ASSUME CallInv, wire # <<>>, wire' = Tail(wire), playing' = playing
  PROVE  /\ MarkFollows'
         /\ wire' \in Seq(Frames)
         /\ Head(wire).ev # "mark" =>
              /\ replayed => playing' # <<>> \/ \E i \in DOMAIN wire' : wire'[i].ev = "mark"
              /\ Head(wire).during => playing' # <<>> \/ \E i \in DOMAIN wire' : wire'[i].ev = "mark"
<1> USE DEF CallInv
<1>1. /\ wire' \in Seq(Frames) /\ Head(wire) = wire[1] /\ 1 \in DOMAIN wire
      /\ \A i \in DOMAIN wire' : i \in Nat /\ i + 1 \in DOMAIN wire /\ wire'[i] = wire[i + 1]
      /\ \A i \in DOMAIN wire : i \in Nat /\ (i # 1 => i - 1 \in DOMAIN wire')
  BY WireShrinks
<1>2. MarkFollows'
  <2> SUFFICES ASSUME playing = <<>>, NEW i \in DOMAIN wire', wire'[i].during
               PROVE  \E j \in DOMAIN wire' : i < j /\ wire'[j].ev = "mark"
    BY DEF MarkFollows
  <2>1. PICK j \in DOMAIN wire : i + 1 < j /\ wire[j].ev = "mark" BY <1>1 DEF MarkFollows
  <2>2. j - 1 \in DOMAIN wire' /\ i < j - 1 /\ wire'[j - 1] = wire[j] BY <1>1, <2>1
  <2> QED BY <2>1, <2>2
<1>3. ASSUME Head(wire).ev # "mark", replayed, playing = <<>>
      PROVE  \E i \in DOMAIN wire' : wire'[i].ev = "mark"
  <2>1. PICK j \in DOMAIN wire : wire[j].ev = "mark" BY <1>3 DEF VoiceBufferIsSound
  <2>2. j # 1 BY <1>1, <1>3, <2>1
  <2>3. j - 1 \in DOMAIN wire' /\ wire'[j - 1] = wire[j] BY <1>1, <2>2
  <2> QED BY <2>1, <2>3
<1>4. ASSUME Head(wire).during, playing = <<>>
      PROVE  \E i \in DOMAIN wire' : wire'[i].ev = "mark"
  <2>1. PICK j \in DOMAIN wire : 1 < j /\ wire[j].ev = "mark" BY <1>1, <1>4 DEF MarkFollows
  <2>2. j - 1 \in DOMAIN wire' /\ wire'[j - 1] = wire[j] BY <1>1, <2>1
  <2> QED BY <2>1, <2>2
<1> QED BY <1>1, <1>2, <1>3, <1>4

\* More on the wire or to be played, the buffer as it was.
LEMMA CallGrows ==
  ASSUME CallInv, wire' \in Seq(Frames), playing' \in Seq(Nat), MarkFollows', UNCHANGED <<buffer, echo>>,
         playing # <<>> => playing' # <<>> \/ \E i \in DOMAIN wire' : wire'[i].ev = "mark",
         \A i \in DOMAIN wire : i \in DOMAIN wire' /\ wire'[i] = wire[i]
  PROVE  CallInv'
BY DEF CallInv, VoiceBufferIsSound, buffer

LEMMA SendKeeps == ASSUME CallInv, SendFrame PROVE CallInv'
<1> USE DEF CallInv
<1>1. PICK loud \in BOOLEAN :
        LET frame == [ev |-> "media", loud |-> loud, during |-> playing # <<>>] IN
        CASE playing = <<>> -> wire' = Append(wire, frame) /\ UNCHANGED playing
          [] playing # <<>> /\ Head(playing) > 1 ->
                wire' = Append(wire, frame) /\ playing' = <<Head(playing) - 1>> \o Tail(playing)
          [] OTHER -> wire' = wire \o <<frame, Event("mark")>> /\ playing' = Tail(playing)
  BY DEF SendFrame
<1> DEFINE frame == [ev |-> "media", loud |-> loud, during |-> playing # <<>>]
           mark == Event("mark")
<1>2. frame \in Frames /\ (frame.during <=> playing # <<>>) BY DEF Frames
<1>3. mark \in Frames /\ mark.ev = "mark" /\ ~mark.during BY DEF Frames, Event
<1>4. UNCHANGED <<buffer, echo>> BY DEF SendFrame
<1>5. DOMAIN wire = 1..Len(wire) /\ Len(wire) \in Nat BY LenProperties
<1>6. CASE playing = <<>>
  <2>1. wire' = Append(wire, frame) /\ playing' = playing BY <1>1, <1>6
  <2> HIDE DEF frame
  <2>2. /\ wire' \in Seq(Frames) /\ wire'[Len(wire) + 1] = frame
        /\ \A i \in DOMAIN wire : i \in DOMAIN wire' /\ wire'[i] = wire[i]
        /\ DOMAIN wire' = 1..(Len(wire) + 1)
    BY <1>2, <2>1, WireGrows
  <2>3. MarkFollows'
    <3> SUFFICES ASSUME NEW i \in DOMAIN wire', wire'[i].during
                 PROVE  \E j \in DOMAIN wire' : i < j /\ wire'[j].ev = "mark"
      BY DEF MarkFollows
    <3>1. i \in DOMAIN wire BY <1>2, <1>5, <1>6, <2>2
    <3>2. PICK j \in DOMAIN wire : i < j /\ wire[j].ev = "mark" BY <1>6, <2>2, <3>1 DEF MarkFollows
    <3> QED BY <2>2, <3>2
  <2> QED BY <1>4, <1>6, <2>1, <2>2, <2>3, CallGrows
<1>7. CASE playing # <<>> /\ Head(playing) > 1
  <2>1. wire' = Append(wire, frame) /\ playing' = <<Head(playing) - 1>> \o Tail(playing) BY <1>1, <1>7
  <2> HIDE DEF frame
  <2>2. /\ wire' \in Seq(Frames)
        /\ \A i \in DOMAIN wire : i \in DOMAIN wire' /\ wire'[i] = wire[i]
    BY <1>2, <2>1, WireGrows
  <2>3. playing' \in Seq(Nat) /\ playing' # <<>>
    <3>1. Head(playing) \in Nat /\ Tail(playing) \in Seq(Nat) BY <1>7, HeadTailProperties
    <3>2. <<Head(playing) - 1>> \in Seq(Nat) /\ Len(<<Head(playing) - 1>>) = 1 BY <1>7, <3>1
    <3>3. playing' \in Seq(Nat) /\ Len(playing') = 1 + Len(Tail(playing))
      BY <2>1, <3>1, <3>2, ConcatProperties
    <3>4. Len(Tail(playing)) \in Nat BY <3>1, LenProperties
    <3>5. Len(<<>>) = 0 BY EmptySeq
    <3>6. playing' = <<>> => Len(playing') = 0 BY <3>5, Zenon
    <3> QED BY <3>3, <3>4, <3>6
  <2>4. MarkFollows' BY <2>3 DEF MarkFollows
  <2> QED BY <1>4, <2>2, <2>3, <2>4, CallGrows
<1>8. CASE playing # <<>> /\ ~(Head(playing) > 1)
  <2>1. wire' = wire \o <<frame, mark>> /\ playing' = Tail(playing) BY <1>1, <1>8
  <2> HIDE DEF frame, mark
  <2>2. <<frame, mark>> \in Seq(Frames) /\ Len(<<frame, mark>>) = 2 BY <1>2, <1>3
  <2>3. /\ wire' \in Seq(Frames) /\ Len(wire') = Len(wire) + 2
        /\ \A i \in 1..Len(wire') : wire'[i] = IF i <= Len(wire) THEN wire[i] ELSE <<frame, mark>>[i - Len(wire)]
    BY <2>1, <2>2, ConcatProperties
  <2>4. DOMAIN wire' = 1..(Len(wire) + 2) BY <2>3, LenProperties
  <2>5. \A i \in DOMAIN wire : i \in DOMAIN wire' /\ wire'[i] = wire[i] BY <1>5, <2>3, <2>4
  <2>6. Len(wire) + 2 \in DOMAIN wire' /\ wire'[Len(wire) + 2] = mark
    <3>1. Len(wire) + 2 \in 1..Len(wire') /\ ~(Len(wire) + 2 <= Len(wire)) /\ Len(wire) + 2 - Len(wire) = 2
      BY <1>5, <2>3
    <3>2. wire'[Len(wire) + 2] = <<frame, mark>>[2] BY <2>3, <3>1
    <3> QED BY <2>3, <2>4, <3>1, <3>2
  <2>7. playing' \in Seq(Nat) BY <1>8, <2>1, HeadTailProperties
  <2>8. MarkFollows'
    <3> SUFFICES ASSUME NEW i \in DOMAIN wire', wire'[i].during
                 PROVE  \E j \in DOMAIN wire' : i < j /\ wire'[j].ev = "mark"
      BY DEF MarkFollows
    <3>1. i # Len(wire) + 2 BY <1>3, <2>6
    <3>2. i < Len(wire) + 2 BY <1>5, <2>4, <3>1
    <3> QED BY <1>3, <2>6, <3>2
  <2> QED BY <1>3, <1>4, <2>3, <2>5, <2>6, <2>7, <2>8, CallGrows
<1> QED BY <1>6, <1>7, <1>8

LEMMA HangUpKeeps == ASSUME CallInv, HangUp PROVE CallInv'
<1> USE DEF CallInv
<1> DEFINE stop == Event("stop")
<1>1. wire' = Append(wire, stop) /\ playing' = playing /\ UNCHANGED <<buffer, echo>> BY DEF HangUp
<1>2. stop \in Frames /\ ~stop.during BY DEF Frames, Event
<1> HIDE DEF stop
<1>3. /\ wire' \in Seq(Frames) /\ wire'[Len(wire) + 1] = stop
      /\ \A i \in DOMAIN wire : i \in DOMAIN wire' /\ wire'[i] = wire[i]
      /\ DOMAIN wire = 1..Len(wire) /\ DOMAIN wire' = 1..(Len(wire) + 1) /\ Len(wire) \in Nat
  BY <1>1, <1>2, WireGrows
<1>4. MarkFollows'
  <2> SUFFICES ASSUME playing = <<>>, NEW i \in DOMAIN wire', wire'[i].during
               PROVE  \E j \in DOMAIN wire' : i < j /\ wire'[j].ev = "mark"
    BY <1>1 DEF MarkFollows
  <2>1. i \in DOMAIN wire BY <1>2, <1>3
  <2>2. PICK j \in DOMAIN wire : i < j /\ wire[j].ev = "mark" BY <1>3, <2>1 DEF MarkFollows
  <2> QED BY <1>3, <2>2
<1> QED BY <1>1, <1>3, <1>4, CallGrows

LEMMA SpeakKeeps == ASSUME CallInv, SpeakReply PROVE CallInv'
<1> USE DEF CallInv
<1>1. wire' = wire /\ UNCHANGED <<buffer, echo>> BY DEF SpeakReply
<1>2. playing' \in Seq(Nat) /\ (playing # <<>> => playing' # <<>>)
  <2>1. CASE playing' = Append(playing, ReplyFrames)
    <3>1. ReplyFrames \in Nat /\ playing \in Seq(Nat) BY VoiceAssumption
    <3>2. playing' \in Seq(Nat) /\ playing' # <<>>
      <4> HIDE DEF CallInv
      <4> QED BY <2>1, <3>1, AppendProperties
    <3> QED BY <3>2
  <2>2. CASE playing' = playing BY <2>2
  <2> QED BY <2>1, <2>2 DEF SpeakReply
<1>3. MarkFollows' BY <1>1, <1>2 DEF MarkFollows
<1> QED BY <1>1, <1>2, <1>3, CallGrows

\* The event at the head is taken, and what is in the buffer with it.
LEMMA TakingKeeps ==
  ASSUME CallInv, wire # <<>>, wire' = Tail(wire), playing' = playing,
         collected' \in 0..MaxSpeech, speech' \in 0..MinSpeech, silence' \in 0..SilenceEnd,
         hasSpeech' \in BOOLEAN, echo' \in 0..EchoTail, replayed' \in BOOLEAN,
         ~(hasSpeech' /\ speech' >= MinSpeech /\ silence' >= SilenceEnd),
         hasSpeech' => collected' < MaxSpeech /\ speech' > 0,
         Least(speech' + silence', MaxSpeech) <= collected',
         replayed' => Head(wire).ev # "mark" /\ (replayed \/ Head(wire).during)
  PROVE  CallInv'
<1>1. /\ MarkFollows' /\ wire' \in Seq(Frames)
      /\ Head(wire).ev # "mark" =>
           /\ replayed => playing' # <<>> \/ \E i \in DOMAIN wire' : wire'[i].ev = "mark"
           /\ Head(wire).during => playing' # <<>> \/ \E i \in DOMAIN wire' : wire'[i].ev = "mark"
  BY MarksStay
<1>2. replayed' => playing' # <<>> \/ \E i \in DOMAIN wire' : wire'[i].ev = "mark" BY <1>1
<1>3. VoiceBufferIsSound' BY <1>2 DEF VoiceBufferIsSound, Least
<1> QED BY <1>1, <1>3 DEF CallInv

LEMMA ClearedFacts ==
  ASSUME Cleared
  PROVE  /\ collected' \in 0..MaxSpeech /\ speech' \in 0..MinSpeech /\ silence' \in 0..SilenceEnd
         /\ hasSpeech' = FALSE /\ replayed' = FALSE
         /\ Least(speech' + silence', MaxSpeech) <= collected'
BY VoiceAssumption DEF Cleared, Least

LEMMA TakeMarkKeeps == ASSUME CallInv, TakeMark PROVE CallInv'
<1>1. wire # <<>> /\ wire' = Tail(wire) /\ playing' = playing /\ Cleared /\ echo' = EchoTail
  BY DEF TakeMark, Taking
<1>2. echo' \in 0..EchoTail BY <1>1, VoiceAssumption
<1> QED BY <1>1, <1>2, ClearedFacts, TakingKeeps

LEMMA TakeStopKeeps ==
  ASSUME CallInv, StartCall \/ TakeStop PROVE CallInv'
<1>1. /\ wire # <<>> /\ wire' = Tail(wire) /\ playing' = playing /\ UNCHANGED <<buffer, echo>>
      /\ Head(wire).ev # "mark"
  BY DEF TakeStop, StartCall, Taking
<1> QED BY <1>1, TakingKeeps DEF CallInv, VoiceBufferIsSound, buffer, Least

LEMMA TakeFrameKeeps == ASSUME CallInv, TakeFrame PROVE CallInv'
<1> USE DEF CallInv
<1> DEFINE f == Head(wire)
           c == Least(collected + 1, MaxSpeech)
           sp == IF f.loud THEN Least(speech + 1, MinSpeech) ELSE speech
           si == IF f.loud THEN 0 ELSE Least(silence + 1, SilenceEnd)
           has == hasSpeech \/ f.loud
<1>1. wire # <<>> /\ wire' = Tail(wire) /\ playing' = playing /\ f.ev = "media"
  BY DEF TakeFrame, Taking
<1>2. f \in Frames BY <1>1, WireShrinks
<1>3. /\ MinSpeech \in Nat \ {0} /\ SilenceEnd \in Nat \ {0} /\ MaxSpeech \in Nat /\ EchoTail \in Nat
      /\ MaxSpeech >= MinSpeech + SilenceEnd
  BY VoiceAssumption
<1>4. CASE echo > 0
  <2>1. echo' = echo - 1 /\ UNCHANGED buffer BY <1>4 DEF TakeFrame
  <2>2. echo' \in 0..EchoTail BY <1>3, <1>4, <2>1
  <2> HIDE DEF f
  <2> QED BY <1>1, <2>1, <2>2, TakingKeeps DEF VoiceBufferIsSound, buffer, Least, f
<1>5. CASE ~(echo > 0) /\ IsUtterance(c, sp, si, has)
  <2>1. Cleared /\ echo' = echo BY <1>5 DEF TakeFrame
  <2> QED BY <1>1, <2>1, ClearedFacts, TakingKeeps
<1>6. CASE ~(echo > 0) /\ ~IsUtterance(c, sp, si, has)
  <2>1. /\ collected' = c /\ speech' = sp /\ silence' = si /\ hasSpeech' = has
        /\ replayed' = (replayed \/ f.during) /\ echo' = echo
    BY <1>6 DEF TakeFrame
  <2>2. c \in 0..MaxSpeech /\ sp \in 0..MinSpeech /\ si \in 0..SilenceEnd /\ has \in BOOLEAN
        /\ replayed' \in BOOLEAN
    BY <1>2, <1>3, <2>1 DEF Frames, Least
  <2>3. ~(has /\ sp >= MinSpeech /\ si >= SilenceEnd) /\ ~(has /\ c >= MaxSpeech)
    BY <1>6 DEF IsUtterance
  <2>4. has => c < MaxSpeech BY <1>3, <2>2, <2>3
  <2>5. has => sp > 0
    <3>1. hasSpeech => speech > 0 BY DEF VoiceBufferIsSound
    <3> QED BY <1>2, <1>3, <3>1 DEF Frames, Least
  <2>6. Least(sp + si, MaxSpeech) <= c
    <3>1. Least(speech + silence, MaxSpeech) <= collected BY DEF VoiceBufferIsSound
    <3>2. sp + si <= speech + silence + 1
      <4>1. CASE f.loud BY <1>3, <4>1 DEF Least
      <4>2. CASE ~f.loud BY <1>3, <4>2 DEF Least
      <4> QED BY <4>1, <4>2
    <3> HIDE DEF sp, si, c
    <3> QED BY <1>3, <2>2, <3>1, <3>2 DEF Least, c
  <2> HIDE DEF f, c, sp, si, has
  <2> QED BY <1>1, <2>1, <2>2, <2>3, <2>4, <2>5, <2>6, TakingKeeps DEF f
<1> QED BY <1>4, <1>5, <1>6

LEMMA CallStands ==
  ASSUME CallInv, UNCHANGED <<wire, playing, buffer, echo>> PROVE CallInv'
BY DEF CallInv, VoiceBufferIsSound, MarkFollows, buffer

LEMMA CallStarts == VoiceInit => CallInv
<1> SUFFICES ASSUME VoiceInit PROVE CallInv OBVIOUS
<1> DEFINE e == Event("start")
<1>1. e \in Frames /\ ~e.during BY DEF Frames, Event
<1>2. wire = <<e>> BY DEF VoiceInit
<1> HIDE DEF e
<1>3. wire \in Seq(Frames) BY <1>1, <1>2
<1>4. \A i \in DOMAIN wire : ~wire[i].during BY <1>1, <1>2
<1>5. /\ playing = <<>> /\ collected = 0 /\ speech = 0 /\ silence = 0 /\ hasSpeech = FALSE
      /\ echo = 0 /\ replayed = FALSE
  BY DEF VoiceInit
<1>6. playing \in Seq(Nat) BY <1>5
<1>7. VoiceBufferIsSound BY <1>5, VoiceAssumption DEF VoiceBufferIsSound, Least
<1>8. /\ collected \in 0..MaxSpeech /\ speech \in 0..MinSpeech /\ silence \in 0..SilenceEnd
      /\ echo \in 0..EchoTail
  BY <1>5, VoiceAssumption
<1>9. hasSpeech \in BOOLEAN /\ replayed \in BOOLEAN BY <1>5, Zenon
<1>10. MarkFollows BY <1>4 DEF MarkFollows
<1> QED BY <1>3, <1>6, <1>7, <1>8, <1>9, <1>10 DEF CallInv

LEMMA CallSteps == VoiceSpec => []CallInv
<1>1. CallInv /\ [VoiceNext]_voiceVars => CallInv'
  <2> SUFFICES ASSUME CallInv, [VoiceNext]_voiceVars PROVE CallInv' OBVIOUS
  <2>1. Transcribe \/ Answer \/ UNCHANGED voiceVars => CallInv'
    BY CallStands DEF Transcribe, Answer, voiceVars, buffer
  <2> QED BY <2>1, SendKeeps, HangUpKeeps, TakeFrameKeeps, SpeakKeeps, TakeMarkKeeps, TakeStopKeeps
          DEF VoiceNext
<1> QED BY <1>1, CallStarts, PTL DEF VoiceSpec

(***************************************************************************)
(* Messages and calls (the webhooks, handle_call): feedback stays in its   *)
(* chat, only what is signed is handled unless the owner opted out, roles  *)
(* are the owner's choice, and no finished utterance of a call waits, for  *)
(* any number of servers and any payloads a provider may send.             *)
(***************************************************************************)
THEOREM ConversationsSound == ChanSpec /\ VoiceSpec => []ConversationsAreSound
<1>1. ChanInv => ChannelsAreSound BY ChanInvGives
<1>2. ChanInv /\ CallInv => ConversationsAreSound BY <1>1 DEF ConversationsAreSound, CallInv
<1> QED BY <1>2, ChanSteps, CallSteps, PTL

-----------------------------------------------------------------------------
(* What a list comprehension leaves of a list. *)

\* Numbers of a set in their order: the one below which, itself included, there are k.
Ranked(at, f) ==
  /\ f \in [1..Cardinality(at) -> at]
  /\ \A j, k \in DOMAIN f : j < k => f[j] < f[k]
  /\ \A i \in at : \E k \in DOMAIN f : f[k] = i

LEMMA RankGrows ==
  ASSUME NEW n \in Nat, NEW at \in SUBSET (1..n)
  PROVE  /\ IsFiniteSet(at) /\ Cardinality(at) \in Nat
         /\ \A i \in at : Cardinality(UpToIn(at, i)) \in 1..Cardinality(at)
         /\ \A i, j \in at : i < j => Cardinality(UpToIn(at, i)) < Cardinality(UpToIn(at, j))
<1>1. IsFiniteSet(1..n) BY FS_Interval
<1>2. IsFiniteSet(at) /\ Cardinality(at) \in Nat BY <1>1, FS_Subset, FS_CardinalityType
<1>3. ASSUME NEW i \in at
      PROVE  Cardinality(UpToIn(at, i)) \in 1..Cardinality(at)
  <2>1. UpToIn(at, i) \subseteq at /\ i \in UpToIn(at, i) BY DEF UpToIn
  <2>2. IsFiniteSet(UpToIn(at, i)) /\ Cardinality(UpToIn(at, i)) <= Cardinality(at)
    BY <2>1, <1>2, FS_Subset
  <2>3. Cardinality(UpToIn(at, i)) \in Nat /\ Cardinality(UpToIn(at, i)) # 0
    BY <2>1, <2>2, FS_CardinalityType, FS_EmptySet
  <2> QED BY <2>2, <2>3, <1>2
<1>4. ASSUME NEW i \in at, NEW j \in at, i < j
      PROVE  Cardinality(UpToIn(at, i)) < Cardinality(UpToIn(at, j))
  <2>1. UpToIn(at, i) \subseteq UpToIn(at, j) /\ j \notin UpToIn(at, i) /\ j \in UpToIn(at, j)
        /\ UpToIn(at, j) \subseteq at
    <3>1. i \in Nat /\ j \in Nat /\ \A x \in at : x \in Nat OBVIOUS
    <3>2. \A x \in at : x <= i => x <= j BY <3>1, <1>4
    <3>3. ~(j <= i) /\ j <= j BY <3>1, <1>4
    <3> QED BY <3>2, <3>3, Zenon DEF UpToIn
  <2>2. IsFiniteSet(UpToIn(at, j)) BY <2>1, <1>2, FS_Subset
  <2>3. /\ Cardinality(UpToIn(at, i)) <= Cardinality(UpToIn(at, j))
        /\ Cardinality(UpToIn(at, i)) # Cardinality(UpToIn(at, j))
    BY <2>1, <2>2, FS_Subset
  <2>4. Cardinality(UpToIn(at, i)) \in Nat /\ Cardinality(UpToIn(at, j)) \in Nat BY <1>3
  <2> QED BY <2>3, <2>4
<1> QED BY <1>2, <1>3, <1>4

\* In a finite set of numbers there is a first, a second, up to as many as there are.
LEMMA NthIsThere ==
  ASSUME NEW n \in Nat, NEW at \in SUBSET (1..n), NEW k \in 1..Cardinality(at)
  PROVE  \E i \in at : Cardinality(UpToIn(at, i)) = k
<1> DEFINE C == 1..Cardinality(at)
           r == [i \in at |-> Cardinality(UpToIn(at, i))]
<1>1. IsFiniteSet(C) /\ Cardinality(C) = Cardinality(at)
  <2>1. Cardinality(at) \in Nat BY RankGrows
  <2> QED BY <2>1, FS_Interval
<1>2. r \in [at -> C] BY RankGrows
<1>3. ASSUME NEW i \in at, NEW j \in at, r[i] = r[j] PROVE i = j
  <2>1. Cardinality(UpToIn(at, i)) = Cardinality(UpToIn(at, j)) BY <1>3
  <2>2. i \in Nat /\ j \in Nat OBVIOUS
  <2>3. Cardinality(UpToIn(at, i)) \in Nat
    <3>1. Cardinality(UpToIn(at, i)) \in 1..Cardinality(at) /\ Cardinality(at) \in Nat BY RankGrows
    <3> QED BY <3>1
  <2>4. ~(i < j) /\ ~(j < i)
    <3>1. i < j => Cardinality(UpToIn(at, i)) < Cardinality(UpToIn(at, j)) BY RankGrows
    <3>2. j < i => Cardinality(UpToIn(at, j)) < Cardinality(UpToIn(at, i)) BY RankGrows
    <3> QED BY <3>1, <3>2, <2>1, <2>3
  <2> QED BY <2>2, <2>4
<1>4. \A i \in at : r[i] = Cardinality(UpToIn(at, i)) OBVIOUS
<1> HIDE DEF C, r
<1>5. r \in Injection(at, C) BY <1>2, <1>3 DEF Injection, IsInjective
<1>6. r \in Surjection(at, C) BY <1>1, <1>5, FS_Injection
<1>7. k \in C BY DEF C
<1> QED BY <1>4, <1>6, <1>7 DEF Surjection

LEMMA InOrder ==
  ASSUME NEW n \in Nat, NEW at \in SUBSET (1..n)
  PROVE  Ranked(at, [k \in 1..Cardinality(at) |-> Nth(at, k)])
<1> DEFINE C == 1..Cardinality(at)
           f == [k \in C |-> Nth(at, k)]
<1>1. ASSUME NEW k \in C PROVE Nth(at, k) \in at /\ Cardinality(UpToIn(at, Nth(at, k))) = k
  BY NthIsThere DEF Nth
<1>2. f \in [C -> at] BY <1>1
<1>3. ASSUME NEW j \in C, NEW k \in C, j < k PROVE Nth(at, j) < Nth(at, k)
  <2> DEFINE x == Nth(at, j) y == Nth(at, k)
  <2>1. x \in at /\ y \in at /\ Cardinality(UpToIn(at, x)) = j /\ Cardinality(UpToIn(at, y)) = k BY <1>1
  <2>2. x \in Nat /\ y \in Nat /\ j \in Nat /\ k \in Nat
    <3> HIDE DEF x, y
    <3>1. Cardinality(at) \in Nat BY RankGrows
    <3> QED BY <2>1, <3>1
  <2> HIDE DEF x, y
  <2>3. y < x => Cardinality(UpToIn(at, y)) < Cardinality(UpToIn(at, x)) BY <2>1, RankGrows
  <2>4. x < y BY <2>1, <2>2, <2>3, <1>3
  <2> QED BY <2>4 DEF x, y
<1>4. ASSUME NEW i \in at PROVE \E k \in C : Nth(at, k) = i
  <2> DEFINE k == Cardinality(UpToIn(at, i))
             x == Nth(at, k)
  <2>1. k \in C BY RankGrows
  <2>2. x \in at /\ Cardinality(UpToIn(at, x)) = k BY <2>1, <1>1
  <2>3. x \in Nat /\ i \in Nat /\ k \in Nat
    <3>1. Cardinality(at) \in Nat BY RankGrows
    <3> HIDE DEF x, k
    <3> QED BY <2>1, <2>2, <3>1
  <2>4. ~(x < i) /\ ~(i < x)
    <3>1. Cardinality(UpToIn(at, i)) = k OBVIOUS
    <3> HIDE DEF x, k
    <3>2. x < i => Cardinality(UpToIn(at, x)) < Cardinality(UpToIn(at, i)) BY <2>2, RankGrows
    <3>3. i < x => Cardinality(UpToIn(at, i)) < Cardinality(UpToIn(at, x)) BY <2>2, RankGrows
    <3> QED BY <3>1, <3>2, <3>3, <2>2, <2>3
  <2>5. x = i
    <3> HIDE DEF x, k
    <3> QED BY <2>3, <2>4
  <2> QED BY <2>1, <2>5
<1> HIDE DEF C
<1>5. DOMAIN f = C /\ \A k \in C : f[k] = Nth(at, k) OBVIOUS
<1> HIDE DEF f
<1>6. Ranked(at, f) BY <1>2, <1>3, <1>4, <1>5 DEF Ranked, C
<1> QED BY <1>6 DEF f, C

\* t is what is selected of s, and f says where each element of it stood.
Picks(s, T, t, f) ==
  /\ f \in [DOMAIN t -> DOMAIN s]
  /\ \A k \in DOMAIN t : t[k] = s[f[k]] /\ s[f[k]] \in T
  /\ \A j, k \in DOMAIN t : j < k => f[j] < f[k]
  /\ \A i \in DOMAIN s : s[i] \in T => \E k \in DOMAIN t : f[k] = i

LEMMA OnlyPicks ==
  ASSUME NEW S, NEW s \in Seq(S), NEW T
  PROVE  Only(s, T) \in Seq(S) /\ \E f : Picks(s, T, Only(s, T), f)
<1> DEFINE at == {i \in DOMAIN s : s[i] \in T}
           f == [k \in 1..Cardinality(at) |-> Nth(at, k)]
<1>1. Len(s) \in Nat /\ DOMAIN s = 1..Len(s) OBVIOUS
<1>2. at \in SUBSET (1..Len(s)) BY <1>1
<1>3. Ranked(at, f)
  <2> HIDE DEF at
  <2> QED BY <1>1, <1>2, InOrder
<1>4. Only(s, T) = [k \in 1..Cardinality(at) |-> s[Nth(at, k)]] BY DEF Only, Nth, UpToIn
<1>5. Cardinality(at) \in Nat
  <2> HIDE DEF at
  <2> QED BY <1>1, <1>2, RankGrows
<1>6. \A i : i \in at <=> i \in DOMAIN s /\ s[i] \in T OBVIOUS
<1> HIDE DEF at
<1>7. DOMAIN f = 1..Cardinality(at) /\ \A k \in DOMAIN f : f[k] = Nth(at, k) OBVIOUS
<1> HIDE DEF f
<1>8. f \in [1..Cardinality(at) -> at] BY <1>3 DEF Ranked
<1>9. DOMAIN Only(s, T) = DOMAIN f /\ \A k \in DOMAIN f : Only(s, T)[k] = s[f[k]]
  BY <1>4, <1>7
<1>10. Only(s, T) = [k \in 1..Cardinality(at) |-> s[f[k]]] BY <1>4, <1>7
<1>11. \A k \in 1..Cardinality(at) : s[f[k]] \in S
  <2>1. \A i \in DOMAIN s : s[i] \in S BY <1>1
  <2> QED BY <2>1, <1>8, <1>6
<1>12. Only(s, T) \in Seq(S)
  BY <1>5, <1>10, <1>11
<1>13. f \in [DOMAIN Only(s, T) -> DOMAIN s] BY <1>6, <1>7, <1>8, <1>9
<1>14. \A k \in DOMAIN Only(s, T) : s[f[k]] \in T BY <1>6, <1>7, <1>8, <1>9
<1>15. \A j, k \in DOMAIN Only(s, T) : j < k => f[j] < f[k] BY <1>3, <1>9 DEF Ranked
<1>16. \A i \in DOMAIN s : s[i] \in T => \E k \in DOMAIN Only(s, T) : f[k] = i
  BY <1>3, <1>6, <1>9 DEF Ranked
<1>17. Picks(s, T, Only(s, T), f) BY <1>9, <1>13, <1>14, <1>15, <1>16, Zenon DEF Picks
<1> QED BY <1>12, <1>17

-----------------------------------------------------------------------------
(* Retrieval: the invariant. *)

\* No chunk twice, and no more than were asked for.
ListOK(q) ==
  /\ q \in Seq(Chunks) /\ Len(q) <= 3 * TopK
  /\ \A i, j \in DOMAIN q : q[i] = q[j] => i = j

Searches == [pc : {"idle", "sparse", "fuse", "boost", "done"}, dense : Seq(Chunks), sparse : Seq(Chunks),
             sim : {<<>>} \cup UNION {[cs -> Similarities] : cs \in SUBSET Chunks},
             direct : SUBSET Chunks, indirect : SUBSET Chunks, seen : SUBSET Chunks, found : Seq(Chunks)]

\* What the queries have given so far, each list of documents that were there.
ListsOK(s) ==
  /\ ListOK(s.dense) /\ ListOK(s.sparse)
  /\ ToSet(s.dense) \cup ToSet(s.sparse) \subseteq s.seen
  /\ s.pc \in {"sparse", "fuse"} => s.sim = <<>>
  /\ s.pc = "boost" => s.sim \in [ToSet(s.dense) -> Similarities] /\ s.sparse = <<>>

LookInv == chunkRows \subseteq Chunks /\ look \in Searches /\ ListsOK(look) /\ SearchIsFair

-----------------------------------------------------------------------------
(* Ranks and scores. *)

\* A ranking of a finite set names each of its members once.
LEMMA RankingIsAll ==
  ASSUME NEW S, IsFiniteSet(S), NEW q \in SetToSeqs(S)
  PROVE  /\ q \in Seq(S) /\ Len(q) = Cardinality(S) /\ ToSet(q) = S
         /\ \A i, j \in DOMAIN q : q[i] = q[j] => i = j
<1> DEFINE D == 1..Cardinality(S)
<1>1. Cardinality(S) \in Nat BY FS_CardinalityType
<1>2. q \in [D -> S] /\ \A i, j \in D : i # j => q[i] # q[j] BY DEF SetToSeqs
<1>3. IsFiniteSet(D) /\ Cardinality(D) = Cardinality(S) BY <1>1, FS_Interval
<1>4. q \in Seq(S) /\ Len(q) = Cardinality(S) /\ DOMAIN q = D BY <1>1, <1>2
<1>5. q \in Surjection(D, S)
  <2> HIDE DEF D
  <2>1. q \in Injection(D, S) BY <1>2 DEF Injection, IsInjective
  <2> QED BY <2>1, <1>3, FS_Injection
<1>6. ToSet(q) = S
  <2> HIDE DEF D
  <2>1. \A s \in S : \E i \in D : q[i] = s BY <1>5 DEF Surjection
  <2> QED BY <2>1, <1>2, <1>4 DEF ToSet
<1> QED BY <1>2, <1>4, <1>6

LEMMA UpToLenIsPrefix ==
  ASSUME NEW S, NEW q \in Seq(S), NEW n \in Nat
  PROVE  /\ UpToLen(q, n) \in Seq(S)
         /\ Len(UpToLen(q, n)) = (IF Len(q) < n THEN Len(q) ELSE n)
         /\ \A i \in DOMAIN UpToLen(q, n) : i \in DOMAIN q /\ UpToLen(q, n)[i] = q[i]
<1>1. CASE Len(q) < n BY <1>1 DEF UpToLen
<1>2. CASE ~(Len(q) < n)
  <2>1. UpToLen(q, n) = SubSeq(q, 1, n) BY <1>2 DEF UpToLen
  <2>2. SubSeq(q, 1, n) = [i \in 1..n |-> q[i]] BY <1>2
  <2>3. \A i \in 1..n : i \in DOMAIN q /\ q[i] \in S BY <1>2
  <2> QED BY <2>1, <2>2, <2>3, <1>2
<1> QED BY <1>1, <1>2

LEMMA RankIsPlace ==
  ASSUME NEW q, \A i, j \in DOMAIN q : q[i] = q[j] => i = j, NEW k \in DOMAIN q
  PROVE  RankIn(q, q[k]) = k /\ In(q, q[k])
<1>1. RankIn(q, q[k]) \in DOMAIN q /\ q[RankIn(q, q[k])] = q[k] BY DEF RankIn
<1> QED BY <1>1 DEF In, ToSet

LEMMA RankIsThere ==
  ASSUME NEW q, NEW c, In(q, c)
  PROVE  RankIn(q, c) \in DOMAIN q /\ q[RankIn(q, c)] = c
BY DEF RankIn, In, ToSet

\* What a rank counts, as far as ranks go.
Places == 1..(RrfK + 3 * TopK)

LEMMA PlacesDiffer ==
  ASSUME NEW m \in Places, NEW n \in Places, m < n
  PROVE  /\ Million \div m \in Nat /\ Million \div n \in Nat /\ Million \div m > Million \div n
         /\ Million \div m > 0 /\ Million \div n > 0
<1> DEFINE N == RrfK + 3 * TopK
           M == Million
<1>1. N \in Nat /\ N * (N + 1) <= M /\ m \in 1..N /\ n \in 1..N BY RetrievalAssumption DEF Places
<1> HIDE DEF N
<1> M \in Nat BY DEF Million
<1>2. \A k \in 1..N : k * k + k <= M
  <2> TAKE k \in 1..N
  <2>1. k * (k + 1) <= N * (N + 1) BY <1>1
  <2> QED BY <2>1, <1>1
<1> HIDE DEF M
<1>3. \A k \in 1..N : /\ M \div k \in Nat
                      /\ k * (M \div k) <= M /\ M < k * (M \div k) + k
  <2> TAKE k \in 1..N
  <2>1. k \in Nat /\ k > 0 BY <1>1
  <2> QED BY <2>1
<1> DEFINE q == M \div m
           p == M \div n
<1>4. /\ q \in Nat /\ p \in Nat /\ m \in Nat /\ n \in Nat /\ m * m + m <= M /\ n * n + n <= M
      /\ M < q * m + m /\ p * n <= M /\ M < p * n + n /\ m > 0 /\ n > 0
  BY <1>1, <1>2, <1>3
<1> HIDE DEF q, p
<1>5. p > 0
  <2>1. n <= n * n BY <1>4
  <2>2. p = 0 => p * n = 0 BY <1>4
  <2> QED BY <2>1, <2>2, <1>4
<1>6. q > p
  <2> SUFFICES ASSUME q <= p PROVE FALSE BY <1>4
  <2>1. q * n <= p * n BY <1>4
  <2>2. q * (m + 1) <= q * n BY <1>4
  <2>3. q * (m + 1) = q * m + q BY <1>4
  <2>4. q < m BY <2>1, <2>2, <2>3, <1>4
  <2>5. q * m + m <= m * m
    <3>1. (q + 1) * m <= m * m BY <2>4, <1>4
    <3>2. (q + 1) * m = q * m + m BY <1>4
    <3> QED BY <3>1, <3>2
  <2> QED BY <2>5, <1>4
<1> QED BY <1>4, <1>5, <1>6 DEF q, p, M

\* A chunk that a list ranks no lower than another one scores no less in it, and more when the
\* list has one of the two.
LEMMA RankedScoresMore ==
  ASSUME NEW q, ListOK(q), NEW c, NEW d, c # d, NoLower(q, c, d)
  PROVE  /\ Reciprocal(q, c) \in Nat /\ Reciprocal(q, d) \in Nat
         /\ Reciprocal(q, c) >= Reciprocal(q, d)
         /\ In(q, c) => Reciprocal(q, c) > Reciprocal(q, d)
<1>1. TopK \in Nat /\ RrfK \in Nat BY RetrievalAssumption
<1>2. ASSUME NEW x, In(q, x)
      PROVE  /\ RrfK + RankIn(q, x) \in Places
             /\ Reciprocal(q, x) = Million \div (RrfK + RankIn(q, x))
             /\ RankIn(q, x) \in Nat
  <2>1. RankIn(q, x) \in 1..Len(q) /\ Len(q) \in Nat /\ Len(q) <= 3 * TopK BY <1>2, RankIsThere DEF ListOK
  <2> QED BY <2>1, <1>1, <1>2 DEF Places, Reciprocal
<1>3. ASSUME NEW x, ~In(q, x) PROVE Reciprocal(q, x) = 0 BY <1>3 DEF Reciprocal
<1>4. ASSUME NEW x, In(q, x) PROVE Reciprocal(q, x) \in Nat /\ Reciprocal(q, x) > 0
  <2> DEFINE n == RrfK + RankIn(q, x)
  <2>1. n \in Places /\ Reciprocal(q, x) = Million \div n BY <1>2, <1>4
  <2> HIDE DEF n
  <2>2. n \in Nat /\ n > 0 BY <2>1, <1>1 DEF Places
  <2>3. Million \div n > 0 /\ Million \div n \in Nat
    <3>1. CASE n = 1 BY <3>1 DEF Million
    <3>2. CASE n # 1
      <4>1. 1 \in Places /\ 1 < n BY <3>2, <2>1, <2>2, <1>1 DEF Places
      <4> QED BY <4>1, <2>1, PlacesDiffer
    <3> QED BY <3>1, <3>2
  <2> QED BY <2>1, <2>3
<1>5. CASE ~In(q, d)
  <2>1. Reciprocal(q, d) = 0 BY <1>5, <1>3
  <2>2. CASE In(q, c) BY <2>1, <2>2, <1>4
  <2>3. CASE ~In(q, c) BY <2>1, <2>3, <1>3
  <2> QED BY <2>2, <2>3
<1>6. CASE In(q, d)
  <2>1. In(q, c) /\ RankIn(q, c) <= RankIn(q, d) BY <1>6 DEF NoLower
  <2>2. RankIn(q, c) # RankIn(q, d) BY <2>1, <1>6, RankIsThere
  <2> DEFINE m == RrfK + RankIn(q, c)
             n == RrfK + RankIn(q, d)
  <2>3. /\ m \in Places /\ n \in Places /\ Reciprocal(q, c) = Million \div m
        /\ Reciprocal(q, d) = Million \div n /\ m < n
    <3>1. RankIn(q, c) \in Nat /\ RankIn(q, d) \in Nat BY <2>1, <1>2, <1>6
    <3>2. m < n BY <3>1, <2>1, <2>2, <1>1
    <3> QED BY <3>2, <2>1, <1>2, <1>6
  <2> HIDE DEF m, n
  <2>4. Million \div m \in Nat /\ Million \div n \in Nat /\ Million \div m > Million \div n
    BY <2>3, PlacesDiffer
  <2> QED BY <2>3, <2>4
<1> QED BY <1>5, <1>6

\* What comes out of a ranking by scores: as many as asked for, and whatever scores more than
\* one of them comes before it.
LEMMA BestIsFair ==
  ASSUME NEW S, IsFiniteSet(S), NEW score \in [S -> Nat], NEW found, Best(score, found)
  PROVE  /\ found \in Seq(S)
         /\ Len(found) = (IF Cardinality(S) < TopK THEN Cardinality(S) ELSE TopK)
         /\ \A c \in S, d \in ToSet(found) :
              score[c] > score[d] => In(found, c) /\ RankIn(found, c) < RankIn(found, d)
<1>1. DOMAIN score = S /\ TopK \in Nat BY RetrievalAssumption
<1>2. PICK ranking \in SetToSeqs(S) :
        /\ \A i, j \in DOMAIN ranking : i < j => score[ranking[i]] >= score[ranking[j]]
        /\ found = UpToLen(ranking, TopK)
  BY <1>1 DEF Best
<1>3. /\ ranking \in Seq(S) /\ Len(ranking) = Cardinality(S) /\ ToSet(ranking) = S
      /\ \A i, j \in DOMAIN ranking : ranking[i] = ranking[j] => i = j
  BY RankingIsAll
<1>4. /\ found \in Seq(S) /\ Len(found) = (IF Len(ranking) < TopK THEN Len(ranking) ELSE TopK)
      /\ \A i \in DOMAIN found : i \in DOMAIN ranking /\ found[i] = ranking[i]
  BY <1>1, <1>2, <1>3, UpToLenIsPrefix
<1>5. \A i, j \in DOMAIN found : found[i] = found[j] => i = j BY <1>3, <1>4
<1>6. ASSUME NEW c \in S, NEW d \in ToSet(found), score[c] > score[d]
      PROVE  In(found, c) /\ RankIn(found, c) < RankIn(found, d)
  <2>1. PICK j \in DOMAIN found : found[j] = d BY DEF ToSet
  <2>2. PICK i \in DOMAIN ranking : ranking[i] = c BY <1>3 DEF ToSet
  <2>3. j \in DOMAIN ranking /\ ranking[j] = d BY <1>4, <2>1
  <2>4. i \in 1..Len(ranking) /\ j \in 1..Len(ranking) /\ Len(ranking) \in Nat /\ j \in 1..Len(found)
    BY <1>3, <1>4, <2>1, <2>2, <2>3
  <2>5. score[c] \in Nat /\ score[d] \in Nat
    <3>1. d \in S BY <1>3, <2>3 DEF ToSet
    <3> QED BY <3>1
  <2>6. i < j
    <3>1. i # j BY <1>6, <2>2, <2>3, <2>5
    <3>2. j < i => score[d] >= score[c] BY <1>2, <2>2, <2>3
    <3>3. ~(j < i) BY <3>2, <1>6, <2>5
    <3> QED BY <3>1, <3>3, <2>4
  <2>7. i \in DOMAIN found BY <2>4, <2>6, <1>4
  <2>8. found[i] = c BY <2>2, <2>7, <1>4
  <2>9. In(found, c) /\ RankIn(found, c) = i BY <1>5, <2>7, <2>8, RankIsPlace
  <2>10. RankIn(found, d) = j BY <1>5, <2>1, RankIsPlace
  <2> QED BY <2>6, <2>9, <2>10
<1> QED BY <1>3, <1>4, <1>6

-----------------------------------------------------------------------------
(* Retrieval: the invariant holds. *)

LEMMA LookInitOK == LookInit => LookInv
<1> SUFFICES ASSUME LookInit PROVE LookInv OBVIOUS
<1>1. chunkRows = Chunks /\ look = NoLook BY DEF LookInit
<1>2. look \in Searches BY <1>1 DEF NoLook, Searches
<1>3. ListsOK(look)
  <2>1. ListOK(<<>>) BY RetrievalAssumption DEF ListOK
  <2> QED BY <1>1, <2>1 DEF NoLook, ListsOK, ToSet
<1>4. SearchIsFair BY <1>1 DEF NoLook, SearchIsFair
<1> QED BY <1>1, <1>2, <1>3, <1>4 DEF LookInv

\* A ranking of some of the chunks, cut off.
LEMMA CutRankingOK ==
  ASSUME NEW cs \in SUBSET Chunks, NEW q \in Rankings(cs)
  PROVE  ListOK(UpToLen(q, 3 * TopK)) /\ ToSet(UpToLen(q, 3 * TopK)) \subseteq cs
<1>1. PICK s \in SUBSET cs : q \in SetToSeqs(s) BY DEF Rankings
<1>2. IsFiniteSet(s) BY FS_Subset, RetrievalAssumption
<1>3. q \in Seq(s) /\ \A i, j \in DOMAIN q : q[i] = q[j] => i = j BY <1>1, <1>2, RankingIsAll
<1> DEFINE n == 3 * TopK
<1>4. n \in Nat BY RetrievalAssumption
<1> HIDE DEF n
<1> DEFINE u == UpToLen(q, n)
<1>5. u \in Seq(s) /\ Len(u) = (IF Len(q) < n THEN Len(q) ELSE n)
      /\ \A i \in DOMAIN u : i \in DOMAIN q /\ u[i] = q[i]
  BY <1>3, <1>4, UpToLenIsPrefix
<1> HIDE DEF u
<1>6. u \in Seq(Chunks) /\ ToSet(u) \subseteq cs
  <2>1. \A i \in DOMAIN u : u[i] \in s BY <1>5
  <2>2. s \subseteq Chunks BY <1>1
  <2> QED BY <1>5, <2>1, <2>2 DEF ToSet
<1>7. Len(u) <= n
  <2>1. Len(q) \in Nat BY <1>3
  <2> QED BY <2>1, <1>4, <1>5
<1>8. \A i, j \in DOMAIN u : u[i] = u[j] => i = j BY <1>3, <1>5
<1>9. ListOK(u) /\ ToSet(u) \subseteq cs BY <1>6, <1>7, <1>8 DEF ListOK, n
<1> QED BY <1>9 DEF u, n

LEMMA EditChunksOK ==
  ASSUME LookInv, EditChunks
  PROVE  LookInv'
<1>1. look' = look /\ chunkRows' \subseteq Chunks BY DEF LookInv, EditChunks
<1>2. SearchIsFair' BY <1>1 DEF LookInv, SearchIsFair, Candidates
<1> QED BY <1>1, <1>2 DEF LookInv

LEMMA SearchDenseOK ==
  ASSUME LookInv, SearchDense
  PROVE  LookInv'
<1>1. PICK q \in Rankings(chunkRows), then \in {"sparse", "boost"} :
        \E sim \in [ToSet(UpToLen(q, 3 * TopK)) -> Similarities] :
          look' = [NoLook EXCEPT !.pc = then, !.dense = UpToLen(q, 3 * TopK), !.seen = chunkRows,
                                 !.sim = IF then = "boost" THEN sim ELSE <<>>]
  BY DEF SearchDense
<1> DEFINE u == UpToLen(q, 3 * TopK)
<1>2. chunkRows' = chunkRows /\ chunkRows \subseteq Chunks BY DEF SearchDense, LookInv
<1>3. ListOK(u) /\ ToSet(u) \subseteq chunkRows BY <1>2, CutRankingOK
<1> HIDE DEF u
<1>4. PICK sim \in [ToSet(u) -> Similarities] :
        look' = [NoLook EXCEPT !.pc = then, !.dense = u, !.seen = chunkRows,
                               !.sim = IF then = "boost" THEN sim ELSE <<>>]
  BY <1>1 DEF u
<1>5. look' = [pc |-> then, dense |-> u, sparse |-> <<>>, sim |-> IF then = "boost" THEN sim ELSE <<>>,
               direct |-> {}, indirect |-> {}, seen |-> chunkRows, found |-> <<>>]
  BY <1>4 DEF NoLook
<1>6. look' \in Searches
  <2>1. ToSet(u) \in SUBSET Chunks /\ u \in Seq(Chunks) BY <1>2, <1>3 DEF ListOK
  <2>2. (IF then = "boost" THEN sim ELSE <<>>) \in {<<>>} \cup UNION {[cs -> Similarities] : cs \in SUBSET Chunks}
    <3>1. sim \in UNION {[cs -> Similarities] : cs \in SUBSET Chunks} BY <2>1
    <3> QED BY <3>1
  <2> QED BY <1>2, <1>5, <2>1, <2>2 DEF Searches
<1>7. ListsOK(look')
  <2>1. ListOK(<<>>) /\ ToSet(<<>>) = {} BY RetrievalAssumption DEF ListOK, ToSet
  <2> QED BY <1>3, <1>5, <2>1 DEF ListsOK
<1>8. SearchIsFair' BY <1>5 DEF SearchIsFair
<1> QED BY <1>2, <1>6, <1>7, <1>8 DEF LookInv

LEMMA SearchSparseOK ==
  ASSUME LookInv, SearchSparse
  PROVE  LookInv'
<1>1. PICK q \in Rankings(chunkRows) :
        look' = [look EXCEPT !.pc = "fuse", !.sparse = UpToLen(q, 3 * TopK), !.seen = @ \cup chunkRows]
  BY DEF SearchSparse
<1> DEFINE u == UpToLen(q, 3 * TopK)
<1>2. chunkRows' = chunkRows /\ chunkRows \subseteq Chunks /\ look \in Searches /\ ListsOK(look)
      /\ look.pc = "sparse"
  BY DEF SearchSparse, LookInv
<1>3. ListOK(u) /\ ToSet(u) \subseteq chunkRows BY <1>2, CutRankingOK
<1> HIDE DEF u
<1>4. look' = [look EXCEPT !.pc = "fuse", !.sparse = u, !.seen = @ \cup chunkRows] BY <1>1 DEF u
<1>5. u \in Seq(Chunks) BY <1>3 DEF ListOK
<1>6. look' \in Searches BY <1>2, <1>4, <1>5 DEF Searches
<1>7. ListsOK(look') BY <1>2, <1>3, <1>4 DEF ListsOK, Searches
<1>8. SearchIsFair' BY <1>2, <1>4 DEF SearchIsFair, Searches
<1> QED BY <1>2, <1>6, <1>7, <1>8 DEF LookInv

LEMMA CandidatesFinite ==
  ASSUME LookInv
  PROVE  Candidates \in SUBSET Chunks /\ IsFiniteSet(Candidates) /\ Candidates \subseteq look.seen
<1>1. look \in Searches /\ ListsOK(look) BY DEF LookInv
<1>2. Candidates \subseteq look.seen /\ look.seen \subseteq Chunks BY <1>1 DEF ListsOK, Searches, Candidates
<1> QED BY <1>2, FS_Subset, RetrievalAssumption

\* What a search returns of its candidates, whatever the scores.
LEMMA FoundIsOfCandidates ==
  ASSUME LookInv, NEW score \in [Candidates -> Nat], NEW found, Best(score, found)
  PROVE  /\ found \in Seq(Chunks) /\ ToSet(found) \subseteq Candidates
         /\ Len(found) = (IF Cardinality(Candidates) < TopK THEN Cardinality(Candidates) ELSE TopK)
         /\ \A c \in Candidates, d \in ToSet(found) :
              score[c] > score[d] => In(found, c) /\ RankIn(found, c) < RankIn(found, d)
<1>1. Candidates \in SUBSET Chunks /\ IsFiniteSet(Candidates) BY CandidatesFinite
<1>2. /\ found \in Seq(Candidates)
      /\ Len(found) = (IF Cardinality(Candidates) < TopK THEN Cardinality(Candidates) ELSE TopK)
      /\ \A c \in Candidates, d \in ToSet(found) :
            score[c] > score[d] => In(found, c) /\ RankIn(found, c) < RankIn(found, d)
  <2> DEFINE S == Candidates
  <2>1. IsFiniteSet(S) /\ score \in [S -> Nat] BY <1>1
  <2> HIDE DEF S
  <2>2. /\ found \in Seq(S)
        /\ Len(found) = (IF Cardinality(S) < TopK THEN Cardinality(S) ELSE TopK)
        /\ \A c \in S, d \in ToSet(found) :
              score[c] > score[d] => In(found, c) /\ RankIn(found, c) < RankIn(found, d)
    BY <2>1, BestIsFair
  <2> QED BY <2>2 DEF S
<1>3. \A i \in DOMAIN found : found[i] \in Candidates BY <1>2
<1>4. found \in Seq(Chunks) BY <1>1, <1>2
<1> QED BY <1>2, <1>3, <1>4 DEF ToSet

LEMMA ReciprocalNat ==
  ASSUME NEW q, ListOK(q), NEW c
  PROVE  Reciprocal(q, c) \in Nat
<1>1. CASE ~In(q, c) BY <1>1 DEF Reciprocal
<1>2. CASE In(q, c)
  <2>1. RankIn(q, c) \in 1..Len(q) /\ Len(q) \in Nat BY <1>2, RankIsThere DEF ListOK
  <2> DEFINE n == RrfK + RankIn(q, c)
  <2>2. n \in Nat /\ n > 0 BY <2>1, RetrievalAssumption
  <2> HIDE DEF n
  <2>3. Million \div n \in Nat BY <2>2 DEF Million
  <2> QED BY <2>3, <1>2 DEF n, Reciprocal
<1> QED BY <1>1, <1>2

LEMMA FuseOK ==
  ASSUME LookInv, Fuse
  PROVE  LookInv'
<1> DEFINE Score(direct) == [c \in Candidates |-> FusedScore(look.dense, look.sparse, c) + LinkBonus(c, direct)]
<1>1. PICK direct \in SUBSET Candidates, found \in FoundOrders :
        Best(Score(direct), found) /\ look' = [look EXCEPT !.pc = "done", !.found = found, !.direct = direct]
  BY DEF Fuse
<1>2. /\ look.pc = "fuse" /\ look \in Searches /\ ListsOK(look) /\ chunkRows' = chunkRows
      /\ chunkRows \subseteq Chunks
  BY DEF Fuse, LookInv
<1>3. Candidates \in SUBSET Chunks /\ Candidates \subseteq look.seen BY CandidatesFinite
<1>4. ListOK(look.dense) /\ ListOK(look.sparse) /\ look.sim = <<>> BY <1>2 DEF ListsOK
<1>5. \A c : FusedScore(look.dense, look.sparse, c) \in Nat
  <2> TAKE c
  <2>1. Reciprocal(look.dense, c) \in Nat /\ Reciprocal(look.sparse, c) \in Nat BY <1>4, ReciprocalNat
  <2> QED BY <2>1 DEF FusedScore
<1> DEFINE bonus(c) == LinkBonus(c, direct)
<1>6. \A c : bonus(c) \in Nat /\ (\A d : (d \in direct => c \in direct) => bonus(c) >= bonus(d))
  <2>1. Million \div 100 \in Nat BY DEF Million
  <2>2. GraphBoost * (Million \div 100) \in Nat BY <2>1, RetrievalAssumption
  <2> QED BY <2>2 DEF LinkBonus
<1> DEFINE sc == Score(direct)
<1>7. sc \in [Candidates -> Nat]
  <2>1. \A c \in Candidates : FusedScore(look.dense, look.sparse, c) + bonus(c) \in Nat BY <1>5, <1>6
  <2> QED BY <2>1
<1>8. \A c \in Candidates : sc[c] = FusedScore(look.dense, look.sparse, c) + bonus(c) OBVIOUS
<1>9. Best(sc, found) BY <1>1
<1> HIDE DEF sc
<1>10. /\ found \in Seq(Chunks) /\ ToSet(found) \subseteq Candidates
       /\ Len(found) = (IF Cardinality(Candidates) < TopK THEN Cardinality(Candidates) ELSE TopK)
       /\ \A c \in Candidates, d \in ToSet(found) :
             sc[c] > sc[d] => In(found, c) /\ RankIn(found, c) < RankIn(found, d)
  BY <1>7, <1>9, FoundIsOfCandidates
<1>11. ASSUME NEW c \in Candidates, NEW d \in ToSet(found),
              c # d, NoLower(look.dense, c, d), NoLower(look.sparse, c, d),
              d \in direct => c \in direct
       PROVE  In(found, c) /\ RankIn(found, c) < RankIn(found, d)
  <2>1. d \in Candidates BY <1>10
  <2> DEFINE a == Reciprocal(look.dense, c)  b == Reciprocal(look.sparse, c)
             e == Reciprocal(look.dense, d)  f == Reciprocal(look.sparse, d)
  <2>2. a \in Nat /\ b \in Nat /\ e \in Nat /\ f \in Nat /\ a >= e /\ b >= f
    BY <1>4, <1>11, RankedScoresMore
  <2>3. a > e \/ b > f
    <3>1. In(look.dense, c) \/ In(look.sparse, c) BY DEF Candidates, In
    <3>2. In(look.dense, c) => a > e BY <1>4, <1>11, RankedScoresMore
    <3>3. In(look.sparse, c) => b > f BY <1>4, <1>11, RankedScoresMore
    <3> QED BY <3>1, <3>2, <3>3
  <2>4. sc[c] = (a + b) + bonus(c) /\ sc[d] = (e + f) + bonus(d) BY <1>8, <2>1 DEF FusedScore
  <2> HIDE DEF a, b, e, f
  <2>5. bonus(c) >= bonus(d) BY <1>6, <1>11
  <2>6. bonus(c) \in Nat /\ bonus(d) \in Nat BY <1>6
  <2> HIDE DEF bonus
  <2>7. sc[c] > sc[d] BY <2>2, <2>3, <2>4, <2>5, <2>6
  <2> QED BY <1>10, <2>7
<1> HIDE DEF bonus, Score
<1>12. /\ look'.pc = "done" /\ look'.found = found /\ look'.direct = direct /\ look'.dense = look.dense
       /\ look'.sparse = look.sparse /\ look'.sim = look.sim /\ look'.seen = look.seen
       /\ look' \in Searches
  <2>1. direct \in SUBSET Chunks /\ found \in Seq(Chunks) BY <1>3, <1>10
  <2> QED BY <1>1, <1>2, <2>1 DEF Searches
<1>13. ListsOK(look') BY <1>2, <1>12 DEF ListsOK
<1>14. Candidates' = Candidates BY <1>12 DEF Candidates
<1>15. SearchIsFair'
  <2>1. Len(look'.found) = (IF Cardinality(Candidates') < TopK THEN Cardinality(Candidates') ELSE TopK)
    BY <1>10, <1>12, <1>14
  <2>2. ToSet(look'.found) \subseteq look'.seen BY <1>3, <1>10, <1>12
  <2>3. \A c \in Candidates', d \in ToSet(look'.found) :
          (/\ c # d /\ NoLower(look'.dense, c, d) /\ NoLower(look'.sparse, c, d)
           /\ d \in look'.direct => c \in look'.direct) =>
             In(look'.found, c) /\ RankIn(look'.found, c) < RankIn(look'.found, d)
    BY <1>11, <1>12, <1>14
  <2> QED BY <2>1, <2>2, <2>3, Zenon DEF SearchIsFair
<1> QED BY <1>2, <1>12, <1>13, <1>15 DEF LookInv

LEMMA BoostByGraphOK ==
  ASSUME LookInv, BoostByGraph
  PROVE  LookInv'
<1> DEFINE Score(direct, indirect) == [c \in Candidates |-> Boosted(c, look.sim[c], direct, indirect)]
<1>1. PICK direct \in SUBSET Candidates, indirect \in SUBSET Candidates, found \in FoundOrders :
        /\ Best(Score(direct, indirect), found)
        /\ look' = [look EXCEPT !.pc = "done", !.found = found, !.direct = direct, !.indirect = indirect]
  BY DEF BoostByGraph
<1>2. /\ look.pc = "boost" /\ look \in Searches /\ ListsOK(look) /\ chunkRows' = chunkRows
      /\ chunkRows \subseteq Chunks
  BY DEF BoostByGraph, LookInv
<1>3. Candidates \in SUBSET Chunks /\ Candidates \subseteq look.seen BY CandidatesFinite
<1>4. look.sim \in [ToSet(look.dense) -> Similarities] /\ look.sparse = <<>> BY <1>2 DEF ListsOK
<1>5. Candidates = ToSet(look.dense) BY <1>4 DEF Candidates, ToSet
<1> DEFINE sc == Score(direct, indirect)
<1>6. sc \in [Candidates -> Nat]
  <2>1. ASSUME NEW c \in Candidates PROVE Boosted(c, look.sim[c], direct, indirect) \in Nat
    <3>1. look.sim[c] \in 0..100 BY <1>4, <1>5, RetrievalAssumption
    <3> QED BY <3>1, RetrievalAssumption DEF Boosted
  <2> QED BY <2>1
<1>7. Best(sc, found) BY <1>1
<1> HIDE DEF sc
<1>8. /\ found \in Seq(Chunks) /\ ToSet(found) \subseteq Candidates
      /\ Len(found) = (IF Cardinality(Candidates) < TopK THEN Cardinality(Candidates) ELSE TopK)
  BY <1>6, <1>7, FoundIsOfCandidates
<1> HIDE DEF Score
<1>9. /\ look'.pc = "done" /\ look'.found = found /\ look'.dense = look.dense
      /\ look'.sparse = look.sparse /\ look'.sim = look.sim /\ look'.seen = look.seen
      /\ look' \in Searches
  <2>1. direct \in SUBSET Chunks /\ indirect \in SUBSET Chunks /\ found \in Seq(Chunks) BY <1>3, <1>8
  <2> QED BY <1>1, <1>2, <2>1 DEF Searches
<1>10. ListsOK(look') BY <1>2, <1>9 DEF ListsOK
<1>11. Candidates' = Candidates BY <1>9 DEF Candidates
<1>12. SearchIsFair'
  <2>1. Len(look'.found) = (IF Cardinality(Candidates') < TopK THEN Cardinality(Candidates') ELSE TopK)
    BY <1>8, <1>9, <1>11
  <2>2. ToSet(look'.found) \subseteq look'.seen BY <1>3, <1>8, <1>9
  <2>3. look'.sim = <<>> => Candidates' = {}
    <3>1. look.sim = <<>> => DOMAIN look.sim = {} OBVIOUS
    <3> QED BY <3>1, <1>4, <1>5, <1>9, <1>11
  <2> QED BY <2>1, <2>2, <2>3, Zenon DEF SearchIsFair
<1> QED BY <1>2, <1>9, <1>10, <1>12 DEF LookInv

LEMMA ReturnOK ==
  ASSUME LookInv, Return
  PROVE  LookInv'
<1>1. look' = NoLook /\ chunkRows' = chunkRows /\ chunkRows \subseteq Chunks BY DEF Return, LookInv
<1>2. look' \in Searches BY <1>1 DEF NoLook, Searches
<1>3. ListsOK(look')
  <2>1. ListOK(<<>>) BY RetrievalAssumption DEF ListOK
  <2> QED BY <1>1, <2>1 DEF NoLook, ListsOK, ToSet
<1>4. SearchIsFair' BY <1>1 DEF NoLook, SearchIsFair
<1> QED BY <1>1, <1>2, <1>3, <1>4 DEF LookInv

(***************************************************************************)
(* What a question gets to read is what the queries rank first             *)
(* (search_hybrid_chunks, search_similar_chunks_with_graph), however many  *)
(* chunks there are and whatever comes and goes between the queries.       *)
(***************************************************************************)
THEOREM SearchFair == LookSpec => []SearchIsFair
<1>1. LookInit => LookInv BY LookInitOK
<1>2. LookInv /\ [LookNext]_lookVars => LookInv'
  <2> SUFFICES ASSUME LookInv, [LookNext]_lookVars PROVE LookInv' OBVIOUS
  <2>1. CASE EditChunks BY <2>1, EditChunksOK
  <2>2. CASE SearchDense BY <2>2, SearchDenseOK
  <2>3. CASE SearchSparse BY <2>3, SearchSparseOK
  <2>4. CASE Fuse BY <2>4, FuseOK
  <2>5. CASE BoostByGraph BY <2>5, BoostByGraphOK
  <2>6. CASE Return BY <2>6, ReturnOK
  <2>7. CASE UNCHANGED lookVars
    BY <2>7 DEF lookVars, LookInv, SearchIsFair, Candidates
  <2> QED BY <2>1, <2>2, <2>3, <2>4, <2>5, <2>6, <2>7 DEF LookNext
<1>3. LookInv => SearchIsFair BY DEF LookInv
<1> QED BY <1>1, <1>2, <1>3, PTL DEF LookSpec

-----------------------------------------------------------------------------
(* Connectors: the invariant. *)

Falling(s) == \A i, j \in DOMAIN s : i < j => s[i] > s[j]

Fetches == [pc : {"idle", "page", "store"}, at : Nat, got : Seq(Records), there : SUBSET Records,
            removed : BOOLEAN]

\* The list behind the source is newest first, and nothing of it is from the future.
RemoteOK(list, newest) ==
  list \in Seq(Records) /\ newest \in Nat /\ Falling(list) /\ \A i \in DOMAIN list : list[i] <= newest

\* A fetch that goes on will come to this record.
Ahead(p, list, f, r) ==
  /\ f.pc = "page"
  /\ p = "cursor" => f.at = 0 \/ r < f.at
  /\ p = "offset" => \E i \in DOMAIN list : i > f.at /\ list[i] = r

\* What was there when the fetch began has been read or is ahead.
ReadOrAhead(p, list, f) == \A r \in f.there : r \in Range(f.got) \/ Ahead(p, list, f, r)

\* What is older than something read comes after it, if need be once more.
OlderComesAfter(p, list, f) ==
  \A i, j \in DOMAIN f.got : f.got[i] < f.got[j] =>
    (\E k \in DOMAIN f.got : k > j /\ f.got[k] = f.got[i]) \/ Ahead(p, list, f, f.got[i])

\* How the connectors differ.
PagingOK(p, list, f) ==
  /\ p \in {"query", "first"} /\ f.pc = "page" => f.got = <<>>
  /\ p = "cursor" => /\ Falling(f.got)
                     /\ f.pc = "page" => \A i \in DOMAIN f.got : f.got[i] >= f.at
                     /\ f.pc = "page" /\ f.at = 0 => f.got = <<>>
  /\ p = "offset" /\ ~f.removed => Range(f.got) \subseteq Range(list)

FetchOK(p, list, f) ==
  f.pc # "idle" =>
    /\ PagingOK(p, list, f)
    /\ ~(p = "offset" /\ f.removed) => OlderComesAfter(p, list, f)
    /\ ~(p = "offset" /\ f.removed) /\ p # "first" => ReadOrAhead(p, list, f)

ConnInv ==
  /\ paging \in AllPagings /\ RemoteOK(remote, created)
  /\ fetch \in Fetches /\ fetch.there \subseteq Range(remote)
  /\ DOMAIN context = Users
  /\ FetchOK(paging, remote, fetch)
  /\ OldestIsStored

-----------------------------------------------------------------------------
(* Pages. *)

LEMMA TakeIsPrefix ==
  ASSUME NEW S, NEW s \in Seq(S), NEW n \in Nat
  PROVE  /\ Take(s, n) \in Seq(S) /\ Len(Take(s, n)) = (IF n < Len(s) THEN n ELSE Len(s))
         /\ \A i \in DOMAIN Take(s, n) : i \in DOMAIN s /\ Take(s, n)[i] = s[i]
<1> DEFINE m == IF n < Len(s) THEN n ELSE Len(s)
<1>1. m \in Nat /\ m <= Len(s) OBVIOUS
<1>2. Take(s, n) = SubSeq(s, 1, m) BY DEF Take
<1> HIDE DEF m
<1>3. SubSeq(s, 1, m) = [i \in 1..m |-> s[i]] BY <1>1
<1>4. \A i \in 1..m : i \in DOMAIN s /\ s[i] \in S BY <1>1
<1>5. Take(s, n) \in Seq(S) /\ Len(Take(s, n)) = m BY <1>1, <1>2, <1>3, <1>4
<1>6. \A i \in DOMAIN Take(s, n) : i \in DOMAIN s /\ Take(s, n)[i] = s[i] BY <1>2, <1>3, <1>4
<1> QED BY <1>5, <1>6 DEF m

LEMMA FallingOnly ==
  ASSUME NEW s \in Seq(Records), Falling(s), NEW T
  PROVE  /\ Only(s, T) \in Seq(Records) /\ Falling(Only(s, T))
         /\ Range(Only(s, T)) = Range(s) \cap T
<1> DEFINE t == Only(s, T)
<1>1. t \in Seq(Records) BY OnlyPicks
<1>a. PICK f : Picks(s, T, t, f) BY OnlyPicks
<1> HIDE DEF t
<1>2. /\ f \in [DOMAIN t -> DOMAIN s]
      /\ \A k \in DOMAIN t : t[k] = s[f[k]] /\ s[f[k]] \in T
      /\ \A j, k \in DOMAIN t : j < k => f[j] < f[k]
      /\ \A i \in DOMAIN s : s[i] \in T => \E k \in DOMAIN t : f[k] = i
  BY <1>a DEF Picks
<1>3. Falling(t)
  <2> SUFFICES ASSUME NEW j \in DOMAIN t, NEW k \in DOMAIN t, j < k PROVE t[j] > t[k] BY DEF Falling
  <2>1. f[j] \in DOMAIN s /\ f[k] \in DOMAIN s /\ f[j] < f[k] BY <1>2
  <2>2. s[f[j]] > s[f[k]] BY <2>1 DEF Falling
  <2> QED BY <1>2, <2>2
<1>4. Range(t) = Range(s) \cap T
  <2>1. \A k \in DOMAIN t : t[k] \in Range(s) \cap T BY <1>2 DEF Range
  <2>2. \A i \in DOMAIN s : s[i] \in T => \E k \in DOMAIN t : t[k] = s[i] BY <1>2
  <2> QED BY <2>1, <2>2 DEF Range
<1> QED BY <1>1, <1>3, <1>4 DEF t

LEMMA FallingTake ==
  ASSUME NEW s \in Seq(Records), Falling(s), NEW n \in Nat
  PROVE  Take(s, n) \in Seq(Records) /\ Falling(Take(s, n)) /\ Range(Take(s, n)) \subseteq Range(s)
<1>1. /\ Take(s, n) \in Seq(Records)
      /\ \A i \in DOMAIN Take(s, n) : i \in DOMAIN s /\ Take(s, n)[i] = s[i]
  BY TakeIsPrefix
<1>2. Falling(Take(s, n)) BY <1>1 DEF Falling
<1> QED BY <1>1, <1>2 DEF Range

LEMMA RecordsAreNumbers == Records \subseteq Nat /\ 0 \notin Records /\ PageSize \in Nat /\ PageSize > 0
BY ConnectorAssumption DEF Records

\* The last of a falling list is its least.
LEMMA LastIsLeast ==
  ASSUME NEW s \in Seq(Records), Falling(s), s # <<>>
  PROVE  /\ Last(s) \in Records /\ Last(s) \in Range(s) /\ \A i \in DOMAIN s : s[i] >= Last(s)
<1>1. Len(s) \in DOMAIN s /\ Last(s) = s[Len(s)] BY DEF Last
<1>2. ASSUME NEW i \in DOMAIN s PROVE s[i] >= s[Len(s)]
  <2>0. s[i] \in Records /\ s[Len(s)] \in Records BY <1>1
  <2>1. s[i] \in Nat /\ s[Len(s)] \in Nat BY <2>0, RecordsAreNumbers
  <2>2. i < Len(s) => s[i] > s[Len(s)] BY <1>1 DEF Falling
  <2>3. i = Len(s) \/ i < Len(s) OBVIOUS
  <2> QED BY <2>1, <2>2, <2>3
<1>3. s[Len(s)] \in Records BY <1>1
<1> QED BY <1>1, <1>2, <1>3 DEF Range

LEMMA OneAfterOther ==
  ASSUME NEW s \in Seq(Records), NEW t \in Seq(Records)
  PROVE  /\ s \o t \in Seq(Records) /\ Len(s \o t) = Len(s) + Len(t)
         /\ \A i \in DOMAIN s : i \in DOMAIN (s \o t) /\ (s \o t)[i] = s[i]
         /\ \A k \in DOMAIN t : Len(s) + k \in DOMAIN (s \o t) /\ (s \o t)[Len(s) + k] = t[k]
         /\ \A i \in DOMAIN (s \o t) :
              i \in DOMAIN s \/ (i > Len(s) /\ i - Len(s) \in DOMAIN t /\ (s \o t)[i] = t[i - Len(s)])
         /\ Range(s \o t) = Range(s) \cup Range(t)
<1> DEFINE u == s \o t
<1>1. u \in Seq(Records) /\ Len(u) = Len(s) + Len(t) BY ConcatProperties
<1>2. \A i \in 1..Len(u) : u[i] = IF i <= Len(s) THEN s[i] ELSE t[i - Len(s)] BY ConcatProperties
<1> HIDE DEF u
<1>3. \A i \in DOMAIN s : i \in DOMAIN u /\ u[i] = s[i] BY <1>1, <1>2
<1>4. \A k \in DOMAIN t : Len(s) + k \in DOMAIN u /\ u[Len(s) + k] = t[k] BY <1>1, <1>2
<1>5. \A i \in DOMAIN u : i \in DOMAIN s \/ (i > Len(s) /\ i - Len(s) \in DOMAIN t /\ u[i] = t[i - Len(s)])
  BY <1>1, <1>2
<1>6. Range(u) = Range(s) \cup Range(t) BY <1>3, <1>4, <1>5 DEF Range
<1> QED BY <1>1, <1>3, <1>4, <1>5, <1>6 DEF u

LEMMA RestOf ==
  ASSUME NEW s \in Seq(Records), NEW n \in Nat
  PROVE  LET t == SubSeq(s, n + 1, Len(s)) IN
         /\ t \in Seq(Records) /\ Len(t) = (IF n < Len(s) THEN Len(s) - n ELSE 0)
         /\ \A k \in DOMAIN t : n + k \in DOMAIN s /\ t[k] = s[n + k]
<1> DEFINE t == SubSeq(s, n + 1, Len(s))
           m == IF n < Len(s) THEN Len(s) - n ELSE 0
<1>1. t = [k \in 1..m |-> s[n + k]]
  <2>1. CASE n < Len(s)
    <3>1. m = Len(s) - n BY <2>1
    <3>2. t = [k \in 1..(Len(s) - (n + 1) + 1) |-> s[k + (n + 1) - 1]] OBVIOUS
    <3>3. Len(s) - (n + 1) + 1 = m BY <3>1
    <3>4. \A k \in 1..m : k + (n + 1) - 1 = n + k BY <3>1
    <3> QED BY <3>2, <3>3, <3>4
  <2>2. CASE ~(n < Len(s))
    <3>1. m = 0 BY <2>2
    <3>2. t = <<>> BY <2>2
    <3> QED BY <3>1, <3>2
  <2> QED BY <2>1, <2>2
<1>2. m \in Nat /\ \A k \in 1..m : n + k \in DOMAIN s /\ s[n + k] \in Records OBVIOUS
<1> HIDE DEF t, m
<1>3. t \in Seq(Records) /\ Len(t) = m /\ DOMAIN t = 1..m BY <1>1, <1>2
<1>4. \A k \in DOMAIN t : n + k \in DOMAIN s /\ t[k] = s[n + k] BY <1>1, <1>2
<1> QED BY <1>3, <1>4 DEF t, m

LEMMA OffsetPage ==
  ASSUME RemoteOK(remote, created), paging = "offset", NEW at \in Nat
  PROVE  LET page == PageAt(at) IN
         /\ page \in Seq(Records) /\ Falling(page)
         /\ \A k \in DOMAIN page : at + k \in DOMAIN remote /\ page[k] = remote[at + k]
         /\ \A i \in DOMAIN remote :
              i > at /\ (i <= at + PageSize \/ Len(page) < PageSize) => i - at \in DOMAIN page
<1> DEFINE page == PageAt(at)
           rest == SubSeq(remote, at + 1, Len(remote))
<1>1. page = Take(rest, PageSize) BY DEF PageAt
<1>2. remote \in Seq(Records) /\ Falling(remote) /\ PageSize \in Nat /\ PageSize > 0
  BY RecordsAreNumbers DEF RemoteOK
<1>3. /\ rest \in Seq(Records) /\ Len(rest) = (IF at < Len(remote) THEN Len(remote) - at ELSE 0)
      /\ \A k \in DOMAIN rest : at + k \in DOMAIN remote /\ rest[k] = remote[at + k]
  BY <1>2, RestOf
<1> HIDE DEF page, rest
<1>4. /\ page \in Seq(Records) /\ Len(page) = (IF PageSize < Len(rest) THEN PageSize ELSE Len(rest))
      /\ \A i \in DOMAIN page : i \in DOMAIN rest /\ page[i] = rest[i]
  BY <1>1, <1>2, <1>3, TakeIsPrefix
<1>5. \A k \in DOMAIN page : at + k \in DOMAIN remote /\ page[k] = remote[at + k] BY <1>3, <1>4
<1>6. Falling(page)
  <2> SUFFICES ASSUME NEW i \in DOMAIN page, NEW j \in DOMAIN page, i < j PROVE page[i] > page[j]
    BY DEF Falling
  <2>1. at + i < at + j BY <1>4
  <2>2. remote[at + i] > remote[at + j] BY <2>1, <1>2, <1>5 DEF Falling
  <2> QED BY <2>2, <1>5
<1>7. \A i \in DOMAIN remote :
        i > at /\ (i <= at + PageSize \/ Len(page) < PageSize) => i - at \in DOMAIN page
  <2> TAKE i \in DOMAIN remote
  <2>1. i \in Nat /\ i <= Len(remote) /\ Len(remote) \in Nat BY <1>2
  <2>2. DOMAIN page = 1..Len(page) BY <1>4
  <2> QED BY <2>1, <2>2, <1>2, <1>3, <1>4
<1> QED BY <1>4, <1>5, <1>6, <1>7 DEF page

LEMMA CursorPage ==
  ASSUME RemoteOK(remote, created), paging = "cursor", NEW at \in Nat
  PROVE  LET page == PageAt(at) IN
         /\ page \in Seq(Records) /\ Falling(page) /\ Range(page) \subseteq Range(remote)
         /\ \A r \in Range(page) : at = 0 \/ r < at
         /\ \A r \in Range(remote) : (at = 0 \/ r < at) =>
              page # <<>> /\ (r \in Range(page) \/ r < Last(page))
<1> DEFINE page == PageAt(at)
           left == Only(remote, {r \in Records : at = 0 \/ r < at})
<1>1. page = Take(left, PageSize) BY DEF PageAt
<1>2. remote \in Seq(Records) /\ Falling(remote) /\ PageSize \in Nat /\ PageSize > 0
  BY RecordsAreNumbers DEF RemoteOK
<1>3. /\ left \in Seq(Records) /\ Falling(left)
      /\ Range(left) = Range(remote) \cap {r \in Records : at = 0 \/ r < at}
  BY <1>2, FallingOnly
<1> HIDE DEF page, left
<1>4. page \in Seq(Records) /\ Falling(page) /\ Range(page) \subseteq Range(left)
  BY <1>1, <1>2, <1>3, FallingTake
<1>5. /\ Len(page) = (IF PageSize < Len(left) THEN PageSize ELSE Len(left))
      /\ \A i \in DOMAIN page : i \in DOMAIN left /\ page[i] = left[i]
  BY <1>1, <1>2, <1>3, TakeIsPrefix
<1>6. ASSUME NEW r \in Range(remote), at = 0 \/ r < at
      PROVE  page # <<>> /\ (r \in Range(page) \/ r < Last(page))
  <2>1. r \in Records BY <1>2 DEF Range
  <2>2. PICK i \in DOMAIN left : left[i] = r BY <1>3, <1>6, <2>1 DEF Range
  <2>3. i \in 1..Len(left) /\ Len(left) \in Nat BY <1>3
  <2>4. Len(page) \in Nat /\ Len(page) > 0 /\ DOMAIN page = 1..Len(page) BY <2>3, <1>2, <1>4, <1>5
  <2>5. page # <<>> BY <2>4
  <2>6. CASE i <= Len(page)
    <3>1. i \in DOMAIN page /\ page[i] = r BY <2>2, <2>3, <2>4, <2>6, <1>5
    <3> QED BY <2>5, <3>1 DEF Range
  <2>7. CASE ~(i <= Len(page))
    <3>1. Len(page) \in DOMAIN page /\ Len(page) < i BY <2>3, <2>4, <2>7
    <3>2. left[Len(page)] > left[i] BY <3>1, <1>3, <1>5 DEF Falling
    <3>3. Last(page) = left[Len(page)] BY <3>1, <1>5 DEF Last
    <3> QED BY <2>2, <2>5, <3>2, <3>3
  <2> QED BY <2>6, <2>7
<1> QED BY <1>3, <1>4, <1>6 DEF page

-----------------------------------------------------------------------------
(* Connectors: the invariant holds. *)

LEMMA ConnInitOK == ConnInit => ConnInv
<1> SUFFICES ASSUME ConnInit PROVE ConnInv OBVIOUS
<1>1. paging \in AllPagings /\ RemoteOK(remote, created)
  BY ConnectorAssumption DEF ConnInit, RemoteOK, Falling
<1>2. fetch \in Fetches /\ fetch.pc = "idle" /\ fetch.there = {} BY DEF ConnInit, NoFetch, Fetches
<1>3. DOMAIN context = Users BY DEF ConnInit
<1>4. FetchOK(paging, remote, fetch) BY <1>2 DEF FetchOK
<1>5. OldestIsStored BY DEF ConnInit, OldestIsStored
<1> QED BY <1>1, <1>2, <1>3, <1>4, <1>5 DEF ConnInv

LEMMA RecordAddedOK ==
  ASSUME ConnInv, RecordAdded
  PROVE  ConnInv'
<1> DEFINE new == created + 1
           list == <<new>> \o remote
<1>1. /\ new \in Records /\ remote' = list /\ created' = new /\ fetch' = fetch /\ paging' = paging
      /\ context' = context /\ outcome' = outcome
  BY DEF RecordAdded
<1>2. /\ remote \in Seq(Records) /\ created \in Nat /\ Falling(remote)
      /\ \A i \in DOMAIN remote : remote[i] <= created
  BY DEF ConnInv, RemoteOK
<1>3. <<new>> \in Seq(Records) /\ Len(<<new>>) = 1 /\ <<new>>[1] = new BY <1>1
<1> DEFINE one == <<new>>
<1>4. /\ list \in Seq(Records) /\ Len(list) = 1 + Len(remote)
      /\ \A k \in DOMAIN remote : 1 + k \in DOMAIN list /\ list[1 + k] = remote[k]
      /\ \A i \in DOMAIN list : (i = 1 /\ list[i] = new) \/ (i > 1 /\ i - 1 \in DOMAIN remote /\ list[i] = remote[i - 1])
  <2>1. one \in Seq(Records) /\ Len(one) = 1 /\ one[1] = new /\ DOMAIN one = {1} BY <1>3
  <2>2. list = one \o remote OBVIOUS
  <2> HIDE DEF one, list
  <2>3. /\ one \o remote \in Seq(Records) /\ Len(one \o remote) = Len(one) + Len(remote)
        /\ \A k \in DOMAIN remote :
              Len(one) + k \in DOMAIN (one \o remote) /\ (one \o remote)[Len(one) + k] = remote[k]
        /\ \A i \in DOMAIN one : i \in DOMAIN (one \o remote) /\ (one \o remote)[i] = one[i]
    BY <1>2, <2>1, OneAfterOther
  <2>4. \A i \in DOMAIN (one \o remote) :
          i \in DOMAIN one \/ (i > Len(one) /\ i - Len(one) \in DOMAIN remote
                                /\ (one \o remote)[i] = remote[i - Len(one)])
    BY <1>2, <2>1, OneAfterOther
  <2>5. /\ list \in Seq(Records) /\ Len(list) = 1 + Len(remote)
        /\ \A k \in DOMAIN remote : 1 + k \in DOMAIN list /\ list[1 + k] = remote[k]
    BY <2>1, <2>2, <2>3
  <2>6. list[1] = new BY <2>1, <2>2, <2>3
  <2>7. \A i \in DOMAIN list : i = 1 \/ (i > 1 /\ i - 1 \in DOMAIN remote /\ list[i] = remote[i - 1])
    BY <2>1, <2>2, <2>4
  <2> QED BY <2>5, <2>6, <2>7
<1> HIDE DEF one, list
<1>5. RemoteOK(list, new)
  <2>1. new \in Nat BY <1>2
  <2>2. \A i \in DOMAIN remote : remote[i] \in Nat /\ remote[i] < new
    <3> TAKE i \in DOMAIN remote
    <3>1. remote[i] \in Records /\ remote[i] <= created BY <1>2
    <3>2. remote[i] \in Nat BY <3>1, RecordsAreNumbers
    <3> QED BY <3>1, <3>2, <1>2
  <2> HIDE DEF new
  <2>3. \A i \in DOMAIN list : list[i] <= new BY <1>4, <2>1, <2>2
  <2>4. Falling(list)
    <3> SUFFICES ASSUME NEW i \in DOMAIN list, NEW j \in DOMAIN list, i < j PROVE list[i] > list[j]
      BY DEF Falling
    <3>1. i \in Nat /\ j \in Nat BY <1>4
    <3>2. j > 1 /\ j - 1 \in DOMAIN remote /\ list[j] = remote[j - 1] BY <3>1, <1>4
    <3>3. CASE i = 1
      <4>1. list[i] = new BY <3>3, <1>4
      <4>2. remote[j - 1] \in Nat /\ remote[j - 1] < new BY <3>2, <2>2
      <4> QED BY <4>1, <4>2, <3>2, <2>1
    <3>4. CASE i # 1
      <4>1. i - 1 \in DOMAIN remote /\ list[i] = remote[i - 1] BY <3>4, <1>4
      <4>2. i - 1 < j - 1 BY <3>1
      <4>3. remote[i - 1] > remote[j - 1] BY <4>1, <4>2, <3>2, <1>2 DEF Falling
      <4> QED BY <4>1, <4>3, <3>2
    <3> QED BY <3>3, <3>4
  <2> QED BY <1>4, <2>1, <2>3, <2>4 DEF RemoteOK
<1>6. Range(remote) \subseteq Range(list) BY <1>4 DEF Range
<1>7. \A r : Ahead(paging, remote, fetch, r) => Ahead(paging, list, fetch, r)
  <2> SUFFICES ASSUME NEW r, Ahead(paging, remote, fetch, r) PROVE Ahead(paging, list, fetch, r) OBVIOUS
  <2>1. CASE paging = "offset"
    <3>1. PICK i \in DOMAIN remote : i > fetch.at /\ remote[i] = r BY <2>1 DEF Ahead
    <3>2. i \in Nat /\ fetch.at \in Nat BY <1>2 DEF ConnInv, Fetches
    <3>3. 1 + i \in DOMAIN list /\ 1 + i > fetch.at /\ list[1 + i] = r BY <3>1, <3>2, <1>4
    <3> QED BY <3>3, <2>1 DEF Ahead
  <2>2. CASE paging # "offset" BY <2>2 DEF Ahead
  <2> QED BY <2>1, <2>2
<1>8. FetchOK(paging, list, fetch)
  <2> SUFFICES ASSUME fetch.pc # "idle"
               PROVE  /\ PagingOK(paging, list, fetch)
                      /\ ~(paging = "offset" /\ fetch.removed) => OlderComesAfter(paging, list, fetch)
                      /\ ~(paging = "offset" /\ fetch.removed) /\ paging # "first" => ReadOrAhead(paging, list, fetch)
    BY DEF FetchOK
  <2>1. /\ PagingOK(paging, remote, fetch)
        /\ ~(paging = "offset" /\ fetch.removed) => OlderComesAfter(paging, remote, fetch)
        /\ ~(paging = "offset" /\ fetch.removed) /\ paging # "first" => ReadOrAhead(paging, remote, fetch)
    BY DEF ConnInv, FetchOK
  <2>2. PagingOK(paging, list, fetch) BY <2>1, <1>6 DEF PagingOK
  <2>3. OlderComesAfter(paging, remote, fetch) => OlderComesAfter(paging, list, fetch)
    BY <1>7, Zenon DEF OlderComesAfter
  <2>4. ReadOrAhead(paging, remote, fetch) => ReadOrAhead(paging, list, fetch) BY <1>7 DEF ReadOrAhead
  <2> QED BY <2>1, <2>2, <2>3, <2>4
<1>9. OldestIsStored' BY <1>1 DEF ConnInv, OldestIsStored, Shifted
<1> QED BY <1>1, <1>5, <1>6, <1>8, <1>9 DEF ConnInv

LEMMA RecordRemovedOK ==
  ASSUME ConnInv, RecordRemoved
  PROVE  ConnInv'
<1>1. PICK r \in Range(remote) :
        /\ remote' = Only(remote, Records \ {r})
        /\ fetch' = [fetch EXCEPT !.there = @ \ {r}, !.removed = @ \/ fetch.pc # "idle"]
  BY DEF RecordRemoved
<1>2. /\ paging' = paging /\ created' = created /\ context' = context /\ outcome' = outcome
  BY DEF RecordRemoved
<1>3. /\ remote \in Seq(Records) /\ created \in Nat /\ Falling(remote)
      /\ \A i \in DOMAIN remote : remote[i] <= created
      /\ fetch \in Fetches /\ fetch.there \subseteq Range(remote) /\ FetchOK(paging, remote, fetch) /\ OldestIsStored
  BY DEF ConnInv, RemoteOK
<1> DEFINE list == Only(remote, Records \ {r})
<1>4. list \in Seq(Records) /\ Falling(list) /\ Range(list) = Range(remote) \cap (Records \ {r})
  BY <1>3, FallingOnly
<1> HIDE DEF list
<1>5. RemoteOK(list, created)
  <2>1. \A i \in DOMAIN list : list[i] <= created
    <3> TAKE i \in DOMAIN list
    <3>1. list[i] \in Range(remote) BY <1>4 DEF Range
    <3> QED BY <3>1, <1>3 DEF Range
  <2> QED BY <1>3, <1>4, <2>1 DEF RemoteOK
<1>6. /\ fetch' \in Fetches /\ fetch'.pc = fetch.pc /\ fetch'.at = fetch.at /\ fetch'.got = fetch.got
      /\ fetch'.there = fetch.there \ {r} /\ fetch'.removed = (fetch.removed \/ fetch.pc # "idle")
  <2> DEFINE b == fetch.removed \/ fetch.pc # "idle"
  <2>1. b \in BOOLEAN OBVIOUS
  <2>2. fetch' = [fetch EXCEPT !.there = @ \ {r}, !.removed = b] BY <1>1
  <2> HIDE DEF b
  <2>3. fetch \in Fetches BY <1>3
  <2>4. /\ fetch'.pc = fetch.pc /\ fetch'.at = fetch.at /\ fetch'.got = fetch.got
        /\ fetch'.there = fetch.there \ {r}
    BY <2>2, <2>3 DEF Fetches
  <2>5. fetch'.removed = b BY <2>2, <2>3, Zenon DEF Fetches
  <2>6. fetch' \in Fetches BY <2>1, <2>2, <2>3 DEF Fetches
  <2> QED BY <2>4, <2>5, <2>6 DEF b
<1>7. fetch'.there \subseteq Range(list)
  <2>1. Range(remote) \subseteq Records BY <1>3 DEF Range
  <2> QED BY <2>1, <1>3, <1>4, <1>6
<1>8. FetchOK(paging, list, fetch')
  <2> SUFFICES ASSUME fetch.pc # "idle"
               PROVE  /\ PagingOK(paging, list, fetch')
                      /\ paging # "offset" => OlderComesAfter(paging, list, fetch')
                      /\ paging # "offset" /\ paging # "first" => ReadOrAhead(paging, list, fetch')
    BY <1>6 DEF FetchOK
  <2>1. PagingOK(paging, remote, fetch)
        /\ (paging # "offset" => OlderComesAfter(paging, remote, fetch))
        /\ (paging # "offset" /\ paging # "first" => ReadOrAhead(paging, remote, fetch))
    BY <1>3 DEF FetchOK
  <2>2. PagingOK(paging, list, fetch') BY <2>1, <1>6 DEF PagingOK
  <2>3. ASSUME paging # "offset", NEW x
        PROVE Ahead(paging, list, fetch', x) = Ahead(paging, remote, fetch, x)
    BY <2>3, <1>6 DEF Ahead
  <2>4. paging # "offset" => OlderComesAfter(paging, list, fetch')
    <3> SUFFICES ASSUME paging # "offset", NEW i \in DOMAIN fetch.got, NEW j \in DOMAIN fetch.got,
                        fetch.got[i] < fetch.got[j]
                 PROVE  (\E k \in DOMAIN fetch.got : k > j /\ fetch.got[k] = fetch.got[i])
                          \/ Ahead(paging, list, fetch', fetch.got[i])
      BY <1>6, Zenon DEF OlderComesAfter
    <3> QED BY <2>1, <2>3, Zenon DEF OlderComesAfter
  <2>5. paging # "offset" /\ paging # "first" => ReadOrAhead(paging, list, fetch')
    <3> SUFFICES ASSUME paging # "offset", paging # "first", NEW x \in fetch.there
                 PROVE  x \in Range(fetch.got) \/ Ahead(paging, list, fetch', x)
      BY <1>6 DEF ReadOrAhead
    <3> QED BY <2>1, <2>3, Zenon DEF ReadOrAhead
  <2> QED BY <2>2, <2>4, <2>5
<1>9. OldestIsStored'
  <2>1. fetch'.pc = "idle" /\ ~Shifted' => fetch.pc = "idle" /\ ~Shifted BY <1>2, <1>6 DEF Shifted
  <2> QED BY <2>1, <1>2, <1>3, <1>6 DEF OldestIsStored
<1> QED BY <1>1, <1>2, <1>5, <1>6, <1>7, <1>8, <1>9 DEF ConnInv, list

LEMMA SyncDataSourceOK ==
  ASSUME ConnInv, SyncDataSource
  PROVE  ConnInv'
<1>1. /\ fetch' = [NoFetch EXCEPT !.pc = "page", !.there = Range(remote)]
      /\ paging' = paging /\ remote' = remote /\ created' = created /\ context' = context
  BY DEF SyncDataSource
<1>2. fetch' = [pc |-> "page", at |-> 0, got |-> <<>>, there |-> Range(remote), removed |-> FALSE]
  BY <1>1 DEF NoFetch
<1>3. remote \in Seq(Records) /\ Range(remote) \subseteq Records
  <2>1. remote \in Seq(Records) BY DEF ConnInv, RemoteOK
  <2> QED BY <2>1 DEF Range
<1>4. fetch' \in Fetches BY <1>2, <1>3 DEF Fetches
<1>5. FetchOK(paging, remote, fetch')
  <2>1. PagingOK(paging, remote, fetch') BY <1>2 DEF PagingOK, Falling, Range
  <2>2. OlderComesAfter(paging, remote, fetch') BY <1>2 DEF OlderComesAfter
  <2>3. ReadOrAhead(paging, remote, fetch')
    <3> SUFFICES ASSUME NEW r \in Range(remote) PROVE Ahead(paging, remote, fetch', r)
      BY <1>2 DEF ReadOrAhead
    <3>1. PICK i \in DOMAIN remote : remote[i] = r BY DEF Range
    <3>2. i > 0 BY <1>3
    <3> QED BY <1>2, <3>1, <3>2 DEF Ahead
  <2> QED BY <2>1, <2>2, <2>3 DEF FetchOK
<1>6. OldestIsStored' BY <1>2 DEF OldestIsStored
<1> QED BY <1>1, <1>2, <1>4, <1>5, <1>6 DEF ConnInv

\* The fetch that reads a page and goes on, or has come to the end.
NextFetch(f, page, last, at) ==
  [f EXCEPT !.got = @ \o page, !.pc = IF last THEN "store" ELSE "page", !.at = at]

LEMMA PageIsRead ==
  ASSUME NEW f \in Fetches, NEW page \in Seq(Records), NEW last, NEW at \in Nat, f.pc = "page"
  PROVE  LET g == NextFetch(f, page, last, at) IN
         /\ g \in Fetches /\ g.got = f.got \o page /\ g.pc = (IF last THEN "store" ELSE "page") /\ g.at = at
         /\ g.there = f.there /\ g.removed = f.removed
<1>1. f.got \o page \in Seq(Records) BY DEF Fetches
<1> DEFINE got == f.got \o page
           pc == IF last THEN "store" ELSE "page"
           g == [f EXCEPT !.got = got, !.pc = pc, !.at = at]
<1>2. NextFetch(f, page, last, at) = g BY DEF NextFetch
<1>3. pc \in {"page", "store"} OBVIOUS
<1> HIDE DEF got, pc
<1>4. g \in Fetches /\ g.got = got /\ g.pc = pc /\ g.at = at /\ g.there = f.there BY <1>1, <1>3 DEF Fetches, got
<1>5. g.removed = f.removed BY Zenon DEF Fetches
<1> QED BY <1>2, <1>4, <1>5 DEF got, pc

\* One page is all that is read.
LEMMA OnePageOK ==
  ASSUME NEW f \in Fetches, NEW list \in Seq(Records), NEW page \in Seq(Records), Falling(page),
         f.pc = "page", f.got = <<>>, NEW p \in {"query", "first"}, NEW g \in Fetches,
         g.got = page, g.pc = "store", p = "query" => f.there \subseteq Range(page), g.there = f.there
  PROVE  FetchOK(p, list, g)
<1>1. PagingOK(p, list, g) BY DEF PagingOK
<1>2. OlderComesAfter(p, list, g)
  <2> SUFFICES ASSUME NEW i \in DOMAIN page, NEW j \in DOMAIN page, page[i] < page[j]
               PROVE  \E k \in DOMAIN page : k > j /\ page[k] = page[i]
    BY DEF OlderComesAfter
  <2>1. page[i] \in Nat /\ page[j] \in Nat
    <3>1. page[i] \in Records /\ page[j] \in Records OBVIOUS
    <3> QED BY <3>1, RecordsAreNumbers
  <2>2. i < j => page[i] > page[j] BY DEF Falling
  <2>3. i > j BY <2>1, <2>2
  <2> QED BY <2>3
<1>3. p = "query" => ReadOrAhead(p, list, g) BY DEF ReadOrAhead
<1> QED BY <1>1, <1>2, <1>3 DEF FetchOK

LEMMA FallingOrder ==
  ASSUME NEW s \in Seq(Records), Falling(s), NEW i \in DOMAIN s, NEW j \in DOMAIN s, s[i] < s[j]
  PROVE  i > j
<1>1. s[i] \in Records /\ s[j] \in Records OBVIOUS
<1>2. s[i] \in Nat /\ s[j] \in Nat BY <1>1, RecordsAreNumbers
<1>3. i < j => s[i] > s[j] BY DEF Falling
<1> QED BY <1>2, <1>3

\* A page after the last record that was read.
LEMMA CursorPageOK ==
  ASSUME NEW f \in Fetches, NEW list \in Seq(Records), NEW page \in Seq(Records), Falling(page),
         f.pc = "page", FetchOK("cursor", list, f), f.there \subseteq Range(list),
         \A r \in Range(page) : f.at = 0 \/ r < f.at,
         \A r \in Range(list) : (f.at = 0 \/ r < f.at) => page # <<>> /\ (r \in Range(page) \/ r < Last(page)),
         NEW last \in BOOLEAN, last => page = <<>> \/ \A r \in Range(list) : r >= Last(page),
         ~last => page # <<>>, NEW g \in Fetches, g.got = f.got \o page,
         g.pc = (IF last THEN "store" ELSE "page"), g.there = f.there, ~last => g.at = Last(page)
  PROVE  FetchOK("cursor", list, g)
<1>1. f.got \in Seq(Records) /\ f.at \in Nat BY DEF Fetches
<1>2. /\ Falling(f.got) /\ \A i \in DOMAIN f.got : f.got[i] >= f.at
      /\ f.at = 0 => f.got = <<>>
      /\ ReadOrAhead("cursor", list, f)
  BY DEF FetchOK, PagingOK
<1> DEFINE got == f.got \o page
           n == Len(f.got)
<1>3. /\ got \in Seq(Records)
      /\ \A i \in DOMAIN got : (i \in DOMAIN f.got) \/ (i > n /\ i - n \in DOMAIN page /\ got[i] = page[i - n])
      /\ \A i \in DOMAIN f.got : i \in DOMAIN got /\ got[i] = f.got[i]
      /\ Range(got) = Range(f.got) \cup Range(page)
  BY <1>1, OneAfterOther
<1>4. g.got = got OBVIOUS
<1>5. n \in Nat /\ DOMAIN f.got = 1..n BY <1>1
<1> HIDE DEF got, n
<1>6. \A i \in DOMAIN page : page[i] \in Nat /\ page[i] \in Range(page)
  <2> TAKE i \in DOMAIN page
  <2>1. page[i] \in Records OBVIOUS
  <2> QED BY <2>1, RecordsAreNumbers DEF Range
<1>7. \A i \in DOMAIN f.got : f.got[i] \in Nat
  <2> TAKE i \in DOMAIN f.got
  <2>1. f.got[i] \in Records BY <1>1
  <2> QED BY <2>1, RecordsAreNumbers
<1>8. Falling(got)
  <2> SUFFICES ASSUME NEW i \in DOMAIN got, NEW j \in DOMAIN got, i < j PROVE got[i] > got[j] BY DEF Falling
  <2>1. i \in Nat /\ j \in Nat BY <1>3
  <2>2. CASE j \in DOMAIN f.got
    <3>1. i \in DOMAIN f.got BY <2>1, <2>2, <1>3, <1>5
    <3> QED BY <3>1, <2>2, <1>2, <1>3 DEF Falling
  <2>3. CASE j \notin DOMAIN f.got
    <3>1. j > n /\ j - n \in DOMAIN page /\ got[j] = page[j - n] BY <2>3, <1>3
    <3>2. CASE i \in DOMAIN f.got
      <4>1. f.at # 0 /\ f.got[i] >= f.at BY <3>2, <1>2
      <4>2. page[j - n] < f.at BY <3>1, <4>1, <1>6
      <4>3. got[i] = f.got[i] BY <3>2, <1>3
      <4> QED BY <3>1, <4>1, <4>2, <4>3, <3>2, <1>1, <1>6, <1>7
    <3>3. CASE i \notin DOMAIN f.got
      <4>1. i - n \in DOMAIN page /\ got[i] = page[i - n] BY <3>3, <1>3
      <4>2. i - n < j - n BY <2>1, <1>5
      <4>3. page[i - n] > page[j - n] BY <3>1, <4>1, <4>2 DEF Falling
      <4> QED BY <3>1, <4>1, <4>3
    <3> QED BY <3>2, <3>3
  <2> QED BY <2>2, <2>3
<1>9. PagingOK("cursor", list, g)
  <2>1. ASSUME ~last PROVE g.at # 0 /\ \A i \in DOMAIN got : got[i] >= g.at
    <3>1. Last(page) \in Records /\ Last(page) \in Range(page) /\ \A i \in DOMAIN page : page[i] >= Last(page)
      BY <2>1, LastIsLeast
    <3>2. Last(page) # 0 /\ Last(page) \in Nat BY <3>1, RecordsAreNumbers
    <3>3. ASSUME NEW i \in DOMAIN got PROVE got[i] >= Last(page)
      <4>1. CASE i \in DOMAIN f.got
        <5>1. f.at # 0 /\ f.got[i] >= f.at BY <4>1, <1>2
        <5>2. Last(page) < f.at BY <5>1, <3>1
        <5>3. got[i] = f.got[i] BY <4>1, <1>3
        <5> QED BY <5>1, <5>2, <5>3, <4>1, <3>2, <1>1, <1>7
      <4>2. CASE i \notin DOMAIN f.got
        <5>1. i - n \in DOMAIN page /\ got[i] = page[i - n] BY <4>2, <1>3
        <5> QED BY <5>1, <3>1
      <4> QED BY <4>1, <4>2
    <3> QED BY <2>1, <3>2, <3>3
  <2>2. g.pc = "page" => ~last OBVIOUS
  <2> QED BY <2>1, <2>2, <1>4, <1>8 DEF PagingOK
<1>10. OlderComesAfter("cursor", list, g)
  <2> SUFFICES ASSUME NEW i \in DOMAIN got, NEW j \in DOMAIN got, got[i] < got[j]
               PROVE  \E k \in DOMAIN got : k > j /\ got[k] = got[i]
    BY <1>4 DEF OlderComesAfter
  <2>1. i > j BY <1>3, <1>8, FallingOrder
  <2> QED BY <2>1
<1>11. ReadOrAhead("cursor", list, g)
  <2> SUFFICES ASSUME NEW r \in f.there, r \notin Range(got) PROVE Ahead("cursor", list, g, r)
    BY <1>4 DEF ReadOrAhead
  <2>1. r \notin Range(f.got) /\ r \notin Range(page) BY <1>3
  <2>2. f.at = 0 \/ r < f.at BY <2>1, <1>2 DEF ReadOrAhead, Ahead
  <2>3. r \in Range(list) OBVIOUS
  <2>4. page # <<>> /\ r < Last(page) BY <2>1, <2>2, <2>3
  <2>5. r \in Nat /\ Last(page) \in Nat
    <3>1. r \in Records BY <2>3 DEF Range
    <3>2. Last(page) \in Records BY <2>4, LastIsLeast
    <3> QED BY <3>1, <3>2, RecordsAreNumbers
  <2>6. ~last BY <2>3, <2>4, <2>5
  <2> QED BY <2>4, <2>6 DEF Ahead
<1> QED BY <1>9, <1>10, <1>11 DEF FetchOK

\* A page that skips as many records as were read.
LEMMA OffsetPageOK ==
  ASSUME NEW f \in Fetches, NEW list \in Seq(Records), NEW page \in Seq(Records), Falling(list),
         f.pc = "page", FetchOK("offset", list, f), f.there \subseteq Range(list),
         \A k \in DOMAIN page : f.at + k \in DOMAIN list /\ page[k] = list[f.at + k],
         \A i \in DOMAIN list :
           i > f.at /\ (i <= f.at + PageSize \/ Len(page) < PageSize) => i - f.at \in DOMAIN page,
         NEW g \in Fetches, g.got = f.got \o page, g.there = f.there, g.removed = f.removed,
         g.pc = (IF Len(page) < PageSize THEN "store" ELSE "page"),
         ~(Len(page) < PageSize) => g.at = f.at + PageSize
  PROVE  FetchOK("offset", list, g)
<1>1. f.got \in Seq(Records) /\ f.at \in Nat /\ PageSize \in Nat BY RecordsAreNumbers DEF Fetches
<1>2. CASE f.removed BY <1>2 DEF FetchOK, PagingOK
<1>3. CASE ~f.removed
  <2>1. Range(f.got) \subseteq Range(list) /\ OlderComesAfter("offset", list, f) /\ ReadOrAhead("offset", list, f)
    BY <1>3 DEF FetchOK, PagingOK
  <2> DEFINE got == f.got \o page
             n == Len(f.got)
  <2>2. /\ got \in Seq(Records)
        /\ \A i \in DOMAIN f.got : i \in DOMAIN got /\ got[i] = f.got[i]
        /\ \A k \in DOMAIN page : n + k \in DOMAIN got /\ got[n + k] = page[k]
    BY <1>1, OneAfterOther
  <2>3. \A i \in DOMAIN got : (i \in DOMAIN f.got) \/ (i > n /\ i - n \in DOMAIN page /\ got[i] = page[i - n])
    <3> DEFINE s == f.got
    <3>1. s \in Seq(Records) BY <1>1
    <3> HIDE DEF s
    <3>2. \A i \in DOMAIN (s \o page) :
            i \in DOMAIN s \/ (i > Len(s) /\ i - Len(s) \in DOMAIN page /\ (s \o page)[i] = page[i - Len(s)])
      BY <3>1, OneAfterOther
    <3> QED BY <3>2 DEF s
  <2>4. Range(got) = Range(f.got) \cup Range(page) BY <1>1, OneAfterOther
  <2>5. g.got = got OBVIOUS
  <2>6. n \in Nat /\ DOMAIN f.got = 1..n BY <1>1
  <2> HIDE DEF got, n
  <2>7. Range(page) \subseteq Range(list) BY DEF Range
  <2>8. PagingOK("offset", list, g) BY <2>1, <2>4, <2>5, <2>7 DEF PagingOK
  \* What is left of the list after this page.
  <2>9. ASSUME NEW q \in DOMAIN list, q > f.at, q - f.at \notin DOMAIN page
        PROVE  Ahead("offset", list, g, list[q])
    <3>1. ~(Len(page) < PageSize) /\ q > f.at + PageSize
      <4>1. q \in Nat OBVIOUS
      <4> QED BY <4>1, <2>9, <1>1
    <3>2. g.pc = "page" /\ g.at = f.at + PageSize BY <3>1
    <3> QED BY <3>1, <3>2 DEF Ahead
  <2>10. OlderComesAfter("offset", list, g)
    <3> SUFFICES ASSUME NEW i \in DOMAIN got, NEW j \in DOMAIN got, got[i] < got[j],
                        ~Ahead("offset", list, g, got[i])
                 PROVE  \E k \in DOMAIN got : k > j /\ got[k] = got[i]
      BY <2>5 DEF OlderComesAfter
    <3>1. got[i] \in Range(list)
      <4>1. got[i] \in Range(got) BY DEF Range
      <4> QED BY <4>1, <2>1, <2>4, <2>7
    <3>2. j \in Nat /\ i \in Nat BY <2>2
    <3>3. CASE j \in DOMAIN f.got
      <4>1. CASE i \in DOMAIN f.got
        <5>1. f.got[i] < f.got[j] /\ got[i] = f.got[i] BY <4>1, <3>3, <2>2
        <5>2. CASE \E k \in DOMAIN f.got : k > j /\ f.got[k] = f.got[i]
          <6>1. PICK k \in DOMAIN f.got : k > j /\ f.got[k] = f.got[i] BY <5>2
          <6>2. k \in DOMAIN got /\ got[k] = got[i] BY <6>1, <5>1, <2>2
          <6> QED BY <6>1, <6>2
        <5>3. CASE Ahead("offset", list, f, f.got[i])
          <6>1. PICK q \in DOMAIN list : q > f.at /\ list[q] = f.got[i] BY <5>3 DEF Ahead
          <6>2. q - f.at \in DOMAIN page BY <6>1, <5>1, <2>9
          <6>3. f.at + (q - f.at) = q
            <7>1. q \in Nat OBVIOUS
            <7> QED BY <7>1, <1>1
          <6>4. page[q - f.at] = got[i] BY <6>1, <6>2, <6>3, <5>1
          <6>5. n + (q - f.at) \in DOMAIN got /\ got[n + (q - f.at)] = got[i] BY <6>2, <6>4, <2>2
          <6>6. n + (q - f.at) > j BY <6>2, <3>3, <3>2, <2>6
          <6> QED BY <6>5, <6>6
        <5> QED BY <5>1, <5>2, <5>3, <4>1, <3>3, <2>1 DEF OlderComesAfter
      <4>2. CASE i \notin DOMAIN f.got
        <5>1. i > n BY <4>2, <2>3
        <5>2. i > j BY <5>1, <3>2, <3>3, <2>6
        <5> QED BY <5>2
      <4> QED BY <4>1, <4>2
    <3>4. CASE j \notin DOMAIN f.got
      <4>1. j > n /\ j - n \in DOMAIN page /\ got[j] = page[j - n] BY <3>4, <2>3
      <4> DEFINE b == f.at + (j - n)
      <4>2. b \in DOMAIN list /\ list[b] = got[j] BY <4>1
      <4>3. PICK q \in DOMAIN list : list[q] = got[i] BY <3>1 DEF Range
      <4>4. b > f.at /\ b \in Nat BY <4>1, <3>2, <2>6, <1>1
      <4> HIDE DEF b
      <4>5. q > b BY <4>2, <4>3, FallingOrder
      <4>6. q \in Nat /\ q > f.at
        <5>1. q \in Nat OBVIOUS
        <5> QED BY <5>1, <4>4, <4>5, <1>1
      <4>7. q - f.at \in DOMAIN page BY <4>3, <4>6, <2>9
      <4>8. f.at + (q - f.at) = q BY <4>6, <1>1
      <4>9. page[q - f.at] = got[i] BY <4>3, <4>7, <4>8
      <4>10. n + (q - f.at) \in DOMAIN got /\ got[n + (q - f.at)] = got[i] BY <4>7, <4>9, <2>2
      <4>11. n + (q - f.at) > j
        <5>1. q > f.at + (j - n) BY <4>5 DEF b
        <5> QED BY <5>1, <4>6, <3>2, <2>6, <1>1
      <4> QED BY <4>10, <4>11
    <3> QED BY <3>3, <3>4
  <2>11. ReadOrAhead("offset", list, g)
    <3> SUFFICES ASSUME NEW r \in f.there, r \notin Range(got) PROVE Ahead("offset", list, g, r)
      BY <2>5 DEF ReadOrAhead
    <3>1. r \notin Range(f.got) /\ r \notin Range(page) BY <2>4
    <3>2. PICK q \in DOMAIN list : q > f.at /\ list[q] = r BY <3>1, <2>1 DEF ReadOrAhead, Ahead
    <3>3. q - f.at \notin DOMAIN page
      <4> SUFFICES ASSUME q - f.at \in DOMAIN page PROVE FALSE OBVIOUS
      <4>1. f.at + (q - f.at) = q
        <5>1. q \in Nat OBVIOUS
        <5> QED BY <5>1, <1>1
      <4>2. page[q - f.at] = r BY <4>1, <3>2
      <4> QED BY <4>2, <3>1 DEF Range
    <3> QED BY <3>2, <3>3, <2>9
  <2> QED BY <2>8, <2>10, <2>11 DEF FetchOK
<1> QED BY <1>2, <1>3

LEMMA FetchPageOK ==
  ASSUME ConnInv, FetchPage
  PROVE  ConnInv'
<1> DEFINE page == PageAt(fetch.at)
           last == LastPage(page)
           at == IF last THEN fetch.at ELSE NextAt(fetch.at, page)
           g == NextFetch(fetch, page, last, at)
<1>1. /\ fetch.pc = "page" /\ paging' = paging /\ remote' = remote /\ created' = created
      /\ context' = context /\ outcome' = outcome
  BY DEF FetchPage
<1>2. fetch' = g BY DEF FetchPage, NextFetch
<1>3. /\ paging \in AllPagings /\ RemoteOK(remote, created) /\ fetch \in Fetches
      /\ fetch.there \subseteq Range(remote) /\ FetchOK(paging, remote, fetch)
  BY DEF ConnInv
<1>4. fetch.at \in Nat /\ fetch.got \in Seq(Records) /\ PageSize \in Nat /\ PageSize > 0
  BY <1>3, RecordsAreNumbers DEF Fetches
<1>5. remote \in Seq(Records) /\ Falling(remote) BY <1>3 DEF RemoteOK
<1>6. paging \in {"query", "first", "cursor", "offset"}
  BY <1>3 DEF AllPagings, MySQLSource, PostgreSQLSource, MongoDBSource, BigQuery, Snowflake, Salesforce,
       GoogleSheets, RestAPI, CSV, HubSpot, Shopify, Gmail, Slack, Notion, Stripe, Airtable, Razorpay,
       WooCommerce
<1>7. page \in Seq(Records) /\ at \in Nat /\ FetchOK(paging, remote, g)
  <2>1. CASE paging \in {"query", "first"}
    <3>1. last BY <2>1 DEF LastPage
    <3>2. page = (IF paging = "query" THEN remote ELSE Take(remote, PageSize)) BY <2>1 DEF PageAt
    <3>3. page \in Seq(Records) /\ Falling(page) /\ (paging = "query" => page = remote)
      BY <3>2, <1>4, <1>5, FallingTake
    <3>4. at = fetch.at BY <3>1
    <3> HIDE DEF page, last, at
    <3>b. at \in Nat BY <3>4, <1>4
    <3>5. fetch.got = <<>> BY <2>1, <1>1, <1>3 DEF FetchOK, PagingOK
    <3>a. /\ g \in Fetches /\ g.got = fetch.got \o page /\ g.pc = (IF last THEN "store" ELSE "page")
          /\ g.there = fetch.there
      BY <3>3, <3>b, <1>1, <1>3, PageIsRead
    <3>6. /\ g \in Fetches /\ g.got = fetch.got \o page /\ g.pc = "store" /\ g.there = fetch.there
      BY <3>1, <3>a
    <3>7. g.got = page BY <3>3, <3>5, <3>6
    <3> HIDE DEF g
    <3>8. FetchOK(paging, remote, g) BY <2>1, <3>3, <3>5, <3>6, <3>7, <1>1, <1>3, <1>5, OnePageOK
    <3> QED BY <3>3, <3>4, <3>8, <1>4 DEF g
  <2>2. CASE paging = "cursor"
    <3>1. /\ page \in Seq(Records) /\ Falling(page) /\ Range(page) \subseteq Range(remote)
          /\ \A r \in Range(page) : fetch.at = 0 \/ r < fetch.at
          /\ \A r \in Range(remote) : (fetch.at = 0 \/ r < fetch.at) =>
               page # <<>> /\ (r \in Range(page) \/ r < Last(page))
      BY <2>2, <1>3, <1>4, CursorPage
    <3>2. last = (page = <<>> \/ \A r \in Range(remote) : r >= Last(page)) BY <2>2 DEF LastPage
    <3>3. at = (IF last THEN fetch.at ELSE Last(page)) BY <2>2 DEF NextAt
    <3>4. last \in BOOLEAN BY <3>2
    <3> HIDE DEF page, last, at
    <3>5. at \in Nat
      <4>1. ~last => page # <<>> BY <3>2
      <4>2. ~last => Last(page) \in Records BY <4>1, <3>1, LastIsLeast
      <4> QED BY <4>2, <3>3, <1>4, RecordsAreNumbers
    <3>6. /\ g \in Fetches /\ g.got = fetch.got \o page /\ g.pc = (IF last THEN "store" ELSE "page")
          /\ g.there = fetch.there /\ g.at = at
      BY <3>1, <3>5, <1>1, <1>3, PageIsRead
    <3> HIDE DEF g
    <3>7. FetchOK("cursor", remote, g)
      <4>1. last => page = <<>> \/ \A r \in Range(remote) : r >= Last(page) BY <3>2
      <4>2. ~last => page # <<>> BY <3>2
      <4>3. ~last => g.at = Last(page) BY <3>3, <3>6
      <4>4. FetchOK("cursor", remote, fetch) BY <2>2, <1>3
      <4> QED BY <3>1, <3>4, <3>6, <4>1, <4>2, <4>3, <4>4, <1>1, <1>3, <1>5, CursorPageOK
    <3> QED BY <2>2, <3>1, <3>5, <3>7 DEF g
  <2>3. CASE paging = "offset"
    <3>1. /\ page \in Seq(Records) /\ Falling(page)
          /\ \A k \in DOMAIN page : fetch.at + k \in DOMAIN remote /\ page[k] = remote[fetch.at + k]
          /\ \A i \in DOMAIN remote :
               i > fetch.at /\ (i <= fetch.at + PageSize \/ Len(page) < PageSize) => i - fetch.at \in DOMAIN page
      BY <2>3, <1>3, <1>4, OffsetPage
    <3>2. last = (Len(page) < PageSize) BY <2>3 DEF LastPage
    <3>3. at = (IF last THEN fetch.at ELSE fetch.at + PageSize) BY <2>3 DEF NextAt
    <3> HIDE DEF page, last, at
    <3>4. at \in Nat BY <3>3, <1>4
    <3>5. /\ g \in Fetches /\ g.got = fetch.got \o page /\ g.pc = (IF last THEN "store" ELSE "page")
          /\ g.there = fetch.there /\ g.at = at /\ g.removed = fetch.removed
      BY <3>1, <3>4, <1>1, <1>3, PageIsRead
    <3> HIDE DEF g
    <3>6. FetchOK("offset", remote, g)
      <4>1. g.pc = (IF Len(page) < PageSize THEN "store" ELSE "page") BY <3>2, <3>5
      <4>2. ~(Len(page) < PageSize) => g.at = fetch.at + PageSize BY <3>2, <3>3, <3>5
      <4>3. FetchOK("offset", remote, fetch) BY <2>3, <1>3
      <4> QED BY <3>1, <3>5, <4>1, <4>2, <4>3, <1>1, <1>3, <1>5, OffsetPageOK
    <3> QED BY <2>3, <3>1, <3>4, <3>6 DEF g
  <2> QED BY <2>1, <2>2, <2>3, <1>6
<1> HIDE DEF page, last, at
<1>8. g \in Fetches /\ g.there = fetch.there /\ g.pc # "idle" BY <1>1, <1>3, <1>7, PageIsRead
<1> HIDE DEF g
<1>9. OldestIsStored' BY <1>2, <1>8 DEF OldestIsStored
<1>10. DOMAIN context' = Users BY <1>1 DEF ConnInv
<1> QED BY <1>1, <1>2, <1>3, <1>7, <1>8, <1>9, <1>10 DEF ConnInv

LEMMA PageFailsOK ==
  ASSUME ConnInv, PageFails
  PROVE  ConnInv'
<1>1. /\ fetch' = NoFetch /\ outcome' = "failed" /\ paging' = paging /\ remote' = remote /\ created' = created
      /\ context' = context
  BY DEF PageFails
<1>2. fetch' \in Fetches /\ fetch'.pc = "idle" /\ fetch'.there = {} BY <1>1 DEF NoFetch, Fetches
<1>3. FetchOK(paging, remote, fetch') BY <1>2 DEF FetchOK
<1>4. OldestIsStored' BY <1>1 DEF OldestIsStored
<1> QED BY <1>1, <1>2, <1>3, <1>4 DEF ConnInv

LEMMA KeyChangesOK ==
  ASSUME ConnInv, KeyChanges
  PROVE  ConnInv'
<1>1. /\ fetch' = fetch /\ outcome' = outcome /\ paging' = paging /\ remote' = remote /\ created' = created
      /\ context' = context
  BY DEF KeyChanges
<1>2. OldestIsStored' BY <1>1 DEF ConnInv, OldestIsStored, Shifted
<1> QED BY <1>1, <1>2 DEF ConnInv

\* The row of a user is the last listed of the records that were fetched of that user.
LEMMA LastIsOldest ==
  ASSUME ConnInv, fetch.pc = "store", ~Shifted, NEW r \in Range(fetch.got), NEW u, Owner[r] = u
  PROVE  /\ RecordsOf(u, fetch.got) # <<>>
         /\ StoredFor(u, fetch.got) \in Range(fetch.got) /\ StoredFor(u, fetch.got) <= r
<1> DEFINE got == fetch.got
           T == {x \in Records : Owner[x] = u}
           t == Only(got, T)
<1>1. fetch \in Fetches /\ got \in Seq(Records) BY DEF ConnInv, Fetches
<1>2. OlderComesAfter(paging, remote, fetch) BY DEF ConnInv, FetchOK, Shifted
<1>3. RecordsOf(u, got) = t /\ StoredFor(u, got) = Last(t) BY DEF RecordsOf, StoredFor
<1>4. PICK i \in DOMAIN got : got[i] = r BY DEF Range
<1>5. r \in T
  <2>1. r \in Records BY <1>1, <1>4
  <2> QED BY <2>1
<1> HIDE DEF T, got
<1>6. t \in Seq(Records) BY <1>1, OnlyPicks
<1>a. PICK f : Picks(got, T, t, f) BY <1>1, OnlyPicks
<1> HIDE DEF t
<1>7. /\ f \in [DOMAIN t -> DOMAIN got]
      /\ \A k \in DOMAIN t : t[k] = got[f[k]] /\ got[f[k]] \in T
      /\ \A j, k \in DOMAIN t : j < k => f[j] < f[k]
      /\ \A x \in DOMAIN got : got[x] \in T => \E k \in DOMAIN t : f[k] = x
  BY <1>a, Zenon DEF Picks
<1>8. PICK m \in DOMAIN t : f[m] = i BY <1>4, <1>5, <1>7
<1>9. Len(t) \in DOMAIN t /\ t # <<>> /\ Len(t) \in Nat /\ DOMAIN t = 1..Len(t)
  <2>1. m \in 1..Len(t) /\ Len(t) \in Nat /\ DOMAIN t = 1..Len(t) BY <1>6, <1>8
  <2> QED BY <2>1
<1> DEFINE j == f[Len(t)]
<1>10. j \in DOMAIN got /\ Last(t) = got[j] BY <1>7, <1>9 DEF Last
<1> HIDE DEF j
<1>11. got[j] \in Range(got) BY <1>10 DEF Range
<1>12. got[j] <= r
  <2>1. got[j] \in Nat /\ r \in Nat
    <3>1. got[j] \in Records /\ r \in Records BY <1>1, <1>4, <1>10
    <3> QED BY <3>1, RecordsAreNumbers
  <2> SUFFICES ASSUME got[i] < got[j] PROVE FALSE BY <2>1, <1>4
  <2>2. \E k \in DOMAIN got : k > j /\ got[k] = got[i]
    <3>1. ~Ahead(paging, remote, fetch, fetch.got[i]) BY DEF Ahead
    <3> QED BY <3>1, <1>2, <1>4, <1>10 DEF OlderComesAfter, got
  <2>3. PICK k \in DOMAIN got : k > j /\ got[k] = got[i] BY <2>2
  <2>4. PICK l \in DOMAIN t : f[l] = k BY <2>3, <1>4, <1>5, <1>7
  <2>5. l <= Len(t) /\ l \in Nat BY <2>4, <1>9
  <2>6. CASE l = Len(t)
    <3>1. k = j BY <2>4, <2>6 DEF j
    <3>2. k \in Nat /\ j \in Nat BY <1>1, <1>10, <2>3
    <3> QED BY <3>1, <3>2, <2>3
  <2>7. CASE l < Len(t)
    <3>1. k < j BY <2>4, <2>7, <1>7, <1>9 DEF j
    <3>2. k \in Nat /\ j \in Nat BY <1>1, <1>10, <2>3
    <3> QED BY <3>1, <3>2, <2>3
  <2> QED BY <2>5, <2>6, <2>7, <1>9
<1> QED BY <1>3, <1>9, <1>10, <1>11, <1>12 DEF got

LEMMA StoreRecordsOK ==
  ASSUME ConnInv, StoreRecords
  PROVE  ConnInv'
<1>1. /\ fetch.pc = "store" /\ outcome' = "success" /\ paging' = paging /\ remote' = remote
      /\ created' = created /\ fetch' = [fetch EXCEPT !.pc = "idle"]
      /\ context' = [u \in Users |-> IF RecordsOf(u, fetch.got) = <<>> THEN context[u]
                                     ELSE StoredFor(u, fetch.got)]
  BY DEF StoreRecords
<1>2. fetch \in Fetches /\ fetch.there \subseteq Range(remote) BY DEF ConnInv
<1>3. /\ fetch' \in Fetches /\ fetch'.pc = "idle" /\ fetch'.there = fetch.there /\ fetch'.got = fetch.got
  BY <1>1, <1>2 DEF Fetches
<1>4. fetch'.removed = fetch.removed BY <1>1, <1>2, Zenon DEF Fetches
<1>5. FetchOK(paging, remote, fetch') BY <1>3 DEF FetchOK
<1>6. OldestIsStored'
  <2> SUFFICES ASSUME ~Shifted, NEW r \in Range(fetch.got), Owner[r] # NoUser
               PROVE  context'[Owner[r]] \in Range(fetch.got) /\ context'[Owner[r]] <= r
    BY <1>1, <1>3, <1>4, Zenon DEF OldestIsStored, Shifted
  <2>1. r \in Records
    <3>1. fetch.got \in Seq(Records) BY <1>2 DEF Fetches
    <3> QED BY <3>1 DEF Range
  <2> DEFINE u == Owner[r]
  <2>2. u \in Users BY <2>1 DEF Users
  <2> HIDE DEF u
  <2>3. /\ RecordsOf(u, fetch.got) # <<>>
        /\ StoredFor(u, fetch.got) \in Range(fetch.got) /\ StoredFor(u, fetch.got) <= r
    BY <1>1, LastIsOldest DEF u
  <2>4. context'[u] = StoredFor(u, fetch.got) BY <1>1, <2>2, <2>3
  <2> QED BY <2>3, <2>4 DEF u
<1>7. DOMAIN context' = Users BY <1>1
<1> QED BY <1>1, <1>2, <1>3, <1>5, <1>6, <1>7 DEF ConnInv

(***************************************************************************)
(* A fetch is whole unless the list moved under it, and what is stored of  *)
(* it is the last listed of each user (fetch_data, sync_data_source),      *)
(* for every connector, any number of records and pages of any size.       *)
(***************************************************************************)
THEOREM ConnectorsSound == ConnSpec => []ConnectorsAreSound
<1>1. ConnInit => ConnInv BY ConnInitOK
<1>2. ConnInv /\ [ConnNext]_connVars => ConnInv'
  <2> SUFFICES ASSUME ConnInv, [ConnNext]_connVars PROVE ConnInv' OBVIOUS
  <2>1. CASE RecordAdded BY <2>1, RecordAddedOK
  <2>2. CASE RecordRemoved BY <2>2, RecordRemovedOK
  <2>3. CASE KeyChanges BY <2>3, KeyChangesOK
  <2>4. CASE SyncDataSource BY <2>4, SyncDataSourceOK
  <2>5. CASE FetchPage BY <2>5, FetchPageOK
  <2>6. CASE PageFails BY <2>6, PageFailsOK
  <2>7. CASE StoreRecords BY <2>7, StoreRecordsOK
  <2>8. CASE UNCHANGED connVars BY <2>8 DEF connVars, ConnInv, OldestIsStored, Shifted
  <2> QED BY <2>1, <2>2, <2>3, <2>4, <2>5, <2>6, <2>7, <2>8 DEF ConnNext
<1>3. ConnInv => ConnectorsAreSound
  <2> SUFFICES ASSUME ConnInv PROVE ConnectorsAreSound OBVIOUS
  <2>1. FetchIsWhole
    <3> SUFFICES ASSUME fetch.pc = "store", paging # "first", ~Shifted, NEW r \in fetch.there
                 PROVE  r \in Range(fetch.got)
      BY DEF FetchIsWhole
    <3>1. ReadOrAhead(paging, remote, fetch) BY DEF ConnInv, FetchOK, Shifted
    <3> QED BY <3>1 DEF ReadOrAhead, Ahead
  <2> QED BY <2>1 DEF ConnInv, ConnectorsAreSound
<1> QED BY <1>1, <1>2, <1>3, PTL DEF ConnSpec

-----------------------------------------------------------------------------
(* Employee memory: the invariant. *)

EntrySources == {"default_seed", "owner", "auto_learn"}

Given == Instructions \cup {NoText}

WithHead(t, h) == [t EXCEPT !.head = h]

AllTexts == Range(Seeds) \cup Given \cup {"none"}
              \cup {WithHead(t, h) : t \in Given, h \in {"profile"} \cup {s.head : s \in Given}}

EntryRows == [source : EntrySources, text : AllTexts, id : Nat]

Duties == [pc : {"idle", "seed", "owner", "gather", "delete", "learn"}, at : Nat, text : AllTexts,
           drop : SUBSET Nat]

\* Neither an identifier nor a source with a head is there twice, and the seeds are the seeds.
RowsOK(tab) ==
  /\ tab \in Seq(EntryRows)
  /\ \A i, j \in DOMAIN tab : i # j => tab[i].id # tab[j].id
  /\ \A i, j \in DOMAIN tab :
       i # j => tab[i].source # tab[j].source \/ tab[i].text.head # tab[j].text.head

\* A rewrite deletes rows of the profile only, and so does nothing else.
DropsOK(tab, d) ==
  /\ \A w \in Staff : d[w].pc # "learn" => d[w].drop = {}
  /\ \A w \in Staff, i \in DOMAIN tab : tab[i].id \in d[w].drop => tab[i].source = "auto_learn"

\* The identifiers in use are below some number.
IdsBelow(tab, d, n) ==
  (\A i \in DOMAIN tab : tab[i].id \in 0..n) /\ \A w \in Staff : d[w].drop \subseteq 0..n

HasRow(tab, source, text) == \E i \in DOMAIN tab : tab[i].source = source /\ tab[i].text = text

AllSeeded(tab, k) == \A i \in DOMAIN Seeds : i < k => HasRow(tab, "default_seed", Seeds[i])

\* Who seeds has written the seeds before the one it is at; a memory begun is finished or being seeded.
SeedsOK(tab, d, failed) ==
  /\ \A w \in Staff : d[w].pc = "seed" => d[w].at \in DOMAIN Seeds
  /\ \A i \in DOMAIN tab : tab[i].source = "default_seed" => tab[i].text \in Range(Seeds)
  /\ failed = 0 =>
       /\ \A w \in Staff : d[w].pc = "seed" => AllSeeded(tab, d[w].at)
       /\ (\E i \in DOMAIN tab : tab[i].source = "default_seed") =>
            (\E w \in Staff : d[w].pc = "seed") \/ AllSeeded(tab, Len(Seeds) + 1)

HasSource(tab, source) == \E i \in DOMAIN tab : tab[i].source = source

\* The newest entry of the owner.
IsNewest(tab, text) ==
  \E i \in DOMAIN tab : /\ tab[i].source = "owner" /\ tab[i].text = text
                        /\ \A j \in DOMAIN tab : j > i => tab[j].source # "owner"

OwnerTextsIn(tab, T) == \A i \in DOMAIN tab : tab[i].source = "owner" => tab[i].text \in T

Earlier(list) == {list[i] : i \in 1..(Len(list) - 1)}

NewHead(list) == \A i \in 1..(Len(list) - 1) : list[i].head # list[Len(list)].head

\* While no two instructions crossed, the last one is being written or is the newest entry.
OwnerOK(tab, list, d, failed, cross) ==
  ~cross =>
    /\ OwnerTextsIn(tab, Range(list))
    /\ \A v, w \in Staff : d[v].pc = "owner" /\ d[w].pc = "owner" => v = w
    /\ \A w \in Staff : d[w].pc = "owner" =>
         list # <<>> /\ d[w].text = list[Len(list)] /\ OwnerTextsIn(tab, Earlier(list))
    /\ (list # <<>> /\ failed = 0 /\ NewHead(list) /\ \A w \in Staff : d[w].pc # "owner") =>
         IsNewest(tab, list[Len(list)])

EmpInv ==
  /\ RowsOK(entries)
  /\ duty \in [Staff -> Duties] /\ told \in Seq(Instructions) /\ profileText \in Given
  /\ learnFaults \in Nat
  /\ DropsOK(entries, duty)
  /\ \E n \in Nat : IdsBelow(entries, duty, n)
  /\ SeedsOK(entries, duty, learnFaults)
  /\ learned => HasSource(entries, "auto_learn")
  /\ OwnerOK(entries, told, duty, learnFaults, crossed)

-----------------------------------------------------------------------------
(* A write. *)

LEMMA RowsAreFinite ==
  ASSUME EmpInv
  PROVE  FreshId \in Nat /\ FreshId \notin TakenIds
<1>1. PICK n \in Nat : IdsBelow(entries, duty, n) BY DEF EmpInv
<1>2. TakenIds \subseteq 0..n BY <1>1 DEF TakenIds, IdsBelow
<1>3. IsFiniteSet(0..n) BY FS_Interval
<1>4. IsFiniteSet(TakenIds) /\ Cardinality(TakenIds) \in Nat BY <1>2, <1>3, FS_Subset, FS_CardinalityType
<1> DEFINE c == Cardinality(TakenIds)
<1>5. c \in Nat BY <1>4
<1>6. \E m \in 1..(c + 1) : m \notin TakenIds
  <2> SUFFICES ASSUME 1..(c + 1) \subseteq TakenIds PROVE FALSE OBVIOUS
  <2>1. Cardinality(1..(c + 1)) <= c BY <1>4, FS_Subset
  <2>2. Cardinality(1..(c + 1)) = c + 1
    <3> HIDE DEF c
    <3>1. 1 \in Int /\ c + 1 \in Int BY <1>5
    <3>2. Cardinality(1..(c + 1)) = IF 1 > c + 1 THEN 0 ELSE (c + 1) - 1 + 1 BY <3>1, FS_Interval
    <3> QED BY <3>2, <1>5
  <2> HIDE DEF c
  <2> QED BY <2>1, <2>2, <1>5
<1>7. FreshId \in 1..(c + 1) /\ FreshId \notin TakenIds BY <1>6, Zenon DEF FreshId
<1> HIDE DEF c
<1> QED BY <1>7, <1>5

\* What DELETE leaves of a table.
Left(tab, drop) == Only(tab, {e \in Range(tab) : e.id \notin drop})

LEMMA LeftIs ==
  ASSUME NEW tab, RowsOK(tab), NEW drop
  PROVE  /\ RowsOK(Left(tab, drop))
         /\ \A k \in DOMAIN Left(tab, drop) :
              Left(tab, drop)[k].id \notin drop /\ \E i \in DOMAIN tab : Left(tab, drop)[k] = tab[i]
         /\ \A i \in DOMAIN tab : tab[i].id \notin drop =>
              \E k \in DOMAIN Left(tab, drop) : Left(tab, drop)[k] = tab[i]
         /\ \A text : IsNewest(tab, text)
                      /\ (\A i \in DOMAIN tab : tab[i].id \in drop => tab[i].source = "auto_learn") =>
              IsNewest(Left(tab, drop), text)
<1> DEFINE T == {e \in Range(tab) : e.id \notin drop}
           t == Only(tab, T)
<1>1. tab \in Seq(EntryRows) BY DEF RowsOK
<1>2. t \in Seq(EntryRows) BY <1>1, OnlyPicks
<1>a. PICK f : Picks(tab, T, t, f) BY <1>1, OnlyPicks
<1>b. \A i \in DOMAIN tab : tab[i] \in T <=> tab[i].id \notin drop BY DEF Range
<1>c. Left(tab, drop) = t BY DEF Left
<1> HIDE DEF t, T
<1>3. /\ f \in [DOMAIN t -> DOMAIN tab]
      /\ \A k \in DOMAIN t : t[k] = tab[f[k]] /\ tab[f[k]] \in T
      /\ \A j, k \in DOMAIN t : j < k => f[j] < f[k]
      /\ \A i \in DOMAIN tab : tab[i] \in T => \E k \in DOMAIN t : f[k] = i
  BY <1>a DEF Picks
<1>4. \A k \in DOMAIN t : f[k] \in DOMAIN tab /\ t[k] = tab[f[k]] /\ t[k].id \notin drop
  BY <1>3, <1>b
<1>5. \A j, k \in DOMAIN t : j # k => f[j] # f[k]
  <2> SUFFICES ASSUME NEW j \in DOMAIN t, NEW k \in DOMAIN t, j # k PROVE f[j] # f[k] OBVIOUS
  <2>1. j \in Nat /\ k \in Nat BY <1>2
  <2>2. f[j] \in Nat /\ f[k] \in Nat BY <1>4, <1>1
  <2>3. CASE j < k BY <2>3, <2>2, <1>3
  <2>4. CASE k < j BY <2>4, <2>2, <1>3
  <2> QED BY <2>1, <2>3, <2>4
<1>6. RowsOK(t)
  <2>1. \A j, k \in DOMAIN t : j # k => t[j].id # t[k].id BY <1>4, <1>5 DEF RowsOK
  <2>2. \A j, k \in DOMAIN t : j # k => t[j].source # t[k].source \/ t[j].text.head # t[k].text.head
    <3> SUFFICES ASSUME NEW j \in DOMAIN t, NEW k \in DOMAIN t, j # k
                 PROVE  t[j].source # t[k].source \/ t[j].text.head # t[k].text.head
      OBVIOUS
    <3>1. f[j] \in DOMAIN tab /\ f[k] \in DOMAIN tab /\ f[j] # f[k] BY <1>4, <1>5
    <3>2. tab[f[j]].source # tab[f[k]].source \/ tab[f[j]].text.head # tab[f[k]].text.head
      BY <3>1, Zenon DEF RowsOK
    <3>3. t[j] = tab[f[j]] /\ t[k] = tab[f[k]] BY <1>4
    <3> QED BY <3>2, <3>3, Zenon
  <2> QED BY <1>2, <2>1, <2>2, Zenon DEF RowsOK
<1>7. \A i \in DOMAIN tab : tab[i].id \notin drop => \E k \in DOMAIN t : f[k] = i /\ t[k] = tab[i]
  <2> SUFFICES ASSUME NEW i \in DOMAIN tab, tab[i].id \notin drop
               PROVE  \E k \in DOMAIN t : f[k] = i /\ t[k] = tab[i]
    OBVIOUS
  <2>1. PICK k \in DOMAIN t : f[k] = i BY <1>b, <1>3
  <2> QED BY <2>1, <1>4
<1>8. ASSUME NEW text, IsNewest(tab, text),
             \A i \in DOMAIN tab : tab[i].id \in drop => tab[i].source = "auto_learn"
      PROVE  IsNewest(t, text)
  <2>1. PICK i \in DOMAIN tab : /\ tab[i].source = "owner" /\ tab[i].text = text
                                /\ \A j \in DOMAIN tab : j > i => tab[j].source # "owner"
    BY <1>8 DEF IsNewest
  <2>2. tab[i].id \notin drop BY <2>1, <1>8
  <2>3. PICK k \in DOMAIN t : f[k] = i /\ t[k] = tab[i] BY <2>2, <1>7
  <2>4. ASSUME NEW j \in DOMAIN t, j > k PROVE t[j].source # "owner"
    <3>1. j \in Nat /\ k \in Nat BY <1>2
    <3>2. f[j] \in DOMAIN tab /\ f[k] \in DOMAIN tab /\ t[j] = tab[f[j]] BY <1>4
    <3>3. f[j] \in Nat /\ f[k] \in Nat BY <3>2, <1>1
    <3>4. f[k] < f[j] BY <3>1, <2>4, <1>3
    <3> QED BY <3>2, <3>3, <3>4, <2>3, <2>1
  <2> QED BY <2>1, <2>3, <2>4 DEF IsNewest
<1>9. \A k \in DOMAIN t : t[k].id \notin drop /\ \E i \in DOMAIN tab : t[k] = tab[i] BY <1>4
<1>10. \A i \in DOMAIN tab : tab[i].id \notin drop => \E k \in DOMAIN t : t[k] = tab[i] BY <1>7
<1> QED BY <1>6, <1>8, <1>9, <1>10, <1>c

\* A row that stands behind all others.
LEMMA AppendIs ==
  ASSUME NEW tab, RowsOK(tab), NEW added \in EntryRows,
         \A i \in DOMAIN tab : tab[i].id # added.id,
         \A i \in DOMAIN tab : tab[i].source # added.source \/ tab[i].text.head # added.text.head
  PROVE  /\ RowsOK(Append(tab, added))
         /\ \A k \in DOMAIN Append(tab, added) :
              Append(tab, added)[k] = added \/ \E i \in DOMAIN tab : Append(tab, added)[k] = tab[i]
         /\ \A i \in DOMAIN tab : \E k \in DOMAIN Append(tab, added) : Append(tab, added)[k] = tab[i]
         /\ \E k \in DOMAIN Append(tab, added) : Append(tab, added)[k] = added
         /\ \A text : IsNewest(tab, text) /\ added.source # "owner" => IsNewest(Append(tab, added), text)
         /\ added.source = "owner" => IsNewest(Append(tab, added), added.text)
<1> DEFINE t == Append(tab, added)
           n == Len(tab)
<1>1. tab \in Seq(EntryRows) /\ n \in Nat /\ DOMAIN tab = 1..n BY DEF RowsOK
<1>2. t \in Seq(EntryRows) /\ DOMAIN t = 1..(n + 1) /\ t[n + 1] = added /\ \A i \in 1..n : t[i] = tab[i]
  BY <1>1
<1> HIDE DEF t, n
<1>3. \A k \in DOMAIN t : (k \in DOMAIN tab /\ t[k] = tab[k]) \/ (k = n + 1 /\ t[k] = added) BY <1>1, <1>2
<1>4. RowsOK(t)
  <2>1. \A i, j \in DOMAIN tab : i # j =>
          tab[i].id # tab[j].id /\ (tab[i].source # tab[j].source \/ tab[i].text.head # tab[j].text.head)
    BY Zenon DEF RowsOK
  <2>2. SUFFICES ASSUME NEW i \in DOMAIN t, NEW j \in DOMAIN t, i # j
                 PROVE  /\ t[i].id # t[j].id
                        /\ t[i].source # t[j].source \/ t[i].text.head # t[j].text.head
    BY <1>2, Zenon DEF RowsOK
  <2>3. CASE i \in DOMAIN tab /\ j \in DOMAIN tab
    <3>1. t[i] = tab[i] /\ t[j] = tab[j] BY <2>3, <1>1, <1>2
    <3> QED BY <3>1, <2>1, <2>2, <2>3, Zenon
  <2>4. CASE i \notin DOMAIN tab
    <3>1. i = n + 1 /\ t[i] = added BY <2>4, <1>3
    <3>2. j \in DOMAIN tab /\ t[j] = tab[j] BY <3>1, <1>3, <2>2
    <3>3. tab[j].id # added.id /\ (tab[j].source # added.source \/ tab[j].text.head # added.text.head)
      BY <3>2, Zenon
    <3> QED BY <3>1, <3>2, <3>3, Zenon
  <2>5. CASE j \notin DOMAIN tab
    <3>1. j = n + 1 /\ t[j] = added BY <2>5, <1>3
    <3>2. i \in DOMAIN tab /\ t[i] = tab[i] BY <3>1, <1>3, <2>2
    <3>3. tab[i].id # added.id /\ (tab[i].source # added.source \/ tab[i].text.head # added.text.head)
      BY <3>2, Zenon
    <3> QED BY <3>1, <3>2, <3>3, Zenon
  <2> QED BY <2>3, <2>4, <2>5
<1>5. \A k \in DOMAIN t : t[k] = added \/ \E i \in DOMAIN tab : t[k] = tab[i] BY <1>3
<1>6. \A i \in DOMAIN tab : \E k \in DOMAIN t : t[k] = tab[i] BY <1>1, <1>2
<1>7. \E k \in DOMAIN t : t[k] = added BY <1>1, <1>2
<1>8. ASSUME NEW text, IsNewest(tab, text), added.source # "owner" PROVE IsNewest(t, text)
  <2>1. PICK i \in DOMAIN tab : /\ tab[i].source = "owner" /\ tab[i].text = text
                                /\ \A j \in DOMAIN tab : j > i => tab[j].source # "owner"
    BY <1>8 DEF IsNewest
  <2>2. i \in DOMAIN t /\ t[i] = tab[i] BY <1>1, <1>2
  <2>3. \A j \in DOMAIN t : j > i => t[j].source # "owner" BY <2>1, <1>3, <1>8
  <2> QED BY <2>1, <2>2, <2>3 DEF IsNewest
<1>9. ASSUME added.source = "owner" PROVE IsNewest(t, added.text)
  <2>1. n + 1 \in DOMAIN t /\ t[n + 1] = added BY <1>1, <1>2
  <2>2. \A j \in DOMAIN t : ~(j > n + 1) BY <1>1, <1>2
  <2> QED BY <2>1, <2>2, <1>9 DEF IsNewest
<1> QED BY <1>4, <1>5, <1>6, <1>7, <1>8, <1>9 DEF t

\* The row of a write.
NewRow(source, text, id) == [source |-> source, text |-> text, id |-> id]

\* After the write of a text from a source: what was there and is not replaced is there, and
\* what is new is the row written, with this identifier.
IsWritten(old, new, source, text, id) ==
  /\ RowsOK(new)
  /\ \A k \in DOMAIN new : new[k] = NewRow(source, text, id) \/ \E i \in DOMAIN old : new[k] = old[i]
  /\ \A i \in DOMAIN old : old[i].source # "auto_learn" \/ source # "auto_learn" =>
       \E k \in DOMAIN new : new[k] = old[i]
  /\ \E k \in DOMAIN new : new[k].source = source /\ new[k].text.head = text.head
  /\ \A x : IsNewest(old, x) /\ source # "owner" => IsNewest(new, x)
  /\ source = "owner" /\ (\A i \in DOMAIN old : old[i].source = "owner" => old[i].text.head # text.head) =>
       IsNewest(new, text)

LEMMA WriteIs ==
  ASSUME EmpInv, NEW w \in Staff, NEW text \in AllTexts, Source(w) \in EntrySources, Written(w, text)
  PROVE  IsWritten(entries, entries', Source(w), text, FreshId)
<1> DEFINE drop == duty[w].drop
           tab == Left(entries, drop)
           added == NewRow(Source(w), text, FreshId)
<1>1. RowsOK(entries) /\ \A i \in DOMAIN entries : entries[i].id \in drop => entries[i].source = "auto_learn"
  BY DEF EmpInv, DropsOK
<1>2. /\ RowsOK(tab)
      /\ \A k \in DOMAIN tab : tab[k].id \notin drop /\ \E i \in DOMAIN entries : tab[k] = entries[i]
      /\ \A i \in DOMAIN entries : entries[i].id \notin drop => \E k \in DOMAIN tab : tab[k] = entries[i]
      /\ \A x : IsNewest(entries, x) => IsNewest(tab, x)
  <2> HIDE DEF drop
  <2> QED BY <1>1, LeftIs
<1>3. entries' = IF Clash(drop, Source(w), text) THEN tab ELSE Append(tab, added)
  BY DEF Written, Kept, Left, NewRow
<1>4. added \in EntryRows /\ added.source = Source(w) /\ added.text = text /\ added.id = FreshId
  <2>1. FreshId \in Nat BY RowsAreFinite
  <2> QED BY <2>1 DEF EntryRows, NewRow
<1>5. \A i \in DOMAIN entries : entries[i].id # FreshId
  <2>1. FreshId \notin TakenIds BY RowsAreFinite
  <2> QED BY <2>1 DEF TakenIds
<1>9. Source(w) # "auto_learn" => drop = {} BY DEF EmpInv, DropsOK, Source
<1>6. \A i \in DOMAIN entries : entries[i].source # "auto_learn" \/ Source(w) # "auto_learn" =>
        entries[i].id \notin drop
  BY <1>1, <1>9
<1>7. CASE Clash(drop, Source(w), text)
  <2>1. entries' = tab BY <1>3, <1>7
  <2>2. PICK i \in DOMAIN entries : /\ entries[i].id \notin drop
                                    /\ entries[i].source = Source(w) /\ entries[i].text.head = text.head
    BY <1>7, Zenon DEF Clash
  <2> HIDE DEF drop, tab, added
  <2>3. \E k \in DOMAIN tab : tab[k].source = Source(w) /\ tab[k].text.head = text.head
    <3>1. PICK k \in DOMAIN tab : tab[k] = entries[i] BY <2>2, <1>2
    <3> QED BY <3>1, <2>2, Zenon
  <2>4. \A j \in DOMAIN entries : entries[j].source # "auto_learn" \/ Source(w) # "auto_learn" =>
          \E k \in DOMAIN tab : tab[k] = entries[j]
    BY <1>2, <1>6
  <2>5. Source(w) = "owner" => ~\A j \in DOMAIN entries : entries[j].source = "owner" => entries[j].text.head # text.head
    BY <2>2, Zenon
  <2> QED BY <2>1, <2>3, <2>4, <2>5, <1>2, Zenon DEF IsWritten
<1>8. CASE ~Clash(drop, Source(w), text)
  <2>1. entries' = Append(tab, added) BY <1>3, <1>8
  <2>2. \A i \in DOMAIN entries : entries[i].id \notin drop =>
          entries[i].source # Source(w) \/ entries[i].text.head # text.head
    BY <1>8, Zenon DEF Clash
  <2> HIDE DEF drop, tab
  <2>3. \A k \in DOMAIN tab : tab[k].id # added.id
    <3> HIDE DEF added
    <3> QED BY <1>2, <1>4, <1>5
  <2>4. \A k \in DOMAIN tab : tab[k].source # added.source \/ tab[k].text.head # added.text.head
    <3> HIDE DEF added
    <3> SUFFICES ASSUME NEW k \in DOMAIN tab
                 PROVE  tab[k].source # added.source \/ tab[k].text.head # added.text.head
      OBVIOUS
    <3>1. PICK i \in DOMAIN entries : tab[k] = entries[i] BY <1>2
    <3>2. entries[i].id \notin drop BY <3>1, <1>2
    <3> QED BY <3>1, <3>2, <2>2, <1>4, Zenon
  <2>5. /\ RowsOK(entries')
        /\ \A k \in DOMAIN entries' : entries'[k] = added \/ \E i \in DOMAIN tab : entries'[k] = tab[i]
        /\ \A i \in DOMAIN tab : \E k \in DOMAIN entries' : entries'[k] = tab[i]
        /\ \E k \in DOMAIN entries' : entries'[k] = added
        /\ \A x : IsNewest(tab, x) /\ added.source # "owner" => IsNewest(entries', x)
        /\ added.source = "owner" => IsNewest(entries', added.text)
    <3> HIDE DEF added
    <3> QED BY <2>1, <2>3, <2>4, <1>2, <1>4, AppendIs
  <2>6. \A k \in DOMAIN entries' : entries'[k] = added \/ \E i \in DOMAIN entries : entries'[k] = entries[i]
    <3> HIDE DEF added
    <3> QED BY <2>5, <1>2
  <2>7. \A i \in DOMAIN entries : entries[i].source # "auto_learn" \/ Source(w) # "auto_learn" =>
          \E k \in DOMAIN entries' : entries'[k] = entries[i]
    <3> HIDE DEF added
    <3> QED BY <2>5, <1>2, <1>6
  <2>8. \E k \in DOMAIN entries' : entries'[k].source = Source(w) /\ entries'[k].text.head = text.head
    <3> HIDE DEF added
    <3> QED BY <2>5, <1>4, Zenon
  <2>9. /\ \A x : IsNewest(entries, x) /\ Source(w) # "owner" => IsNewest(entries', x)
        /\ Source(w) = "owner" => IsNewest(entries', text)
    <3> HIDE DEF added
    <3> QED BY <2>5, <1>4, <1>2, Zenon
  <2> QED BY <2>5, <2>6, <2>7, <2>8, <2>9, Zenon DEF IsWritten
<1> QED BY <1>7, <1>8

-----------------------------------------------------------------------------
(* What a step leaves alone. *)

LEMMA SeedsStay ==
  ASSUME NEW tab, NEW tab2, NEW d, NEW d2, NEW f, NEW f2, SeedsOK(tab, d, f),
         \A v \in Staff : d2[v].pc = "seed" => d[v].pc = "seed" /\ d2[v].at = d[v].at,
         f2 = 0 => f = 0 /\ \A v \in Staff : d[v].pc = "seed" => d2[v].pc = "seed",
         \A k \in DOMAIN tab2 : tab2[k].source = "default_seed" => \E i \in DOMAIN tab : tab2[k] = tab[i],
         \A i \in DOMAIN tab : tab[i].source = "default_seed" => \E k \in DOMAIN tab2 : tab2[k] = tab[i]
  PROVE  SeedsOK(tab2, d2, f2)
<1>1. \A text : HasRow(tab, "default_seed", text) => HasRow(tab2, "default_seed", text)
  <2> SUFFICES ASSUME NEW text, HasRow(tab, "default_seed", text) PROVE HasRow(tab2, "default_seed", text)
    OBVIOUS
  <2>1. PICK i \in DOMAIN tab : tab[i].source = "default_seed" /\ tab[i].text = text BY DEF HasRow
  <2>2. PICK k \in DOMAIN tab2 : tab2[k] = tab[i] BY <2>1
  <2> QED BY <2>1, <2>2 DEF HasRow
<1>2. \A k : AllSeeded(tab, k) => AllSeeded(tab2, k) BY <1>1, Zenon DEF AllSeeded
<1>3. \A k \in DOMAIN tab2 : tab2[k].source = "default_seed" => tab2[k].text \in Range(Seeds)
  BY DEF SeedsOK
<1>4. ASSUME f2 = 0
      PROVE  /\ \A w \in Staff : d2[w].pc = "seed" => AllSeeded(tab2, d2[w].at)
             /\ (\E i \in DOMAIN tab2 : tab2[i].source = "default_seed") =>
                  (\E w \in Staff : d2[w].pc = "seed") \/ AllSeeded(tab2, Len(Seeds) + 1)
  <2>1. f = 0 /\ \A v \in Staff : d[v].pc = "seed" => d2[v].pc = "seed" BY <1>4
  <2>2. ASSUME NEW w \in Staff, d2[w].pc = "seed" PROVE AllSeeded(tab2, d2[w].at)
    <3>1. d[w].pc = "seed" /\ d2[w].at = d[w].at BY <2>2
    <3>2. AllSeeded(tab, d[w].at) BY <3>1, <2>1 DEF SeedsOK
    <3> QED BY <3>1, <3>2, <1>2
  <2>3. ASSUME NEW k \in DOMAIN tab2, tab2[k].source = "default_seed"
        PROVE  (\E w \in Staff : d2[w].pc = "seed") \/ AllSeeded(tab2, Len(Seeds) + 1)
    <3>1. \E i \in DOMAIN tab : tab[i].source = "default_seed" BY <2>3
    <3>2. (\E w \in Staff : d[w].pc = "seed") \/ AllSeeded(tab, Len(Seeds) + 1)
      BY <3>1, <2>1, Zenon DEF SeedsOK
    <3> QED BY <3>2, <2>1, <1>2, Zenon
  <2> QED BY <2>2, <2>3
<1>5. \A w \in Staff : d2[w].pc = "seed" => d2[w].at \in DOMAIN Seeds BY DEF SeedsOK
<1> QED BY <1>3, <1>4, <1>5, Zenon DEF SeedsOK

LEMMA OwnerStays ==
  ASSUME NEW tab, NEW tab2, NEW d, NEW d2, NEW f, NEW f2, NEW list, NEW cross,
         OwnerOK(tab, list, d, f, cross),
         \A v \in Staff : d2[v].pc = "owner" => d[v].pc = "owner" /\ d2[v].text = d[v].text,
         f2 = 0 => f = 0 /\ \A v \in Staff : d[v].pc = "owner" => d2[v].pc = "owner",
         \A k \in DOMAIN tab2 : tab2[k].source = "owner" => \E i \in DOMAIN tab : tab2[k] = tab[i],
         \A x : IsNewest(tab, x) => IsNewest(tab2, x)
  PROVE  OwnerOK(tab2, list, d2, f2, cross)
<1>1. \A T : OwnerTextsIn(tab, T) => OwnerTextsIn(tab2, T)
  <2> SUFFICES ASSUME NEW T, OwnerTextsIn(tab, T), NEW k \in DOMAIN tab2, tab2[k].source = "owner"
               PROVE  tab2[k].text \in T
    BY DEF OwnerTextsIn
  <2>1. PICK i \in DOMAIN tab : tab2[k] = tab[i] OBVIOUS
  <2> QED BY <2>1 DEF OwnerTextsIn
<1>3. ASSUME ~cross
      PROVE  /\ OwnerTextsIn(tab2, Range(list))
             /\ \A v, w \in Staff : d2[v].pc = "owner" /\ d2[w].pc = "owner" => v = w
             /\ \A w \in Staff : d2[w].pc = "owner" =>
                  list # <<>> /\ d2[w].text = list[Len(list)] /\ OwnerTextsIn(tab2, Earlier(list))
             /\ (list # <<>> /\ f2 = 0 /\ NewHead(list) /\ \A w \in Staff : d2[w].pc # "owner") =>
                  IsNewest(tab2, list[Len(list)])
  <2>4. OwnerTextsIn(tab2, Range(list)) BY <1>1, <1>3, Zenon DEF OwnerOK
  <2>1. \A v, w \in Staff : d2[v].pc = "owner" /\ d2[w].pc = "owner" => v = w
    BY <1>3, Zenon DEF OwnerOK
  <2>2. ASSUME NEW w \in Staff, d2[w].pc = "owner"
        PROVE  list # <<>> /\ d2[w].text = list[Len(list)] /\ OwnerTextsIn(tab2, Earlier(list))
    <3>1. d[w].pc = "owner" /\ d2[w].text = d[w].text BY <2>2
    <3>2. list # <<>> /\ d[w].text = list[Len(list)] /\ OwnerTextsIn(tab, Earlier(list))
      BY <3>1, <1>3, Zenon DEF OwnerOK
    <3> QED BY <3>1, <3>2, <1>1, Zenon
  <2>3. ASSUME list # <<>>, f2 = 0, NewHead(list), \A w \in Staff : d2[w].pc # "owner"
        PROVE  IsNewest(tab2, list[Len(list)])
    <3>1. f = 0 /\ \A w \in Staff : d[w].pc # "owner" BY <2>3
    <3>2. IsNewest(tab, list[Len(list)]) BY <3>1, <2>3, <1>3, Zenon DEF OwnerOK
    <3> QED BY <3>2
  <2> QED BY <2>1, <2>2, <2>3, <2>4, Zenon
<1> QED BY <1>3, Zenon DEF OwnerOK

\* A row more, or rows less, and no more to delete.
LEMMA DropsStay ==
  ASSUME EmpInv, NEW d, NEW source, NEW text, NEW tab,
         \A v \in Staff : d[v].drop \subseteq duty[v].drop,
         \A v \in Staff : d[v].pc # "learn" => d[v].drop = {},
         tab = entries \/ IsWritten(entries, tab, source, text, FreshId)
  PROVE  DropsOK(tab, d) /\ \E n \in Nat : IdsBelow(tab, d, n)
<1> DEFINE new == NewRow(source, text, FreshId)
<1>1. PICK n \in Nat : IdsBelow(entries, duty, n) BY DEF EmpInv
<1>2. FreshId \in Nat /\ FreshId \notin TakenIds BY RowsAreFinite
<1>3. \A v \in Staff : FreshId \notin duty[v].drop BY <1>2 DEF TakenIds
<1>4. \A k \in DOMAIN tab : tab[k] = new \/ \E i \in DOMAIN entries : tab[k] = entries[i]
  <2> HIDE DEF new
  <2>1. CASE tab = entries BY <2>1
  <2>2. CASE IsWritten(entries, tab, source, text, FreshId) BY <2>2, Zenon DEF IsWritten, new
  <2> QED BY <2>1, <2>2
<1>5. new.id = FreshId BY DEF NewRow
<1> HIDE DEF new
<1>6. DropsOK(tab, d)
  <2> SUFFICES ASSUME NEW v \in Staff, NEW k \in DOMAIN tab, tab[k].id \in d[v].drop
               PROVE  tab[k].source = "auto_learn"
    BY DEF DropsOK
  <2>1. tab[k].id \in duty[v].drop OBVIOUS
  <2>2. tab[k] # new BY <2>1, <1>3, <1>5
  <2>3. PICK i \in DOMAIN entries : tab[k] = entries[i] BY <2>2, <1>4
  <2> QED BY <2>1, <2>3 DEF EmpInv, DropsOK
<1> DEFINE m == n + FreshId
<1>7. m \in Nat /\ 0..n \subseteq 0..m /\ FreshId \in 0..m BY <1>2
<1> HIDE DEF m
<1>8. \A k \in DOMAIN tab : tab[k].id \in 0..m
  <2> SUFFICES ASSUME NEW k \in DOMAIN tab PROVE tab[k].id \in 0..m OBVIOUS
  <2>1. CASE tab[k] = new BY <2>1, <1>5, <1>7
  <2>2. CASE \E i \in DOMAIN entries : tab[k] = entries[i]
    <3>1. PICK i \in DOMAIN entries : tab[k] = entries[i] BY <2>2
    <3>2. entries[i].id \in 0..n BY <1>1, Zenon DEF IdsBelow
    <3> QED BY <3>1, <3>2, <1>7
  <2> QED BY <2>1, <2>2, <1>4
<1>9. \A v \in Staff : d[v].drop \subseteq 0..m
  <2> SUFFICES ASSUME NEW v \in Staff PROVE d[v].drop \subseteq 0..m OBVIOUS
  <2>1. duty[v].drop \subseteq 0..n BY <1>1, Zenon DEF IdsBelow
  <2> QED BY <2>1, <1>7
<1> QED BY <1>6, <1>7, <1>8, <1>9 DEF IdsBelow

\* The same of a step that leaves the table alone.
SeedersStay(d, d2, f, f2) ==
  /\ \A v \in Staff : d2[v].pc = "seed" => d[v].pc = "seed" /\ d2[v].at = d[v].at
  /\ f2 = 0 => f = 0 /\ \A v \in Staff : d[v].pc = "seed" => d2[v].pc = "seed"

LEMMA SeedsStayPut ==
  ASSUME NEW tab, NEW d, NEW d2, NEW f, NEW f2, SeedsOK(tab, d, f), SeedersStay(d, d2, f, f2)
  PROVE  SeedsOK(tab, d2, f2)
<1>2. /\ \A v \in Staff : d2[v].pc = "seed" => d[v].pc = "seed" /\ d2[v].at = d[v].at
      /\ f2 = 0 => f = 0 /\ \A v \in Staff : d[v].pc = "seed" => d2[v].pc = "seed"
  BY DEF SeedersStay
<1>1. \A k \in DOMAIN tab : tab[k].source = "default_seed" => \E i \in DOMAIN tab : tab[k] = tab[i]
  OBVIOUS
<1> QED BY <1>1, <1>2, SeedsStay

LEMMA OwnerStaysPut ==
  ASSUME NEW tab, NEW d, NEW d2, NEW f, NEW f2, NEW list, NEW cross,
         OwnerOK(tab, list, d, f, cross),
         \A v \in Staff : d2[v].pc = "owner" => d[v].pc = "owner" /\ d2[v].text = d[v].text,
         f2 = 0 => f = 0 /\ \A v \in Staff : d[v].pc = "owner" => d2[v].pc = "owner"
  PROVE  OwnerOK(tab, list, d2, f2, cross)
<1>1. \A k \in DOMAIN tab : tab[k].source = "owner" => \E i \in DOMAIN tab : tab[k] = tab[i]
  OBVIOUS
<1> QED BY <1>1, OwnerStays

-----------------------------------------------------------------------------
(* The steps that write nothing. *)

LEMMA EmpInitOK == EmpInit => EmpInv
<1> SUFFICES ASSUME EmpInit PROVE EmpInv OBVIOUS
<1>1. /\ entries = <<>> /\ told = <<>> /\ profileText = NoText /\ learned = FALSE /\ crossed = FALSE
      /\ duty = [w \in Staff |-> AtRest] /\ learnFaults = 0
  BY DEF EmpInit
<1>2. AtRest \in Duties BY DEF AtRest, Duties, AllTexts
<1>3. AtRest.pc = "idle" /\ AtRest.drop = {} BY DEF AtRest
<1> HIDE DEF AtRest
<1>4. /\ duty \in [Staff -> Duties] /\ told \in Seq(Instructions) /\ profileText \in Given
      /\ learnFaults \in Nat
  BY <1>1, <1>2 DEF Given
<1>5. RowsOK(entries) BY <1>1 DEF RowsOK
<1>6. DropsOK(entries, duty) BY <1>1, <1>3 DEF DropsOK
<1>7. IdsBelow(entries, duty, 0) BY <1>1, <1>3 DEF IdsBelow
<1>8. SeedsOK(entries, duty, learnFaults) BY <1>1, <1>3 DEF SeedsOK
<1>9. OwnerOK(entries, told, duty, learnFaults, crossed)
  BY <1>1, <1>3 DEF OwnerOK, OwnerTextsIn
<1> QED BY <1>1, <1>4, <1>5, <1>6, <1>7, <1>8, <1>9 DEF EmpInv

\* The table stays and so do the seeders, the writers of an instruction and the rewrites.
LEMMA Quiet ==
  ASSUME EmpInv, NEW w \in Staff, NEW x \in Duties, NEW d, d = [duty EXCEPT ![w] = x], NEW f,
         x.drop = {}, x.pc \notin {"seed", "owner"},
         duty[w].pc \notin {"seed", "owner"} \/ f # 0,
         f = learnFaults \/ f # 0
  PROVE  /\ d \in [Staff -> Duties]
         /\ DropsOK(entries, d) /\ \E n \in Nat : IdsBelow(entries, d, n)
         /\ SeedsOK(entries, d, f)
         /\ OwnerOK(entries, told, d, f, crossed)
<1>1. /\ d \in [Staff -> Duties] /\ d[w] = x
      /\ \A v \in Staff : v # w => d[v] = duty[v]
  BY DEF EmpInv
<1>2. DropsOK(entries, d) /\ \E n \in Nat : IdsBelow(entries, d, n)
  <2>1. \A v \in Staff : d[v].drop \subseteq duty[v].drop BY <1>1
  <2>2. \A v \in Staff : d[v].pc # "learn" => d[v].drop = {} BY <1>1 DEF EmpInv, DropsOK
  <2> QED BY <2>1, <2>2, DropsStay
<1>3. \A v \in Staff : d[v].pc \in {"seed", "owner"} => d[v] = duty[v] BY <1>1
<1>4. f = 0 => learnFaults = 0 /\ \A v \in Staff : duty[v].pc \in {"seed", "owner"} => d[v] = duty[v]
  BY <1>1
<1>5. SeedsOK(entries, d, f)
  <2>1. SeedsOK(entries, duty, learnFaults) BY DEF EmpInv
  <2>2. \A v \in Staff : d[v].pc = "seed" => duty[v].pc = "seed" /\ d[v].at = duty[v].at BY <1>3
  <2>3. f = 0 => learnFaults = 0 /\ \A v \in Staff : duty[v].pc = "seed" => d[v].pc = "seed"
    BY <1>4
  <2>4. SeedersStay(duty, d, learnFaults, f) BY <2>2, <2>3, Zenon DEF SeedersStay
  <2> QED BY <2>1, <2>4, SeedsStayPut
<1>6. OwnerOK(entries, told, d, f, crossed)
  <2>1. OwnerOK(entries, told, duty, learnFaults, crossed) BY DEF EmpInv
  <2>2. \A v \in Staff : d[v].pc = "owner" => duty[v].pc = "owner" /\ d[v].text = duty[v].text BY <1>3
  <2>3. f = 0 => learnFaults = 0 /\ \A v \in Staff : duty[v].pc = "owner" => d[v].pc = "owner"
    BY <1>4
  <2> QED BY <2>1, <2>2, <2>3, OwnerStaysPut
<1> QED BY <1>1, <1>2, <1>5, <1>6

LEMMA QuietOK ==
  ASSUME EmpInv, NEW w \in Staff, NEW x \in Duties, duty' = [duty EXCEPT ![w] = x],
         x.drop = {}, x.pc \notin {"seed", "owner"},
         duty[w].pc \notin {"seed", "owner"} \/ learnFaults' # 0,
         learnFaults' = learnFaults \/ learnFaults' \in Nat \ {0},
         UNCHANGED <<entries, told, profileText, learned, crossed>>
  PROVE  EmpInv'
<1> DEFINE d == duty'
           f == learnFaults'
<1>1. f \in Nat /\ (f = learnFaults \/ f # 0) /\ (duty[w].pc \notin {"seed", "owner"} \/ f # 0) BY DEF EmpInv
<1>2. d = [duty EXCEPT ![w] = x] OBVIOUS
<1>3. /\ entries' = entries /\ told' = told /\ profileText' = profileText /\ learned' = learned
      /\ crossed' = crossed /\ learnFaults' = f /\ duty' = d
  OBVIOUS
<1> HIDE DEF d, f
<1>4. /\ d \in [Staff -> Duties]
      /\ DropsOK(entries, d) /\ \E n \in Nat : IdsBelow(entries, d, n)
      /\ SeedsOK(entries, d, f)
      /\ OwnerOK(entries, told, d, f, crossed)
  BY <1>1, <1>2, Quiet, Zenon
<1>5. /\ RowsOK(entries) /\ told \in Seq(Instructions) /\ profileText \in Given
      /\ (learned => HasSource(entries, "auto_learn"))
  BY DEF EmpInv
<1>6. RowsOK(entries') /\ told' \in Seq(Instructions) /\ profileText' \in Given /\ learnFaults' \in Nat
  BY <1>1, <1>3, <1>5
<1>7. duty' \in [Staff -> Duties] /\ DropsOK(entries', duty') /\ \E n \in Nat : IdsBelow(entries', duty', n)
  BY <1>3, <1>4
<1>8. SeedsOK(entries', duty', learnFaults') /\ OwnerOK(entries', told', duty', learnFaults', crossed')
  BY <1>3, <1>4
<1>9. learned' => HasSource(entries', "auto_learn") BY <1>3, <1>5
<1> QED BY <1>6, <1>7, <1>8, <1>9, Zenon DEF EmpInv

LEMMA AtRestIs ==
  AtRest \in Duties /\ AtRest.pc = "idle" /\ AtRest.drop = {}
BY DEF AtRest, Duties, AllTexts

\* What a worker turns to.
SeedsFirst == [AtRest EXCEPT !.pc = "seed", !.at = 1]
Gathers == [AtRest EXCEPT !.pc = "gather"]
Tells(t) == [AtRest EXCEPT !.pc = "owner", !.text = t]
Rewrites(t) == [AtRest EXCEPT !.pc = "delete", !.text = t]

LEMMA SeedsFirstIs == SeedsFirst \in Duties /\ SeedsFirst.pc = "seed" /\ SeedsFirst.at = 1 /\ SeedsFirst.drop = {}
BY AtRestIs DEF SeedsFirst, Duties

LEMMA GathersIs == Gathers \in Duties /\ Gathers.pc = "gather" /\ Gathers.drop = {}
BY AtRestIs DEF Gathers, Duties

LEMMA TellsIs ==
  ASSUME NEW t \in AllTexts
  PROVE  Tells(t) \in Duties /\ Tells(t).pc = "owner" /\ Tells(t).text = t /\ Tells(t).drop = {}
BY AtRestIs DEF Tells, Duties

LEMMA RewritesIs ==
  ASSUME NEW t \in AllTexts
  PROVE  Rewrites(t) \in Duties /\ Rewrites(t).pc = "delete" /\ Rewrites(t).drop = {}
BY AtRestIs DEF Rewrites, Duties

LEMMA SeedCheckOK ==
  ASSUME EmpInv, NEW w \in Staff, SeedCheck(w)
  PROVE  EmpInv'
<1> DEFINE x == SeedsFirst
<1>1. /\ entries' = entries /\ told' = told /\ profileText' = profileText /\ learned' = learned
      /\ crossed' = crossed /\ learnFaults' = learnFaults /\ duty[w].pc = "idle"
  BY DEF SeedCheck
<1>2. CASE \E i \in DOMAIN entries : entries[i].source = "default_seed"
  <2>1. duty' = duty BY <1>2 DEF SeedCheck
  <2> QED BY <1>1, <2>1 DEF EmpInv
<1>3. CASE ~\E i \in DOMAIN entries : entries[i].source = "default_seed"
  <2>1. duty' = [duty EXCEPT ![w] = x] BY <1>3 DEF SeedCheck, SeedsFirst
  <2>2. x \in Duties /\ x.pc = "seed" /\ x.at = 1 /\ x.drop = {} BY SeedsFirstIs
  <2> HIDE DEF x
  <2>3. /\ duty' \in [Staff -> Duties] /\ duty'[w] = x
        /\ \A v \in Staff : v # w => duty'[v] = duty[v]
    BY <2>1, <2>2 DEF EmpInv
  <2>4. DropsOK(entries, duty') /\ \E n \in Nat : IdsBelow(entries, duty', n)
    <3>1. \A v \in Staff : duty'[v].drop \subseteq duty[v].drop BY <2>2, <2>3
    <3>2. \A v \in Staff : duty'[v].pc # "learn" => duty'[v].drop = {} BY <2>2, <2>3 DEF EmpInv, DropsOK
    <3> QED BY <3>1, <3>2, DropsStay
  <2>5. 1 \in DOMAIN Seeds /\ DOMAIN Seeds \subseteq Nat \ {0} BY EmployeeAssumption
  <2>6. SeedsOK(entries, duty', learnFaults)
    <3>1. SeedsOK(entries, duty, learnFaults) BY DEF EmpInv
    <3>2. AllSeeded(entries, 1)
      <4>1. \A i \in DOMAIN Seeds : ~(i < 1) BY <2>5
      <4> QED BY <4>1, Zenon DEF AllSeeded
    <3>3. \A v \in Staff : duty'[v].pc = "seed" => duty'[v].at \in DOMAIN Seeds
      BY <3>1, <2>2, <2>3, <2>5 DEF SeedsOK
    <3>4. ASSUME learnFaults = 0, NEW v \in Staff, duty'[v].pc = "seed" PROVE AllSeeded(entries, duty'[v].at)
      <4>1. CASE v = w BY <4>1, <2>2, <2>3, <3>2, Zenon
      <4>2. CASE v # w BY <4>2, <2>3, <3>1, <3>4, Zenon DEF SeedsOK
      <4> QED BY <4>1, <4>2
    <3> QED BY <3>1, <3>3, <3>4, <1>3, Zenon DEF SeedsOK
  <2>7. OwnerOK(entries, told, duty', learnFaults, crossed)
    <3>1. OwnerOK(entries, told, duty, learnFaults, crossed) BY DEF EmpInv
    <3>2. \A v \in Staff : duty'[v].pc = "owner" => duty[v].pc = "owner" /\ duty'[v].text = duty[v].text
      BY <2>2, <2>3
    <3>3. learnFaults = 0 => learnFaults = 0 /\ \A v \in Staff : duty[v].pc = "owner" => duty'[v].pc = "owner"
      BY <2>2, <2>3, <1>1
    <3> QED BY <3>1, <3>2, <3>3, OwnerStaysPut
  <2> QED BY <1>1, <2>3, <2>4, <2>6, <2>7 DEF EmpInv
<1> QED BY <1>2, <1>3

LEMMA TriggerAutoLearnOK ==
  ASSUME EmpInv, NEW w \in Staff, TriggerAutoLearn(w)
  PROVE  EmpInv'
<1> DEFINE x == Gathers
<1>1. duty' = [duty EXCEPT ![w] = x] BY DEF TriggerAutoLearn, Gathers
<1>2. x \in Duties /\ x.drop = {} /\ x.pc = "gather" BY GathersIs
<1> HIDE DEF x
<1>3. duty[w].pc = "idle" /\ learnFaults' = learnFaults /\ UNCHANGED <<entries, told, profileText, learned, crossed>>
  BY DEF TriggerAutoLearn
<1> QED BY <1>1, <1>2, <1>3, QuietOK

LEMMA GatherOK ==
  ASSUME EmpInv, NEW w \in Staff, Gather(w)
  PROVE  EmpInv'
<1>1. PICK h \in {"profile", profileText.head} :
        duty' = [duty EXCEPT ![w] = [AtRest EXCEPT !.pc = "delete", !.text = [profileText EXCEPT !.head = h]]]
  BY DEF Gather
<1> DEFINE t == WithHead(profileText, h)
           x == Rewrites(t)
<1>2. t \in AllTexts BY DEF EmpInv, AllTexts
<1>3. duty' = [duty EXCEPT ![w] = x] BY <1>1 DEF WithHead, Rewrites
<1>4. x \in Duties /\ x.drop = {} /\ x.pc = "delete" BY <1>2, RewritesIs
<1> HIDE DEF x, t
<1>5. duty[w].pc = "gather" /\ learnFaults' = learnFaults /\ UNCHANGED <<entries, told, profileText, learned, crossed>>
  BY DEF Gather
<1> QED BY <1>3, <1>4, <1>5, QuietOK

LEMMA StaffDiesOK ==
  ASSUME EmpInv, NEW w \in Staff, StaffDies(w)
  PROVE  EmpInv'
<1>1. duty' = [duty EXCEPT ![w] = AtRest] /\ AtRest \in Duties BY AtRestIs DEF StaffDies
<1>2. AtRest.drop = {} /\ AtRest.pc = "idle" BY AtRestIs
<1>3. learnFaults' \in Nat \ {0} /\ UNCHANGED <<entries, told, profileText, learned, crossed>>
  BY DEF StaffDies, EmpInv
<1> QED BY <1>1, <1>2, <1>3, QuietOK

LEMMA ForceDeleteOK ==
  ASSUME EmpInv, NEW w \in Staff, ForceDelete(w)
  PROVE  EmpInv'
<1> DEFINE x == [duty[w] EXCEPT !.pc = "learn", !.drop = OfProfile]
<1>1. /\ entries' = entries /\ told' = told /\ profileText' = profileText /\ learned' = learned
      /\ crossed' = crossed /\ learnFaults' = learnFaults /\ duty[w].pc = "delete"
  BY DEF ForceDelete
<1>2. duty' = [duty EXCEPT ![w] = x] BY DEF ForceDelete, EmpInv
<1>3. duty[w] \in Duties BY DEF EmpInv
<1>4. OfProfile \subseteq Nat
  <2>1. entries \in Seq(EntryRows) BY DEF EmpInv, RowsOK
  <2>2. \A i \in DOMAIN entries : entries[i] \in EntryRows BY <2>1
  <2>3. \A i \in DOMAIN entries : entries[i].id \in Nat BY <2>2 DEF EntryRows
  <2> QED BY <2>3 DEF OfProfile
<1>5. x \in Duties /\ x.pc = "learn" /\ x.drop = OfProfile BY <1>3, <1>4 DEF Duties
<1> HIDE DEF x
<1>6. /\ duty' \in [Staff -> Duties] /\ duty'[w] = x
      /\ \A v \in Staff : v # w => duty'[v] = duty[v]
  BY <1>2, <1>5 DEF EmpInv
<1>7. DropsOK(entries, duty')
  <2>1. \A v \in Staff : duty'[v].pc # "learn" => duty'[v].drop = {} BY <1>5, <1>6 DEF EmpInv, DropsOK
  <2>2. ASSUME NEW v \in Staff, NEW i \in DOMAIN entries, entries[i].id \in duty'[v].drop
        PROVE  entries[i].source = "auto_learn"
    <3>1. CASE v = w
      <4>1. entries[i].id \in OfProfile BY <2>2, <3>1, <1>5, <1>6
      <4>2. PICK j \in DOMAIN entries : entries[j].source = "auto_learn" /\ entries[j].id = entries[i].id
        BY <4>1 DEF OfProfile
      <4>3. i = j BY <4>2 DEF EmpInv, RowsOK
      <4> QED BY <4>2, <4>3
    <3>2. CASE v # w BY <2>2, <3>2, <1>6 DEF EmpInv, DropsOK
    <3> QED BY <3>1, <3>2
  <2> QED BY <2>1, <2>2 DEF DropsOK
<1>8. \E n \in Nat : IdsBelow(entries, duty', n)
  <2>1. PICK n \in Nat : IdsBelow(entries, duty, n) BY DEF EmpInv
  <2>2. OfProfile \subseteq 0..n BY <2>1 DEF IdsBelow, OfProfile
  <2>3. IdsBelow(entries, duty', n) BY <2>1, <2>2, <1>5, <1>6 DEF IdsBelow
  <2> QED BY <2>3
<1>9. SeedsOK(entries, duty', learnFaults)
  <2>1. SeedsOK(entries, duty, learnFaults) BY DEF EmpInv
  <2>2. \A v \in Staff : duty'[v].pc = "seed" => duty[v].pc = "seed" /\ duty'[v].at = duty[v].at BY <1>5, <1>6
  <2>3. learnFaults = 0 => learnFaults = 0 /\ \A v \in Staff : duty[v].pc = "seed" => duty'[v].pc = "seed"
    BY <1>1, <1>6
  <2>4. SeedersStay(duty, duty', learnFaults, learnFaults) BY <2>2, <2>3, Zenon DEF SeedersStay
  <2> QED BY <2>1, <2>4, SeedsStayPut
<1>10. OwnerOK(entries, told, duty', learnFaults, crossed)
  <2>1. OwnerOK(entries, told, duty, learnFaults, crossed) BY DEF EmpInv
  <2>2. \A v \in Staff : duty'[v].pc = "owner" => duty[v].pc = "owner" /\ duty'[v].text = duty[v].text
    BY <1>5, <1>6
  <2>3. learnFaults = 0 => learnFaults = 0 /\ \A v \in Staff : duty[v].pc = "owner" => duty'[v].pc = "owner"
    BY <1>1, <1>6
  <2> QED BY <2>1, <2>2, <2>3, OwnerStaysPut
<1> QED BY <1>1, <1>6, <1>7, <1>8, <1>9, <1>10 DEF EmpInv

-----------------------------------------------------------------------------
(* The steps that write. *)

LEMMA UpdateProfileOK ==
  ASSUME EmpInv, NEW w \in Staff, UpdateProfile(w)
  PROVE  EmpInv'
<1>1. PICK t \in Instructions :
        /\ told' = Append(told, t) /\ profileText' = t
        /\ crossed' = (crossed \/ \E v \in Staff : duty[v].pc = "owner")
        /\ duty' = [duty EXCEPT ![w] = [AtRest EXCEPT !.pc = "owner", !.text = t]]
  BY DEF UpdateProfile
<1> DEFINE x == Tells(t)
           list == Append(told, t)
<1>2. /\ entries' = entries /\ learned' = learned /\ learnFaults' = learnFaults /\ duty[w].pc = "idle"
  BY DEF UpdateProfile
<1>3. duty' = [duty EXCEPT ![w] = x] BY <1>1 DEF Tells
<1>4. x \in Duties /\ x.pc = "owner" /\ x.text = t /\ x.drop = {}
  <2>1. t \in AllTexts BY DEF AllTexts, Given
  <2> QED BY <2>1, TellsIs
<1> HIDE DEF x
<1>5. duty' \in [Staff -> Duties] /\ duty'[w] = x /\ \A v \in Staff : v # w => duty'[v] = duty[v]
  BY <1>3, <1>4 DEF EmpInv
<1>6. DropsOK(entries, duty') /\ \E n \in Nat : IdsBelow(entries, duty', n)
  <2>1. \A v \in Staff : duty'[v].drop \subseteq duty[v].drop BY <1>4, <1>5
  <2>2. \A v \in Staff : duty'[v].pc # "learn" => duty'[v].drop = {} BY <1>4, <1>5 DEF EmpInv, DropsOK
  <2> QED BY <2>1, <2>2, DropsStay
<1>7. SeedsOK(entries, duty', learnFaults)
  <2>1. SeedsOK(entries, duty, learnFaults) BY DEF EmpInv
  <2>2. SeedersStay(duty, duty', learnFaults, learnFaults) BY <1>2, <1>4, <1>5 DEF SeedersStay
  <2> QED BY <2>1, <2>2, SeedsStayPut
<1>8. /\ list \in Seq(Instructions) /\ list # <<>> /\ list[Len(list)] = t
      /\ Range(told) \subseteq Earlier(list) /\ Earlier(list) \subseteq Range(list)
  <2>1. told \in Seq(Instructions) BY DEF EmpInv
  <2>2. list \in Seq(Instructions) /\ Len(list) = Len(told) + 1 /\ list[Len(list)] = t BY <2>1
  <2>3. \A i \in 1..Len(told) : list[i] = told[i] BY <2>1
  <2>4. Len(told) \in Nat /\ DOMAIN told = 1..Len(told) /\ DOMAIN list = 1..(Len(told) + 1) BY <2>1, <2>2
  <2> HIDE DEF list
  <2>5. Len(list) - 1 = Len(told) BY <2>2, <2>4
  <2>6. Range(told) \subseteq Earlier(list) BY <2>3, <2>4, <2>5 DEF Range, Earlier
  <2>7. Earlier(list) \subseteq Range(list) BY <2>4, <2>5 DEF Range, Earlier
  <2>8. list # <<>> BY <2>2, <2>4
  <2> QED BY <2>2, <2>6, <2>7, <2>8
<1>9. OwnerOK(entries, list, duty', learnFaults, crossed')
  <2> HIDE DEF list
  <2>2. ASSUME ~crossed' PROVE OwnerTextsIn(entries, Earlier(list)) /\ OwnerTextsIn(entries, Range(list))
    <3>1. ~crossed BY <2>2, <1>1
    <3>2. OwnerTextsIn(entries, Range(told)) BY <3>1, Zenon DEF EmpInv, OwnerOK
    <3> QED BY <3>2, <1>8 DEF OwnerTextsIn
  <2>3. ASSUME ~crossed' PROVE \A v \in Staff : duty'[v].pc = "owner" => v = w
    <3>1. \A v \in Staff : duty[v].pc # "owner" BY <2>3, <1>1
    <3> QED BY <3>1, <1>5
  <2>4. ASSUME ~crossed'
        PROVE  /\ OwnerTextsIn(entries, Range(list))
               /\ \A u, v \in Staff : duty'[u].pc = "owner" /\ duty'[v].pc = "owner" => u = v
               /\ \A v \in Staff : duty'[v].pc = "owner" =>
                    list # <<>> /\ duty'[v].text = list[Len(list)] /\ OwnerTextsIn(entries, Earlier(list))
               /\ ~\A v \in Staff : duty'[v].pc # "owner"
    <3>1. \A v \in Staff : duty'[v].pc = "owner" => v = w BY <2>3, <2>4
    <3>2. duty'[w].pc = "owner" /\ duty'[w].text = t BY <1>4, <1>5
    <3> QED BY <3>1, <3>2, <2>2, <2>4, <1>8, Zenon
  <2> QED BY <2>4, Zenon DEF OwnerOK
<1>10. /\ RowsOK(entries) /\ learnFaults \in Nat /\ (learned => HasSource(entries, "auto_learn"))
  BY DEF EmpInv
<1>11. t \in Given BY DEF Given
<1> HIDE DEF list
<1>12. told' = list BY <1>1 DEF list
<1>13. /\ RowsOK(entries') /\ told' \in Seq(Instructions) /\ profileText' \in Given /\ learnFaults' \in Nat
       /\ duty' \in [Staff -> Duties]
  BY <1>1, <1>2, <1>5, <1>8, <1>10, <1>11, <1>12
<1>14. DropsOK(entries', duty') /\ \E n \in Nat : IdsBelow(entries', duty', n) BY <1>2, <1>6
<1>15. SeedsOK(entries', duty', learnFaults') /\ OwnerOK(entries', told', duty', learnFaults', crossed')
  BY <1>2, <1>7, <1>9, <1>12
<1>16. learned' => HasSource(entries', "auto_learn") BY <1>2, <1>10
<1> QED BY <1>13, <1>14, <1>15, <1>16, Zenon DEF EmpInv

\* What a write of another source leaves of the rows of one.
LEMMA WriteKeeps ==
  ASSUME EmpInv, NEW tab, NEW source, NEW text, IsWritten(entries, tab, source, text, FreshId)
  PROVE  /\ \A s : s # source =>
              \A k \in DOMAIN tab : tab[k].source = s => \E i \in DOMAIN entries : tab[k] = entries[i]
         /\ \A s : s # "auto_learn" \/ source # "auto_learn" =>
              \A i \in DOMAIN entries : entries[i].source = s => \E k \in DOMAIN tab : tab[k] = entries[i]
         /\ \A T : text \in T /\ OwnerTextsIn(entries, T) => OwnerTextsIn(tab, T)
         /\ learned \/ source = "auto_learn" => HasSource(tab, "auto_learn")
<1> DEFINE added == NewRow(source, text, FreshId)
<1>1. added.source = source /\ added.text = text BY DEF NewRow
<1>2. \A k \in DOMAIN tab : tab[k] = added \/ \E i \in DOMAIN entries : tab[k] = entries[i]
  BY Zenon DEF IsWritten
<1> HIDE DEF added
<1>3. \A i \in DOMAIN entries : entries[i].source # "auto_learn" \/ source # "auto_learn" =>
        \E k \in DOMAIN tab : tab[k] = entries[i]
  BY Zenon DEF IsWritten
<1>4. \A s : s # source =>
        \A k \in DOMAIN tab : tab[k].source = s => \E i \in DOMAIN entries : tab[k] = entries[i]
  BY <1>1, <1>2
<1>5. \A s : s # "auto_learn" \/ source # "auto_learn" =>
        \A i \in DOMAIN entries : entries[i].source = s => \E k \in DOMAIN tab : tab[k] = entries[i]
  BY <1>3
<1>6. ASSUME NEW T, text \in T, OwnerTextsIn(entries, T) PROVE OwnerTextsIn(tab, T)
  <2> SUFFICES ASSUME NEW k \in DOMAIN tab, tab[k].source = "owner" PROVE tab[k].text \in T
    BY DEF OwnerTextsIn
  <2>1. CASE tab[k] = added BY <2>1, <1>1, <1>6
  <2>2. CASE \E i \in DOMAIN entries : tab[k] = entries[i]
    <3>1. PICK i \in DOMAIN entries : tab[k] = entries[i] BY <2>2
    <3> QED BY <3>1, <1>6 DEF OwnerTextsIn
  <2> QED BY <2>1, <2>2, <1>2
<1>7. ASSUME source = "auto_learn" PROVE HasSource(tab, "auto_learn")
  <2>1. \E k \in DOMAIN tab : tab[k].source = source BY Zenon DEF IsWritten
  <2> QED BY <2>1, <1>7 DEF HasSource
<1>8. ASSUME source # "auto_learn", learned PROVE HasSource(tab, "auto_learn")
  <2>1. HasSource(entries, "auto_learn") BY <1>8 DEF EmpInv
  <2>2. PICK i \in DOMAIN entries : entries[i].source = "auto_learn" BY <2>1 DEF HasSource
  <2>3. PICK k \in DOMAIN tab : tab[k] = entries[i] BY <1>8, <1>3
  <2> QED BY <2>2, <2>3 DEF HasSource
<1> QED BY <1>4, <1>5, <1>6, <1>7, <1>8, Zenon

LEMMA OwnerWriteOK ==
  ASSUME EmpInv, NEW w \in Staff, OwnerWrite(w)
  PROVE  EmpInv'
<1> DEFINE x == Gathers
           t == duty[w].text
<1>1. /\ duty[w].pc = "owner" /\ told' = told /\ profileText' = profileText /\ learned' = learned
      /\ crossed' = crossed /\ duty' = [duty EXCEPT ![w] = x]
  BY DEF OwnerWrite, Gathers
<1>2. x \in Duties /\ x.pc = "gather" /\ x.drop = {} BY GathersIs
<1> HIDE DEF x
<1>3. CASE NotWritten
  <2>1. entries' = entries /\ learnFaults' \in Nat \ {0} BY <1>3 DEF NotWritten, EmpInv
  <2> QED BY <2>1, <1>1, <1>2, QuietOK
<1>4. CASE Written(w, t) /\ learnFaults' = learnFaults
  <2> DEFINE tab == entries'
  <2>1. Source(w) = "owner" BY <1>1 DEF Source
  <2>2. t \in AllTexts BY DEF EmpInv, Duties
  <2>3. IsWritten(entries, tab, "owner", t, FreshId)
    <3>1. "owner" \in EntrySources BY DEF EntrySources
    <3> HIDE DEF t
    <3> QED BY <3>1, <2>1, <2>2, <1>4, WriteIs
  <2>4. duty' \in [Staff -> Duties] /\ duty'[w] = x /\ \A v \in Staff : v # w => duty'[v] = duty[v]
    BY <1>1, <1>2 DEF EmpInv
  <2> HIDE DEF tab, t
  <2>5. DropsOK(tab, duty') /\ \E n \in Nat : IdsBelow(tab, duty', n)
    <3>1. \A v \in Staff : duty'[v].drop \subseteq duty[v].drop BY <2>4, <1>2
    <3>2. \A v \in Staff : duty'[v].pc # "learn" => duty'[v].drop = {} BY <2>4, <1>2 DEF EmpInv, DropsOK
    <3> QED BY <3>1, <3>2, <2>3, DropsStay
  <2>6. SeedsOK(tab, duty', learnFaults)
    <3>1. SeedsOK(entries, duty, learnFaults) BY DEF EmpInv
    <3>2. \A v \in Staff : duty'[v].pc = "seed" => duty[v].pc = "seed" /\ duty'[v].at = duty[v].at
      BY <2>4, <1>2
    <3>3. learnFaults = 0 => learnFaults = 0 /\ \A v \in Staff : duty[v].pc = "seed" => duty'[v].pc = "seed"
      BY <2>4, <1>1
    <3>4. /\ \A k \in DOMAIN tab : tab[k].source = "default_seed" => \E i \in DOMAIN entries : tab[k] = entries[i]
          /\ \A i \in DOMAIN entries : entries[i].source = "default_seed" => \E k \in DOMAIN tab : tab[k] = entries[i]
      BY <2>3, WriteKeeps
    <3> QED BY <3>1, <3>2, <3>3, <3>4, SeedsStay
  <2>7. OwnerOK(tab, told, duty', learnFaults, crossed)
    <3> SUFFICES ASSUME ~crossed
                 PROVE  /\ OwnerTextsIn(tab, Range(told))
                        /\ \A v \in Staff : duty'[v].pc # "owner"
                        /\ NewHead(told) => IsNewest(tab, told[Len(told)])
      BY Zenon DEF OwnerOK
    <3>1. OwnerOK(entries, told, duty, learnFaults, crossed) BY DEF EmpInv
    <3>2. /\ OwnerTextsIn(entries, Range(told)) /\ OwnerTextsIn(entries, Earlier(told))
          /\ told # <<>> /\ t = told[Len(told)]
      BY <3>1, <1>1, Zenon DEF OwnerOK, t
    <3>3. \A v \in Staff : duty'[v].pc # "owner"
      <4>1. \A v \in Staff : duty[v].pc = "owner" => v = w BY <3>1, <1>1, Zenon DEF OwnerOK
      <4> QED BY <4>1, <2>4, <1>2
    <3>4. t \in Range(told)
      <4>1. told \in Seq(Instructions) BY DEF EmpInv
      <4>2. Len(told) \in DOMAIN told BY <4>1, <3>2
      <4> QED BY <4>2, <3>2 DEF Range
    <3>5. OwnerTextsIn(tab, Range(told)) BY <3>2, <3>4, <2>3, WriteKeeps
    <3>6. ASSUME NewHead(told) PROVE IsNewest(tab, t)
      <4> SUFFICES ASSUME NEW i \in DOMAIN entries, entries[i].source = "owner"
                   PROVE  entries[i].text.head # t.head
        BY <2>3, Zenon DEF IsWritten
      <4>1. entries[i].text \in Earlier(told) BY <3>2 DEF OwnerTextsIn
      <4>2. PICK j \in 1..(Len(told) - 1) : entries[i].text = told[j] BY <4>1 DEF Earlier
      <4>3. told[j].head # told[Len(told)].head BY <3>6, Zenon DEF NewHead
      <4> QED BY <4>2, <4>3, <3>2, Zenon
    <3> QED BY <3>2, <3>3, <3>5, <3>6
  <2>8. RowsOK(tab) BY <2>3, Zenon DEF IsWritten
  <2>9. learned => HasSource(tab, "auto_learn") BY <2>3, WriteKeeps, Zenon
  <2>10. /\ told' \in Seq(Instructions) /\ profileText' \in Given /\ learnFaults' \in Nat
         /\ entries' = tab /\ duty' \in [Staff -> Duties]
    BY <1>1, <1>4, <2>4 DEF EmpInv, tab
  <2>11. RowsOK(entries') /\ (learned' => HasSource(entries', "auto_learn")) BY <2>8, <2>9, <2>10, <1>1
  <2>12. DropsOK(entries', duty') /\ \E n \in Nat : IdsBelow(entries', duty', n) BY <2>5, <2>10
  <2>13. SeedsOK(entries', duty', learnFaults') /\ OwnerOK(entries', told', duty', learnFaults', crossed')
    BY <2>6, <2>7, <2>10, <1>1, <1>4
  <2> QED BY <2>10, <2>11, <2>12, <2>13, Zenon DEF EmpInv
<1> QED BY <1>3, <1>4 DEF OwnerWrite

LEMMA LearnWriteOK ==
  ASSUME EmpInv, NEW w \in Staff, LearnWrite(w)
  PROVE  EmpInv'
<1> DEFINE t == duty[w].text
<1>1. /\ duty[w].pc = "learn" /\ told' = told /\ profileText' = profileText
      /\ crossed' = crossed /\ duty' = [duty EXCEPT ![w] = AtRest]
  BY DEF LearnWrite
<1>2. AtRest \in Duties /\ AtRest.pc = "idle" /\ AtRest.drop = {} BY AtRestIs
<1>3. CASE NotWritten /\ learned' = learned
  <2>1. entries' = entries /\ learnFaults' \in Nat \ {0} BY <1>3 DEF NotWritten, EmpInv
  <2> QED BY <2>1, <1>1, <1>2, <1>3, QuietOK
<1>4. CASE Written(w, t) /\ learned' = TRUE /\ learnFaults' = learnFaults
  <2> DEFINE tab == entries'
  <2>1. Source(w) = "auto_learn" BY <1>1 DEF Source
  <2>2. t \in AllTexts BY DEF EmpInv, Duties
  <2>3. IsWritten(entries, tab, "auto_learn", t, FreshId)
    <3>1. "auto_learn" \in EntrySources BY DEF EntrySources
    <3> HIDE DEF t
    <3> QED BY <3>1, <2>1, <2>2, <1>4, WriteIs
  <2>4. duty' \in [Staff -> Duties] /\ duty'[w] = AtRest /\ \A v \in Staff : v # w => duty'[v] = duty[v]
    BY <1>1, <1>2 DEF EmpInv
  <2> HIDE DEF tab, t
  <2>5. DropsOK(tab, duty') /\ \E n \in Nat : IdsBelow(tab, duty', n)
    <3>1. \A v \in Staff : duty'[v].drop \subseteq duty[v].drop BY <2>4, <1>2
    <3>2. \A v \in Staff : duty'[v].pc # "learn" => duty'[v].drop = {} BY <2>4, <1>2 DEF EmpInv, DropsOK
    <3> QED BY <3>1, <3>2, <2>3, DropsStay
  <2>6. SeedsOK(tab, duty', learnFaults)
    <3>1. SeedsOK(entries, duty, learnFaults) BY DEF EmpInv
    <3>2. \A v \in Staff : duty'[v].pc = "seed" => duty[v].pc = "seed" /\ duty'[v].at = duty[v].at
      BY <2>4, <1>2
    <3>3. learnFaults = 0 => learnFaults = 0 /\ \A v \in Staff : duty[v].pc = "seed" => duty'[v].pc = "seed"
      BY <2>4, <1>1
    <3>4. /\ \A k \in DOMAIN tab : tab[k].source = "default_seed" => \E i \in DOMAIN entries : tab[k] = entries[i]
          /\ \A i \in DOMAIN entries : entries[i].source = "default_seed" => \E k \in DOMAIN tab : tab[k] = entries[i]
      BY <2>3, WriteKeeps
    <3> QED BY <3>1, <3>2, <3>3, <3>4, SeedsStay
  <2>7. OwnerOK(tab, told, duty', learnFaults, crossed)
    <3>1. OwnerOK(entries, told, duty, learnFaults, crossed) BY DEF EmpInv
    <3>2. \A v \in Staff : duty'[v].pc = "owner" => duty[v].pc = "owner" /\ duty'[v].text = duty[v].text
      BY <2>4, <1>2
    <3>3. learnFaults = 0 => learnFaults = 0 /\ \A v \in Staff : duty[v].pc = "owner" => duty'[v].pc = "owner"
      BY <2>4, <1>1
    <3>4. \A k \in DOMAIN tab : tab[k].source = "owner" => \E i \in DOMAIN entries : tab[k] = entries[i]
      BY <2>3, WriteKeeps
    <3>5. \A y : IsNewest(entries, y) => IsNewest(tab, y) BY <2>3 DEF IsWritten
    <3> QED BY <3>1, <3>2, <3>3, <3>4, <3>5, OwnerStays
  <2>8. RowsOK(tab) BY <2>3, Zenon DEF IsWritten
  <2>9. HasSource(tab, "auto_learn") BY <2>3, WriteKeeps, Zenon
  <2>10. /\ told' \in Seq(Instructions) /\ profileText' \in Given /\ learnFaults' \in Nat
         /\ entries' = tab /\ duty' \in [Staff -> Duties]
    BY <1>1, <1>4, <2>4 DEF EmpInv, tab
  <2>11. RowsOK(entries') /\ HasSource(entries', "auto_learn") BY <2>8, <2>9, <2>10
  <2>12. DropsOK(entries', duty') /\ \E n \in Nat : IdsBelow(entries', duty', n) BY <2>5, <2>10
  <2>13. SeedsOK(entries', duty', learnFaults') /\ OwnerOK(entries', told', duty', learnFaults', crossed')
    BY <2>6, <2>7, <2>10, <1>1, <1>4
  <2> QED BY <2>10, <2>11, <2>12, <2>13, Zenon DEF EmpInv
<1> QED BY <1>3, <1>4 DEF LearnWrite

\* The seed a text is when it has its head.
LEMMA SeedsDiffer ==
  ASSUME NEW k \in DOMAIN Seeds, NEW t \in Range(Seeds), t.head = Seeds[k].head
  PROVE  t = Seeds[k]
<1>1. PICK j \in DOMAIN Seeds : t = Seeds[j] BY DEF Range
<1>2. j # k => Seeds[j].head # Seeds[k].head BY EmployeeAssumption, Zenon
<1> QED BY <1>1, <1>2

\* What seeding turns to after a seed.
LEMMA NextSeedIs ==
  ASSUME EmpInv, NEW w \in Staff, duty[w].pc = "seed"
  PROVE  /\ NextSeed(w) \in Duties /\ NextSeed(w).drop = {} /\ NextSeed(w).pc \in {"seed", "idle"}
         /\ NextSeed(w).pc = "seed" =>
              NextSeed(w).at = duty[w].at + 1 /\ NextSeed(w).at \in DOMAIN Seeds
         /\ NextSeed(w).pc = "idle" => duty[w].at = Len(Seeds)
<1> DEFINE d == duty[w]
<1>1. d \in Duties /\ d.drop = {} /\ d.at \in DOMAIN Seeds BY DEF EmpInv, DropsOK, SeedsOK
<1>2. Seeds \in Seq(Range(Seeds)) BY EmployeeAssumption
<1>3. DOMAIN Seeds = 1..Len(Seeds) /\ Len(Seeds) \in Nat BY <1>2
<1>4. CASE d.at = Len(Seeds)
  <2>1. NextSeed(w) = AtRest BY <1>4 DEF NextSeed
  <2> QED BY <2>1, <1>4, AtRestIs
<1>5. CASE d.at # Len(Seeds)
  <2>1. NextSeed(w) = [d EXCEPT !.at = @ + 1] BY <1>5 DEF NextSeed
  <2>2. d.pc = "seed" OBVIOUS
  <2> HIDE DEF d
  <2> DEFINE y == [d EXCEPT !.at = @ + 1]
  <2>3. d.at + 1 \in DOMAIN Seeds /\ d.at + 1 \in Nat BY <1>1, <1>3, <1>5
  <2>4. y \in Duties /\ y.drop = {} /\ y.pc = "seed" /\ y.at = d.at + 1 BY <1>1, <2>2, <2>3 DEF Duties
  <2> HIDE DEF y
  <2> QED BY <2>1, <2>3, <2>4 DEF d, y
<1> QED BY <1>4, <1>5

LEMMA SeedWriteOK ==
  ASSUME EmpInv, NEW w \in Staff, SeedWrite(w)
  PROVE  EmpInv'
<1> DEFINE x == NextSeed(w)
           n == duty[w].at
           t == Seeds[n]
           tab == entries'
           f == learnFaults'
<1>1. /\ duty[w].pc = "seed" /\ told' = told /\ profileText' = profileText /\ learned' = learned
      /\ crossed' = crossed /\ duty' = [duty EXCEPT ![w] = x]
      /\ (Written(w, t) /\ learnFaults' = learnFaults) \/ NotWritten
  BY DEF SeedWrite
<1>2. /\ x \in Duties /\ x.drop = {} /\ x.pc \in {"seed", "idle"}
      /\ x.pc = "seed" => x.at = n + 1 /\ x.at \in DOMAIN Seeds
      /\ x.pc = "idle" => n = Len(Seeds)
  BY <1>1, NextSeedIs
<1>3. n \in DOMAIN Seeds BY <1>1 DEF EmpInv, SeedsOK
<1>4. t \in Range(Seeds) BY <1>3 DEF Range
<1>s. DOMAIN Seeds = 1..Len(Seeds) /\ Len(Seeds) \in Nat
  <2>1. Seeds \in Seq(Range(Seeds)) BY EmployeeAssumption
  <2> QED BY <2>1
<1>5. \/ tab = entries /\ f \in Nat \ {0}
      \/ IsWritten(entries, tab, "default_seed", t, FreshId) /\ f = learnFaults
  <2>1. ASSUME NotWritten PROVE tab = entries /\ f \in Nat \ {0} BY <2>1 DEF NotWritten, EmpInv
  <2>2. ASSUME Written(w, t), learnFaults' = learnFaults
        PROVE  IsWritten(entries, tab, "default_seed", t, FreshId) /\ f = learnFaults
    <3>1. Source(w) = "default_seed" /\ "default_seed" \in EntrySources BY <1>1 DEF Source, EntrySources
    <3>2. t \in AllTexts BY <1>4 DEF AllTexts
    <3> HIDE DEF t
    <3> QED BY <3>1, <3>2, <2>2, WriteIs
  <2> QED BY <1>1, <2>1, <2>2
<1>6. duty' \in [Staff -> Duties] /\ duty'[w] = x /\ \A v \in Staff : v # w => duty'[v] = duty[v]
  BY <1>1, <1>2 DEF EmpInv
<1>e. entries' = tab /\ learnFaults' = f OBVIOUS
<1> HIDE DEF x, n, tab, f, t
<1>7. DropsOK(tab, duty') /\ \E m \in Nat : IdsBelow(tab, duty', m)
  <2>1. \A v \in Staff : duty'[v].drop \subseteq duty[v].drop BY <1>6, <1>2
  <2>2. \A v \in Staff : duty'[v].pc # "learn" => duty'[v].drop = {} BY <1>6, <1>2 DEF EmpInv, DropsOK
  <2>3. tab = entries \/ IsWritten(entries, tab, "default_seed", t, FreshId) BY <1>5
  <2> QED BY <2>1, <2>2, <2>3, DropsStay
<1>8. RowsOK(tab)
  <2>1. RowsOK(entries) BY DEF EmpInv
  <2>2. ASSUME IsWritten(entries, tab, "default_seed", t, FreshId) PROVE RowsOK(tab)
    BY <2>2, Zenon DEF IsWritten
  <2> QED BY <2>1, <2>2, <1>5
<1>9. learned => HasSource(tab, "auto_learn")
  <2>1. ASSUME learned, IsWritten(entries, tab, "default_seed", t, FreshId) PROVE HasSource(tab, "auto_learn")
    BY <2>1, WriteKeeps, Zenon
  <2>2. ASSUME learned, tab = entries PROVE HasSource(tab, "auto_learn") BY <2>2 DEF EmpInv
  <2> QED BY <2>1, <2>2, <1>5, Zenon
<1>10. OwnerOK(tab, told, duty', f, crossed)
  <2>1. OwnerOK(entries, told, duty, learnFaults, crossed) BY DEF EmpInv
  <2>2. \A v \in Staff : duty'[v].pc = "owner" => duty[v].pc = "owner" /\ duty'[v].text = duty[v].text
    BY <1>6, <1>2
  <2>3. f = 0 => learnFaults = 0 /\ \A v \in Staff : duty[v].pc = "owner" => duty'[v].pc = "owner"
    BY <1>5, <1>6, <1>1
  <2>4. /\ \A k \in DOMAIN tab : tab[k].source = "owner" => \E i \in DOMAIN entries : tab[k] = entries[i]
        /\ \A y : IsNewest(entries, y) => IsNewest(tab, y)
    <3>1. CASE tab = entries BY <3>1
    <3>2. CASE IsWritten(entries, tab, "default_seed", t, FreshId)
      <4>1. \A k \in DOMAIN tab : tab[k].source = "owner" => \E i \in DOMAIN entries : tab[k] = entries[i]
        BY <3>2, WriteKeeps
      <4>2. \A y : IsNewest(entries, y) => IsNewest(tab, y) BY <3>2 DEF IsWritten
      <4> QED BY <4>1, <4>2
    <3> QED BY <3>1, <3>2, <1>5
  <2> QED BY <2>1, <2>2, <2>3, <2>4, OwnerStays
<1>11. SeedsOK(tab, duty', f)
  <2>1. \A v \in Staff : duty'[v].pc = "seed" => duty'[v].at \in DOMAIN Seeds
    BY <1>2, <1>6 DEF EmpInv, SeedsOK
  <2>2. \A k \in DOMAIN tab : tab[k].source = "default_seed" => tab[k].text \in Range(Seeds)
    <3>0. \A i \in DOMAIN entries : entries[i].source = "default_seed" => entries[i].text \in Range(Seeds)
      BY DEF EmpInv, SeedsOK
    <3>1. CASE tab = entries BY <3>0, <3>1
    <3>2. CASE IsWritten(entries, tab, "default_seed", t, FreshId)
      <4> DEFINE added == NewRow("default_seed", t, FreshId)
      <4>1. added.text = t BY DEF NewRow
      <4>2. \A k \in DOMAIN tab : tab[k] = added \/ \E i \in DOMAIN entries : tab[k] = entries[i]
        BY <3>2, Zenon DEF IsWritten
      <4> HIDE DEF added
      <4> QED BY <4>1, <4>2, <3>0, <1>4
    <3> QED BY <3>1, <3>2, <1>5
  <2>3. ASSUME f = 0
        PROVE  /\ \A v \in Staff : duty'[v].pc = "seed" => AllSeeded(tab, duty'[v].at)
               /\ (\E v \in Staff : duty'[v].pc = "seed") \/ AllSeeded(tab, Len(Seeds) + 1)
    <3>1. IsWritten(entries, tab, "default_seed", t, FreshId) /\ learnFaults = 0 BY <2>3, <1>5
    <3>2. \A k : AllSeeded(entries, k) => AllSeeded(tab, k)
      <4> SUFFICES ASSUME NEW y, HasRow(entries, "default_seed", y) PROVE HasRow(tab, "default_seed", y)
        BY Zenon DEF AllSeeded
      <4>1. PICK i \in DOMAIN entries : entries[i].source = "default_seed" /\ entries[i].text = y BY DEF HasRow
      <4>2. \A j \in DOMAIN entries : entries[j].source = "default_seed" => \E k \in DOMAIN tab : tab[k] = entries[j]
        BY <3>1, WriteKeeps
      <4>3. PICK k \in DOMAIN tab : tab[k] = entries[i] BY <4>1, <4>2
      <4> QED BY <4>1, <4>3 DEF HasRow
    <3>3. HasRow(tab, "default_seed", t)
      <4>1. PICK k \in DOMAIN tab : tab[k].source = "default_seed" /\ tab[k].text.head = t.head
        BY <3>1, Zenon DEF IsWritten
      <4>2. tab[k].text \in Range(Seeds) BY <4>1, <2>2
      <4>3. tab[k].text = t BY <4>1, <4>2, <1>3, SeedsDiffer DEF t
      <4> QED BY <4>1, <4>3 DEF HasRow
    <3>4. AllSeeded(tab, n + 1)
      <4>1. AllSeeded(entries, n) BY <3>1, <1>1 DEF EmpInv, SeedsOK, n
      <4>2. AllSeeded(tab, n) BY <4>1, <3>2
      <4> SUFFICES ASSUME NEW i \in DOMAIN Seeds, i < n + 1 PROVE HasRow(tab, "default_seed", Seeds[i])
        BY Zenon DEF AllSeeded
      <4>3. i < n \/ i = n BY <1>3, <1>s
      <4> QED BY <4>2, <4>3, <3>3 DEF AllSeeded, t
    <3>5. \A v \in Staff : duty'[v].pc = "seed" => AllSeeded(tab, duty'[v].at)
      <4> SUFFICES ASSUME NEW v \in Staff, duty'[v].pc = "seed" PROVE AllSeeded(tab, duty'[v].at) OBVIOUS
      <4>1. CASE v = w
        <5>1. duty'[v].at = n + 1 BY <4>1, <1>2, <1>6
        <5> QED BY <5>1, <3>4
      <4>2. CASE v # w
        <5>1. duty'[v] = duty[v] BY <4>2, <1>6
        <5>2. AllSeeded(entries, duty[v].at) BY <5>1, <3>1 DEF EmpInv, SeedsOK
        <5> QED BY <5>1, <5>2, <3>2
      <4> QED BY <4>1, <4>2
    <3>6. (\E v \in Staff : duty'[v].pc = "seed") \/ AllSeeded(tab, Len(Seeds) + 1)
      <4>1. CASE x.pc = "seed" BY <4>1, <1>6
      <4>2. CASE x.pc = "idle" BY <4>2, <1>2, <3>4
      <4> QED BY <4>1, <4>2, <1>2
    <3> QED BY <3>5, <3>6
  <2> QED BY <2>1, <2>2, <2>3, Zenon DEF SeedsOK
<1>12. /\ RowsOK(entries') /\ told' \in Seq(Instructions) /\ profileText' \in Given /\ learnFaults' \in Nat
       /\ duty' \in [Staff -> Duties] /\ (learned' => HasSource(entries', "auto_learn"))
  <2>1. f \in Nat BY <1>5 DEF EmpInv
  <2>2. told \in Seq(Instructions) /\ profileText \in Given BY DEF EmpInv
  <2> QED BY <2>1, <2>2, <1>1, <1>6, <1>8, <1>9, <1>e
<1>13. DropsOK(entries', duty') /\ \E m \in Nat : IdsBelow(entries', duty', m) BY <1>7, <1>e
<1>14. SeedsOK(entries', duty', learnFaults') /\ OwnerOK(entries', told', duty', learnFaults', crossed')
  BY <1>10, <1>11, <1>1, <1>e
<1> QED BY <1>12, <1>13, <1>14, Zenon DEF EmpInv

\* The last of the entries shown is the newest of the owner.
LEMMA NewestIsShown ==
  ASSUME RowsOK(entries), NEW text, IsNewest(entries, text)
  PROVE  \E i \in DOMAIN Shown : Shown[i].text = text
<1> DEFINE T == {e \in Range(entries) : e.source = "owner"}
           s == Only(entries, T)
           n == Len(s)
           m == IF n < TopOwner THEN 1 ELSE n - TopOwner + 1
<1>1. entries \in Seq(EntryRows) BY DEF RowsOK
<1>2. s \in Seq(EntryRows) BY <1>1, OnlyPicks
<1>3. PICK f : Picks(entries, T, s, f) BY <1>1, OnlyPicks
<1>4. Shown = SubSeq(s, m, n) BY DEF Shown, OwnerEntries
<1>5. PICK i \in DOMAIN entries : /\ entries[i].source = "owner" /\ entries[i].text = text
                                  /\ \A j \in DOMAIN entries : j > i => entries[j].source # "owner"
  BY DEF IsNewest
<1>6. \A e : e \in T => e.source = "owner" OBVIOUS
<1>7. entries[i] \in T BY <1>5 DEF Range
<1> HIDE DEF T, s
<1>8. /\ f \in [DOMAIN s -> DOMAIN entries]
      /\ \A k \in DOMAIN s : s[k] = entries[f[k]] /\ entries[f[k]] \in T
      /\ \A j, k \in DOMAIN s : j < k => f[j] < f[k]
      /\ \A j \in DOMAIN entries : entries[j] \in T => \E k \in DOMAIN s : f[k] = j
  BY <1>3 DEF Picks
<1>9. PICK k \in DOMAIN s : f[k] = i BY <1>7, <1>8
<1>10. n \in Nat /\ DOMAIN s = 1..n /\ k \in Nat BY <1>2
<1>11. k = n
  <2> SUFFICES ASSUME k < n PROVE FALSE BY <1>9, <1>10
  <2>1. n \in DOMAIN s BY <1>10, <1>9
  <2>2. f[n] \in DOMAIN entries /\ f[k] < f[n] /\ entries[f[n]].source = "owner" BY <2>1, <1>8, <1>6, <1>9
  <2>3. f[n] \in Nat /\ i \in Nat BY <2>2, <1>1
  <2> QED BY <2>2, <2>3, <1>5, <1>9
<1>12. s[n].text = text BY <1>8, <1>9, <1>11, <1>5
<1>13. TopOwner \in Nat /\ TopOwner > 0 BY EmployeeAssumption
<1> HIDE DEF n
<1>14. m \in 1..n /\ n \in 1..n BY <1>9, <1>10, <1>11, <1>13
<1> HIDE DEF m
<1> DEFINE z == n - m + 1
<1>15. SubSeq(s, m, n) = [j \in 1..z |-> s[m + j - 1]] BY <1>10, <1>14
<1>16. z \in 1..z /\ m + z - 1 = n BY <1>14, <1>10
<1> HIDE DEF z
<1>17. z \in DOMAIN Shown /\ Shown[z] = s[n] BY <1>4, <1>15, <1>16
<1> QED BY <1>12, <1>17

(***************************************************************************)
(* A seeded memory holds every seed and no entry twice, a learned profile  *)
(* is never lost by a failing rewrite, and the owner's last instruction is *)
(* in every prompt (write_learned_skill, seed_default_memory_seeds,        *)
(* get_owner_instructions), for any number of API workers, seeds and       *)
(* instructions and any number of failed writes.                           *)
(***************************************************************************)
THEOREM MemoryServes == EmpSpec => []MemoryServesPrompts
<1>1. EmpInit => EmpInv BY EmpInitOK
<1>2. EmpInv /\ [EmpNext]_empVars => EmpInv'
  <2> SUFFICES ASSUME EmpInv, [EmpNext]_empVars PROVE EmpInv' OBVIOUS
  <2>1. ASSUME NEW w \in Staff, SeedCheck(w) PROVE EmpInv' BY <2>1, SeedCheckOK
  <2>2. ASSUME NEW w \in Staff, SeedWrite(w) PROVE EmpInv' BY <2>2, SeedWriteOK
  <2>3. ASSUME NEW w \in Staff, UpdateProfile(w) PROVE EmpInv' BY <2>3, UpdateProfileOK
  <2>4. ASSUME NEW w \in Staff, OwnerWrite(w) PROVE EmpInv' BY <2>4, OwnerWriteOK
  <2>5. ASSUME NEW w \in Staff, TriggerAutoLearn(w) PROVE EmpInv' BY <2>5, TriggerAutoLearnOK
  <2>6. ASSUME NEW w \in Staff, Gather(w) PROVE EmpInv' BY <2>6, GatherOK
  <2>7. ASSUME NEW w \in Staff, ForceDelete(w) PROVE EmpInv' BY <2>7, ForceDeleteOK
  <2>8. ASSUME NEW w \in Staff, LearnWrite(w) PROVE EmpInv' BY <2>8, LearnWriteOK
  <2>9. ASSUME NEW w \in Staff, StaffDies(w) PROVE EmpInv' BY <2>9, StaffDiesOK
  <2>10. CASE UNCHANGED empVars BY <2>10 DEF empVars, EmpInv
  <2> QED BY <2>1, <2>2, <2>3, <2>4, <2>5, <2>6, <2>7, <2>8, <2>9, <2>10 DEF EmpNext
<1>3. EmpInv => MemoryServesPrompts
  <2> SUFFICES ASSUME EmpInv PROVE MemoryServesPrompts OBVIOUS
  <2>1. SeedsWhole
    <3>1. ASSUME learnFaults = 0, Stored("default_seed") # {}, \A w \in Staff : duty[w].pc # "seed"
          PROVE  Stored("default_seed") = {Seeds[i] : i \in DOMAIN Seeds}
      <4>1. \E i \in DOMAIN entries : entries[i].source = "default_seed" BY <3>1 DEF Stored
      <4>2. AllSeeded(entries, Len(Seeds) + 1) BY <4>1, <3>1 DEF EmpInv, SeedsOK
      <4>3. \A i \in DOMAIN Seeds : i < Len(Seeds) + 1
        <5>1. Seeds \in Seq(Range(Seeds)) BY EmployeeAssumption
        <5> QED BY <5>1
      <4>4. \A i \in DOMAIN Seeds : HasRow(entries, "default_seed", Seeds[i]) BY <4>2, <4>3 DEF AllSeeded
      <4>5. \A i \in DOMAIN Seeds : Seeds[i] \in Stored("default_seed") BY <4>4 DEF HasRow, Stored
      <4>6. \A t \in Stored("default_seed") : t \in Range(Seeds) BY DEF Stored, EmpInv, SeedsOK
      <4> QED BY <4>5, <4>6 DEF Range
    <3>2. \A i, j \in DOMAIN entries :
            i # j => entries[i].source # entries[j].source \/ entries[i].text.head # entries[j].text.head
      BY DEF EmpInv, RowsOK
    <3> QED BY <3>1, <3>2, Zenon DEF SeedsWhole
  <2>2. ProfileIsKnown
    <3>1. HasSource(entries, "auto_learn") => Stored("auto_learn") # {} BY DEF HasSource, Stored
    <3>2. learned => HasSource(entries, "auto_learn") BY DEF EmpInv
    <3> QED BY <3>1, <3>2, Zenon DEF ProfileIsKnown
  <2>3. LastIsShown
    <3> SUFFICES ASSUME told # <<>>, learnFaults = 0, ~crossed, \A w \in Staff : duty[w].pc # "owner",
                        \A i \in 1..(Len(told) - 1) : told[i].head # told[Len(told)].head
                 PROVE  \E i \in DOMAIN Shown : Shown[i].text = told[Len(told)]
      BY Zenon DEF LastIsShown
    <3>1. NewHead(told) BY Zenon DEF NewHead
    <3>2. IsNewest(entries, told[Len(told)]) BY <3>1, Zenon DEF EmpInv, OwnerOK
    <3> QED BY <3>2, NewestIsShown DEF EmpInv
  <2> QED BY <2>1, <2>2, <2>3 DEF MemoryServesPrompts
<1> QED BY <1>1, <1>2, <1>3, PTL DEF EmpSpec

(***************************************************************************)
(* What a prompt is made of, the owner's instructions, the chunks of a     *)
(* search and the records of a connector (get_owner_instructions,          *)
(* search_hybrid_chunks, sync_data_source), is what the owner and the      *)
(* sources last gave, for any numbers of each.                             *)
(***************************************************************************)
THEOREM PipelineFed == EmpSpec /\ LookSpec /\ ConnSpec => []PipelineIsFed
<1>1. EmpSpec => []MemoryServesPrompts BY MemoryServes
<1>2. LookSpec => []SearchIsFair BY SearchFair
<1>3. ConnSpec => []ConnectorsAreSound BY ConnectorsSound
<1>4. MemoryServesPrompts /\ SearchIsFair /\ ConnectorsAreSound => PipelineIsFed BY DEF PipelineIsFed
<1> QED BY <1>1, <1>2, <1>3, <1>4, PTL

-----------------------------------------------------------------------------
(* The throttle: what is kept of the failures. *)

\* Numbers of some kind have a least one.
LEMMA LeastOne ==
  ASSUME NEW T \in SUBSET Nat, T # {}
  PROVE  \E i \in T : \A j \in T : i <= j
<1> DEFINE R == {ss \in Nat \X Nat : ss[1] < ss[2]}
<1>1. \E i \in T : \A j \in T : ~(<<j, i>> \in R)
  <2>1. IsWellFoundedOn(R, Nat) BY NatLessThanWellFounded, Zenon DEF OpToRel
  <2> HIDE DEF R
  <2> QED BY <2>1, WFMin
<1> PICK i \in T : \A j \in T : ~(<<j, i>> \in R) BY <1>1
<1>2. \A j \in Nat : (<<j, i>> \in R) <=> j < i OBVIOUS
<1> HIDE DEF R
<1>3. ASSUME NEW j \in T PROVE i <= j
  <2>1. j \in Nat /\ i \in Nat /\ ~(j < i) BY <1>2
  <2> QED BY <2>1
<1> QED BY <1>3

\* The recursion of SumFunction, for one set of indices and for all up to a size.

\* The times of a client are the last of its wrong keys, all but those too old, and too few for a
\* lockout.
CountOK(time, ts, ws) ==
  /\ ts \in Seq(Nat) /\ ws \in Seq(Nat) /\ Len(ts) <= Len(ws) /\ Len(ts) < max_failures
  /\ \A i \in DOMAIN ws : ws[i] <= time
  /\ \A i, j \in DOMAIN ws : i <= j => ws[i] <= ws[j]
  /\ \A i \in DOMAIN ts : ts[i] = ws[Len(ws) - Len(ts) + i]
  /\ \A i \in 1..(Len(ws) - Len(ts)) : time - ws[i] > window_seconds
  /\ \A i \in DOMAIN ws : i + max_failures - 1 \in DOMAIN ws =>
       ws[i + max_failures - 1] - ws[i] > window_seconds

CountInv ==
  /\ clock \in Nat /\ order \in Seq(Clients) /\ Len(order) <= MAX_TRACKED_CLIENTS
  /\ DOMAIN times = Clients /\ DOMAIN wrong = Clients
  /\ \A c \in Clients : CountOK(clock, times[c], wrong[c])

LEMMA ThrottleNumbers ==
  /\ max_failures \in Nat /\ max_failures > 0 /\ window_seconds \in Nat /\ window_seconds > 0
  /\ MAX_TRACKED_CLIENTS \in Nat /\ MAX_TRACKED_CLIENTS > 0 /\ IsFiniteSet(Clients)
BY ThrottleAssumption

LEMMA CountNone == ASSUME NEW time \in Nat PROVE CountOK(time, <<>>, <<>>)
<1>1. <<>> \in Seq(Nat) /\ Len(<<>>) = 0 /\ DOMAIN <<>> = {} OBVIOUS
<1>2. \A i \in 1..(Len(<<>>) - Len(<<>>)) : FALSE BY <1>1
<1> QED BY <1>1, <1>2, ThrottleNumbers DEF CountOK

LEMMA CountLater ==
  ASSUME NEW time \in Nat, NEW next \in Nat, time <= next, NEW ts, NEW ws, CountOK(time, ts, ws)
  PROVE  CountOK(next, ts, ws)
<1>1. /\ ts \in Seq(Nat) /\ ws \in Seq(Nat) /\ Len(ts) <= Len(ws)
      /\ \A i \in DOMAIN ws : ws[i] <= time
      /\ \A i \in 1..(Len(ws) - Len(ts)) : time - ws[i] > window_seconds
  BY DEF CountOK
<1>2. \A i \in DOMAIN ws : ws[i] <= next BY <1>1
<1>3. ASSUME NEW i \in 1..(Len(ws) - Len(ts)) PROVE next - ws[i] > window_seconds
  <2>1. i \in DOMAIN ws /\ ws[i] \in Nat BY <1>1
  <2>2. time - ws[i] > window_seconds BY <1>1
  <2> QED BY <2>1, <2>2, ThrottleNumbers
<1> QED BY <1>2, <1>3 DEF CountOK

\* What is too old stands at the front.
FrontIs(time, q, age, k) ==
  /\ k \in 0..Len(q)
  /\ \A i \in 1..k : time - q[i] > age
  /\ \A i \in (k + 1)..Len(q) : time - q[i] <= age

LEMMA OldFront ==
  ASSUME clock \in Nat, NEW q \in Seq(Nat), \A i, j \in DOMAIN q : i <= j => q[i] <= q[j], NEW age \in Nat
  PROVE  \E k : FrontIs(clock, q, age, k) /\ Cardinality(TooOld(q, age)) = k
<1> DEFINE R == {i \in DOMAIN q : clock - q[i] <= age}
<1>1. DOMAIN q = 1..Len(q) /\ Len(q) \in Nat /\ \A i \in DOMAIN q : q[i] \in Nat OBVIOUS
<1>2. \E k \in 0..Len(q) : (\A i \in 1..k : i \notin R) /\ (k < Len(q) => k + 1 \in R)
  <2>1. CASE R = {}
    <3>1. Len(q) \in 0..Len(q) /\ ~(Len(q) < Len(q)) BY <1>1
    <3> HIDE DEF R
    <3> QED BY <2>1, <3>1
  <2>2. CASE R # {}
    <3>0. R \in SUBSET Nat /\ \A i \in R : i \in 1..Len(q) BY <1>1
    <3> HIDE DEF R
    <3>1. PICK m \in R : \A j \in R : m <= j BY <2>2, <3>0, LeastOne
    <3>2. m - 1 \in 0..Len(q) /\ (m - 1) + 1 \in R BY <3>0, <3>1, <1>1
    <3>3. \A i \in 1..(m - 1) : i \notin R BY <3>0, <3>1, <1>1
    <3> QED BY <3>2, <3>3
  <2> QED BY <2>1, <2>2
<1>3. PICK k \in 0..Len(q) : (\A i \in 1..k : i \notin R) /\ (k < Len(q) => k + 1 \in R) BY <1>2
<1>4. \A i \in 1..k : i \in DOMAIN q /\ clock - q[i] > age BY <1>1, <1>3
<1>5. ASSUME NEW i \in (k + 1)..Len(q) PROVE clock - q[i] <= age
  <2>1. k < Len(q) /\ i \in DOMAIN q /\ k + 1 \in DOMAIN q /\ k + 1 <= i BY <1>1, <1>3
  <2>2. clock - q[k + 1] <= age BY <2>1, <1>3
  <2>3. q[k + 1] <= q[i] /\ q[k + 1] \in Nat /\ q[i] \in Nat BY <2>1, <1>1
  <2> QED BY <2>2, <2>3
<1>6. TooOld(q, age) = 1..k
  <2>1. ASSUME NEW i \in TooOld(q, age) PROVE i \in 1..k
    <3>1. i \in 1..Len(q) /\ clock - q[i] > age BY <1>1 DEF TooOld
    <3>2. ~(clock - q[i] <= age) BY <3>1, <1>1
    <3> QED BY <3>1, <3>2, <1>3, <1>5
  <2>2. ASSUME NEW i \in 1..k PROVE i \in TooOld(q, age)
    <3>1. \A j \in 1..i : j \in 1..k BY <1>3
    <3> QED BY <3>1, <1>4 DEF TooOld
  <2> QED BY <2>1, <2>2
<1>7. Cardinality(1..k) = k BY <1>3, <1>1, FS_Interval
<1> QED BY <1>3, <1>4, <1>5, <1>6, <1>7 DEF FrontIs

\* The times that are left, with this wrong key.
Counted(ts, k, time) == Append(SubSeq(ts, k + 1, Len(ts)), time)

LEMMA CountedIs ==
  ASSUME NEW ts \in Seq(Nat), NEW k \in 0..Len(ts), NEW time \in Nat
  PROVE  /\ Counted(ts, k, time) \in Seq(Nat) /\ Len(Counted(ts, k, time)) = Len(ts) - k + 1
         /\ \A i \in 1..(Len(ts) - k) : Counted(ts, k, time)[i] = ts[k + i]
         /\ Counted(ts, k, time)[Len(ts) - k + 1] = time
<1> DEFINE s == SubSeq(ts, k + 1, Len(ts))
<1>1. Len(ts) \in Nat /\ k \in Nat /\ k <= Len(ts) OBVIOUS
<1>2. s \in Seq(Nat) /\ Len(s) = Len(ts) - k /\ \A i \in 1..(Len(ts) - k) : s[i] = ts[k + i]
  <2>1. k + 1 \in Int /\ Len(ts) \in Int /\ \A i \in (k + 1)..Len(ts) : ts[i] \in Nat BY <1>1
  <2>2. /\ s \in Seq(Nat) /\ Len(s) = IF k + 1 <= Len(ts) THEN Len(ts) - (k + 1) + 1 ELSE 0
        /\ \A i \in 1..(Len(ts) - (k + 1) + 1) : s[i] = ts[(k + 1) + i - 1]
    BY <2>1, SubSeqProperties
  <2> HIDE DEF s
  <2>3. Len(s) = Len(ts) - k BY <1>1, <2>2
  <2>4. \A i \in 1..(Len(ts) - k) :
          i \in 1..(Len(ts) - (k + 1) + 1) /\ (k + 1) + i - 1 = k + i
    BY <1>1
  <2> QED BY <2>2, <2>3, <2>4
<1> HIDE DEF s
<1>3. /\ Append(s, time) \in Seq(Nat) /\ Len(Append(s, time)) = Len(s) + 1 /\ Append(s, time)[Len(s) + 1] = time
      /\ \A i \in 1..Len(s) : Append(s, time)[i] = s[i]
  BY <1>2
<1> QED BY <1>1, <1>2, <1>3 DEF Counted, s

LEMMA CountGoesOn ==
  ASSUME NEW time \in Nat, NEW ts, NEW ws, CountOK(time, ts, ws),
         NEW k, FrontIs(time, ts, window_seconds, k), Len(ts) - k + 1 < max_failures
  PROVE  CountOK(time, Counted(ts, k, time), Append(ws, time))
<1> DEFINE t == Counted(ts, k, time)
           w == Append(ws, time)
           n == Len(ws)
           m == Len(ts)
<1>1. /\ ts \in Seq(Nat) /\ ws \in Seq(Nat) /\ m \in Nat /\ n \in Nat /\ m <= n /\ k \in Nat /\ k <= m
      /\ DOMAIN ws = 1..n /\ DOMAIN ts = 1..m
      /\ \A i \in 1..n : ws[i] \in Nat /\ ws[i] <= time
      /\ \A i, j \in 1..n : i <= j => ws[i] <= ws[j]
      /\ \A i \in 1..m : ts[i] = ws[n - m + i]
      /\ \A i \in 1..(n - m) : time - ws[i] > window_seconds
      /\ \A i \in 1..n : i + max_failures - 1 \in 1..n => ws[i + max_failures - 1] - ws[i] > window_seconds
      /\ \A i \in 1..k : time - ts[i] > window_seconds
  <2>1. ts \in Seq(Nat) /\ ws \in Seq(Nat) BY DEF CountOK
  <2>2. m \in Nat /\ n \in Nat /\ DOMAIN ws = 1..n /\ DOMAIN ts = 1..m /\ \A i \in 1..n : ws[i] \in Nat BY <2>1
  <2>3. k \in 0..m /\ \A i \in 1..k : time - ts[i] > window_seconds BY DEF FrontIs
  <2>4. k \in Nat /\ k <= m BY <2>2, <2>3
  <2> QED BY <2>1, <2>2, <2>3, <2>4 DEF CountOK
<1>2. /\ t \in Seq(Nat) /\ Len(t) = m - k + 1 /\ DOMAIN t = 1..(m - k + 1)
      /\ \A i \in 1..(m - k) : t[i] = ts[k + i]
      /\ t[m - k + 1] = time
  <2>1. k \in 0..m BY <1>1
  <2>2. /\ t \in Seq(Nat) /\ Len(t) = m - k + 1
        /\ \A i \in 1..(m - k) : t[i] = ts[k + i]
        /\ t[m - k + 1] = time
    BY <1>1, <2>1, CountedIs
  <2> HIDE DEF t
  <2>3. DOMAIN t = 1..(m - k + 1) BY <2>2
  <2> QED BY <2>2, <2>3
<1>3. /\ w \in Seq(Nat) /\ Len(w) = n + 1 /\ DOMAIN w = 1..(n + 1) /\ w[n + 1] = time
      /\ \A i \in 1..n : w[i] = ws[i]
  BY <1>1
<1> HIDE DEF t, w, n, m
<1>4. \A i \in 1..(n + 1) : w[i] <= time
  <2> TAKE i \in 1..(n + 1)
  <2>1. i \in 1..n \/ i = n + 1 BY <1>1
  <2> QED BY <2>1, <1>1, <1>3
<1>5. ASSUME NEW i \in 1..(n + 1), NEW j \in 1..(n + 1), i <= j PROVE w[i] <= w[j]
  <2>1. CASE j = n + 1 BY <2>1, <1>3, <1>4
  <2>2. CASE j # n + 1
    <3>1. i \in 1..n /\ j \in 1..n BY <2>2, <1>1, <1>5
    <3> QED BY <3>1, <1>1, <1>3, <1>5
  <2> QED BY <2>1, <2>2
<1>6. ASSUME NEW i \in 1..(m - k + 1) PROVE t[i] = w[(n + 1) - (m - k + 1) + i]
  <2>1. CASE i = m - k + 1 BY <2>1, <1>1, <1>2, <1>3
  <2>2. CASE i # m - k + 1
    <3>1. i \in 1..(m - k) /\ k + i \in 1..m /\ n - m + (k + i) \in 1..n
          /\ (n + 1) - (m - k + 1) + i = n - m + (k + i)
      BY <2>2, <1>1
    <3>2. t[i] = ts[k + i] /\ ts[k + i] = ws[n - m + (k + i)] /\ w[n - m + (k + i)] = ws[n - m + (k + i)]
      BY <3>1, <1>1, <1>2, <1>3
    <3> QED BY <3>1, <3>2
  <2> QED BY <2>1, <2>2
<1>7. ASSUME NEW i \in 1..((n + 1) - (m - k + 1)) PROVE time - w[i] > window_seconds
  <2>1. CASE i \in 1..(n - m)
    <3>1. i \in 1..n BY <2>1, <1>1
    <3> QED BY <2>1, <3>1, <1>1, <1>3
  <2>2. CASE i \notin 1..(n - m)
    <3>1. i - (n - m) \in 1..k /\ i - (n - m) \in 1..m /\ n - m + (i - (n - m)) = i /\ i \in 1..n
      BY <2>2, <1>1
    <3>2. ts[i - (n - m)] = ws[i] /\ time - ts[i - (n - m)] > window_seconds BY <3>1, <1>1
    <3> QED BY <3>1, <3>2, <1>3
  <2> QED BY <2>1, <2>2
<1>8. ASSUME NEW i \in 1..(n + 1), i + max_failures - 1 \in 1..(n + 1)
      PROVE  w[i + max_failures - 1] - w[i] > window_seconds
  <2>1. CASE i + max_failures - 1 = n + 1
    <3>1. i \in 1..((n + 1) - (m - k + 1))
      <4>1. m - k + 1 < max_failures BY DEF m
      <4> QED BY <2>1, <4>1, <1>1, ThrottleNumbers
    <3>2. time - w[i] > window_seconds BY <3>1, <1>7
    <3> QED BY <2>1, <3>2, <1>3
  <2>2. CASE i + max_failures - 1 # n + 1
    <3>1. i \in 1..n /\ i + max_failures - 1 \in 1..n BY <2>2, <1>8, <1>1, ThrottleNumbers
    <3> QED BY <3>1, <1>1, <1>3
  <2> QED BY <2>1, <2>2
<1>9. m - k + 1 < max_failures /\ m - k + 1 <= n + 1 BY <1>1 DEF m
<1>10. CountOK(time, t, w) BY <1>2, <1>3, <1>4, <1>5, <1>6, <1>7, <1>8, <1>9 DEF CountOK
<1> QED BY <1>10 DEF t, w

LEMMA CountEarns ==
  ASSUME NEW time \in Nat, NEW ts, NEW ws, CountOK(time, ts, ws),
         NEW k, FrontIs(time, ts, window_seconds, k), Len(ts) - k + 1 >= max_failures
  PROVE  /\ Len(ws) - (max_failures - 1) >= 0
         /\ max_failures > 1 => time - ws[Len(ws) - (max_failures - 1) + 1] <= window_seconds
<1> DEFINE n == Len(ws)
           m == Len(ts)
           i == m - max_failures + 2
<1>1. /\ m \in Nat /\ n \in Nat /\ m <= n /\ k \in Nat /\ k <= m
      /\ \A j \in 1..m : ts[j] = ws[n - m + j]
      /\ \A j \in (k + 1)..m : time - ts[j] <= window_seconds
  <2>1. ts \in Seq(Nat) /\ ws \in Seq(Nat) BY DEF CountOK
  <2>2. m \in Nat /\ n \in Nat /\ DOMAIN ts = 1..m BY <2>1
  <2>3. k \in 0..m /\ \A j \in (k + 1)..m : time - ts[j] <= window_seconds BY DEF FrontIs
  <2>4. k \in Nat /\ k <= m BY <2>2, <2>3
  <2> QED BY <2>1, <2>2, <2>3, <2>4 DEF CountOK
<1>2. m - k + 1 >= max_failures OBVIOUS
<1> HIDE DEF n, m
<1>3. n - (max_failures - 1) >= 0 BY <1>1, <1>2, ThrottleNumbers
<1>4. ASSUME max_failures > 1 PROVE time - ws[n - (max_failures - 1) + 1] <= window_seconds
  <2>1. i \in (k + 1)..m /\ i \in 1..m /\ n - m + i = n - (max_failures - 1) + 1
    BY <1>1, <1>2, <1>4, ThrottleNumbers
  <2> HIDE DEF i
  <2>2. time - ts[i] <= window_seconds /\ ts[i] = ws[n - m + i] BY <2>1, <1>1
  <2> QED BY <2>1, <2>2
<1> QED BY <1>3, <1>4 DEF n

LEMMA OnlyShorter ==
  ASSUME NEW S, NEW s \in Seq(S), NEW T
  PROVE  Len(Only(s, T)) <= Len(s)
<1> DEFINE at == {i \in DOMAIN s : s[i] \in T}
<1>1. Len(s) \in Nat /\ at \in SUBSET (1..Len(s)) OBVIOUS
<1>2. Only(s, T) = [k \in 1..Cardinality(at) |-> s[Nth(at, k)]] BY DEF Only
<1> HIDE DEF at
<1>3. IsFiniteSet(1..Len(s)) /\ Cardinality(1..Len(s)) = Len(s) BY <1>1, FS_Interval
<1>4. Cardinality(at) <= Len(s) /\ Cardinality(at) \in Nat BY <1>1, <1>3, FS_Subset, FS_CardinalityType
<1>5. Len(Only(s, T)) = Cardinality(at) BY <1>2, <1>4
<1> QED BY <1>4, <1>5

\* Once room was made one more client can be tracked.
LEMMA RoomIsMade ==
  ASSUME order \in Seq(Clients), NEW locks
  PROVE  RoomKeys(locks) \in Seq(Clients) /\ Len(RoomKeys(locks)) < MAX_TRACKED_CLIENTS
<1> DEFINE tracked(l) == Cardinality({c \in Clients : l[c] # 0})
<1>1. \A l : tracked(l) \in Nat
  <2> TAKE l
  <2>1. IsFiniteSet({c \in Clients : l[c] # 0}) BY ThrottleNumbers, FS_Subset
  <2> QED BY <2>1, FS_CardinalityType
<1>2. \A q, l : TrackedEntries(q, l) = Len(q) + tracked(l) BY DEF TrackedEntries
<1> HIDE DEF tracked
<1>3. CASE TrackedEntries(order, locks) < MAX_TRACKED_CLIENTS
  <2>1. RoomKeys(locks) = order BY <1>3 DEF RoomKeys
  <2>2. Len(order) + tracked(locks) < MAX_TRACKED_CLIENTS /\ Len(order) \in Nat /\ tracked(locks) \in Nat
    BY <1>1, <1>2, <1>3
  <2> QED BY <2>1, <2>2, ThrottleNumbers
<1>4. CASE ~(TrackedEntries(order, locks) < MAX_TRACKED_CLIENTS)
  <2> DEFINE fresh == FreshKeys(order)
             n == Len(fresh)
             u == tracked(RoomLocks(locks))
             total == TrackedEntries(fresh, RoomLocks(locks))
             excess == total - MAX_TRACKED_CLIENTS + 1
  <2>1. RoomKeys(locks) = IF excess <= 0 THEN fresh ELSE SubSeq(fresh, excess + 1, n)
    BY <1>4 DEF RoomKeys
  <2>2. fresh \in Seq(Clients) BY OnlyPicks DEF FreshKeys
  <2>3. n \in Nat /\ u \in Nat BY <2>2, <1>1
  <2>4. total = n + u
    <3> HIDE DEF fresh
    <3> QED BY DEF TrackedEntries, tracked
  <2> HIDE DEF fresh, u, total
  <2>5. CASE excess <= 0
    <3> HIDE DEF n
    <3>1. n < MAX_TRACKED_CLIENTS BY <2>3, <2>4, <2>5, ThrottleNumbers
    <3> QED BY <2>1, <2>2, <2>5, <3>1 DEF n
  <2>6. CASE ~(excess <= 0)
    <3>1. excess \in Nat /\ excess >= 1
      <4> HIDE DEF n
      <4> QED BY <2>3, <2>4, <2>6, ThrottleNumbers
    <3>2. RoomKeys(locks) = SubSeq(fresh, excess + 1, n) BY <2>1, <2>6
    <3>3. SubSeq(fresh, excess + 1, n) \in Seq(Clients) /\ n \in Nat BY <2>2, <3>1
    <3>4. Len(SubSeq(fresh, excess + 1, n)) = IF excess + 1 <= n THEN n - (excess + 1) + 1 ELSE 0
      BY <2>2, <3>1
    <3> HIDE DEF n
    <3>5. (IF excess + 1 <= n THEN n - (excess + 1) + 1 ELSE 0) < MAX_TRACKED_CLIENTS
      BY <2>3, <2>4, <3>1, ThrottleNumbers
    <3> QED BY <3>2, <3>3, <3>4, <3>5
  <2> QED BY <2>5, <2>6
<1> QED BY <1>3, <1>4

LEMMA CountIs ==
  ASSUME CountInv, NEW c \in Clients
  PROVE  clock \in Nat /\ CountOK(clock, times[c], wrong[c]) /\ CountOK(clock, <<>>, <<>>)
BY CountNone DEF CountInv

\* Room is made at the expense of whole counts.
LEMMA KeptCounts ==
  ASSUME CountInv, NEW c \in Clients, NEW keys
  PROVE  CountOK(clock, KeptTimes(c, keys), KeptWrong(c, keys))
BY CountIs DEF KeptTimes, KeptWrong

\* The failures that still count, in terms of what is kept.
LEMMA InWindowIs ==
  ASSUME CountInv, NEW c \in Clients, NEW keys
  PROVE  \E k : /\ FrontIs(clock, KeptTimes(c, keys), window_seconds, k)
                /\ Append(InWindow(c, keys), clock) = Counted(KeptTimes(c, keys), k, clock)
                /\ Len(Counted(KeptTimes(c, keys), k, clock)) = Len(KeptTimes(c, keys)) - k + 1
<1> DEFINE q == KeptTimes(c, keys)
           ws == KeptWrong(c, keys)
<1>1. CountOK(clock, q, ws) /\ clock \in Nat BY KeptCounts, CountIs
<1>2. InWindow(c, keys) = SubSeq(q, Cardinality(TooOld(q, window_seconds)) + 1, Len(q))
  BY DEF InWindow, WithoutOld
<1> HIDE DEF q, ws
<1>3. /\ q \in Seq(Nat) /\ ws \in Seq(Nat) /\ Len(q) <= Len(ws)
      /\ \A i, j \in DOMAIN ws : i <= j => ws[i] <= ws[j]
      /\ \A i \in DOMAIN q : q[i] = ws[Len(ws) - Len(q) + i]
  BY <1>1 DEF CountOK
<1>4. ASSUME NEW i \in DOMAIN q, NEW j \in DOMAIN q, i <= j PROVE q[i] <= q[j]
  <2>0. DOMAIN ws = 1..Len(ws) /\ DOMAIN q = 1..Len(q) /\ Len(q) \in Nat /\ Len(ws) \in Nat BY <1>3
  <2>1. i \in 1..Len(q) /\ j \in 1..Len(q) BY <2>0
  <2>2. /\ Len(ws) - Len(q) + i \in DOMAIN ws /\ Len(ws) - Len(q) + j \in DOMAIN ws
        /\ Len(ws) - Len(q) + i <= Len(ws) - Len(q) + j
    BY <1>3, <1>4, <2>0, <2>1
  <2> QED BY <2>2, <1>3
<1>5. PICK k : FrontIs(clock, q, window_seconds, k) /\ Cardinality(TooOld(q, window_seconds)) = k
  BY <1>1, <1>3, <1>4, ThrottleNumbers, OldFront
<1>6. Append(InWindow(c, keys), clock) = Counted(q, k, clock) BY <1>2, <1>5 DEF Counted
<1>7. k \in 0..Len(q) BY <1>5 DEF FrontIs
<1>8. Len(Counted(q, k, clock)) = Len(q) - k + 1 BY <1>1, <1>3, <1>7, CountedIs
<1> QED BY <1>5, <1>6, <1>8 DEF q

\* At a lockout this wrong key and those before it make AUTH_MAX_FAILURES within the window.
Earned(ws, time) ==
  LET before == Len(ws) - (max_failures - 1)
  IN before >= 0 /\ (max_failures > 1 => time - ws[before + 1] <= window_seconds)

LEMMA LimitIsEarned ==
  ASSUME CountInv, NEW c \in Clients, NEW keys, Len(Append(InWindow(c, keys), clock)) >= max_failures
  PROVE  Earned(wrong[c], clock)
<1> DEFINE q == KeptTimes(c, keys)
           ws == KeptWrong(c, keys)
<1>1. CountOK(clock, q, ws) /\ clock \in Nat BY KeptCounts, CountIs
<1>2. PICK k : /\ FrontIs(clock, q, window_seconds, k) /\ Len(q) - k + 1 >= max_failures
  BY InWindowIs
<1>3. ws = wrong[c] \/ (ws = <<>> /\ q = <<>>) BY DEF KeptTimes, KeptWrong
<1>4. CASE ws = wrong[c]
  <2> HIDE DEF q, ws
  <2>1. Earned(ws, clock) BY <1>1, <1>2, CountEarns DEF Earned
  <2> QED BY <2>1, <1>4
<1>5. CASE ws = <<>> /\ q = <<>>
  <2>1. Len(wrong[c]) \in Nat BY CountIs DEF CountOK
  <2>2. k \in 0..0
    <3>1. k \in 0..Len(q) BY <1>2 DEF FrontIs
    <3> HIDE DEF q
    <3> QED BY <3>1, <1>5
  <2>3. max_failures = 1
    <3> HIDE DEF q
    <3>1. Len(q) = 0 BY <1>5
    <3> QED BY <2>2, <3>1, <1>2, ThrottleNumbers
  <2> QED BY <2>1, <2>3 DEF Earned
<1> QED BY <1>3, <1>4, <1>5

LEMMA CountWrongKey == ASSUME CountInv, NEW c \in Clients, WrongKey(c) PROVE CountInv'
<1> DEFINE locks == Unlocked(c)
           keys == RoomKeys(locks)
           count == Append(InWindow(c, keys), clock)
<1>1. /\ clock' = clock
      /\ \/ /\ Len(count) >= max_failures
            /\ order' = Only(keys, Clients \ {c})
            /\ times' = [d \in Clients |-> IF d = c THEN <<>> ELSE KeptTimes(d, keys)]
            /\ wrong' = [d \in Clients |-> IF d = c THEN <<>> ELSE KeptWrong(d, keys)]
         \/ /\ ~(Len(count) >= max_failures)
            /\ order' = KeyAdded(c, keys)
            /\ times' = [d \in Clients |-> IF d = c THEN count ELSE KeptTimes(d, keys)]
            /\ wrong' = [d \in Clients |-> IF d = c THEN Append(KeptWrong(c, keys), clock)
                                           ELSE KeptWrong(d, keys)]
  BY ZenonT(30) DEF WrongKey, RecordFailure
<1>2. keys \in Seq(Clients) /\ Len(keys) < MAX_TRACKED_CLIENTS BY RoomIsMade DEF CountInv
<1> HIDE DEF locks, keys
<1>3. PICK k : /\ FrontIs(clock, KeptTimes(c, keys), window_seconds, k)
               /\ count = Counted(KeptTimes(c, keys), k, clock)
               /\ Len(count) = Len(KeptTimes(c, keys)) - k + 1
  BY InWindowIs
<1> HIDE DEF count
<1>4. /\ clock \in Nat /\ \A d \in Clients : CountOK(clock, KeptTimes(d, keys), KeptWrong(d, keys))
      /\ CountOK(clock, <<>>, <<>>)
  BY KeptCounts, CountIs
<1>5. CASE /\ Len(count) >= max_failures
           /\ order' = Only(keys, Clients \ {c})
           /\ times' = [d \in Clients |-> IF d = c THEN <<>> ELSE KeptTimes(d, keys)]
           /\ wrong' = [d \in Clients |-> IF d = c THEN <<>> ELSE KeptWrong(d, keys)]
  <2>1. order' \in Seq(Clients) /\ Len(order') <= Len(keys) BY <1>2, <1>5, OnlyPicks, OnlyShorter
  <2>2. Len(order') <= MAX_TRACKED_CLIENTS BY <1>2, <2>1, ThrottleNumbers
  <2>3. \A d \in Clients : CountOK(clock, times'[d], wrong'[d]) BY <1>4, <1>5
  <2> QED BY <1>1, <1>4, <1>5, <2>1, <2>2, <2>3 DEF CountInv
<1>6. CASE /\ ~(Len(count) >= max_failures)
           /\ order' = KeyAdded(c, keys)
           /\ times' = [d \in Clients |-> IF d = c THEN count ELSE KeptTimes(d, keys)]
           /\ wrong' = [d \in Clients |-> IF d = c THEN Append(KeptWrong(c, keys), clock)
                                           ELSE KeptWrong(d, keys)]
  <2>1. order' \in Seq(Clients) /\ Len(order') <= Len(keys) + 1
    <3>1. Append(keys, c) \in Seq(Clients) /\ Len(Append(keys, c)) = Len(keys) + 1 /\ Len(keys) \in Nat BY <1>2
    <3> QED BY <1>2, <1>6, <3>1 DEF KeyAdded
  <2>2. Len(order') <= MAX_TRACKED_CLIENTS
    <3>1. Len(keys) \in Nat /\ Len(order') \in Nat BY <1>2, <2>1
    <3> QED BY <1>2, <2>1, <3>1, ThrottleNumbers
  <2>3. CountOK(clock, count, Append(KeptWrong(c, keys), clock))
    <3>1. Len(KeptTimes(c, keys)) - k + 1 < max_failures
      <4>1. KeptTimes(c, keys) \in Seq(Nat) BY <1>4 DEF CountOK
      <4>2. Len(KeptTimes(c, keys)) \in Nat /\ k \in 0..Len(KeptTimes(c, keys)) BY <1>3, <4>1 DEF FrontIs
      <4> QED BY <1>3, <1>6, <4>2, ThrottleNumbers
    <3> QED BY <1>3, <1>4, <3>1, CountGoesOn
  <2>4. \A d \in Clients : CountOK(clock, times'[d], wrong'[d]) BY <1>4, <1>6, <2>3
  <2> QED BY <1>1, <1>4, <1>6, <2>1, <2>2, <2>4 DEF CountInv
<1> QED BY <1>1, <1>5, <1>6

LEMMA CountSteps == CountInv /\ [ThrottleNext]_throttleVars => CountInv'
<1> SUFFICES ASSUME CountInv, [ThrottleNext]_throttleVars PROVE CountInv' OBVIOUS
<1>1. CASE ClockTicks
  <2>1. clock' = clock + 1 /\ UNCHANGED <<order, times, wrong>> BY <1>1 DEF ClockTicks
  <2>2. clock \in Nat /\ clock' \in Nat /\ clock <= clock' BY <2>1 DEF CountInv
  <2>3. \A c \in Clients : CountOK(clock', times[c], wrong[c]) BY <2>2, CountIs, CountLater
  <2> QED BY <2>1, <2>2, <2>3 DEF CountInv
<1>2. CASE ThrottleRestart
  <2>1. /\ clock' = clock /\ order' = <<>> /\ times' = [c \in Clients |-> <<>>]
        /\ wrong' = [c \in Clients |-> <<>>]
    BY <1>2 DEF ThrottleRestart
  <2>2. \A c \in Clients : CountOK(clock, times'[c], wrong'[c]) BY <2>1, CountIs
  <2>3. order' \in Seq(Clients) /\ Len(order') = 0 BY <2>1
  <2> QED BY <2>1, <2>2, <2>3, ThrottleNumbers DEF CountInv
<1>3. ASSUME NEW c \in Clients, MissingKey(c) PROVE CountInv'
  BY <1>3 DEF MissingKey, CountInv
<1>4. ASSUME NEW c \in Clients, RightKey(c) PROVE CountInv'
  <2>1. /\ clock' = clock /\ order' = Only(order, Clients \ {c})
        /\ times' = [times EXCEPT ![c] = <<>>] /\ wrong' = [wrong EXCEPT ![c] = <<>>]
    BY <1>4 DEF RightKey, RecordSuccess
  <2>2. order \in Seq(Clients) /\ Len(order) <= MAX_TRACKED_CLIENTS /\ DOMAIN times = Clients /\ DOMAIN wrong = Clients
    BY DEF CountInv
  <2>3. order' \in Seq(Clients) /\ Len(order') <= Len(order) BY <2>1, <2>2, OnlyPicks, OnlyShorter
  <2>4. Len(order') <= MAX_TRACKED_CLIENTS
    <3>1. Len(order') \in Nat /\ Len(order) \in Nat BY <2>2, <2>3
    <3> QED BY <2>2, <2>3, <3>1, ThrottleNumbers
  <2>5. ASSUME NEW d \in Clients PROVE CountOK(clock, times'[d], wrong'[d])
    <3>1. CASE d = c BY <3>1, <2>1, <2>2, CountIs
    <3>2. CASE d # c BY <3>2, <2>1, <2>2, CountIs
    <3> QED BY <3>1, <3>2
  <2>6. DOMAIN times' = Clients /\ DOMAIN wrong' = Clients BY <2>1, <2>2
  <2> QED BY <2>1, <2>3, <2>4, <2>5, <2>6 DEF CountInv
<1>5. ASSUME NEW c \in Clients, WrongKey(c) PROVE CountInv' BY <1>5, CountWrongKey
<1>6. CASE UNCHANGED throttleVars BY <1>6 DEF throttleVars, CountInv
<1> QED BY <1>1, <1>2, <1>3, <1>4, <1>5, <1>6 DEF ThrottleNext, Refuse

\* Only a wrong key locks out, and only one that has earned it.
LEMMA LocksAreEarned ==
  ASSUME CountInv, LockInv, [ThrottleNext]_throttleVars, NEW c \in Clients, lockedAt'[c] \ lockedAt[c] # {}
  PROVE  Earned(wrong[c], clock)
<1>1. PICK d \in Clients : WrongKey(d)
  <2>1. \/ lockedAt' = lockedAt
        \/ lockedAt' = [b \in Clients |-> {}]
        \/ \E d \in Clients : WrongKey(d)
    BY Zenon DEF ThrottleNext, ClockTicks, ThrottleRestart, Refuse, MissingKey, RightKey, throttleVars
  <2> QED BY <2>1
<1> DEFINE keys == RoomKeys(Unlocked(d))
           count == Append(InWindow(d, keys), clock)
<1>2. \/ lockedAt' = lockedAt
      \/ Len(count) >= max_failures /\ lockedAt' = [lockedAt EXCEPT ![d] = @ \cup {clock}]
  BY <1>1, ZenonT(30) DEF WrongKey, RecordFailure
<1> HIDE DEF keys
<1>3. c = d /\ Len(count) >= max_failures
  <2> HIDE DEF count
  <2>1. lockedAt \in [Clients -> SUBSET Nat] BY DEF LockInv
  <2> QED BY <1>2, <2>1
<1> QED BY <1>3, LimitIsEarned

LEMMA CountInvGives == CountInv => LockedInTime /\ TrackingBounded
<1> SUFFICES ASSUME CountInv PROVE LockedInTime /\ TrackingBounded OBVIOUS
<1>1. LockedInTime BY CountIs DEF CountOK, LockedInTime
<1> QED BY <1>1 DEF CountInv, TrackingBounded

(***************************************************************************)
(* For any number of clients and any limits: AUTH_MAX_FAILURES wrong keys  *)
(* within AUTH_WINDOW_SECONDS never go without a lockout, no lockout is    *)
(* made of fewer or older ones, and no more than MAX_TRACKED_CLIENTS are   *)
(* tracked (record_failure, _make_room).                                   *)
(***************************************************************************)
THEOREM FailuresCounted == ThrottleSpec => FailuresCount
<1>1. ThrottleInit => CountInv
  <2> SUFFICES ASSUME ThrottleInit PROVE CountInv OBVIOUS
  <2>1. /\ clock = 1 /\ order = <<>> /\ times = [c \in Clients |-> <<>>]
        /\ wrong = [c \in Clients |-> <<>>]
    BY DEF ThrottleInit
  <2>2. \A c \in Clients : CountOK(clock, times[c], wrong[c]) BY <2>1, CountNone
  <2>3. order \in Seq(Clients) /\ Len(order) = 0 BY <2>1
  <2> QED BY <2>1, <2>2, <2>3, ThrottleNumbers DEF CountInv
<1>2. ThrottleInit => LockInv BY DEF ThrottleInit, LockInv
<1>3. CountInv /\ LockInv /\ [ThrottleNext]_throttleVars =>
        [\A c \in Clients : lockedAt'[c] \ lockedAt[c] # {} =>
           LET before == Len(wrong[c]) - (max_failures - 1)
           IN before >= 0 /\ (max_failures > 1 => clock - wrong[c][before + 1] <= window_seconds)]_throttleVars
  BY LocksAreEarned DEF Earned
<1> QED BY <1>1, <1>2, <1>3, CountSteps, LockSteps, CountInvGives, PTL
     DEF ThrottleSpec, FailuresCount, LockEarned
=============================================================================
