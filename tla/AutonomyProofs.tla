--------------------------- MODULE AutonomyProofs ---------------------------
(***************************************************************************)
(* Proofs about the autonomy gate, for any number of threads, ids and      *)
(* requests, with failing database steps and with crashes.                 *)
(***************************************************************************)
EXTENDS Autonomy, TLAPS

\* Where a thread is, its local values are set.
LocalOK ==
  /\ \A c \in Callers : call[c].pc # "idle" => call[c].req \in Requests
  /\ \A c \in Callers : call[c].pc \in {"ask", "pending_approval"} => call[c].id \in ActionIds
  /\ \A c \in Callers : call[c].pc \in {"send", "log", "executed"} => call[c].id = NoId
  /\ \A r \in Resolvers : resolve[r].pc # "idle" => resolve[r].id \in ActionIds

TypeInv == TypeOK /\ LocalOK

\* Every step keeps every variable, and what each thread holds, well typed.
LEMMA TypeStep == TypeInv /\ [Next]_vars => TypeInv'
<1> SUFFICES ASSUME TypeInv, [Next]_vars PROVE TypeInv'
  OBVIOUS
<1> USE DEF TypeInv, TypeOK, LocalOK, dbVars, histVars
<1>1. ASSUME NEW c \in Callers, NEW q \in Requests, Dispatch(c, q) PROVE TypeInv'
  BY <1>1 DEF Dispatch, CallState, Returned
<1>2. ASSUME NEW c \in Callers, SendNow(c) PROVE TypeInv'
  <2>1. autoSent' \subseteq [req : Requests, snap : SettingsRows \cup {OffSettings}]
    <3>1. [req |-> call[c].req, snap |-> call[c].snap] \in [req : Requests, snap : SettingsRows \cup {OffSettings}]
      BY <1>2 DEF SendNow, CallState
    <3> QED BY <3>1, <1>2 DEF SendNow
  <2>2. call' \in [Callers -> CallState]
    BY <1>2 DEF SendNow, CallState
  <2>3. LocalOK'
    BY <1>2 DEF SendNow, CallState
  <2> QED BY <2>1, <2>2, <2>3, <1>2 DEF SendNow
<1>3. ASSUME NEW c \in Callers, LogNow(c) PROVE TypeInv'
  <2>1. log' \subseteq [by : ActionIds \cup Requests, approved : BOOLEAN]
    <3>1. [by |-> call[c].req, approved |-> TRUE] \in [by : ActionIds \cup Requests, approved : BOOLEAN]
      BY <1>3 DEF LogNow
    <3> QED BY <3>1, <1>3 DEF LogNow
  <2>2. call' \in [Callers -> CallState] /\ LocalOK'
    <3> PICK status \in {"executed", "error"} : call' = [call EXCEPT ![c].pc = status]
      BY <1>3 DEF LogNow
    <3> QED BY <1>3 DEF LogNow, CallState, Returned
  <2> QED BY <2>1, <2>2, <1>3 DEF LogNow
<1>4. ASSUME NEW c \in Callers, StorePending(c) PROVE TypeInv'
  <2> PICK id \in ActionIds \ usedIds :
         /\ usedIds' = usedIds \cup {id}
         /\ pending' \in {pending, pending \cup {id}}
         /\ call' = [call EXCEPT ![c] =
              [pc |-> "ask", req |-> call[c].req, snap |-> call[c].snap, id |-> id]]
    BY <1>4 DEF StorePending
  <2>1. call' \in [Callers -> CallState] /\ LocalOK'
    BY <1>4 DEF StorePending, CallState
  <2>2. pending' \subseteq ActionIds /\ usedIds' \subseteq ActionIds
    OBVIOUS
  <2> QED BY <2>1, <2>2, <1>4 DEF StorePending
<1>5. ASSUME NEW c \in Callers, RequestApproval(c) PROVE TypeInv'
  <2>2. call' \in [Callers -> CallState] /\ LocalOK'
    BY <1>5 DEF RequestApproval, CallState, Returned
  <2>3. asked' \subseteq ActionIds
    BY <1>5 DEF RequestApproval
  <2> QED BY <2>2, <2>3, <1>5 DEF RequestApproval
<1>6. ASSUME NEW c \in Callers, Return(c) \/ CallRaises(c) PROVE TypeInv'
  BY <1>6 DEF Return, CallRaises, IdleCall, CallState
<1>7. ASSUME NEW r \in Resolvers, NEW id \in ActionIds, NEW ok \in BOOLEAN, SelectRow(r, id, ok)
      PROVE TypeInv'
  BY <1>7 DEF SelectRow, ResolveState
<1>8. ASSUME NEW r \in Resolvers, DeleteRow(r) PROVE TypeInv'
  <2>1. CASE resolve' = [resolve EXCEPT ![r].pc = "act"]
    BY <2>1, <1>8 DEF DeleteRow, ResolveState
  <2>2. CASE resolve' = [resolve EXCEPT ![r] = IdleResolve]
    BY <2>2, <1>8 DEF DeleteRow, IdleResolve, ResolveState
  <2> QED BY <2>1, <2>2, <1>8 DEF DeleteRow
<1>9. ASSUME NEW r \in Resolvers, Act(r) PROVE TypeInv'
  BY <1>9 DEF Act, ResolveState
<1>10. ASSUME NEW r \in Resolvers, LogDecision(r) PROVE TypeInv'
  <2>1. log' \subseteq [by : ActionIds \cup Requests, approved : BOOLEAN]
    <3>1. [by |-> resolve[r].id, approved |-> resolve[r].ok]
            \in [by : ActionIds \cup Requests, approved : BOOLEAN]
      BY <1>10 DEF LogDecision, ResolveState
    <3> QED BY <3>1, <1>10 DEF LogDecision
  <2>2. resolve' \in [Resolvers -> ResolveState] /\ LocalOK'
    BY <1>10 DEF LogDecision, ResolveState
  <2> QED BY <2>1, <2>2, <1>10 DEF LogDecision
<1>11. ASSUME NEW r \in Resolvers, Learn(r) PROVE TypeInv'
  <2>1. learned' \subseteq [by : ActionIds, approved : BOOLEAN]
    <3>1. [by |-> resolve[r].id, approved |-> resolve[r].ok] \in [by : ActionIds, approved : BOOLEAN]
      BY <1>11 DEF Learn, ResolveState
    <3> QED BY <3>1, <1>11 DEF Learn
  <2>2. resolve' \in [Resolvers -> ResolveState] /\ LocalOK'
    BY <1>11 DEF Learn, ResolveState
  <2> QED BY <2>1, <2>2, <1>11 DEF Learn
<1>12. ASSUME NEW r \in Resolvers, NotifyNobody(r) \/ ResolveRaises(r) PROVE TypeInv'
  <2>1. resolve' \in [Resolvers -> ResolveState] /\ LocalOK'
    <3>1. resolve' = [resolve EXCEPT ![r] = IdleResolve] /\ UNCHANGED call
      BY <1>12 DEF NotifyNobody, Reply, ResolveRaises
    <3> QED BY <3>1 DEF IdleResolve, ResolveState
  <2>2. rejects' \in [ActionIds -> Nat]
    <3>1. CASE NotifyNobody(r)
      BY <3>1 DEF NotifyNobody, Reply
    <3>2. CASE ResolveRaises(r)
      BY <3>2 DEF ResolveRaises
    <3> QED BY <3>1, <3>2, <1>12
  <2> QED BY <2>1, <2>2, <1>12 DEF NotifyNobody, Reply, ResolveRaises
<1>13. ASSUME NEW s \in SettingsRows, SetAutonomy(s) PROVE TypeInv'
  BY <1>13 DEF SetAutonomy
<1>14. CASE Crash
  BY <1>14 DEF Crash, IdleCall, IdleResolve, CallState, ResolveState
<1>15. CASE UNCHANGED vars
  BY <1>15 DEF vars
<1> QED
  BY <1>1, <1>2, <1>3, <1>4, <1>5, <1>6, <1>7, <1>8, <1>9, <1>10, <1>11, <1>12, <1>13, <1>14, <1>15
     DEF Next, GateStep, DecisionStep, Owner, ChatReply, InboxDecision

\* The gate keeps every variable, and what each thread holds, well typed.
THEOREM TypeCorrect == Spec => []TypeInv
<1>1. Init => TypeInv
  BY DEF Init, TypeInv, TypeOK, LocalOK, IdleCall, IdleResolve, OffSettings, CallState, ResolveState
<1> QED
  BY <1>1, TypeStep, PTL DEF Spec

-----------------------------------------------------------------------------
(* What is sent without approval. *)

\* The settings a call carries to its send were in force once and call for a send.
PermitInv ==
  /\ {settings, OffSettings} \subseteq everSet
  /\ \A c \in Callers : call[c].pc = "send" =>
       /\ call[c].snap \in everSet
       /\ call[c].snap.mode = "full"
       /\ Permits(call[c].snap, call[c].req)
       /\ ~ForcedSemi(call[c].req, ~DbFaults)

\* A send nobody approved was permitted by settings that were in force, in full mode,
\* and was not one of the calls that full mode hands to the owner (execute_or_request).
THEOREM UnapprovedSends == Spec => []UnapprovedSendsPermitted
<1> DEFINE Inv == PermitInv /\ UnapprovedSendsPermitted
<1>1. Init => Inv
  BY DEF Init, PermitInv, UnapprovedSendsPermitted, IdleCall
<1>2. TypeInv /\ Inv /\ [Next]_vars => Inv'
  <2> SUFFICES ASSUME TypeInv, Inv, [Next]_vars PROVE Inv'
    OBVIOUS
  <2> USE DEF PermitInv, UnapprovedSendsPermitted, dbVars, histVars
  <2>1. ASSUME NEW c \in Callers, NEW q \in Requests, Dispatch(c, q) PROVE Inv'
    <3> PICK rowRead \in MayFail, snap \in {settings, OffSettings} :
          call' = [call EXCEPT ![c] =
            [pc   |-> IF ~Permits(snap, q) THEN "skipped"
                      ELSE IF EffectiveMode(snap, q, rowRead) = "full" THEN "send" ELSE "store",
             req  |-> q,
             snap |-> snap,
             id   |-> NoId]]
      BY <2>1 DEF Dispatch
    <3>1. EffectiveMode(snap, q, rowRead) = "full" => snap.mode = "full" /\ ~ForcedSemi(q, rowRead)
      BY DEF EffectiveMode
    <3>2. ~ForcedSemi(q, rowRead) => ~ForcedSemi(q, ~DbFaults)
      BY FlagsAssumption DEF ForcedSemi, MayFail
    <3> QED BY <3>1, <3>2, <2>1 DEF Dispatch, TypeInv, TypeOK, CallState
  <2>2. ASSUME NEW c \in Callers, SendNow(c) PROVE Inv'
    BY <2>2 DEF SendNow, TypeInv, TypeOK, CallState
  <2>3. ASSUME NEW c \in Callers, LogNow(c) PROVE Inv'
    BY <2>3 DEF LogNow, TypeInv, TypeOK, CallState
  <2>4. ASSUME NEW c \in Callers, StorePending(c) PROVE Inv'
    BY <2>4 DEF StorePending, TypeInv, TypeOK, CallState
  <2>5. ASSUME NEW c \in Callers, RequestApproval(c) PROVE Inv'
    BY <2>5 DEF RequestApproval, TypeInv, TypeOK, CallState
  <2>6. ASSUME NEW c \in Callers, Return(c) \/ CallRaises(c) PROVE Inv'
    BY <2>6 DEF Return, CallRaises, IdleCall, TypeInv, TypeOK
  <2>7. ASSUME NEW r \in Resolvers,
               \/ DecisionStep(r) \/ NotifyNobody(r) \/ ResolveRaises(r)
               \/ \E id \in ActionIds, ok \in BOOLEAN : SelectRow(r, id, ok)
        PROVE Inv'
    <3>1. UNCHANGED <<settings, call, everSet, autoSent>>
      BY <2>7 DEF DecisionStep, DeleteRow, Act, LogDecision, Learn, NotifyNobody, Reply,
                  ResolveRaises, SelectRow
    <3> QED BY <3>1
  <2>8. ASSUME NEW s \in SettingsRows, SetAutonomy(s) PROVE Inv'
    BY <2>8 DEF SetAutonomy
  <2>9. CASE Crash
    BY <2>9 DEF Crash, IdleCall
  <2>10. CASE UNCHANGED vars
    BY <2>10 DEF vars
  <2> QED
    BY <2>1, <2>2, <2>3, <2>4, <2>5, <2>6, <2>7, <2>8, <2>9, <2>10
       DEF Next, GateStep, Owner, ChatReply, InboxDecision
<1> QED
  BY <1>1, <1>2, TypeCorrect, PTL DEF Spec

-----------------------------------------------------------------------------
(* What a decision leaves behind. *)

\* A thread past its DELETE holds an id that is out of the table; ids are never reused.
ClosedInv ==
  /\ pending \subseteq usedIds
  /\ \A r \in Resolvers :
       /\ resolve[r].pc # "idle" => resolve[r].id \in usedIds
       /\ resolve[r].pc \notin {"idle", "delete"} => resolve[r].id \notin pending

\* process_approval_response deletes the row before it acts: the invariant of that order.
LEMMA Closed == Spec => [](ClosedInv /\ ProcessedStaysClosed)
<1> DEFINE Inv == ClosedInv /\ ProcessedStaysClosed
<1>1. Init => Inv
  BY DEF Init, ClosedInv, ProcessedStaysClosed, IdleResolve
<1>2. TypeInv /\ Inv /\ [Next]_vars => Inv'
  <2> SUFFICES ASSUME TypeInv, Inv, [Next]_vars PROVE Inv'
    OBVIOUS
  <2> USE DEF ClosedInv, ProcessedStaysClosed, dbVars, histVars
  <2>1. ASSUME NEW c \in Callers, StorePending(c) PROVE Inv'
    <3> PICK id \in ActionIds \ usedIds :
           usedIds' = usedIds \cup {id} /\ pending' \in {pending, pending \cup {id}}
      BY <2>1 DEF StorePending
    <3>1. UNCHANGED <<resolve, sends, rejects>>
      BY <2>1 DEF StorePending
    <3> QED BY <3>1
  <2>2. ASSUME NEW c \in Callers,
               \/ SendNow(c) \/ LogNow(c) \/ RequestApproval(c) \/ Return(c) \/ CallRaises(c)
               \/ \E q \in Requests : Dispatch(c, q)
        PROVE Inv'
    <3>1. UNCHANGED <<pending, resolve, usedIds, sends, rejects>>
      BY <2>2 DEF SendNow, LogNow, RequestApproval, Return, CallRaises, Dispatch
    <3> QED BY <3>1
  <2>3. ASSUME NEW r \in Resolvers, NEW id \in ActionIds, NEW ok \in BOOLEAN, SelectRow(r, id, ok)
        PROVE Inv'
    BY <2>3 DEF SelectRow, TypeInv, TypeOK
  <2>4. ASSUME NEW r \in Resolvers, DeleteRow(r) PROVE Inv'
    <3>1. CASE resolve' = [resolve EXCEPT ![r].pc = "act"] /\ pending' = pending \ {resolve[r].id}
      BY <3>1, <2>4 DEF DeleteRow, TypeInv, TypeOK, ResolveState
    <3>2. CASE resolve' = [resolve EXCEPT ![r] = IdleResolve] /\ pending' = pending
      BY <3>2, <2>4 DEF DeleteRow, IdleResolve, TypeInv, TypeOK
    <3> QED BY <3>1, <3>2, <2>4 DEF DeleteRow
  <2>5. ASSUME NEW r \in Resolvers, Act(r) PROVE Inv'
    <3>1. ClosedInv'
      BY <2>5 DEF Act, TypeInv, TypeOK, ResolveState
    <3>2. ASSUME NEW id \in ActionIds, sends'[id] + rejects'[id] > 0 PROVE id \in usedIds \ pending
      BY <3>2, <2>5 DEF Act, TypeInv, TypeOK
    <3> QED BY <3>1, <3>2, <2>5 DEF Act
  <2>6. ASSUME NEW r \in Resolvers, LogDecision(r) \/ Learn(r) PROVE Inv'
    BY <2>6 DEF LogDecision, Learn, TypeInv, TypeOK, ResolveState
  <2>7. ASSUME NEW r \in Resolvers, NotifyNobody(r) PROVE Inv'
    <3>1. ClosedInv'
      BY <2>7 DEF NotifyNobody, Reply, IdleResolve, TypeInv, TypeOK
    <3>2. ASSUME NEW id \in ActionIds, sends'[id] + rejects'[id] > 0 PROVE id \in usedIds \ pending
      BY <3>2, <2>7 DEF NotifyNobody, Reply, TypeInv, TypeOK
    <3> QED BY <3>1, <3>2, <2>7 DEF NotifyNobody
  <2>8. ASSUME NEW r \in Resolvers, ResolveRaises(r) PROVE Inv'
    BY <2>8 DEF ResolveRaises, IdleResolve, TypeInv, TypeOK
  <2>9. ASSUME NEW s \in SettingsRows, SetAutonomy(s) PROVE Inv'
    BY <2>9 DEF SetAutonomy
  <2>10. CASE Crash
    BY <2>10 DEF Crash, IdleResolve
  <2>11. CASE UNCHANGED vars
    BY <2>11 DEF vars
  <2> QED
    BY <2>1, <2>2, <2>3, <2>4, <2>5, <2>6, <2>7, <2>8, <2>9, <2>10, <2>11
       DEF Next, GateStep, DecisionStep, Owner, ChatReply, InboxDecision
<1> QED
  BY <1>1, <1>2, TypeCorrect, PTL DEF Spec

\* An action that was sent or rejected has left autonomy_pending for good, whatever the
\* other threads of process_approval_response do.
THEOREM ProcessedClosed == Spec => []ProcessedStaysClosed
  BY Closed, PTL

-----------------------------------------------------------------------------
(* One decision, one effect. *)

\* An id nobody raced for is held by one thread at most, and what has happened to it
\* follows from where that thread is.
SoleHolder ==
  \A r, t \in Resolvers :
    /\ resolve[r].pc # "idle" /\ resolve[t].pc # "idle"
    /\ resolve[r].id = resolve[t].id
    /\ resolve[r].id \notin raced
    => r = t

EffectOfHolder ==
  \A r \in Resolvers : (resolve[r].pc # "idle" /\ resolve[r].id \notin raced) =>
    /\ rejects[resolve[r].id] = 0
    /\ sends[resolve[r].id] =
         IF resolve[r].pc \in {"log", "learn", "notify"} /\ resolve[r].ok THEN 1 ELSE 0

OnceInv == SoleHolder /\ EffectOfHolder /\ DecidedAtMostOnce

\* How the threads of process_approval_response share an id: the invariant of one decision.
LEMMA Once == Spec => []OnceInv
<1>1. Init => OnceInv
  BY DEF Init, OnceInv, SoleHolder, EffectOfHolder, DecidedAtMostOnce, IdleResolve
<1>2. TypeInv /\ ClosedInv /\ ProcessedStaysClosed /\ OnceInv /\ [Next]_vars => OnceInv'
  <2> SUFFICES ASSUME TypeInv, ClosedInv, ProcessedStaysClosed, OnceInv, [Next]_vars PROVE OnceInv'
    OBVIOUS
  <2> USE DEF OnceInv, SoleHolder, EffectOfHolder, DecidedAtMostOnce, dbVars, histVars
  <2>0. /\ resolve \in [Resolvers -> ResolveState]
        /\ sends \in [ActionIds -> Nat] /\ rejects \in [ActionIds -> Nat]
        /\ \A r \in Resolvers : resolve[r].pc # "idle" => resolve[r].id \in ActionIds
    BY DEF TypeInv, TypeOK, LocalOK
  <2>1. ASSUME NEW c \in Callers,
               \/ GateStep(c) \/ Return(c) \/ CallRaises(c)
               \/ \E q \in Requests : Dispatch(c, q)
        PROVE OnceInv'
    <3>1. UNCHANGED <<resolve, sends, rejects, raced>>
      BY <2>1 DEF GateStep, SendNow, LogNow, StorePending, RequestApproval, Return, CallRaises, Dispatch
    <3> QED BY <3>1
  <2>2. ASSUME NEW r \in Resolvers, NEW id \in ActionIds, NEW ok \in BOOLEAN, SelectRow(r, id, ok)
        PROVE OnceInv'
    <3>1. /\ resolve' = [resolve EXCEPT ![r] = [pc |-> "delete", id |-> id, ok |-> ok]]
          /\ raced \subseteq raced'
          /\ UNCHANGED <<sends, rejects>>
      BY <2>2 DEF SelectRow
    <3>2. sends[id] = 0 /\ rejects[id] = 0
      <4>1. id \in pending
        BY <2>2 DEF SelectRow
      <4>2. ~(sends[id] + rejects[id] > 0)
        BY <4>1 DEF ProcessedStaysClosed
      <4>3. sends[id] \in Nat /\ rejects[id] \in Nat
        BY <2>0
      <4> QED BY <4>2, <4>3
    <3>3. ASSUME NEW t \in Resolvers, resolve[t].pc # "idle", resolve[t].id = id
          PROVE id \in raced'
      <4>1. resolve[t].pc = "delete"
        BY <3>3, <2>2 DEF SelectRow, ClosedInv
      <4> QED BY <4>1, <3>3, <2>2 DEF SelectRow
    <3>4. SoleHolder'
      BY <3>1, <3>3, <2>0
    <3>5. EffectOfHolder'
      BY <3>1, <3>2, <2>0
    <3> QED BY <3>1, <3>4, <3>5
  <2>3. ASSUME NEW r \in Resolvers, DeleteRow(r) PROVE OnceInv'
    <3>1. CASE resolve' = [resolve EXCEPT ![r].pc = "act"]
      BY <3>1, <2>0, <2>3 DEF DeleteRow, ResolveState
    <3>2. CASE resolve' = [resolve EXCEPT ![r] = IdleResolve]
      BY <3>2, <2>0, <2>3 DEF DeleteRow, IdleResolve
    <3> QED BY <3>1, <3>2, <2>3 DEF DeleteRow
  <2>4. ASSUME NEW r \in Resolvers, Act(r) PROVE OnceInv'
    <3>1. /\ resolve' = [resolve EXCEPT ![r].pc = "log"]
          /\ resolve[r].pc = "act"
          /\ UNCHANGED <<rejects, raced>>
      BY <2>4 DEF Act
    <3>2. /\ resolve'[r].pc = "log"
          /\ resolve'[r].id = resolve[r].id /\ resolve'[r].ok = resolve[r].ok
          /\ \A t \in Resolvers \ {r} : resolve'[t] = resolve[t]
      BY <3>1, <2>0 DEF ResolveState
    <3>3. /\ sends'[resolve[r].id] = sends[resolve[r].id] + (IF resolve[r].ok THEN 1 ELSE 0)
          /\ \A id \in ActionIds \ {resolve[r].id} : sends'[id] = sends[id]
      BY <2>0, <2>4 DEF Act
    <3>4. SoleHolder'
      BY <3>1, <3>2
    <3>5. EffectOfHolder'
      BY <3>1, <3>2, <3>3, <2>0
    <3>6. DecidedAtMostOnce'
      BY <3>1, <3>3, <2>0
    <3> QED BY <3>4, <3>5, <3>6
  <2>5. ASSUME NEW r \in Resolvers, LogDecision(r) \/ Learn(r) PROVE OnceInv'
    <3>1. /\ resolve[r].pc \in {"log", "learn"}
          /\ \E pc \in {"learn", "notify"} : resolve' = [resolve EXCEPT ![r].pc = pc]
          /\ UNCHANGED <<sends, rejects, raced>>
      BY <2>5 DEF LogDecision, Learn
    <3> QED BY <3>1, <2>0 DEF ResolveState
  <2>6. ASSUME NEW r \in Resolvers, NotifyNobody(r) PROVE OnceInv'
    <3>1. /\ resolve' = [resolve EXCEPT ![r] = IdleResolve]
          /\ resolve[r].pc = "notify"
          /\ UNCHANGED <<sends, raced>>
      BY <2>6 DEF NotifyNobody, Reply
    <3>2. resolve'[r].pc = "idle" /\ \A t \in Resolvers \ {r} : resolve'[t] = resolve[t]
      BY <3>1, <2>0 DEF IdleResolve
    <3>3. /\ rejects'[resolve[r].id] = rejects[resolve[r].id] + (IF resolve[r].ok THEN 0 ELSE 1)
          /\ \A id \in ActionIds \ {resolve[r].id} : rejects'[id] = rejects[id]
      BY <3>1, <2>0, <2>6 DEF NotifyNobody, Reply
    <3>4. SoleHolder'
      BY <3>1, <3>2
    <3>5. EffectOfHolder'
      BY <3>1, <3>2, <3>3, <2>0
    <3>6. DecidedAtMostOnce'
      BY <3>1, <3>3, <2>0
    <3> QED BY <3>4, <3>5, <3>6
  <2>7. ASSUME NEW r \in Resolvers, ResolveRaises(r) PROVE OnceInv'
    BY <2>7, <2>0 DEF ResolveRaises, IdleResolve
  <2>8. ASSUME NEW s \in SettingsRows, SetAutonomy(s) PROVE OnceInv'
    BY <2>8 DEF SetAutonomy
  <2>9. CASE Crash
    BY <2>9 DEF Crash, IdleResolve
  <2>10. CASE UNCHANGED vars
    BY <2>10 DEF vars
  <2> QED
    BY <2>1, <2>2, <2>3, <2>4, <2>5, <2>6, <2>7, <2>8, <2>9, <2>10
       DEF Next, DecisionStep, Owner, ChatReply, InboxDecision
<1> QED
  BY <1>1, <1>2, TypeCorrect, Closed, PTL DEF Spec

\* Unless two threads of process_approval_response read its row before either deletes it,
\* an id is sent or rejected once and never both.
THEOREM DecidedOnce == Spec => []DecidedAtMostOnce
  BY Once, PTL DEF OnceInv

-----------------------------------------------------------------------------
(* What autonomy_log claims. *)

\* A thread that is about to log an action, or has reported one, has sent it.
SentFirst ==
  /\ \A c \in Callers : call[c].pc \in {"log", "executed"} =>
       \E a \in autoSent : a.req = call[c].req
  /\ \A r \in Resolvers : (resolve[r].pc \in {"log", "learn", "notify"} /\ resolve[r].ok) =>
       sends[resolve[r].id] > 0

TruthInv == SentFirst /\ LogIsTruthful

\* What no step takes back: the sends are history.
Kept == autoSent \subseteq autoSent' /\ \A id \in ActionIds : sends[id] > 0 => sends'[id] > 0

\* A log that is left alone, or gets a row about an action that was sent, stays truthful.
LEMMA LogKept ==
  ASSUME LogIsTruthful, Kept,
         \A e \in log' \ log : e.approved =>
           \/ e.by \in ActionIds /\ sends'[e.by] > 0
           \/ \E a \in autoSent' : a.req = e.by
  PROVE  LogIsTruthful'
<1> SUFFICES ASSUME NEW e \in log', e.approved
             PROVE  \/ e.by \in ActionIds /\ sends'[e.by] > 0
                    \/ \E a \in autoSent' : a.req = e.by
  BY DEF LogIsTruthful
<1>1. CASE e \in log
  BY <1>1 DEF LogIsTruthful, Kept
<1>2. CASE e \notin log
  BY <1>2
<1> QED BY <1>1, <1>2

\* Steps of other threads keep what a thread knows to be sent.
LEMMA TruthKept ==
  ASSUME TruthInv, UNCHANGED <<call, resolve, log, autoSent, sends>> PROVE TruthInv'
  BY DEF TruthInv, SentFirst, LogIsTruthful

\* execute_or_request and process_approval_response log an action after its send, and never an
\* action that was not sent: the invariant of that order.
LEMMA Truthful == Spec => []TruthInv
<1>1. Init => TruthInv
  BY DEF Init, TruthInv, SentFirst, LogIsTruthful, IdleCall, IdleResolve
<1>2. TypeInv /\ TruthInv /\ [Next]_vars => TruthInv'
  <2> SUFFICES ASSUME TypeInv, TruthInv, [Next]_vars PROVE TruthInv'
    OBVIOUS
  <2>0. /\ call \in [Callers -> CallState]
        /\ resolve \in [Resolvers -> ResolveState]
        /\ sends \in [ActionIds -> Nat]
        /\ \A r \in Resolvers : resolve[r].pc # "idle" => resolve[r].id \in ActionIds
        /\ SentFirst /\ LogIsTruthful
    BY DEF TypeInv, TypeOK, LocalOK, TruthInv
  <2> USE DEF dbVars, histVars
  <2>1. ASSUME NEW c \in Callers, NEW q \in Requests, Dispatch(c, q) PROVE TruthInv'
    <3>1. PICK v : v.pc \notin {"log", "executed"} /\ call' = [call EXCEPT ![c] = v]
      <4> DEFINE w(snap, rowRead) ==
            [pc   |-> IF ~Permits(snap, q) THEN "skipped"
                      ELSE IF EffectiveMode(snap, q, rowRead) = "full" THEN "send" ELSE "store",
             req  |-> q, snap |-> snap, id |-> NoId]
      <4>1. PICK rowRead \in MayFail, snap \in {settings, OffSettings} : call' = [call EXCEPT ![c] = w(snap, rowRead)]
        BY <2>1 DEF Dispatch
      <4>2. w(snap, rowRead).pc \notin {"log", "executed"}
        OBVIOUS
      <4> QED BY <4>1, <4>2
    <3>2. UNCHANGED <<resolve, log, autoSent, sends>>
      BY <2>1 DEF Dispatch
    <3> QED BY <3>1, <3>2, <2>0 DEF TruthInv, SentFirst, LogIsTruthful
  <2>2. ASSUME NEW c \in Callers, SendNow(c) PROVE TruthInv'
    <3>1. /\ call' = [call EXCEPT ![c].pc = "log"]
          /\ autoSent' = autoSent \cup {[req |-> call[c].req, snap |-> call[c].snap]}
          /\ UNCHANGED <<resolve, log, sends>>
      BY <2>2 DEF SendNow
    <3>2. call'[c].req = call[c].req /\ \A d \in Callers \ {c} : call'[d] = call[d]
      BY <3>1, <2>0 DEF CallState
    <3>3. \E a \in autoSent' : a.req = call'[c].req
      <4> DEFINE sent == [req |-> call[c].req, snap |-> call[c].snap]
      <4>1. sent \in autoSent' /\ sent.req = call[c].req
        BY <3>1
      <4> HIDE DEF sent
      <4> QED BY <4>1, <3>2
    <3>4. SentFirst'
      BY <3>1, <3>2, <3>3, <2>0 DEF SentFirst
    <3>5. LogIsTruthful'
      BY <3>1, <2>0 DEF LogIsTruthful
    <3> QED BY <3>4, <3>5 DEF TruthInv
  <2>3. ASSUME NEW c \in Callers, LogNow(c) PROVE TruthInv'
    <3>1. /\ call[c].pc = "log"
          /\ \E status \in {"executed", "error"} : call' = [call EXCEPT ![c].pc = status]
          /\ log' \subseteq log \cup {[by |-> call[c].req, approved |-> TRUE]}
          /\ UNCHANGED <<resolve, autoSent, sends>>
      BY <2>3 DEF LogNow
    <3>2. \E a \in autoSent' : a.req = call[c].req
      BY <3>1, <2>0 DEF SentFirst
    <3>3. call'[c].req = call[c].req /\ \A d \in Callers \ {c} : call'[d] = call[d]
      BY <3>1, <2>0 DEF CallState
    <3>4. SentFirst'
      BY <3>1, <3>2, <3>3, <2>0 DEF SentFirst
    <3>5. Kept
      BY <3>1 DEF Kept
    <3>6. \A e \in log' \ log : e.by = call[c].req
      BY <3>1
    <3>7. LogIsTruthful'
      BY <3>2, <3>5, <3>6, <2>0, LogKept
    <3> QED BY <3>4, <3>7 DEF TruthInv
  <2>4. ASSUME NEW c \in Callers, StorePending(c) \/ RequestApproval(c) PROVE TruthInv'
    <3>1. UNCHANGED <<resolve, log, autoSent, sends>>
      BY <2>4 DEF StorePending, RequestApproval
    <3>2. /\ call'[c].pc \in {"ask", "pending_approval"}
          /\ \A d \in Callers \ {c} : call'[d] = call[d]
      <4>1. CASE StorePending(c)
        BY <4>1, <2>0 DEF StorePending
      <4>2. CASE RequestApproval(c)
        BY <4>2, <2>0 DEF RequestApproval, CallState
      <4> QED BY <4>1, <4>2, <2>4
    <3> QED BY <3>1, <3>2, <2>0 DEF TruthInv, SentFirst, LogIsTruthful
  <2>5. ASSUME NEW c \in Callers, Return(c) \/ CallRaises(c) PROVE TruthInv'
    BY <2>5, <2>0 DEF Return, CallRaises, IdleCall, TruthInv, SentFirst, LogIsTruthful
  <2>6. ASSUME NEW r \in Resolvers, NEW id \in ActionIds, NEW ok \in BOOLEAN, SelectRow(r, id, ok)
        PROVE TruthInv'
    <3>1. /\ resolve' = [resolve EXCEPT ![r] = [pc |-> "delete", id |-> id, ok |-> ok]]
          /\ UNCHANGED <<call, log, autoSent, sends>>
      BY <2>6 DEF SelectRow
    <3> QED BY <3>1, <2>0 DEF TruthInv, SentFirst, LogIsTruthful
  <2>7. ASSUME NEW r \in Resolvers, DeleteRow(r) PROVE TruthInv'
    <3>1. /\ \/ resolve' = [resolve EXCEPT ![r] = [resolve[r] EXCEPT !.pc = "act"]]
             \/ resolve' = [resolve EXCEPT ![r] = IdleResolve]
          /\ UNCHANGED <<call, log, autoSent, sends>>
      BY <2>7 DEF DeleteRow
    <3>2. \E v : v.pc \in {"act", "idle"} /\ resolve' = [resolve EXCEPT ![r] = v]
      BY <3>1, <2>0 DEF IdleResolve, ResolveState
    <3> QED BY <3>1, <3>2, <2>0 DEF TruthInv, SentFirst, LogIsTruthful
  <2>8. ASSUME NEW r \in Resolvers, Act(r) PROVE TruthInv'
    <3>1. /\ resolve[r].pc = "act"
          /\ resolve' = [resolve EXCEPT ![r] = [resolve[r] EXCEPT !.pc = "log"]]
          /\ UNCHANGED <<call, log, autoSent>>
      BY <2>8 DEF Act
    <3>2. /\ resolve'[r].id = resolve[r].id /\ resolve'[r].ok = resolve[r].ok
          /\ resolve[r].id \in ActionIds
          /\ \A t \in Resolvers \ {r} : resolve'[t] = resolve[t]
      BY <3>1, <2>0 DEF ResolveState
    <3>3. \A id \in ActionIds : sends'[id] >= sends[id]
      BY <2>8, <2>0 DEF Act
    <3>4. resolve[r].ok => sends'[resolve[r].id] > 0
      BY <3>2, <2>8, <2>0 DEF Act
    <3>5. \A id \in ActionIds : sends[id] > 0 => sends'[id] > 0
      <4>1. sends' \in [ActionIds -> Nat]
        BY <2>8, <2>0 DEF Act
      <4> QED BY <4>1, <3>3, <2>0
    <3>6. SentFirst'
      BY <3>1, <3>2, <3>4, <3>5, <2>0 DEF SentFirst
    <3>7. LogIsTruthful'
      BY <3>1, <3>5, <2>0, LogKept DEF Kept
    <3> QED BY <3>6, <3>7 DEF TruthInv
  <2>9. ASSUME NEW r \in Resolvers, LogDecision(r) \/ Learn(r) PROVE TruthInv'
    <3>1. /\ resolve[r].pc \in {"log", "learn"}
          /\ \E pc \in {"learn", "notify"} : resolve' = [resolve EXCEPT ![r] = [resolve[r] EXCEPT !.pc = pc]]
          /\ UNCHANGED <<call, autoSent, sends>>
      BY <2>9 DEF LogDecision, Learn
    <3>2. resolve[r].pc = "log" \/ log' = log
      BY <2>9 DEF LogDecision, Learn
    <3>3. log' \subseteq log \cup {[by |-> resolve[r].id, approved |-> resolve[r].ok]}
      BY <2>9 DEF LogDecision, Learn
    <3>4. /\ resolve'[r].id = resolve[r].id /\ resolve'[r].ok = resolve[r].ok
          /\ \A t \in Resolvers \ {r} : resolve'[t] = resolve[t]
      BY <3>1, <2>0 DEF ResolveState
    <3>5. SentFirst'
      BY <3>1, <3>4, <2>0 DEF SentFirst
    <3>6. resolve[r].ok => resolve[r].id \in ActionIds /\ sends'[resolve[r].id] > 0
      BY <3>1, <2>0 DEF SentFirst
    <3>7. \A e \in log' \ log : e.by = resolve[r].id /\ e.approved = resolve[r].ok
      BY <3>3
    <3>8. Kept
      BY <3>1 DEF Kept
    <3>9. LogIsTruthful'
      BY <3>6, <3>7, <3>8, <2>0, LogKept
    <3> QED BY <3>5, <3>9 DEF TruthInv
  <2>10. ASSUME NEW r \in Resolvers, NotifyNobody(r) \/ ResolveRaises(r) PROVE TruthInv'
    <3>1. /\ resolve' = [resolve EXCEPT ![r] = IdleResolve]
          /\ UNCHANGED <<call, log, autoSent, sends>>
      BY <2>10 DEF NotifyNobody, Reply, ResolveRaises
    <3> QED BY <3>1, <2>0 DEF IdleResolve, TruthInv, SentFirst, LogIsTruthful
  <2>11. ASSUME NEW s \in SettingsRows, SetAutonomy(s) PROVE TruthInv'
    BY <2>11, TruthKept DEF SetAutonomy
  <2>12. CASE Crash
    BY <2>12, <2>0 DEF Crash, IdleCall, IdleResolve, TruthInv, SentFirst, LogIsTruthful
  <2>13. CASE UNCHANGED vars
    BY <2>13, TruthKept DEF vars
  <2> QED
    BY <2>1, <2>2, <2>3, <2>4, <2>5, <2>6, <2>7, <2>8, <2>9, <2>10, <2>11, <2>12, <2>13
       DEF Next, GateStep, DecisionStep, Owner, ChatReply, InboxDecision
<1> QED
  BY <1>1, <1>2, TypeCorrect, PTL DEF Spec

\* A row of autonomy_log that says "approved" is about an action that was sent, whatever
\* fails or stops between the send and the INSERT.
THEOREM LogTruthful == Spec => []LogIsTruthful
  BY Truthful, PTL DEF TruthInv

\* Nothing takes a send back.
LEMMA KeptStep == TypeInv /\ [Next]_vars => Kept
<1> SUFFICES ASSUME TypeInv, [Next]_vars PROVE Kept
  OBVIOUS
<1>0. sends \in [ActionIds -> Nat]
  BY DEF TypeInv, TypeOK
<1>1. ASSUME NEW r \in Resolvers, Act(r) PROVE Kept
  <2>1. autoSent' = autoSent
    BY <1>1 DEF Act
  <2>2. sends' = sends \/ sends' = [sends EXCEPT ![resolve[r].id] = @ + 1]
    BY <1>1 DEF Act
  <2>3. \A id \in ActionIds : sends[id] > 0 => sends'[id] > 0
    BY <2>2, <1>0
  <2> QED BY <2>1, <2>3 DEF Kept
<1>2. ASSUME NEW c \in Callers, GateStep(c) PROVE Kept
  BY <1>2 DEF GateStep, SendNow, LogNow, StorePending, RequestApproval, histVars, Kept
<1>3. ASSUME UNCHANGED <<autoSent, sends>> PROVE Kept
  BY <1>3 DEF Kept
<1>4. ASSUME NEW c \in Callers, NEW q \in Requests, Dispatch(c, q) PROVE Kept
  BY <1>3, <1>4 DEF Dispatch, histVars
<1>5. ASSUME NEW c \in Callers, Return(c) \/ CallRaises(c) PROVE Kept
  BY <1>3, <1>5 DEF Return, CallRaises, histVars
<1>6. ASSUME NEW r \in Resolvers, DeleteRow(r) \/ LogDecision(r) \/ Learn(r) \/ NotifyNobody(r) \/ ResolveRaises(r)
      PROVE  Kept
  BY <1>3, <1>6 DEF DeleteRow, LogDecision, Learn, NotifyNobody, ResolveRaises, histVars
<1>7. CASE Owner
  BY <1>3, <1>7 DEF Owner, SetAutonomy, ChatReply, InboxDecision, SelectRow
<1>8. CASE Crash
  BY <1>3, <1>8 DEF Crash, histVars
<1>9. CASE UNCHANGED vars
  BY <1>3, <1>9 DEF vars, histVars
<1> QED BY <1>1, <1>2, <1>4, <1>5, <1>6, <1>7, <1>8, <1>9 DEF Next, DecisionStep

\* What has raced has raced.
LEMMA RacedGrows == [Next]_vars => raced \subseteq raced'
BY DEF Next, GateStep, SendNow, LogNow, StorePending, RequestApproval, Return, CallRaises, Dispatch,
       DecisionStep, DeleteRow, Act, LogDecision, Learn, NotifyNobody, Reply, ResolveRaises, Owner,
       SetAutonomy, ChatReply, InboxDecision, SelectRow, Crash, dbVars, histVars, vars

=============================================================================
