------------------------------ MODULE Autonomy ------------------------------
(***************************************************************************)
(* The autonomy gate of core/autonomy.py: every action the assistant wants *)
(* to take is a call of execute_or_request, and every decision of the      *)
(* owner is a call of process_approval_response (a chat reply, or the      *)
(* approval inbox of core/api.py).  Both run in server threads that share  *)
(* nothing but the database, so each database transaction and each send is *)
(* a step of its own.                                                      *)
(*                                                                         *)
(* A step that talks to the database can fail in two ways.  A failed       *)
(* statement is caught and logged by most functions ("swallowed"); a       *)
(* failed connect() happens outside their try blocks and is raised to the  *)
(* caller.  Both are possible when DbFaults holds, and the server may stop *)
(* and start again when Crashes holds.                                     *)
(***************************************************************************)
EXTENDS Naturals, FiniteSets

CONSTANTS
  Callers,         \* threads that call execute_or_request
  Resolvers,       \* threads that call process_approval_response
  ActionIds,       \* the values uuid4()[:8] takes; bounds the approvals asked for
  Requests,        \* the arguments of execute_or_request
  SettingsRows,    \* the rows POST /autonomy may store
  SensitiveRoles,  \* the roles is_sensitive_role knows by their name
  TaggedRoles,     \* the roles it knows by the tags or display name of their row only
  NoId, NoRequest, \* "not set"
  DbFaults,        \* may a database step fail?
  Crashes          \* may the server be stopped and started again?

Modes == {"off", "semi", "full"}

ASSUME RequestsAssumption ==
  /\ \A q \in Requests : q.force \in BOOLEAN
  /\ NoRequest \notin Requests
ASSUME SettingsAssumption ==
  \A s \in SettingsRows : s.mode \in Modes /\ s.owner \in BOOLEAN
ASSUME IdsAssumption == NoId \notin ActionIds
ASSUME FlagsAssumption == DbFaults \in BOOLEAN /\ Crashes \in BOOLEAN

VARIABLES
  settings,   \* the row of autonomy_settings
  pending,    \* the action ids in autonomy_pending
  log,        \* autonomy_log: who acted and whether the row says approved
  learned,    \* employee_memory rows about decisions
  asked,      \* ids whose approval request reached the owner's chat
  call,       \* the state of each thread in execute_or_request
  resolve,    \* the state of each thread in process_approval_response
  \* history, read by the properties only (usedIds also keeps ids fresh)
  usedIds,    \* ids handed out
  everSet,    \* every settings row there has been
  autoSent,   \* sends nobody approved: the request and the settings read for it
  sends,      \* how often the action behind an id was sent after a YES
  rejects,    \* how often the owner was told that an id is rejected and cancelled
  raced       \* ids whose row a thread read while another was about to delete it

dbVars   == <<settings, pending, log, learned, asked>>
histVars == <<usedIds, everSet, autoSent, sends, rejects, raced>>
vars     == <<dbVars, call, resolve, histVars>>

\* get_autonomy_settings: the row made on first access, also the answer when the SELECT fails.
OffSettings == [mode |-> "off", actions |-> {}, channels |-> {}, owner |-> FALSE]

IdleCall    == [pc |-> "idle", req |-> NoRequest, snap |-> OffSettings, id |-> NoId]
IdleResolve == [pc |-> "idle", id |-> NoId, ok |-> FALSE]

\* The "status" execute_or_request returns.
Returned == {"executed", "error", "pending_approval", "skipped"}

CallState ==
  [pc   : {"idle", "send", "log", "store", "ask"} \cup Returned,
   req  : Requests \cup {NoRequest},
   snap : SettingsRows \cup {OffSettings},
   id   : ActionIds \cup {NoId}]
ResolveState ==
  [pc : {"idle", "delete", "act", "log", "learn", "notify"},
   id : ActionIds \cup {NoId},
   ok : BOOLEAN]

TypeOK ==
  /\ settings \in SettingsRows \cup {OffSettings}
  /\ pending \subseteq ActionIds
  /\ asked \subseteq ActionIds
  /\ usedIds \subseteq ActionIds
  /\ raced \subseteq ActionIds
  /\ log \subseteq [by : ActionIds \cup Requests, approved : BOOLEAN]
  /\ learned \subseteq [by : ActionIds, approved : BOOLEAN]
  /\ everSet \subseteq SettingsRows \cup {OffSettings}
  /\ autoSent \subseteq [req : Requests, snap : SettingsRows \cup {OffSettings}]
  /\ sends \in [ActionIds -> Nat]
  /\ rejects \in [ActionIds -> Nat]
  /\ call \in [Callers -> CallState]
  /\ resolve \in [Resolvers -> ResolveState]

-----------------------------------------------------------------------------
(* The decision of execute_or_request. *)

\* Off mode and the two allowlists, of which an empty one allows everything.
Permits(s, q) ==
  /\ s.mode # "off"
  /\ s.actions = {} \/ q.type \in s.actions
  /\ s.channels = {} \/ q.channel \in s.channels

\* What turns full mode into semi mode for one call.  is_sensitive_role reads the row of
\* the role; when that read fails it goes by the name alone.
ForcedSemi(q, rowRead) ==
  \/ q.force
  \/ q.type = "request_access"
  \/ q.role \in SensitiveRoles
  \/ rowRead /\ q.role \in TaggedRoles

\* A gate that lets a sensitive role act on its own in full mode.
EffectiveModeIgnoresRole(s, q, rowRead) ==
  IF s.mode = "full" /\ (q.force \/ q.type = "request_access") THEN "semi" ELSE s.mode

EffectiveMode(s, q, rowRead) ==
  IF s.mode = "full" /\ ForcedSemi(q, rowRead) THEN "semi" ELSE s.mode

-----------------------------------------------------------------------------
(* execute_or_request, step by step. *)

\* A SELECT may fail, and its caller goes on with a default.
MayFail == {TRUE} \cup (IF DbFaults THEN {FALSE} ELSE {})

\* The settings are read once and decide the whole call; a failed SELECT reads as off.
Dispatch(c, q) ==
  /\ call[c].pc = "idle"
  /\ \E rowRead \in MayFail, snap \in {settings} \cup (IF DbFaults THEN {OffSettings} ELSE {}) :
       call' = [call EXCEPT ![c] =
         [pc   |-> IF ~Permits(snap, q) THEN "skipped"
                   ELSE IF EffectiveMode(snap, q, rowRead) = "full" THEN "send" ELSE "store",
          req  |-> q,
          snap |-> snap,
          id   |-> NoId]]
  /\ UNCHANGED <<dbVars, resolve, histVars>>

\* Full mode: _send_via_channel, which never raises.
SendNow(c) ==
  /\ call[c].pc = "send"
  /\ autoSent' = autoSent \cup {[req |-> call[c].req, snap |-> call[c].snap]}
  /\ call' = [call EXCEPT ![c].pc = "log"]
  /\ UNCHANGED <<dbVars, resolve, usedIds, everSet, sends, rejects, raced>>

\* log_autonomous_action: a failed INSERT is swallowed; a failed connect is raised
\* into the except branch, which logs again and reports an error.
LogNow(c) ==
  /\ call[c].pc = "log"
  /\ \/ log' = log \cup {[by |-> call[c].req, approved |-> TRUE]}
     \/ DbFaults /\ log' = log
  /\ \E status \in {"executed"} \cup (IF DbFaults THEN {"error"} ELSE {}) :
       call' = [call EXCEPT ![c].pc = status]
  /\ UNCHANGED <<settings, pending, learned, asked, resolve, histVars>>

\* Semi mode: store the pending row under a fresh id; a failed INSERT is swallowed.
StorePending(c) ==
  /\ call[c].pc = "store"
  /\ \E id \in ActionIds \ usedIds :
       /\ usedIds' = usedIds \cup {id}
       /\ \/ pending' = pending \cup {id}
          \/ DbFaults /\ pending' = pending
       /\ call' = [call EXCEPT ![c] =
            [pc |-> "ask", req |-> call[c].req, snap |-> call[c].snap, id |-> id]]
  /\ UNCHANGED <<settings, log, learned, asked, resolve, everSet, autoSent, sends, rejects, raced>>

\* request_approval reads the settings again and needs a configured owner; the
\* message may fail to go out, and the call still returns pending_approval.
RequestApproval(c) ==
  /\ call[c].pc = "ask"
  /\ \/ settings.owner /\ asked' = asked \cup {call[c].id}
     \/ asked' = asked
  /\ call' = [call EXCEPT ![c].pc = "pending_approval"]
  /\ UNCHANGED <<settings, pending, log, learned, resolve, histVars>>

\* The caller takes the answer.
Return(c) ==
  /\ call[c].pc \in Returned
  /\ call' = [call EXCEPT ![c] = IdleCall]
  /\ UNCHANGED <<dbVars, resolve, histVars>>

\* A connect() that fails in log_autonomous_action (twice), before the INSERT of the
\* pending row or in request_approval is raised to the caller.
CallRaises(c) ==
  /\ DbFaults
  /\ call[c].pc \in {"log", "store", "ask"}
  /\ call' = [call EXCEPT ![c] = IdleCall]
  /\ UNCHANGED <<dbVars, resolve, histVars>>

-----------------------------------------------------------------------------
(* process_approval_response, step by step. *)

\* The SELECT: a thread goes on with the row it found, else it answers "not found".
SelectRow(r, id, ok) ==
  /\ resolve[r].pc = "idle"
  /\ id \in pending
  /\ resolve' = [resolve EXCEPT ![r] = [pc |-> "delete", id |-> id, ok |-> ok]]
  /\ raced' = raced \cup {resolve[t].id : t \in {u \in Resolvers :
                              resolve[u].pc = "delete" /\ resolve[u].id = id}}
  /\ UNCHANGED <<dbVars, call, usedIds, everSet, autoSent, sends, rejects>>

\* process_approval_from: "YES <id>" or "NO <id>" in the owner's chat.
ChatReply(r, id, ok) == id \in asked /\ settings.owner /\ SelectRow(r, id, ok)

\* resolve_pending: the approval inbox, which lists what is pending.
InboxDecision(r, id, ok) == SelectRow(r, id, ok)

\* A resolver that acts on the row and leaves it in the table.
DeleteRowForgotten(r) ==
  /\ resolve[r].pc = "delete"
  /\ resolve' = [resolve EXCEPT ![r].pc = "act"]
  /\ UNCHANGED <<dbVars, call, histVars>>

\* A resolver that writes its log row in the transaction of the DELETE.
DeleteRowAndLog(r) ==
  /\ resolve[r].pc = "delete"
  /\ pending' = pending \ {resolve[r].id}
  /\ log' = log \cup {[by |-> resolve[r].id, approved |-> resolve[r].ok]}
  /\ resolve' = [resolve EXCEPT ![r].pc = "act"]
  /\ UNCHANGED <<settings, learned, asked, call, histVars>>

\* The DELETE and the commit.  The row count is not looked at, so a thread whose row
\* another thread has deleted meanwhile goes on as well.  A failure rolls back.
DeleteRow(r) ==
  /\ resolve[r].pc = "delete"
  /\ \/ /\ pending' = pending \ {resolve[r].id}
        /\ resolve' = [resolve EXCEPT ![r].pc = "act"]
     \/ /\ DbFaults
        /\ pending' = pending
        /\ resolve' = [resolve EXCEPT ![r] = IdleResolve]
  /\ UNCHANGED <<settings, log, learned, asked, call, histVars>>

\* A resolver that reads the settings again and drops the action in off mode.
ActRechecksMode(r) ==
  /\ resolve[r].pc = "act"
  /\ sends' = IF resolve[r].ok /\ settings.mode # "off"
               THEN [sends EXCEPT ![resolve[r].id] = @ + 1] ELSE sends
  /\ resolve' = [resolve EXCEPT ![r].pc = "log"]
  /\ UNCHANGED <<dbVars, call, usedIds, everSet, autoSent, rejects, raced>>

\* YES sends the stored action; NO sends nothing.
Act(r) ==
  /\ resolve[r].pc = "act"
  /\ sends' = IF resolve[r].ok THEN [sends EXCEPT ![resolve[r].id] = @ + 1] ELSE sends
  /\ resolve' = [resolve EXCEPT ![r].pc = "log"]
  /\ UNCHANGED <<dbVars, call, usedIds, everSet, autoSent, rejects, raced>>

LogDecision(r) ==
  /\ resolve[r].pc = "log"
  /\ \/ log' = log \cup {[by |-> resolve[r].id, approved |-> resolve[r].ok]}
     \/ DbFaults /\ log' = log
  /\ resolve' = [resolve EXCEPT ![r].pc = "learn"]
  /\ UNCHANGED <<settings, pending, learned, asked, call, histVars>>

\* learn_from_owner_approval: one memory row, a failed write is swallowed.
Learn(r) ==
  /\ resolve[r].pc = "learn"
  /\ \/ learned' = learned \cup {[by |-> resolve[r].id, approved |-> resolve[r].ok]}
     \/ DbFaults /\ learned' = learned
  /\ resolve' = [resolve EXCEPT ![r].pc = "notify"]
  /\ UNCHANGED <<settings, pending, log, asked, call, histVars>>

\* The answer to the owner ends the thread.
Reply(r) ==
  /\ resolve' = [resolve EXCEPT ![r] = IdleResolve]
  /\ rejects' = IF resolve[r].ok THEN rejects ELSE [rejects EXCEPT ![resolve[r].id] = @ + 1]

\* _notify_agent_loop for an id no run waits for, and the answer.
NotifyNobody(r) ==
  /\ resolve[r].pc = "notify"
  /\ Reply(r)
  /\ UNCHANGED <<dbVars, call, usedIds, everSet, autoSent, sends, raced>>

\* A connect() that fails in log_autonomous_action or write_learned_skill is raised to
\* the caller of process_approval_response: the decision has been taken, nothing more happens.
ResolveRaises(r) ==
  /\ DbFaults
  /\ resolve[r].pc \in {"log", "learn"}
  /\ resolve' = [resolve EXCEPT ![r] = IdleResolve]
  /\ UNCHANGED <<dbVars, call, histVars>>

-----------------------------------------------------------------------------
\* POST /autonomy without the check of the mode.
SetAutonomyUnchecked(s) ==
  /\ settings' = [s EXCEPT !.mode = "auto"]
  /\ everSet' = everSet \cup {s}
  /\ UNCHANGED <<pending, log, learned, asked, call, resolve, usedIds, autoSent, sends, rejects, raced>>

\* POST /autonomy: the owner stores new settings.
SetAutonomy(s) ==
  /\ settings' = s
  /\ everSet' = everSet \cup {s}
  /\ UNCHANGED <<pending, log, learned, asked, call, resolve, usedIds, autoSent, sends, rejects, raced>>

\* The server stops: threads are gone, tables stay.
Crash ==
  /\ Crashes
  /\ call' = [c \in Callers |-> IdleCall]
  /\ resolve' = [r \in Resolvers |-> IdleResolve]
  /\ UNCHANGED <<dbVars, histVars>>

Init ==
  /\ settings = OffSettings
  /\ pending = {} /\ log = {} /\ learned = {} /\ asked = {}
  /\ call = [c \in Callers |-> IdleCall]
  /\ resolve = [r \in Resolvers |-> IdleResolve]
  /\ usedIds = {} /\ everSet = {OffSettings} /\ autoSent = {} /\ raced = {}
  /\ sends = [id \in ActionIds |-> 0]
  /\ rejects = [id \in ActionIds |-> 0]

\* The steps of a call that has been dispatched, up to its answer.
GateStep(c) == SendNow(c) \/ LogNow(c) \/ StorePending(c) \/ RequestApproval(c)

\* The steps of a decision up to the notification.
DecisionStep(r) == DeleteRow(r) \/ Act(r) \/ LogDecision(r) \/ Learn(r)

Owner ==
  \/ \E s \in SettingsRows : SetAutonomy(s)
  \/ \E r \in Resolvers, id \in ActionIds, ok \in BOOLEAN :
       ChatReply(r, id, ok) \/ InboxDecision(r, id, ok)

Next ==
  \/ \E c \in Callers : GateStep(c) \/ Return(c) \/ CallRaises(c)
  \/ \E c \in Callers, q \in Requests : Dispatch(c, q)
  \/ \E r \in Resolvers : DecisionStep(r) \/ NotifyNobody(r) \/ ResolveRaises(r)
  \/ Owner
  \/ Crash

Spec == Init /\ [][Next]_vars

\* A thread that has started runs on: the operating system schedules every thread,
\* and no step waits for another thread.
Fairness ==
  /\ \A c \in Callers : WF_vars(GateStep(c) \/ Return(c))
  /\ \A r \in Resolvers : WF_vars(DecisionStep(r) \/ NotifyNobody(r))

FairSpec == Spec /\ Fairness

-----------------------------------------------------------------------------
(* Properties. *)

\* What is sent without the owner's YES was decided under settings that were in force
\* at some moment, in full mode, allowed by both allowlists, and not one of the calls
\* that full mode hands to the owner (forced, request_access, sensitive role: by its name
\* whatever fails, by its row while reads succeed).
UnapprovedSendsPermitted ==
  \A a \in autoSent :
    /\ a.snap \in everSet
    /\ a.snap.mode = "full"
    /\ Permits(a.snap, a.req)
    /\ ~ForcedSemi(a.req, ~DbFaults)

\* An action that has been sent or rejected is out of the table, so that no later
\* reply ("already processed") can act on it: the row goes before the action does.
ProcessedStaysClosed ==
  \A id \in ActionIds : sends[id] + rejects[id] > 0 => id \in usedIds \ pending

\* autonomy_log never claims an action that did not happen: a row is written after the
\* send it is about, whatever fails or stops in between.
LogIsTruthful ==
  \A e \in log : e.approved =>
    \/ e.by \in ActionIds /\ sends[e.by] > 0
    \/ \E a \in autoSent : a.req = e.by

\* One decision, one effect: unless two threads read its row before either deletes it, an
\* id is sent or rejected once and never both, whatever fails or stops in between.
DecidedAtMostOnce == \A id \in ActionIds \ raced : sends[id] + rejects[id] <= 1

\* tests/test_autonomy_inbox.py "test_reject_discards_without_running", and the reply
\* "Action <id> rejected and cancelled.": an action the owner was told is cancelled is
\* not sent.
RejectedIsCancelled == [][\A id \in ActionIds : rejects[id] > 0 => sends'[id] = sends[id]]_vars

\* While the server runs no YES is lost: one whose row was read ends in the send, whatever the
\* settings are by then, or leaves the row for another reply when the DELETE fails.
ApprovedIsSent ==
  \A r \in Resolvers, id \in ActionIds :
    (resolve[r].pc = "delete" /\ resolve[r].id = id /\ resolve[r].ok)
      ~> (sends[id] > 0 \/ id \in raced \/ (resolve[r].pc = "idle" /\ id \in pending))

=============================================================================
