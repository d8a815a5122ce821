-------------------------------- MODULE Chat --------------------------------
(***************************************************************************)
(* core.chat: ask, ask_stream and the team mode, with the supervisor's     *)
(* routing, the generation service's calls (tree of thought, fallback      *)
(* chain, truncation retry, grounding check), the action planner and the   *)
(* token budget every call is written to.  Several requests at a time.     *)
(*                                                                         *)
(* A provider call counts one token.  A ledger sum is kept up to its cap,  *)
(* which is all check_budget compares it with; what is recorded after the  *)
(* global cap was reached is counted in "over".                            *)
(***************************************************************************)
EXTENDS Integers, FiniteSets

CONSTANTS
    ChatThreads,
    Roles, SafeRoles, GroundedRoles, DefaultRole, NoRole,
    ChatChain,          \* providers in the fallback chain
    GlobalCap, RoleCap, \* BUDGET_DAILY_TOKENS, BUDGET_ROLE_DAILY_TOKENS
    TotPaths,           \* TOT_NUM_PATHS
    MaxSubtasks,        \* TEAM_MAX_SUBTASKS
    MaxChats, MaxLedgerFaults       \* bounds

ASSUME ChatAssumption ==
    /\ SafeRoles \subseteq Roles /\ DefaultRole \in SafeRoles /\ NoRole \notin Roles
    /\ GroundedRoles \subseteq Roles /\ GlobalCap \in Nat \ {0} /\ RoleCap \in Nat \ {0}
    /\ ChatChain \in Nat \ {0} /\ TotPaths \in Nat \ {0, 1} /\ MaxSubtasks \in Nat
    /\ IsFiniteSet(ChatThreads)

VARIABLES
    request,        \* per thread: the request it works on
    usedGlobal, usedBy,     \* the ledger's sums of this period, up to the caps
    over,           \* calls recorded since the global cap was reached
    underWay,       \* requests that were under way then
    chats, ledgerFaults

chatVars == <<request, usedGlobal, usedBy, over, underWay, chats, ledgerFaults>>

IdleRequest == [pc |-> "idle", kind |-> "role", role |-> NoRole, trusted |-> FALSE,
                charge |-> NoRole, provider |-> 1, tries |-> 0, good |-> 0, left |-> 0]

ChatInit ==
    /\ request = [t \in ChatThreads |-> IdleRequest]
    /\ usedGlobal = 0 /\ usedBy = [r \in Roles |-> 0] /\ over = 0 /\ underWay = 0
    /\ chats = 0 /\ ledgerFaults = 0

----------------------------------------------------------------------------
Doing(t, pc) == request[t].pc = pc
Step(r, pc) == [r EXCEPT !.pc = pc, !.provider = 1, !.tries = 0, !.good = 0]
UpTo(n, cap) == IF n < cap THEN n ELSE cap

\* Goes on without a call that counts: a provider that raised, or no call.
Proceed(t, r) ==
    /\ request' = [request EXCEPT ![t] = r]
    /\ UNCHANGED <<usedGlobal, usedBy, over, underWay, chats, ledgerFaults>>

\* _call_provider: one row for the role of the context variable, or, when
\* writing it fails, none.
Called(t, r) ==
    LET c == request[t].charge IN
    /\ request' = [request EXCEPT ![t] = r]
    /\ \/ /\ usedGlobal' = UpTo(usedGlobal + 1, GlobalCap)
          /\ usedBy' = [x \in Roles |-> IF x = c THEN UpTo(usedBy[x] + 1, RoleCap) ELSE usedBy[x]]
          /\ over' = IF usedGlobal = GlobalCap THEN over + 1 ELSE over
          /\ underWay' = IF usedGlobal = GlobalCap THEN underWay
                         ELSE Cardinality({x \in ChatThreads : request[x].pc # "idle"})
          /\ UNCHANGED ledgerFaults
       \/ /\ ledgerFaults < MaxLedgerFaults /\ ledgerFaults' = ledgerFaults + 1
          /\ UNCHANGED <<usedGlobal, usedBy, over, underWay>>
    /\ UNCHANGED chats

\* A call, empty the first time and repeated with twice the tokens, that is
\* let go when it raises: answer is what follows the text, without what
\* follows none.
AskTwice(t, answer, without) ==
    \/ Called(t, answer)
    \/ /\ request[t].tries = 0 /\ Called(t, [request[t] EXCEPT !.tries = 1])
    \/ /\ request[t].tries = 1 /\ Called(t, without)
    \/ Proceed(t, without)

\* As the code would be if a role's own cap replaced the global one.
BlockedByOneCap(role) ==
    IF role = NoRole THEN usedGlobal >= GlobalCap ELSE usedBy[role] >= RoleCap

\* check_budget: the global cap, and the role's.
Blocked(role) == usedGlobal >= GlobalCap \/ (role # NoRole /\ usedBy[role] >= RoleCap)

\* check_budget fails open: a database error lets the request pass.
Check(t, role, pass, stop) ==
    \/ Proceed(t, IF Blocked(role) THEN stop ELSE pass)
    \/ /\ ledgerFaults < MaxLedgerFaults /\ ledgerFaults' = ledgerFaults + 1
       /\ request' = [request EXCEPT ![t] = pass]
       /\ UNCHANGED <<usedGlobal, usedBy, over, underWay, chats>>

\* The request is answered, ok with an answer of a provider.  A sub-task of
\* a team is followed by the next one, or by the merge; without an answer
\* the whole request is asked once more as a single one.
Answered(r, ok) ==
    CASE r.kind # "sub" -> IdleRequest
      [] r.kind = "sub" /\ ok /\ r.left > 1 -> [Step(r, "begin") EXCEPT !.left = @ - 1, !.role = NoRole]
      [] r.kind = "sub" /\ ok /\ r.left = 1 -> [Step(r, "merge") EXCEPT !.left = 0]
      [] OTHER -> [Step(r, "begin") EXCEPT !.kind = "single", !.role = NoRole, !.left = 0]

----------------------------------------------------------------------------
Arrives(t, kind, role, tr) ==
    /\ Doing(t, "idle") /\ chats < MaxChats
    /\ chats' = chats + 1
    /\ request' = [request EXCEPT ![t] = [IdleRequest EXCEPT !.pc = "begin", !.kind = kind,
                                             !.role = role, !.trusted = tr]]
    /\ UNCHANGED <<usedGlobal, usedBy, over, underWay, ledgerFaults>>

Ask_(t) ==
    \E kind \in {"role", "auto", "team"}, role \in Roles \cup {NoRole}, tr \in BOOLEAN :
        /\ kind \in {"auto", "team"} => role = NoRole
        /\ Arrives(t, kind, role, tr)

\* ask_stream routes nothing, trusts nobody and takes no action.
AskStream(t) == \E role \in Roles \cup {NoRole} : Arrives(t, "stream", role, FALSE)

\* set_role and check_budget, before anything is spent.
BeginTask(t) ==
    LET r == [request[t] EXCEPT !.charge = request[t].role] IN
    /\ Doing(t, "begin")
    /\ Check(t, r.role,
             Step(r, CASE r.kind = "team" -> "split"
                       [] r.kind \in {"auto", "sub", "single"} -> "route"
                       [] OTHER -> "embed"),
             Answered(r, FALSE))

\* split_task; fewer than two sub-tasks are one request.
SplitTask(t) ==
    LET r == request[t] IN
    /\ Doing(t, "split")
    /\ \E n \in 0..MaxSubtasks :
        AskTwice(t, [Step(r, "begin") EXCEPT !.kind = IF n < 2 THEN "single" ELSE "sub",
                                              !.left = IF n < 2 THEN 0 ELSE n],
                    [Step(r, "begin") EXCEPT !.kind = "single"])

\* The active roles of employee_roles as a request reads them: an owner switches roles on and
\* off at any time, so between two reads they may become any set.
ActiveRoles == SUBSET Roles

\* As the code would be if the caller's trust were not looked at.
AllowedRolesAll(trusted, active) == active

AllowedRoles(trusted, active) == IF trusted THEN active ELSE active \cap SafeRoles

\* route_task: the model's pick among the allowed roles, or a keyword's, or
\* the default.
RouteTask(t) ==
    LET r == request[t]
        Routed(x) == [Step(r, "routed") EXCEPT !.role = x, !.charge = x]
        Otherwise(allowed) == {x \in SafeRoles : allowed = {} \/ x \in allowed} \cup {DefaultRole}
    IN
    /\ Doing(t, "route")
    /\ \E active \in ActiveRoles :
        LET allowed == AllowedRoles(r.trusted, active) IN
        \E other \in Otherwise(allowed) :
            \/ /\ allowed # {}
               /\ \E pick \in allowed \cup {other} : AskTwice(t, Routed(pick), Routed(other))
            \/ allowed = {} /\ Proceed(t, Routed(other))

\* The routed role's own caps.
CheckRole(t) ==
    LET r == request[t] IN
    /\ Doing(t, "routed")
    /\ Check(t, r.role, Step(r, "embed"), Answered(r, FALSE))

\* _prepare, and the choice of tree of thought.
Prepare(t) ==
    LET r == request[t] IN
    /\ Doing(t, "embed")
    /\ \/ Proceed(t, Answered(r, FALSE))
       \/ r.kind = "stream" /\ Proceed(t, Step(r, "stream"))
       \/ r.kind # "stream" /\ \E pc \in {"tree", "generate"} : Proceed(t, Step(r, pc))

\* tree_of_thought: TotPaths candidates, and a judge when two are there.
TreeOfThought(t) ==
    LET r == request[t]
        Next_(n) == IF r.tries + 1 < TotPaths THEN [r EXCEPT !.tries = @ + 1, !.good = @ + n]
                    ELSE Step(r, IF r.good + n >= 2 THEN "judge" ELSE "generate")
    IN
    /\ Doing(t, "tree")
    /\ \/ \E n \in {0, 1} : Called(t, Next_(n))
       \/ Proceed(t, Next_(0))

JudgePaths(t) ==
    /\ Doing(t, "judge")
    /\ AskTwice(t, Step(request[t], "ground"), Step(request[t], "ground"))

\* What a provider's call comes to, by its finish_reason or an exception.
ProviderReply == {"text", "truncated", "raises"}

\* generate_answer: the chain; a truncated answer is asked for once more,
\* and kept when that fails.
Generate(t) ==
    LET r == request[t] IN
    /\ Doing(t, "generate")
    /\ \E reply \in ProviderReply :
        IF reply = "raises"
        THEN Proceed(t, CASE r.tries = 1 -> Step(r, "ground")
                          [] r.tries = 0 /\ r.provider < ChatChain -> [r EXCEPT !.provider = @ + 1]
                          [] OTHER -> Answered(r, FALSE))
        ELSE Called(t, IF reply = "truncated" /\ r.tries = 0 THEN [r EXCEPT !.tries = 1]
                                                              ELSE Step(r, "ground"))

\* generate_answer_stream: usage is recorded at the end, or when a stream
\* that had begun breaks; a caller who stops reading leaves no row.
Stream(t) ==
    LET r == request[t] IN
    /\ Doing(t, "stream")
    /\ \/ r.tries = 0 /\ Proceed(t, [r EXCEPT !.tries = 1])
       \/ Called(t, IdleRequest)
       \/ r.tries = 1 /\ Proceed(t, IdleRequest)
       \/ r.tries = 0 /\ r.provider < ChatChain /\ Proceed(t, [r EXCEPT !.provider = @ + 1])
       \/ r.tries = 0 /\ r.provider = ChatChain /\ Proceed(t, IdleRequest)

\* check_grounding, for sensitive roles.
CheckGrounding(t) ==
    LET r == request[t]
        done == IF r.kind \in {"role", "auto"} THEN Step(r, "act") ELSE Answered(r, TRUE)
    IN
    /\ Doing(t, "ground")
    /\ \/ r.role \in GroundedRoles /\ AskTwice(t, done, done)
       \/ r.role \notin GroundedRoles /\ Proceed(t, done)

\* What _parse_plan and _validate_plan make of the model's reply: an action
\* with a configured tool and an allowed target, or none.
PlanOutcome == {"gate", "none"}

(***************************************************************************)
(* plan_action through call_with_fallback: each provider is tried twice    *)
(* when it raises, an empty reply is asked again with twice the tokens,    *)
(* and a provider that says nothing is followed by the next.  "tries" is   *)
(* the attempt, "good" the empty reply it has had.  The branch into        *)
(* agent_loop.run, taken when the owner switched it on, is module          *)
(* AgentLoop: its _llm checks the budget before every call.                *)
(***************************************************************************)
PlanAction(t) ==
    LET r == request[t]
        nextProvider == IF r.provider < ChatChain
                        THEN [r EXCEPT !.provider = @ + 1, !.tries = 0, !.good = 0]
                        ELSE Answered(r, TRUE)
    IN
    /\ Doing(t, "act")
    /\ \/ Proceed(t, Answered(r, TRUE))       \* not asked for, no tools, or not trusted
       \/ /\ r.trusted
          /\ \/ \E plan \in PlanOutcome : Called(t, IF plan = "gate" THEN Step(r, plan) ELSE Answered(r, TRUE))
             \/ r.good = 0 /\ Called(t, [r EXCEPT !.good = 1])
             \/ r.good = 1 /\ Called(t, nextProvider)
             \/ r.tries = 0 /\ Proceed(t, [r EXCEPT !.tries = 1, !.good = 0])
             \/ r.tries = 1 /\ Proceed(t, nextProvider)

\* run_action hands the plan to core.autonomy.execute_or_request.
RunAction(t) ==
    LET r == request[t] IN
    /\ Doing(t, "gate")
    /\ Proceed(t, Answered(r, TRUE))

MergeAnswers(t) ==
    /\ Doing(t, "merge")
    /\ AskTwice(t, IdleRequest, IdleRequest)

ChatNext ==
    \E t \in ChatThreads :
        \/ Ask_(t) \/ AskStream(t) \/ BeginTask(t) \/ SplitTask(t) \/ RouteTask(t) \/ CheckRole(t)
        \/ Prepare(t) \/ TreeOfThought(t) \/ JudgePaths(t) \/ Generate(t) \/ Stream(t) \/ CheckGrounding(t)
        \/ PlanAction(t) \/ RunAction(t) \/ MergeAnswers(t)

ChatSpec == ChatInit /\ [][ChatNext]_chatVars

----------------------------------------------------------------------------
ChatTypeOK ==
    /\ usedGlobal \in 0..GlobalCap /\ usedBy \in [Roles -> 0..RoleCap] /\ over \in Nat
    /\ \A t \in ChatThreads : request[t].provider \in 1..ChatChain /\ request[t].left \in 0..MaxSubtasks

\* The calls a request can make between two checks of the global cap: the
\* paths and the judge of tree of thought, or paths that failed and an
\* answer with its retry; the grounding check; three for each provider the
\* planner tries.
CallsPerCheck == TotPaths + 4 + 3 * ChatChain

(***************************************************************************)
(* The budget is looked at before a request and written after each call,   *)
(* so it is overshot, but only by the requests that were under way when    *)
(* the cap was reached, each until its next check (ask checks again for    *)
(* the routed role and for every sub-task of a team); a check that fails   *)
(* open counts as one more.                                                *)
(***************************************************************************)
OvershootBounded == over <= CallsPerCheck * (underWay + ledgerFaults)

(***************************************************************************)
(* A caller that is not trusted is routed to the customer-facing roles     *)
(* only, alone or through any sub-task of a team, while roles are switched *)
(* on and off; and nothing is handed to the autonomy gate for it.          *)
(***************************************************************************)
UntrustedConfined ==
    \A t \in ChatThreads :
        LET r == request[t] IN
        ~r.trusted => /\ r.kind \in {"auto", "sub", "single"} => r.role \in SafeRoles \cup {NoRole}
                      /\ r.pc # "gate"

(***************************************************************************)
(* The budget and the trust of a caller hold for every chat, with several  *)
(* under way and a ledger that fails.                                      *)
(***************************************************************************)
ChatIsSound == OvershootBounded /\ UntrustedConfined
============================================================================
