----------------------------- MODULE McpClient ------------------------------
(***************************************************************************)
(* The MCP client of ragleap_integrations: discovery of the allowlisted    *)
(* tools, their approval flags, and calls that try the modern protocol     *)
(* first and fall back to the legacy handshake.  The server may change the *)
(* protocol it speaks and the tools it offers at any moment, and a reply   *)
(* may be lost or unusable after the server has done its work.  (The       *)
(* client is not shared between threads.)                                  *)
(***************************************************************************)
EXTENDS Naturals

CONSTANTS
    McpTools,
    AllowedTools, PreApproved,      \* allowed_tools and McpPolicy.pre_approved
    TrustAnnotations,               \* trust_annotations of the server
    MaxListPages,                   \* MAX_LIST_PAGES
    MaxMcpCalls, MaxServerChanges,  \* bounds
    NoTool

ASSUME McpAssumption ==
    /\ PreApproved \subseteq AllowedTools /\ TrustAnnotations \in BOOLEAN /\ NoTool \notin McpTools
    /\ MaxMcpCalls \in Nat

Hints == {"absent", "plain", "readOnly"}

VARIABLES
    serverEra, offered,     \* what the server speaks, and how it describes each tool
    era,                    \* _eras: the protocol that last worked
    snapshot,               \* the snapshot: the description each tool had, "absent" if left out
    hasTools,               \* make_mcp_tools is done
    request_,               \* the request under way
    timesRun, outcomes, cleared, \* per call: times run by the server, result, info["approval"]
    toolOf,
    mcpCalls, serverChanges

mcpVars == <<serverEra, offered, era, snapshot, hasTools, request_, timesRun, outcomes, cleared, toolOf,
             mcpCalls, serverChanges>>

NoRequest == [pc |-> "idle", method |-> "none", page |-> 0]

McpInit ==
    /\ serverEra \in {"modern", "legacy"} /\ offered \in [McpTools -> Hints]
    /\ era = "unknown" /\ snapshot = [t \in McpTools |-> "absent"] /\ hasTools = FALSE
    /\ request_ = NoRequest
    /\ timesRun = [k \in 1..MaxMcpCalls |-> 0]
    /\ outcomes = [k \in 1..MaxMcpCalls |-> "none"] /\ cleared = [k \in 1..MaxMcpCalls |-> "unchecked"]
    /\ toolOf = [k \in 1..MaxMcpCalls |-> NoTool]
    /\ mcpCalls = 0 /\ serverChanges = 0

ServerChanges ==
    /\ serverChanges < MaxServerChanges
    /\ serverChanges' = serverChanges + 1
    /\ \/ serverEra' \in {"modern", "legacy"} \ {serverEra} /\ UNCHANGED offered
       \/ /\ \E t \in McpTools, h \in Hints : h # offered[t] /\ offered' = [offered EXCEPT ![t] = h]
          /\ UNCHANGED serverEra
    /\ UNCHANGED <<era, snapshot, hasTools, request_, timesRun, outcomes, cleared, toolOf, mcpCalls>>

----------------------------------------------------------------------------
(* Setting up: discover, or specs of the owner. *)

Send(method) == [pc |-> IF era = "legacy" THEN "initialize" ELSE "modern", method |-> method, page |-> 1]

Discover ==
    /\ request_.pc = "idle" /\ ~hasTools
    /\ request_' = Send("list")
    /\ snapshot' = [t \in McpTools |-> "absent"]
    /\ UNCHANGED <<serverEra, offered, era, hasTools, timesRun, outcomes, cleared, toolOf,
                   mcpCalls, serverChanges>>

\* Nothing is asked of the server, and its hints do not count.
OwnerSpecs ==
    /\ request_.pc = "idle" /\ ~hasTools
    /\ snapshot' = [t \in McpTools |-> IF t \in AllowedTools THEN "plain" ELSE "absent"]
    /\ hasTools' = TRUE
    /\ UNCHANGED <<serverEra, offered, era, request_, timesRun, outcomes, cleared, toolOf, mcpCalls,
                   serverChanges>>

\* A page of tools/list: any of the tools, and a cursor or none.  A tool that was found keeps
\* the description it was found with.
ListPage ==
    /\ request_.pc = "answered" /\ request_.method = "list"
    /\ \E page \in SUBSET {t \in McpTools : offered[t] # "absent"}, cursor \in BOOLEAN :
        /\ snapshot' = [t \in McpTools |-> IF t \in page \cap AllowedTools /\ snapshot[t] = "absent"
                                       THEN offered[t] ELSE snapshot[t]]
        /\ IF cursor /\ request_.page < MaxListPages /\ \E t \in AllowedTools : snapshot'[t] = "absent"
           THEN request_' = [Send("list") EXCEPT !.page = request_.page + 1] /\ UNCHANGED hasTools
           ELSE request_' = NoRequest /\ hasTools' = TRUE
    /\ UNCHANGED <<serverEra, offered, era, timesRun, outcomes, cleared, toolOf, mcpCalls, serverChanges>>

\* requires_approval.
RequiresApproval(t) ==
    ~(t \in PreApproved \/ (TrustAnnotations /\ snapshot[t] = "readOnly"))

----------------------------------------------------------------------------
(* call_tool. *)

Ends(how) ==
    /\ request_' = NoRequest
    /\ outcomes' = [outcomes EXCEPT ![mcpCalls] = how]

\* By a tool's handler, with the flag of the snapshot, or straight to the client, flag unknown.
CallTool ==
    /\ request_.pc = "idle" /\ mcpCalls < MaxMcpCalls
    /\ \E t \in AllowedTools, direct \in BOOLEAN :
        /\ direct \/ (hasTools /\ snapshot[t] # "absent")
        /\ toolOf' = [toolOf EXCEPT ![mcpCalls + 1] = t]
        /\ request_' = [NoRequest EXCEPT !.pc = IF direct \/ RequiresApproval(t) THEN "approve" ELSE "go",
                                         !.method = "call"]
    /\ mcpCalls' = mcpCalls + 1
    /\ UNCHANGED <<serverEra, offered, era, snapshot, hasTools, timesRun, outcomes, cleared, serverChanges>>

\* A tool that is not allowlisted, or a schema or arguments that cannot be sent: before anyone
\* is asked for approval.
RefuseCall ==
    /\ request_.pc = "idle" /\ mcpCalls < MaxMcpCalls
    /\ \E t \in McpTools : toolOf' = [toolOf EXCEPT ![mcpCalls + 1] = t]
    /\ mcpCalls' = mcpCalls + 1
    /\ outcomes' = [outcomes EXCEPT ![mcpCalls + 1] = "refused"]
    /\ UNCHANGED <<serverEra, offered, era, snapshot, hasTools, request_, timesRun, cleared, serverChanges>>

\* As the code would be if an approve hook that raises were ignored.
AnswersUnlessFalse == {"approved", "raised"}

\* Only exactly True approves.
AnswersTrue == {"approved"}

\* _check_approval, with the approve hook set.
CheckApproval ==
    /\ request_.pc \in {"approve", "go"}
    /\ \/ /\ request_.pc = "go"
          /\ cleared' = [cleared EXCEPT ![mcpCalls] = "not_required"]
          /\ request_' = Send("call") /\ UNCHANGED outcomes
       \/ \E answer \in {"approved", "denied", "raised"} :
            /\ request_.pc = "approve"
            /\ cleared' = [cleared EXCEPT ![mcpCalls] = answer]
            /\ IF answer \in AnswersTrue
               THEN request_' = Send("call") /\ UNCHANGED outcomes
               ELSE Ends("denied")
    /\ UNCHANGED <<serverEra, offered, era, snapshot, hasTools, timesRun, toolOf, mcpCalls, serverChanges>>

----------------------------------------------------------------------------
(* _request: one request in either era. *)

\* The server does the work.
Runs == timesRun' = IF request_.method = "call" THEN [timesRun EXCEPT ![mcpCalls] = @ + 1] ELSE timesRun

Fails == IF request_.method = "call" THEN Ends("failed")
         ELSE request_' = NoRequest /\ UNCHANGED outcomes

Answered(e) ==
    /\ era' = e
    /\ IF request_.method = "call" THEN Ends("ok")
       ELSE request_' = [request_ EXCEPT !.pc = "answered"] /\ UNCHANGED outcomes

\* As the code would be if the legacy protocol were tried after any failure.
UsesLegacyAlways(reply) == reply # "result"

\* A 4xx that is no modern error, or an unsupported version with a common one.
UsesLegacy(reply) == reply = "rejected"

\* _modern.  A reply that is lost or unusable comes after the work; a rejection before it.  A
\* modern server may reject a request of its own accord.
Modern ==
    /\ request_.pc = "modern"
    /\ \E reply \in IF serverEra = "modern" THEN {"result", "lost", "rejected", "error"}
                                            ELSE {"rejected", "error"} :
        /\ IF reply \in {"result", "lost"} THEN Runs
           ELSE UNCHANGED timesRun
        /\ IF reply = "result" THEN Answered("modern")
           ELSE /\ UNCHANGED era
                /\ IF UsesLegacy(reply) THEN request_' = [request_ EXCEPT !.pc = "initialize"] /\ UNCHANGED outcomes
                   ELSE Fails
    /\ UNCHANGED <<serverEra, offered, snapshot, hasTools, cleared, toolOf, mcpCalls, serverChanges>>

\* _legacy: the handshake, of which any part may fail, ...
Initialize ==
    /\ request_.pc = "initialize"
    /\ \/ serverEra = "legacy" /\ request_' = [request_ EXCEPT !.pc = "legacy"] /\ UNCHANGED outcomes
       \/ Fails
    /\ UNCHANGED <<serverEra, offered, era, snapshot, hasTools, timesRun, cleared, toolOf, mcpCalls, serverChanges>>

\* ... and the request.
Legacy ==
    /\ request_.pc = "legacy"
    /\ \/ /\ serverEra = "legacy"
          /\ Runs
          /\ \/ Answered("legacy")
             \/ Fails /\ UNCHANGED era
       \/ Fails /\ UNCHANGED <<timesRun, era>>
    /\ UNCHANGED <<serverEra, offered, snapshot, hasTools, cleared, toolOf, mcpCalls, serverChanges>>

McpNext ==
    \/ ServerChanges \/ Discover \/ OwnerSpecs \/ ListPage \/ CallTool \/ RefuseCall \/ CheckApproval
    \/ Modern \/ Initialize \/ Legacy

McpSpec == McpInit /\ [][McpNext]_mcpVars

----------------------------------------------------------------------------
McpTypeOK ==
    /\ era \in {"unknown", "modern", "legacy"} /\ snapshot \in [McpTools -> Hints]
    /\ request_.page \in 0..MaxListPages
    /\ \A k \in 1..MaxMcpCalls : outcomes[k] \in {"none", "refused", "denied", "failed", "ok"}

(***************************************************************************)
(* A call runs at the server at most once, whichever protocols are tried   *)
(* for it and whatever replies are lost; exactly once when it is reported  *)
(* ok, never when it is refused or denied.                                 *)
(***************************************************************************)
RunsOnce ==
    \A k \in 1..MaxMcpCalls :
        /\ timesRun[k] <= 1
        /\ outcomes[k] = "ok" => timesRun[k] = 1
        /\ outcomes[k] \in {"refused", "denied"} => timesRun[k] = 0

(***************************************************************************)
(* What runs is allowlisted, and was approved by the hook unless the owner *)
(* pre-approved the tool or trusts the server and the tool was read-only   *)
(* in the snapshot: nothing a server says later makes the policy looser.   *)
(***************************************************************************)
RunsCleared ==
    \A k \in 1..MaxMcpCalls : timesRun[k] > 0 =>
        /\ toolOf[k] \in AllowedTools
        /\ \/ cleared[k] = "approved"
           \/ toolOf[k] \in PreApproved
           \/ TrustAnnotations /\ snapshot[toolOf[k]] = "readOnly"

\* A call runs at most once and only when it may.
McpCallsAreSafe == RunsOnce /\ RunsCleared
============================================================================
