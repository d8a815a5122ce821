------------------------------- MODULE MCGate -------------------------------
(***************************************************************************)
(* The autonomy gate and the act-observe loop on top of it, for TLC.  part *)
(* is chosen at the start: the gate on its own, with any kind of request   *)
(* and with database faults, or the loop, with several threads and without *)
(* such faults.  Both move the variables of Autonomy, so its invariants    *)
(* are checked of both.                                                    *)
(***************************************************************************)
EXTENDS MCAgentLoop

CONSTANTS
  GateRequests, GateRows,  \* what the gate is asked for, and the settings it meets, on its own
  LoopRequests, LoopRows   \* ... and below the loop

VARIABLE part

gateVars == <<part, allVars>>

\* A plain e-mail, one forced to approval by a tainted run, one from a sensitive role, one
\* from a role its tags make sensitive, a request for file access, and an action and a
\* channel that the allowlists of the full row leave out.
Request(type, channel, role, force) ==
  [type |-> type, channel |-> channel, role |-> role, force |-> force]
MCGateRequests ==
  {Request("send_email", "email", "support", FALSE), Request("send_email", "email", "support", TRUE),
   Request("send_email", "email", "lawyer", FALSE), Request("send_email", "email", "pets", FALSE),
   Request("request_access", "files_request", "support", FALSE),
   Request("send_webhook", "email", "support", FALSE),
   Request("send_email", "webhook", "support", FALSE)}
MCGateRows ==
  {Row("semi", {}),
   [mode |-> "full", actions |-> {"send_email", "request_access"},
    channels |-> {"email", "files_request"}, owner |-> FALSE]}
AllRequests == MCGateRequests \cup MCRequests
AllRows     == MCGateRows \cup MCSettingsRows

Gate == INSTANCE Autonomy WITH Requests <- GateRequests, SettingsRows <- GateRows
Loop == INSTANCE AgentLoop WITH Requests <- LoopRequests, SettingsRows <- LoopRows, DbFaults <- FALSE

\* Ids are only names, so they may be handed out in one order; a symmetry of their own would cost
\* more than it saves.
IdsInOrder == i2 \in usedIds => i1 \in usedIds
ThreadSymmetry == Permutations(Resolvers) \cup Permutations(Callers)

\* One thread at a time asks the gate, for one approval at most; any two resolve it.  One send
\* without an approval is enough, since each is judged on its own and the gate never reads them.
OneOfEach ==
  /\ usedIds \subseteq {i1}
  /\ Cardinality({c \in Callers : call[c].pc # "idle"}) <= 1
  /\ Cardinality(autoSent) <= 1

GateInit == part \in {"gate", "loop"} /\ LoopInit

GateNext ==
  \/ part = "gate" /\ Gate!Next /\ OneOfEach' /\ UNCHANGED <<part, loopVars>>
  \/ part = "loop" /\ Loop!LoopNext /\ IdsInOrder' /\ UNCHANGED part

GateSpec == GateInit /\ [][GateNext]_gateVars
=============================================================================
