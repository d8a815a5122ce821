---------------------------- MODULE MCAgentLoop -----------------------------
(* Instances of AgentLoop for TLC. *)
EXTENDS AgentLoop, TLC

CONSTANTS d1, d2, r1, r2, i1, i2, x1

Plan(tool, channel, n) == [tool |-> tool, channel |-> channel, role |-> "support", n |-> n]
Fetch == Plan("fetch_page", "fetch", 1)
Hook  == Plan("send_webhook", "webhook", 1)

MCPlans == {Fetch, Hook}
MCRequests == {RequestOf(p, force) : p \in Plans, force \in BOOLEAN}
MCSensitiveRoles == {"lawyer"}

Row(mode, actions) == [mode |-> mode, actions |-> actions, channels |-> {}, owner |-> TRUE]
MCSettingsRows == {Row("semi", {}), Row("full", {})}
MCAllRows == MCSettingsRows \cup {Row("off", {})}

MCPlainResults == {"content", "refusal"}

\* The server runs on: AGENT_LOOP_ENABLED is read at a start, so nothing changes it.
RunningSpec == LoopInit /\ [][LoopNext /\ UNCHANGED loopEnabled]_allVars /\ LoopFairness
=============================================================================
