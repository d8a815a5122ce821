----------------------------- MODULE MCLibrary ------------------------------
(***************************************************************************)
(* Instances for TLC of the packages that are used as libraries.  They     *)
(* share nothing with each other, so one run checks them side by side:     *)
(* part is chosen at the start, only that component moves, and the others  *)
(* stay in one of their initial states.                                    *)
(***************************************************************************)
EXTENDS AgentRuns, Rag, VectorStores, McpTransport, McpClient,
        VoicePull, MemoryStore, TLC

CONSTANTS t1, t2, d1, d2, d3, q1, s1

VARIABLE part

Parts == {"children", "approvals", "graph", "migrations", "vectors", "ask", "transport", "mcp",
          "voice", "memory"}

libraryVars ==
  <<part, agVars, graphVars, migVars, vecVars, askVars, netVars, mcpVars, pullVars, memVars>>

-----------------------------------------------------------------------------
(* Constants. *)

MCCanon == <<1, 2, 2>>
MCTexts ==
  {<<[names |-> {1, 2, 3}, rels |-> {<<1, 3>>, <<2, 3>>}]>>,
   <<[names |-> {1}, rels |-> {<<1, 2>>}]>>}

\* One old Document node and two old Entity nodes.
MCLabelOf == (d1 :> 2) @@ (d2 :> 2) @@ (d3 :> 1)

MCDependsOn ==
  [base |-> <<>>, tts |-> <<"base">>, duo |-> <<"tts", "base">>, ring |-> <<"ring">>,
   bad |-> <<"base">>]

ASSUME VisitsSuffice == \A m \in VoiceModels : DependencyOrder(m).st # "visit"

\* No run is about to ask for a call whose tool always asks.
NoneAlwaysAsks ==
  /\ \A r \in RunIds : store[r] = NoRun \/ store[r].pending \notin AlwaysAsk
  /\ \A t \in Threads : thread[t].stack = <<>> \/ Top(t).pending \notin AlwaysAsk

\* Where something fails the instance is smaller: two runs, two upserts, two records in the audit
\* log before anything expires, and a backend that fails or a server that restarts, not both.
SavesFailInPairs == saveFaults > 0 => nextRun <= 3
StatementsFailForTwo == graphFaults > 0 => upserts <= 2
KilledEarly == kills > 0 => Len(auditLog) <= 2 /\ ~ttlPassed
OneVectorFault == remoteFaults + restarts <= 1

\* Which tool a refused call named makes no difference to anything.
RefusedForOne == \A k \in 1..MaxMcpCalls : outcomes[k] = "refused" => toolOf[k] = "a"

\* The agent library is checked twice: with a run, a child and a child of one of them, which ask
\* only for what follows from their taint and, while there are two of them, may fail to save, and
\* with a run that may ask for two approvals, one after the other, and its child.
AgentsNext ==
  /\ AgNext
  /\ part = "children" => NoneAlwaysAsks' /\ SavesFailInPairs'
  /\ part = "approvals" => nextRun' <= 3 /\ saveFaults' = 0

Symmetry == Permutations({t1, t2}) \cup Permutations({d1, d2})

-----------------------------------------------------------------------------
Init ==
  /\ part \in Parts
  /\ AgInit    /\ (part \notin {"children", "approvals"} => atomic)
  /\ GraphInit
  /\ MigInit   /\ (part # "migrations" => hasUser = {})
  /\ VecInit   /\ (part # "vectors" => backend = PgVector)
  /\ AskInit
  /\ NetInit   /\ (part # "transport" =>
                     dns = {} /\ response = [size |-> 1, sized |-> TRUE, final |-> 0, open |-> TRUE])
  /\ McpInit   /\ (part # "mcp" => serverEra = "modern" /\ offered = [t \in McpTools |-> "plain"])
  /\ PullInit
  /\ MemInit

Next ==
  \/ /\ part \in {"children", "approvals"} /\ AgentsNext
     /\ UNCHANGED <<part, graphVars, migVars, vecVars, askVars, netVars, mcpVars, pullVars, memVars>>
  \/ /\ part = "graph" /\ GraphNext /\ StatementsFailForTwo'
     /\ UNCHANGED <<part, agVars, migVars, vecVars, askVars, netVars, mcpVars, pullVars, memVars>>
  \/ /\ part = "migrations" /\ MigNext
     /\ UNCHANGED <<part, agVars, graphVars, vecVars, askVars, netVars, mcpVars, pullVars, memVars>>
  \/ /\ part = "vectors" /\ VecNext /\ OneVectorFault'
     /\ UNCHANGED <<part, agVars, graphVars, migVars, askVars, netVars, mcpVars, pullVars, memVars>>
  \/ /\ part = "ask" /\ AskNext
     /\ UNCHANGED <<part, agVars, graphVars, migVars, vecVars, netVars, mcpVars, pullVars, memVars>>
  \/ /\ part = "transport" /\ NetNext
     /\ UNCHANGED <<part, agVars, graphVars, migVars, vecVars, askVars, mcpVars, pullVars, memVars>>
  \/ /\ part = "mcp" /\ McpNext /\ RefusedForOne'
     /\ UNCHANGED <<part, agVars, graphVars, migVars, vecVars, askVars, netVars, pullVars, memVars>>
  \/ /\ part = "voice" /\ PullNext
     /\ UNCHANGED <<part, agVars, graphVars, migVars, vecVars, askVars, netVars, mcpVars, memVars>>
  \/ /\ part = "memory" /\ MemNext /\ KilledEarly'
     /\ UNCHANGED <<part, agVars, graphVars, migVars, vecVars, askVars, netVars, mcpVars, pullVars>>

Spec == Init /\ [][Next]_libraryVars

\* The type invariant of the component that moves; the others are as they were at the start.
LibraryTypeOK ==
  /\ part \in {"children", "approvals"} => AgTypeOK
  /\ part = "graph"      => GraphTypeOK
  /\ part = "migrations" => MigTypeOK
  /\ part = "vectors"    => VecTypeOK
  /\ part = "ask"        => AskTypeOK
  /\ part = "transport"  => NetTypeOK
  /\ part = "mcp"        => McpTypeOK
  /\ part = "voice"      => PullTypeOK
  /\ part = "memory"     => MemTypeOK
=============================================================================
