------------------------------ MODULE MCServer ------------------------------
(***************************************************************************)
(* Instances for TLC of the server's components that share no state with   *)
(* each other in the model.  One run checks them side by side: part is     *)
(* chosen at the start, only that component moves, and the others stay in  *)
(* one of their initial states.                                            *)
(***************************************************************************)
EXTENDS AuthThrottle, SchemaSetup, Sandbox, Conversations, Documents, DataSync, Pipeline, Chat, TLC

CONSTANTS t1, t2, c3, w1, d1, d2, d3, e1, e2, src

VARIABLE part

Parts == {"throttle", "setup", "connectors", "sandbox", "employees", "channels", "voice",
          "documents", "retrieval", "sync", "chat"}

serverVars ==
  <<part, throttleVars, setupVars, connVars, boxVars, empVars, chanVars, voiceVars,
    docVars, lookVars, vars, chatVars>>

-----------------------------------------------------------------------------
(* Constants. *)

MCOneSource == <<src>>

\* The users of the records of a connector, by age: record 1 is the oldest.
MCOwner == <<"ann", "bob", "ann", "none">>

Instruction(h, t) == [head |-> h, tail |-> t]
MCSeeds == <<Instruction("s1", "x"), Instruction("s2", "x")>>
MCInstructions == {Instruction("a", "1"), Instruction("a", "2"), Instruction("b", "1")}

MCMentions == (d1 :> {e1, e2}) @@ (d2 :> {e1, e2}) @@ (d3 :> {e2})

WhatsApp(n) == <<"whatsapp", n>>
Telegram == <<"telegram", 1>>
Discord  == <<"discord", 1>>
MCChats  == {WhatsApp(1), WhatsApp(2), Telegram, Discord}
MCOwnerChats == {WhatsApp(1)}

Message(c, k) == [chat |-> c, kind |-> k]
Payload(s, ms) == [sign |-> s, messages |-> ms]
MCPayloads ==
  {Payload("valid", <<Message(WhatsApp(1), k)>>) : k \in {"question", "good", "approval"}}
  \cup {Payload("valid", <<Message(WhatsApp(1), "question"), Message(WhatsApp(2), "question")>>),
        Payload("valid", <<Message(WhatsApp(1), "empty"), Message(WhatsApp(2), "human")>>),
        Payload("none", <<Message(WhatsApp(1), "question")>>),
        Payload("forged", <<Message(Discord, "question")>>),
        Payload("none", <<Message(Telegram, "start")>>)}
  \cup {Payload("valid", <<Message(Telegram, k)>>) : k \in {"question", "bad", "empty"}}

Symmetry == Permutations({t1, t2})

\* Where something fails the instance is smaller.  The ledger fails while no more than one request
\* is under way; a Docker call fails or the runner is killed, a step of a channel fails or a role
\* is changed, not both in one behaviour.
LedgerFailsForOne ==
  ledgerFaults > 0 => Cardinality({t \in ChatThreads : request[t].pc # "idle"}) <= 1
OneBoxFault == dockerFaults + stops <= 1
FaultOrNewRole == channelFaults + roleChanges <= 1

-----------------------------------------------------------------------------
ServerInit ==
  /\ part \in Parts
  /\ ThrottleInit
  /\ SetupInit /\ (part # "setup" => dialect = PostgreSQL /\ ~pgvector)
  /\ ConnInit  /\ (part # "connectors" => paging = CHOOSE p \in Pagings : TRUE)
               /\ (part # "connectors" => envKey = NoKey)
  /\ BoxInit
  /\ EmpInit
  /\ ChanInit  /\ (part # "channels" => provider = "meta" /\ ~unsigned)
  /\ VoiceInit
  /\ DocInit
  /\ LookInit
  /\ ChatInit
  /\ Init

ServerNext ==
  \/ /\ part = "throttle" /\ ThrottleNext
     /\ UNCHANGED <<part, setupVars, connVars, boxVars, empVars, chanVars, voiceVars, docVars,
                     lookVars, vars, chatVars>>
  \/ /\ part = "setup" /\ SetupNext
     /\ UNCHANGED <<part, throttleVars, connVars, boxVars, empVars, chanVars, voiceVars, docVars,
                     lookVars, vars, chatVars>>
  \/ /\ part = "connectors" /\ ConnNext
     /\ UNCHANGED <<part, throttleVars, setupVars, boxVars, empVars, chanVars, voiceVars, docVars,
                     lookVars, vars, chatVars>>
  \/ /\ part = "sandbox" /\ BoxNext /\ OneBoxFault'
     /\ UNCHANGED <<part, throttleVars, setupVars, connVars, empVars, chanVars, voiceVars, docVars,
                     lookVars, vars, chatVars>>
  \/ /\ part = "employees" /\ EmpNext
     /\ UNCHANGED <<part, throttleVars, setupVars, connVars, boxVars, chanVars, voiceVars, docVars,
                     lookVars, vars, chatVars>>
  \/ /\ part = "channels" /\ ChanNext /\ FaultOrNewRole'
     /\ UNCHANGED <<part, throttleVars, setupVars, connVars, boxVars, empVars, voiceVars, docVars,
                     lookVars, vars, chatVars>>
  \/ /\ part = "voice" /\ VoiceNext
     /\ UNCHANGED <<part, throttleVars, setupVars, connVars, boxVars, empVars, chanVars, docVars,
                     lookVars, vars, chatVars>>
  \/ /\ part = "documents" /\ DocNext
     /\ UNCHANGED <<part, throttleVars, setupVars, connVars, boxVars, empVars, chanVars, voiceVars,
                     lookVars, vars, chatVars>>
  \/ /\ part = "retrieval" /\ LookNext
     /\ UNCHANGED <<part, throttleVars, setupVars, connVars, boxVars, empVars, chanVars, voiceVars,
                     docVars, vars, chatVars>>
  \/ /\ part = "sync" /\ Next
     /\ UNCHANGED <<part, throttleVars, setupVars, connVars, boxVars, empVars, chanVars, voiceVars,
                     docVars, lookVars, chatVars>>
  \/ /\ part = "chat" /\ ChatNext /\ LedgerFailsForOne'
     /\ UNCHANGED <<part, throttleVars, setupVars, connVars, boxVars, empVars, chanVars, voiceVars,
                     docVars, lookVars, vars>>

ServerSpec == ServerInit /\ [][ServerNext]_serverVars

\* The type invariant of the component that moves; the others are as they were at the start.
ServerTypeOK ==
  /\ part = "throttle"   => ThrottleTypeOK
  /\ part = "setup"      => SetupTypeOK
  /\ part = "connectors" => ConnTypeOK
  /\ part = "sandbox"    => BoxTypeOK
  /\ part = "employees"  => EmpTypeOK
  /\ part = "channels"   => ChanTypeOK
  /\ part = "voice"      => VoiceTypeOK
  /\ part = "documents"  => DocTypeOK
  /\ part = "retrieval"  => LookTypeOK
  /\ part = "sync"       => TypeOK
  /\ part = "chat"       => ChatTypeOK
=============================================================================
