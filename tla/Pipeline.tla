------------------------------ MODULE Pipeline ------------------------------
(***************************************************************************)
(* What a prompt is made of: the memory of the AI employees, the chunks of *)
(* the hybrid search and the records fetched by the connectors.  The three *)
(* share no state.                                                         *)
(***************************************************************************)
EXTENDS EmployeeMemory, Retrieval, Connectors

(***************************************************************************)
(* What the pipeline is fed with (get_owner_instructions,                  *)
(* search_hybrid_chunks, sync_data_source): the instructions of an         *)
(* employee, the chunks of a search and the records of a connector are     *)
(* those the owner and the sources last gave.                              *)
(***************************************************************************)
PipelineIsFed == MemoryServesPrompts /\ SearchIsFair /\ ConnectorsAreSound
=============================================================================
