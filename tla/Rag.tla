--------------------------------- MODULE Rag ---------------------------------
(***************************************************************************)
(* What a question asked of ragleap and ragleap-graph relies on: the       *)
(* entity graph, its migrations, and asking itself.  They share no state.  *)
(***************************************************************************)
EXTENDS GraphIndex, GraphMigrations, RagAsk

(***************************************************************************)
(* ragleap and ragleap-graph (upsert_document, run_pending, ask): a        *)
(* document is found by its present text, a recorded migration is          *)
(* complete, and asking keeps its limits and its record.                   *)
(***************************************************************************)
RagIsSound == FoundByItsText /\ RecordedIsComplete /\ AskIsSound
==============================================================================
