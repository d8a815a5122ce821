----------------------------- MODULE Retrieval -----------------------------
(***************************************************************************)
(* core.retrieval: what a question gets to read.  The hybrid search fuses  *)
(* the ranks of a vector query and of a full-text query and asks the       *)
(* knowledge graph for linked documents; the older search adds the graph's *)
(* boosts to the similarity.  The queries are separate statements, and     *)
(* documents come and go between them.                                     *)
(*                                                                         *)
(* A document has one chunk and is named by its id.  Fused scores are in   *)
(* millionths, as they are rounded; similarities in hundredths.            *)
(***************************************************************************)
EXTENDS Integers, Sequences, FiniteSets, SequencesExt

CONSTANTS
    Chunks,
    Similarities,               \* the similarities above min_similarity, in hundredths
    TopK,                       \* how many chunks a question gets
    RrfK,                       \* RRF_K
    GraphBoost, IndirectBoost,  \* in hundredths
    MaxEdits                    \* bound on the documents that come and go

\* 1.0 in the unit of the scores.
Million == 1000000

\* The last line: two neighbouring ranks differ by a millionth at least, or rounding would make
\* them equal.  With the default RRF_K of 60 it holds for TopK up to 313.
ASSUME RetrievalAssumption ==
    /\ TopK \in Nat \ {0} /\ RrfK \in Nat /\ GraphBoost \in Nat /\ IndirectBoost \in Nat
    /\ Similarities \subseteq 0..100 /\ IsFiniteSet(Chunks)
    /\ (RrfK + 3 * TopK) * (RrfK + 3 * TopK + 1) <= Million

VARIABLES
    chunkRows,      \* chunks in the table
    look,           \* the search being made
    edits

lookVars == <<chunkRows, look, edits>>

NoLook == [pc |-> "idle", dense |-> <<>>, sparse |-> <<>>, sim |-> <<>>, direct |-> {}, indirect |-> {},
           seen |-> {}, found |-> <<>>]

LookInit == chunkRows = Chunks /\ look = NoLook /\ edits = 0

Rankings(set) == UNION {SetToSeqs(s) : s \in SUBSET set}
UpToLen(q, n) == IF Len(q) < n THEN q ELSE SubSeq(q, 1, n)
RankIn(q, c) == CHOOSE i \in DOMAIN q : q[i] = c
In(q, c) == c \in ToSet(q)

\* An ingestion or a deletion commits.
EditChunks ==
    /\ edits < MaxEdits /\ edits' = edits + 1
    /\ \E c \in Chunks : chunkRows' = IF c \in chunkRows THEN chunkRows \ {c} ELSE chunkRows \cup {c}
    /\ UNCHANGED look

----------------------------------------------------------------------------
\* search_similar_chunks: at most three times TopK, nearest first, those too far left out.
SearchDense ==
    /\ look.pc = "idle"
    /\ \E q \in Rankings(chunkRows), then \in {"sparse", "boost"} :
       \E sim \in [ToSet(UpToLen(q, 3 * TopK)) -> Similarities] :
        LET dense == UpToLen(q, 3 * TopK) IN
        /\ \A i, j \in DOMAIN dense : i < j => sim[dense[i]] >= sim[dense[j]]
        /\ look' = [NoLook EXCEPT !.pc = then, !.dense = dense, !.seen = chunkRows,
                                  !.sim = IF then = "boost" THEN sim ELSE <<>>]
    /\ UNCHANGED <<chunkRows, edits>>

\* search_sparse_chunks: those whose text matches, by ts_rank.
SearchSparse ==
    /\ look.pc = "sparse"
    /\ \E q \in Rankings(chunkRows) :
        look' = [look EXCEPT !.pc = "fuse", !.sparse = UpToLen(q, 3 * TopK), !.seen = @ \cup chunkRows]
    /\ UNCHANGED <<chunkRows, edits>>

Reciprocal(q, c) == IF In(q, c) THEN Million \div (RrfK + RankIn(q, c)) ELSE 0

\* As the code would be if the full-text rank counted only for what the vectors did not find.
FusedScoreEither(dense, sparse, c) ==
    IF In(dense, c) THEN Reciprocal(dense, c) ELSE Reciprocal(sparse, c)

\* Reciprocal rank fusion.
FusedScore(dense, sparse, c) == Reciprocal(dense, c) + Reciprocal(sparse, c)

\* The candidates in the order of their scores, TopK of them; equal ones in any order.
Best(score, found) ==
    \E ranking \in SetToSeqs(DOMAIN score) :
        /\ \A i, j \in DOMAIN ranking : i < j => score[ranking[i]] >= score[ranking[j]]
        /\ found = UpToLen(ranking, TopK)

Candidates == ToSet(look.dense) \cup ToSet(look.sparse)
FoundOrders == {UpToLen(q, TopK) : q \in SetToSeqs(Candidates)}

\* What a link of the graph adds to a fused score.
LinkBonus(c, direct) == IF c \in direct THEN GraphBoost * (Million \div 100) ELSE 0

\* search_hybrid_chunks: fused, and the documents the graph links to the question raised; the
\* graph may be out of reach, then none is.
Fuse ==
    /\ look.pc = "fuse"
    /\ \E direct \in SUBSET Candidates, found \in FoundOrders :
        LET score == [c \in Candidates |-> FusedScore(look.dense, look.sparse, c) + LinkBonus(c, direct)]
        IN  /\ Best(score, found)
            /\ look' = [look EXCEPT !.pc = "done", !.found = found, !.direct = direct]
    /\ UNCHANGED <<chunkRows, edits>>

\* The similarity with the boost of a direct link, otherwise of an indirect one, up to 1.0.
Boosted(c, sim, direct, indirect) ==
    LET s == sim + (IF c \in direct THEN GraphBoost ELSE IF c \in indirect THEN IndirectBoost ELSE 0)
    IN  IF s < 100 THEN s ELSE 100

\* search_similar_chunks_with_graph.
BoostByGraph ==
    /\ look.pc = "boost"
    /\ \E direct, indirect \in SUBSET Candidates, found \in FoundOrders :
        LET score == [c \in Candidates |-> Boosted(c, look.sim[c], direct, indirect)]
        IN  /\ Best(score, found)
            /\ look' = [look EXCEPT !.pc = "done", !.found = found, !.direct = direct, !.indirect = indirect]
    /\ UNCHANGED <<chunkRows, edits>>

Return ==
    /\ look.pc = "done" /\ look' = NoLook
    /\ UNCHANGED <<chunkRows, edits>>

LookNext == EditChunks \/ SearchDense \/ SearchSparse \/ Fuse \/ BoostByGraph \/ Return

LookSpec == LookInit /\ [][LookNext]_lookVars

----------------------------------------------------------------------------
LookTypeOK ==
    /\ chunkRows \subseteq Chunks /\ edits \in 0..MaxEdits
    /\ look.pc \in {"idle", "sparse", "fuse", "boost", "done"}

NoLower(q, c, d) == In(q, d) => In(q, c) /\ RankIn(q, c) <= RankIn(q, d)

(***************************************************************************)
(* A chunk that neither query ranks lower, one of them higher, and that    *)
(* the graph links if it links the other, is found before it.  TopK are    *)
(* found when the queries gave as many, each one of a document that was    *)
(* there when they were made.                                              *)
(***************************************************************************)
SearchIsFair ==
    look.pc = "done" =>
        /\ Len(look.found) = (IF Cardinality(Candidates) < TopK THEN Cardinality(Candidates) ELSE TopK)
        /\ ToSet(look.found) \subseteq look.seen
        /\ look.sim = <<>> =>
             \A c \in Candidates, d \in ToSet(look.found) :
                (/\ c # d /\ NoLower(look.dense, c, d) /\ NoLower(look.sparse, c, d)
                 /\ d \in look.direct => c \in look.direct) =>
                    In(look.found, c) /\ RankIn(look.found, c) < RankIn(look.found, d)
============================================================================
