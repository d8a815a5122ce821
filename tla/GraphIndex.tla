----------------------------- MODULE GraphIndex -----------------------------
(***************************************************************************)
(* The entity graph of packages/ragleap-graph: concurrent upserts of       *)
(* documents into Neo4j and the queries over what they leave.              *)
(*                                                                         *)
(* Every session.run is a transaction of its own, so an upsert is a chain  *)
(* of separate steps that other upserts interleave with and that a fault   *)
(* may cut anywhere.  A document's share of an edge is a PairWeight (or    *)
(* RelationWeight) node; the edge itself carries the sum over documents    *)
(* and is recomputed by whoever changed a share.                           *)
(*                                                                         *)
(* The database isolates statements as Neo4j does, read committed: a       *)
(* statement reads each node as it is committed when it comes to it, and   *)
(* only what it writes is locked until it ends.  The statement that        *)
(* recomputes an edge therefore reads its shares one by one, and the edge  *)
(* is written in a later step.                                             *)
(*                                                                         *)
(* Entity names are numbers; Canon is what EntityDeduplicator resolves     *)
(* them to.  One tenant: namespace and user are part of every key alike.   *)
(* Documents stay below max_entities and max_pairs.  The cross-chunk pass  *)
(* over relations is a last chunk that has relations and no names.         *)
(***************************************************************************)
EXTENDS Integers, Sequences, FiniteSets, Functions

CONSTANTS
    GWriters,       \* threads inside upsert_document
    GDocs,          \* document ids
    Names, Canon,   \* extracted names, and the canonical name of each
    Texts,          \* what may be upserted: sequences of chunks
    MaxAttempts,    \* attempts of one upsert_document call (3)
    MaxGraphFaults, \* bound on the failing statements
    MaxUpserts,     \* bound on the calls
    NoDoc

ASSUME GraphAssumption ==
    /\ Names \subseteq Nat /\ IsFiniteSet(Names) /\ Canon \in [Names -> Names]
    /\ \A n \in Names : Canon[Canon[n]] = Canon[n]
    /\ Texts \subseteq Seq([names : SUBSET Names, rels : SUBSET (Names \X Names)])
    /\ MaxAttempts \in Nat \ {0}
    /\ IsFiniteSet(GDocs) /\ GDocs \cap Names = {} /\ NoDoc \notin GDocs

Ents == {Canon[n] : n \in Names}

\* CO_OCCURS_WITH is undirected and its key sorted; RELATES_AS is directed.
Links == {l \in {"co", "rel"} \X Ents \X Ents :
            l[2] # l[3] /\ (l[1] = "co" => l[2] < l[3])}

VARIABLES
    share,      \* share[d][l]: weight of d's PairWeight/RelationWeight node
    edge,       \* edge[l]: weight of the relationship, 0 when there is none
    contains,   \* contains[d]: entities with a CONTAINS edge from d
    entities,   \* Entity nodes; an upsert never deletes one
    writer,     \* per thread: where its upsert stands
    lastText,   \* lastText[d]: the text of the last upsert, <<>> before any
    outpaced,   \* writers inside a sum whose edge another writer has set
                \* since it read its first share (history)
    outdated,   \* links whose last recomputation was outpaced (history)
    marred,     \* documents one of whose upserts was cut, or ran beside
                \* another upsert of the same document (history)
    graphFaults, upserts

graphVars == <<share, edge, contains, entities, writer, lastText, outpaced, outdated,
               marred, graphFaults, upserts>>

(***************************************************************************)
(* What a text contributes: the entities of its chunks, the counters and   *)
(* _apply_entity_dedup.  Two names of one entity both count, and a pair of *)
(* two names of the same entity is dropped.                                *)
(***************************************************************************)
ChunkEntities(text) ==
    {Canon[n] : n \in UNION {text[i].names : i \in DOMAIN text}}

\* What the entities of a relation must be: those of its chunk, or of the
\* whole document in the cross-chunk pass.
KnownEntities(text, i) ==
    IF text[i].names # {} THEN text[i].names ELSE UNION {text[j].names : j \in DOMAIN text}

\* The relations a model returns, less the ones about a name it made up and
\* the ones of a name with itself; none at all below two known entities.
KnownRelations(text, i) ==
    {r \in text[i].rels : {r[1], r[2]} \subseteq KnownEntities(text, i) /\ r[1] # r[2]}

Mentions(text, l) ==
    {m \in (DOMAIN text) \X Names \X Names :
        /\ Canon[m[2]] = l[2] /\ Canon[m[3]] = l[3]
        /\ IF l[1] = "co" THEN {m[2], m[3]} \subseteq text[m[1]].names
                          ELSE <<m[2], m[3]>> \in KnownRelations(text, m[1])}

Weight(text, l) == Cardinality(Mentions(text, l))

Current(text, k) == {l \in Links : l[1] = k /\ Weight(text, l) > 0}

NoShares == [d \in GDocs |-> 0]

IdleWriter == [pc |-> "idle", doc |-> NoDoc, text |-> <<>>, kind |-> "co",
               old |-> {}, todo |-> {}, attempt |-> 0,
               at |-> NoDoc, unread |-> GDocs, seen |-> NoShares]

GraphInit ==
    /\ share = [d \in GDocs |-> [l \in Links |-> 0]]
    /\ edge = [l \in Links |-> 0]
    /\ contains = [d \in GDocs |-> {}] /\ entities = {}
    /\ writer = [w \in GWriters |-> IdleWriter]
    /\ lastText = [d \in GDocs |-> <<>>]
    /\ outpaced = {} /\ outdated = {} /\ marred = {} /\ graphFaults = 0 /\ upserts = 0

----------------------------------------------------------------------------
Busy(d) == {w \in GWriters : writer[w].doc = d}

To(w, pc) == writer' = [writer EXCEPT ![w].pc = pc]

UpsertDocument(w) ==
    /\ writer[w].pc = "idle" /\ upserts < MaxUpserts
    /\ upserts' = upserts + 1
    /\ \E d \in GDocs, t \in Texts :
        /\ writer' = [writer EXCEPT ![w] = [IdleWriter EXCEPT !.pc = "wipe", !.doc = d, !.text = t]]
        /\ marred' = IF Busy(d) = {} THEN marred ELSE marred \cup {d}
        /\ lastText' = [lastText EXCEPT ![d] = t]
    /\ UNCHANGED <<share, edge, contains, entities, outpaced, outdated, graphFaults>>

\* Extraction runs before any statement: a provider that fails or answers
\* with something else than entities raises out of upsert_document.
ExtractionRaises(w) ==
    /\ writer[w].pc = "idle" /\ upserts < MaxUpserts
    /\ upserts' = upserts + 1
    /\ UNCHANGED <<share, edge, contains, entities, writer, lastText, outpaced, outdated, marred, graphFaults>>

\* As the code would be without the DELETE of the old edges.
WipeContainsNot(w) ==
    /\ writer[w].pc = "wipe"
    /\ writer' = [writer EXCEPT ![w].pc = "entities", ![w].todo = ChunkEntities(writer[w].text)]
    /\ UNCHANGED <<share, edge, contains, entities, lastText, outpaced, outdated, marred, graphFaults, upserts>>

\* MERGE of the Document, then DELETE of its CONTAINS edges.
WipeContains(w) ==
    /\ writer[w].pc = "wipe"
    /\ contains' = [contains EXCEPT ![writer[w].doc] = {}]
    /\ writer' = [writer EXCEPT ![w].pc = "entities", ![w].todo = ChunkEntities(writer[w].text)]
    /\ UNCHANGED <<share, edge, entities, lastText, outpaced, outdated, marred, graphFaults, upserts>>

\* MERGE of the Entity and of the CONTAINS edge, one statement an entity.
MergeEntity(w) ==
    /\ writer[w].pc = "entities"
    /\ \/ \E e \in writer[w].todo :
            /\ entities' = entities \cup {e}
            /\ contains' = [contains EXCEPT ![writer[w].doc] = @ \cup {e}]
            /\ writer' = [writer EXCEPT ![w].todo = @ \ {e}]
       \/ /\ writer[w].todo = {}
          /\ To(w, "old")
          /\ UNCHANGED <<entities, contains>>
    /\ UNCHANGED <<share, edge, lastText, outpaced, outdated, marred, graphFaults, upserts>>

ReadOldPairs(w) ==
    LET me == writer[w] IN
    /\ me.pc = "old"
    /\ writer' = [writer EXCEPT ![w].pc = "delete",
                                ![w].old = {l \in Links : l[1] = me.kind /\ share[me.doc][l] > 0}]
    /\ UNCHANGED <<share, edge, contains, entities, lastText, outpaced, outdated, marred, graphFaults, upserts>>

DeleteShares(w) ==
    LET me == writer[w] IN
    /\ me.pc = "delete"
    /\ share' = [share EXCEPT ![me.doc] =
                    [l \in Links |-> IF l[1] = me.kind THEN 0 ELSE @[l]]]
    /\ writer' = [writer EXCEPT ![w].pc = "put", ![w].todo = Current(me.text, me.kind)]
    /\ UNCHANGED <<edge, contains, entities, lastText, outpaced, outdated, marred, graphFaults, upserts>>

\* As the code would be if only the edges of deleted shares were recomputed.
RecomputedOldOnly(me) == me.old

Recomputed(me) == me.old \cup Current(me.text, me.kind)

PutShare(w) ==
    LET me == writer[w] IN
    /\ me.pc = "put"
    /\ \/ \E l \in me.todo :
            /\ share' = [share EXCEPT ![me.doc][l] = Weight(me.text, l)]
            /\ writer' = [writer EXCEPT ![w].todo = @ \ {l}]
       \/ /\ me.todo = {}
          /\ writer' = [writer EXCEPT ![w].pc = "sum", ![w].todo = Recomputed(me)]
          /\ UNCHANGED share
    /\ UNCHANGED <<edge, contains, entities, lastText, outpaced, outdated, marred, graphFaults, upserts>>

Total(l) == SumFunction([d \in GDocs |-> share[d][l]])

\* The sum of an edge's statement: the shares of every document, in any order.
Counted(me, l, d, n) ==
    [me EXCEPT !.pc = "write", !.at = l, !.todo = me.todo \ {l},
               !.unread = me.unread \ {d}, !.seen = [me.seen EXCEPT ![d] = n]]

ReadShare(w) ==
    LET me == writer[w] IN
    /\ \E l \in Links, d \in me.unread :
        /\ \/ me.pc = "sum" /\ l \in me.todo
           \/ me.pc = "write" /\ l = me.at
        /\ writer' = [writer EXCEPT ![w] = Counted(me, l, d, share[d][l])]
    /\ UNCHANGED <<share, edge, contains, entities, lastText, outpaced, outdated, marred, graphFaults, upserts>>

\* Its MERGE and SET, or DELETE where the sum is 0; it matches nothing when an
\* endpoint is not there.  Whoever is between its own sum and its SET of the
\* same edge will write what it has read.
Summed(me) == [me EXCEPT !.pc = "sum", !.at = NoDoc, !.unread = GDocs, !.seen = NoShares]

WriteEdge(w) ==
    LET me == writer[w] IN
    /\ me.pc = "write" /\ me.unread = {}
    /\ edge' = IF {me.at[2], me.at[3]} \subseteq entities
               THEN [edge EXCEPT ![me.at] = SumFunction(me.seen)] ELSE edge
    /\ writer' = [writer EXCEPT ![w] = Summed(me)]
    /\ outpaced' = (outpaced \cup {v \in GWriters : writer[v].pc = "write" /\ writer[v].at = me.at}) \ {w}
    /\ outdated' = IF w \in outpaced THEN outdated \cup {me.at} ELSE outdated \ {me.at}
    /\ UNCHANGED <<share, contains, entities, lastText, marred, graphFaults, upserts>>

\* After the co-occurrences the same stages run for the relations.
SumsDone(w) ==
    LET me == writer[w] IN
    /\ me.pc = "sum" /\ me.todo = {}
    /\ writer' = [writer EXCEPT ![w] = IF me.kind = "co"
                                       THEN [me EXCEPT !.pc = "old", !.kind = "rel"]
                                       ELSE IdleWriter]
    /\ UNCHANGED <<share, edge, contains, entities, lastText, outpaced, outdated, marred, graphFaults, upserts>>

\* A TransientError starts the upsert again until its attempts are used up;
\* any other exception ends it.  Between the delete of the shares and the
\* last recomputed edge the old pairs are known to this attempt only.
StatementFails(w) ==
    LET me == writer[w] IN
    /\ me.pc # "idle" /\ graphFaults < MaxGraphFaults
    /\ graphFaults' = graphFaults + 1
    /\ outpaced' = outpaced \ {w}
    /\ marred' = IF me.pc \in {"put", "sum", "write"} THEN marred \cup {me.doc} ELSE marred
    /\ \/ /\ me.attempt < MaxAttempts - 1
          /\ writer' = [writer EXCEPT ![w] = [IdleWriter EXCEPT !.pc = "wipe", !.doc = me.doc,
                                                  !.text = me.text, !.attempt = me.attempt + 1]]
          /\ UNCHANGED lastText
       \/ /\ writer' = [writer EXCEPT ![w] = IdleWriter]
          /\ lastText' = [lastText EXCEPT ![me.doc] = <<>>]
    /\ UNCHANGED <<share, edge, contains, entities, outdated, upserts>>

GraphNext == \E w \in GWriters :
    \/ UpsertDocument(w) \/ ExtractionRaises(w) \/ WipeContains(w) \/ MergeEntity(w) \/ ReadOldPairs(w)
    \/ DeleteShares(w) \/ PutShare(w) \/ ReadShare(w) \/ WriteEdge(w) \/ SumsDone(w) \/ StatementFails(w)

GraphSpec == GraphInit /\ [][GraphNext]_graphVars

----------------------------------------------------------------------------
(***************************************************************************)
(* The queries, each one statement.                                        *)
(***************************************************************************)
FindDocumentsByEntities(names) == {d \in GDocs : contains[d] \cap names # {}}

DocumentEntities(d) == contains[d]

FindRelations(e) == {l \in Links : l[1] = "rel" /\ edge[l] > 0 /\ e \in {l[2], l[3]}}

\* Every share of a pair, of any document and of either kind.
FindLineage(a, b) ==
    {x \in GDocs \X Links : {x[2][2], x[2][3]} = {a, b} /\ share[x[1]][x[2]] > 0}

\* The graph a path walks: edges between entities and, through a document,
\* CONTAINS.  A path never uses a relationship twice.
Roads == {<<l, l[2], l[3]>> : l \in {x \in Links : edge[x] > 0}}
         \cup UNION {{<<d, d, e>> : e \in contains[d]} : d \in GDocs}

SearchRelatedEntities(names, depth) ==
    LET Other(r, x) == IF r[2] = x THEN r[3] ELSE r[2]
        Walk[n \in 0..depth] ==
            IF n = 0 THEN {<<e, {}>> : e \in names \cap entities}
            ELSE UNION {{<<Other(r, x[1]), x[2] \cup {r}>> :
                            r \in {r \in Roads \ x[2] : x[1] \in {r[2], r[3]}}} : x \in Walk[n - 1]}
    IN  {x[1] : x \in UNION {Walk[n] : n \in 1..depth}} \cap Ents

----------------------------------------------------------------------------
GraphTypeOK ==
    /\ share \in [GDocs -> [Links -> Nat]] /\ edge \in [Links -> Nat]
    /\ contains \in [GDocs -> SUBSET Ents] /\ entities \subseteq Ents
    /\ \A w \in GWriters : /\ writer[w].doc \in GDocs \cup {NoDoc}
                           /\ writer[w].attempt < MaxAttempts
                           /\ writer[w].old \subseteq Links
    /\ marred \subseteq GDocs /\ outpaced \subseteq GWriters /\ outdated \subseteq Links
    /\ graphFaults <= MaxGraphFaults

AtRest == \A w \in GWriters : writer[w].pc = "idle"

(***************************************************************************)
(* With no upsert under way, and none ever cut after it deleted its shares *)
(* or run beside another one of the same document: the weight of an edge   *)
(* is the sum of the shares find_lineage lists for it, and two entities    *)
(* are neighbours in search_related_entities exactly when some document's  *)
(* present text accounts for it, except for an edge whose last             *)
(* recomputation was outpaced by another one of the same edge.  Upserts    *)
(* of different documents in any interleaving, retries before the delete   *)
(* and changed texts all keep this, and a later recomputation repairs an   *)
(* edge that an outpaced one left wrong (the CO_OCCURS_WITH and            *)
(* RELATES_AS recomputation of _upsert_document_once).                     *)
(***************************************************************************)
EdgesAddUp ==
    AtRest /\ marred = {} =>
        /\ \A l \in Links \ outdated : edge[l] = Total(l)
        /\ \A a, b \in Ents :
              a # b /\ (\A l \in outdated : {l[2], l[3]} # {a, b}) =>
              (b \in SearchRelatedEntities({a}, 1) <=> FindLineage(a, b) # {})
        /\ \A e \in Ents : \A l \in FindRelations(e) \ outdated :
              \E x \in FindLineage(l[2], l[3]) : x[2] = l

(***************************************************************************)
(* A document whose last upsert returned success, with none beside it, is  *)
(* found by exactly the entities of that text, whatever attempts and older *)
(* texts came before (delete-then-rewrite of CONTAINS).                    *)
(***************************************************************************)
FoundByItsText ==
    AtRest => \A d \in GDocs \ marred : lastText[d] # <<>> =>
        /\ DocumentEntities(d) = ChunkEntities(lastText[d])
        /\ \A e \in Ents : d \in FindDocumentsByEntities({e})
                              <=> e \in ChunkEntities(lastText[d])
============================================================================
