----------------------------- MODULE Documents -----------------------------
(***************************************************************************)
(* The documents of the core: ingest_document, DELETE /documents/{id}, the *)
(* knowledge graph in Neo4j beside the tables.                             *)
(*                                                                         *)
(* The tables are written in one transaction; the graph after it, in       *)
(* statements that commit one by one and of which any may fail, which ends *)
(* the work on the graph but not the request.  Ingestions and deletions    *)
(* run concurrently.                                                       *)
(*                                                                         *)
(* Neo4j reads what is committed and keeps no lock on what it only read.   *)
(* A statement that writes the nodes it names has their locks until it     *)
(* commits and is one step; one that was waiting for a node another        *)
(* deletes raises.  The statement that removes the orphans is two steps:   *)
(* it finds the entities that no document mentions, and deletes these with *)
(* whatever links they have when it comes to hold their locks.             *)
(***************************************************************************)
EXTENDS Integers, FiniteSets

CONSTANTS
    DocWorkers,         \* threads that ingest and delete
    Docs, Entities,
    Mentions,           \* document -> the entities found in its text
    MaxGraphFaults      \* bound

ASSUME DocumentsAssumption ==
    Mentions \in [Docs -> SUBSET Entities] /\ MaxGraphFaults \in Nat

VARIABLES
    stored, deleted,        \* documents in the tables, and those that were
    gDocs, gEntities, contains, related,    \* the graph
    work,           \* per thread: what it does to which document
    graphFaults,
    graphed,        \* history: documents whose graph was written to the end
    raced,          \* history: documents that were linked to an entity some deletion had
                    \* already found to be an orphan
    torn            \* history: documents whose graph was left half done, or deleted while written

docVars == <<stored, deleted, gDocs, gEntities, contains, related, work, graphFaults, graphed, raced, torn>>
graph == <<gDocs, gEntities, contains, related>>

\* todo: the entities still to be merged or that may be orphans; pairs: those still to be merged.
NoWork == [pc |-> "idle", doc |-> "none", todo |-> {}, pairs |-> {}]
Begun(pc, d) == [NoWork EXCEPT !.pc = pc, !.doc = d]

DocInit ==
    /\ stored = {} /\ deleted = {}
    /\ gDocs = {} /\ gEntities = {} /\ contains = {} /\ related = {}
    /\ work = [w \in DocWorkers |-> NoWork]
    /\ graphFaults = 0 /\ graphed = {} /\ raced = {} /\ torn = {}

Busy(w, pc) == work[w].pc = pc
Doc(w) == work[w].doc
PairsOf(d) == {p \in SUBSET Mentions[d] : Cardinality(p) = 2}

\* A statement on the graph raises: logged, and the rest of the work on the graph is not done.
GraphRaises(w) ==
    /\ graphFaults < MaxGraphFaults /\ graphFaults' = graphFaults + 1
    /\ torn' = torn \cup {Doc(w)}
    /\ work' = [work EXCEPT ![w] = NoWork]
    /\ UNCHANGED <<stored, deleted, graph, graphed, raced>>

----------------------------------------------------------------------------
(* ingest_document and upsert_document_graph. *)

\* Every chunk is embedded before the commit; when none could be, nothing is stored.
Ingest(w) ==
    /\ Busy(w, "idle")
    /\ \E d \in Docs \ (stored \cup deleted) :
        /\ stored' = stored \cup {d}
        /\ work' = [work EXCEPT ![w] = Begun("node", d)]
    /\ UNCHANGED <<deleted, graph, graphFaults, graphed, raced, torn>>

MergeNode(w) ==
    /\ Busy(w, "node")
    /\ \/ /\ gDocs' = gDocs \cup {Doc(w)}
          /\ work' = [work EXCEPT ![w] = [pc |-> "merge", doc |-> Doc(w), todo |-> Mentions[Doc(w)],
                                         pairs |-> PairsOf(Doc(w))]]
          /\ UNCHANGED <<stored, deleted, gEntities, contains, related, graphFaults, graphed, raced, torn>>
       \/ GraphRaises(w)

\* The sweeps that have found an entity to be an orphan.
Condemned(e) == \E x \in DocWorkers : Busy(x, "sweep") /\ e \in work[x].todo

\* One statement: the entity, and its link when the document's node is there.
MergeEntity(w) ==
    /\ Busy(w, "merge")
    /\ \/ \E e \in work[w].todo :
            /\ gEntities' = gEntities \cup {e}
            /\ contains' = IF Doc(w) \in gDocs THEN contains \cup {<<Doc(w), e>>} ELSE contains
            /\ raced' = IF Condemned(e) THEN raced \cup {Doc(w)} ELSE raced
            /\ work' = [work EXCEPT ![w].todo = @ \ {e}]
            /\ UNCHANGED <<stored, deleted, gDocs, related, graphFaults, graphed, torn>>
       \/ work[w].todo # {} /\ GraphRaises(w)

\* One statement for each pair found together, between entities that are there.
MergePair(w) ==
    /\ Busy(w, "merge") /\ work[w].todo = {}
    /\ \/ \E p \in work[w].pairs :
            /\ related' = IF p \subseteq gEntities THEN related \cup {p} ELSE related
            /\ work' = [work EXCEPT ![w].pairs = @ \ {p}]
            /\ UNCHANGED <<stored, deleted, gDocs, gEntities, contains, graphFaults, graphed, raced, torn>>
       \/ work[w].pairs # {} /\ GraphRaises(w)

\* The upsert reports what it indexed.
GraphDone(w) ==
    /\ Busy(w, "merge") /\ work[w].todo = {} /\ work[w].pairs = {}
    /\ graphed' = graphed \cup {Doc(w)}
    /\ work' = [work EXCEPT ![w] = NoWork]
    /\ UNCHANGED <<stored, deleted, graph, graphFaults, raced, torn>>

----------------------------------------------------------------------------
(* delete_document and delete_document_graph. *)

IsWriting(d) == \E x \in DocWorkers : Doc(x) = d /\ work[x].pc \in {"node", "merge"}

DeleteRow(w) ==
    /\ Busy(w, "idle")
    /\ \E d \in stored :
        /\ stored' = stored \ {d} /\ deleted' = deleted \cup {d}
        /\ torn' = IF IsWriting(d) THEN torn \cup {d} ELSE torn
        /\ work' = [work EXCEPT ![w] = Begun("names", d)]
    /\ UNCHANGED <<graph, graphFaults, graphed, raced>>

ReadNames(w) ==
    /\ Busy(w, "names")
    /\ \/ /\ work' = [work EXCEPT ![w].pc = "detach",
                                  ![w].todo = {e \in Entities : <<Doc(w), e>> \in contains}]
          /\ UNCHANGED <<stored, deleted, graph, graphFaults, graphed, raced, torn>>
       \/ GraphRaises(w)

DetachDocument(w) ==
    /\ Busy(w, "detach")
    /\ \/ /\ gDocs' = gDocs \ {Doc(w)}
          /\ contains' = {c \in contains : c[1] # Doc(w)}
          /\ work' = [work EXCEPT ![w] = IF @.todo = {} THEN NoWork ELSE [@ EXCEPT !.pc = "orphans"]]
          /\ UNCHANGED <<stored, deleted, gEntities, related, graphFaults, graphed, raced, torn>>
       \/ GraphRaises(w)

\* As the code would be if the entities of a document went with it.
OrphansAll(names) == names \cap gEntities

\* Those of the names that no document mentions now.
Orphans(names) == {e \in names \cap gEntities : \A c \in contains : c[2] # e}

\* The WHERE of the statement: nothing keeps an ingestion from linking one of these now.
CheckOrphans(w) ==
    /\ Busy(w, "orphans")
    /\ \/ /\ work' = [work EXCEPT ![w].pc = "sweep", ![w].todo = Orphans(work[w].todo)]
          /\ UNCHANGED <<stored, deleted, graph, graphFaults, graphed, raced, torn>>
       \/ GraphRaises(w)

\* A node that is gone is gone for every sweep, whatever comes to bear its name.
Spared(gone) == [x \in DocWorkers |-> IF Busy(x, "sweep") THEN [work[x] EXCEPT !.todo = @ \ gone] ELSE work[x]]

\* Its DETACH DELETE: the entities with all links they have by now.
RemoveOrphans(w) ==
    /\ Busy(w, "sweep")
    /\ \/ LET gone == work[w].todo IN
          /\ gEntities' = gEntities \ gone
          /\ contains' = {c \in contains : c[2] \notin gone}
          /\ related' = {p \in related : p \cap gone = {}}
          /\ work' = [Spared(gone) EXCEPT ![w] = NoWork]
          /\ UNCHANGED <<stored, deleted, gDocs, graphFaults, graphed, raced, torn>>
       \/ GraphRaises(w)

DocNext ==
    \E w \in DocWorkers :
        \/ Ingest(w) \/ MergeNode(w) \/ MergeEntity(w) \/ MergePair(w) \/ GraphDone(w)
        \/ DeleteRow(w) \/ ReadNames(w) \/ DetachDocument(w)
        \/ CheckOrphans(w) \/ RemoveOrphans(w)

DocSpec == DocInit /\ [][DocNext]_docVars

----------------------------------------------------------------------------
(* The queries, each one statement; their limits are not reached. *)

FindDocumentsByEntities(names) == {d \in gDocs : \E e \in names : <<d, e>> \in contains}

Tied(x, y) == x # y /\ {x, y} \in related

\* The ends of the paths of one link or two, where a path takes no link twice.
SearchRelatedEntities(names) ==
    {y \in gEntities : \E x \in (names \cap gEntities) \ {y} :
        \/ Tied(x, y)
        \/ \E z \in gEntities : Tied(x, z) /\ Tied(z, y)
        \/ \E d \in gDocs : {<<d, x>>, <<d, y>>} \subseteq contains}

----------------------------------------------------------------------------
DocTypeOK ==
    /\ stored \subseteq Docs /\ deleted \subseteq Docs /\ stored \cap deleted = {}
    /\ gDocs \subseteq Docs /\ contains \subseteq gDocs \X gEntities
    /\ related \subseteq SUBSET gEntities

\* A stored document is found by whatever it mentions once its graph was written to the end, and
\* what it mentions together is related, by a link of its own and to a search, whatever is deleted
\* beside it: unless it was linked to an entity between a deletion's look for orphans and its
\* removal of them.
IndexedIsFound ==
    \A d \in (graphed \cap stored) \ raced : \A e \in Mentions[d] :
        /\ d \in FindDocumentsByEntities({e})
        /\ \A x \in Mentions[d] \ {e} : {e, x} \in related /\ x \in SearchRelatedEntities({e})

\* When nobody is at work and no document was left half done, the graph holds what the tables do:
\* the nodes of the stored documents, no entity that none of them mentions, and all that they
\* mention but for those linked in the midst of a removal.
GraphIsSwept ==
    (torn = {} /\ \A w \in DocWorkers : Busy(w, "idle")) =>
        /\ gDocs = stored
        /\ gEntities \subseteq UNION {Mentions[d] : d \in stored}
        /\ UNION {Mentions[d] : d \in stored \ raced} \subseteq gEntities

(***************************************************************************)
(* The graph keeps to the tables.                                          *)
(***************************************************************************)
DocumentsAreSound == IndexedIsFound /\ GraphIsSwept
============================================================================
