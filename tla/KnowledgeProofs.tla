--------------------------- MODULE KnowledgeProofs --------------------------
(***************************************************************************)
(* What holds of the documents with their graph, of the schema setup in a  *)
(* user's database, and of the chat pipeline with its budget, for any      *)
(* number of threads and any faults.                                       *)
(***************************************************************************)
EXTENDS Documents, SchemaSetup, Chat, FiniteSetTheorems, TLAPS

-----------------------------------------------------------------------------
(* The documents: the invariant. *)

Writing  == {"node", "merge"}
Deleting == {"names", "detach", "orphans", "sweep"}

WorkStates == [pc : {"idle"} \cup Writing \cup Deleting, doc : Docs \cup {"none"}, todo : SUBSET Entities,
               pairs : SUBSET SUBSET Entities]

\* The graph is one of documents that are or were stored, and of what their texts mention.
GraphOK ==
  /\ stored \subseteq Docs /\ deleted \subseteq Docs /\ stored \cap deleted = {}
  /\ graphed \subseteq stored \cup deleted /\ gDocs \subseteq stored \cup deleted
  /\ gEntities \subseteq Entities
  /\ contains \subseteq gDocs \X gEntities /\ related \subseteq SUBSET gEntities
  /\ \A c \in contains : c[2] \in Mentions[c[1]]

\* A thread works on a document that is stored or was, and deletes from the graph only what is
\* deleted from the tables.
WorkOK ==
  /\ work \in [DocWorkers -> WorkStates]
  /\ \A w \in DocWorkers :
       /\ work[w].pc \in Writing => Doc(w) \in stored \cup deleted
       /\ work[w].pc \in Deleting => Doc(w) \in deleted
       /\ Busy(w, "merge") =>
            /\ work[w].todo \subseteq Mentions[Doc(w)]
            /\ work[w].todo = {} \/ work[w].pairs = PairsOf(Doc(w))

\* What was written of a stored document is there: all of it once its graph was written to the
\* end, and but for what is left to do while it is.  Of one that was raced, its node.
HoldsBut(d, todo, pairs) ==
  /\ d \in gDocs
  /\ d \notin raced => /\ \A e \in Mentions[d] \ todo : <<d, e>> \in contains
                       /\ PairsOf(d) \ pairs \subseteq related

WrittenIsThere ==
  /\ \A d \in graphed \cap stored : HoldsBut(d, {}, {})
  /\ \A w \in DocWorkers : Busy(w, "merge") /\ Doc(w) \in stored =>
       HoldsBut(Doc(w), work[w].todo, work[w].pairs)

\* A removal takes links with it only of documents that were raced.
SweepOK ==
  \A w \in DocWorkers : Busy(w, "sweep") =>
    \A c \in contains : c[2] \in work[w].todo => c[1] \in raced

\* As long as no work was left half done, somebody is at whatever the graph lacks or has too much.
WritersOfStored == \A w \in DocWorkers : work[w].pc \in Writing => Doc(w) \in stored

StoredIsWritten ==
  \A d \in stored : d \in graphed \/ \E w \in DocWorkers : Doc(w) = d /\ work[w].pc \in Writing

DeletedIsSwept ==
  \A d \in deleted \cap gDocs : \E w \in DocWorkers : Doc(w) = d /\ work[w].pc \in {"names", "detach"}

NamesAreKnown ==
  \A w \in DocWorkers : Busy(w, "detach") =>
    \A e \in Entities : <<Doc(w), e>> \in contains => e \in work[w].todo

EntitiesAreNamed ==
  \A e \in gEntities : \/ \E c \in contains : c[2] = e
                       \/ \E w \in DocWorkers : work[w].pc \in {"orphans", "sweep"} /\ e \in work[w].todo

SomebodyAtIt ==
  torn = {} => WritersOfStored /\ StoredIsWritten /\ DeletedIsSwept /\ NamesAreKnown /\ EntitiesAreNamed

DocInv == GraphOK /\ WorkOK /\ WrittenIsThere /\ SweepOK /\ SomebodyAtIt

-----------------------------------------------------------------------------
(* The documents: each step. *)

LEMMA DocStarts == DocInit => DocInv
<1> SUFFICES ASSUME DocInit PROVE DocInv
  OBVIOUS
<1>1. work \in [DocWorkers -> WorkStates] /\ \A w \in DocWorkers : work[w].pc = "idle"
  BY DEF DocInit, NoWork, WorkStates
<1>2. GraphOK
  BY DEF DocInit, GraphOK
<1>3. WorkOK
  BY <1>1 DEF WorkOK, Writing, Deleting, Busy
<1>4. WrittenIsThere
  BY <1>1 DEF DocInit, WrittenIsThere, Busy
<1>6. SweepOK
  BY <1>1 DEF SweepOK, Busy
<1>5. SomebodyAtIt
  BY <1>1 DEF DocInit, SomebodyAtIt, WritersOfStored, StoredIsWritten, DeletedIsSwept, NamesAreKnown,
     EntitiesAreNamed, Writing, Busy
<1> QED BY <1>2, <1>3, <1>4, <1>5, <1>6 DEF DocInv

\* What an assignment to one thread's work leaves of the others.
LEMMA WorkSet ==
  ASSUME WorkOK, NEW w \in DocWorkers, NEW s \in WorkStates, work' = [work EXCEPT ![w] = s]
  PROVE  /\ work' \in [DocWorkers -> WorkStates] /\ work'[w] = s
         /\ \A x \in DocWorkers : x # w => work'[x] = work[x]
BY DEF WorkOK

LEMMA WorkTypes ==
  ASSUME WorkOK, NEW w \in DocWorkers
  PROVE  /\ work[w] \in WorkStates /\ NoWork \in WorkStates
         /\ Doc(w) \in Docs \cup {"none"} /\ work[w].todo \subseteq Entities
         /\ work[w].pairs \subseteq SUBSET Entities
BY DEF WorkOK, WorkStates, NoWork, Doc

\* The work a thread goes on with keeps what WorkOK says of it.
LEMMA WorkGoesOn ==
  ASSUME WorkOK, NEW w \in DocWorkers, work' \in [DocWorkers -> WorkStates],
         \A x \in DocWorkers : x # w => work'[x] = work[x],
         stored \cup deleted \subseteq stored' \cup deleted', deleted \subseteq deleted',
         work'[w].pc \in Writing => work'[w].doc \in stored' \cup deleted',
         work'[w].pc \in Deleting => work'[w].doc \in deleted',
         work'[w].pc = "merge" =>
           /\ work'[w].todo \subseteq Mentions[work'[w].doc]
           /\ work'[w].todo = {} \/ work'[w].pairs = PairsOf(work'[w].doc)
  PROVE  WorkOK'
<1>1. ASSUME NEW x \in DocWorkers
      PROVE  /\ work'[x].pc \in Writing => work'[x].doc \in stored' \cup deleted'
             /\ work'[x].pc \in Deleting => work'[x].doc \in deleted'
             /\ work'[x].pc = "merge" =>
                  /\ work'[x].todo \subseteq Mentions[work'[x].doc]
                  /\ work'[x].todo = {} \/ work'[x].pairs = PairsOf(work'[x].doc)
  <2>1. CASE x = w
    BY <2>1
  <2>2. CASE x # w
    BY <2>2 DEF WorkOK, Doc, Busy
  <2> QED BY <2>1, <2>2
<1> QED BY <1>1 DEF WorkOK, PairsOf, Doc, Busy

\* What the graph holds of the stored documents a step leaves there, the others being where they were.
LEMMA WrittenStays ==
  ASSUME DocInv, NEW w \in DocWorkers, \A x \in DocWorkers : x # w => work'[x] = work[x],
         graphed' \cap stored' \subseteq graphed \cap stored,
         \A x \in DocWorkers : x # w /\ work[x].pc = "merge" /\ work[x].doc \in stored' => work[x].doc \in stored,
         \A d \in stored \cap stored' :
           /\ d \in gDocs => d \in gDocs'
           /\ d \in raced => d \in raced'
           /\ \A e \in Entities : <<d, e>> \in contains => <<d, e>> \in contains',
         related \subseteq related',
         work'[w].pc = "merge" /\ work'[w].doc \in stored' =>
           /\ work'[w].doc \in gDocs'
           /\ work'[w].doc \notin raced' =>
                /\ \A e \in Mentions[work'[w].doc] \ work'[w].todo : <<work'[w].doc, e>> \in contains'
                /\ PairsOf(work'[w].doc) \ work'[w].pairs \subseteq related'
  PROVE  WrittenIsThere'
<1>0. \A x : PairsOf(x)' = PairsOf(x)
  BY DEF PairsOf
<1>1. \A d \in Docs : Mentions[d] \subseteq Entities
  BY DocumentsAssumption
<1>2. stored \subseteq Docs
  BY DEF DocInv, GraphOK
<1>3. ASSUME NEW d \in stored \cap stored', NEW todo, NEW pairs, HoldsBut(d, todo, pairs)
      PROVE  HoldsBut(d, todo, pairs)'
  BY <1>0, <1>1, <1>2, <1>3 DEF HoldsBut
<1>4. ASSUME NEW d \in graphed' \cap stored' PROVE HoldsBut(d, {}, {})'
  BY <1>3, <1>4 DEF DocInv, WrittenIsThere
<1>5. ASSUME NEW x \in DocWorkers, work'[x].pc = "merge", work'[x].doc \in stored'
      PROVE  /\ work'[x].doc \in gDocs'
             /\ work'[x].doc \notin raced' =>
                  /\ \A e \in Mentions[work'[x].doc] \ work'[x].todo : <<work'[x].doc, e>> \in contains'
                  /\ PairsOf(work'[x].doc) \ work'[x].pairs \subseteq related'
  <2>1. CASE x = w
    BY <1>5, <2>1
  <2>2. CASE x # w
    <3>1. work'[x] = work[x] /\ work[x].pc = "merge" /\ work[x].doc \in stored \cap stored'
      BY <1>5, <2>2
    <3>2. HoldsBut(work[x].doc, work[x].todo, work[x].pairs)
      BY <3>1 DEF DocInv, WrittenIsThere, Busy, Doc
    <3>3. HoldsBut(work[x].doc, work[x].todo, work[x].pairs)
          => /\ work[x].doc \in gDocs'
             /\ work[x].doc \notin raced' =>
                  /\ \A e \in Mentions[work[x].doc] \ work[x].todo : <<work[x].doc, e>> \in contains'
                  /\ PairsOf(work[x].doc) \ work[x].pairs \subseteq related'
      BY <1>1, <1>2, <3>1 DEF HoldsBut
    <3> QED BY <3>1, <3>2, <3>3
  <2> QED BY <2>1, <2>2
<1> QED BY <1>0, <1>4, <1>5 DEF WrittenIsThere, HoldsBut, Busy, Doc

\* A step that links nothing, or links only what no removal goes on with, or says that it was raced.
LEMMA SweepsStay ==
  ASSUME DocInv, NEW w \in DocWorkers, \A x \in DocWorkers : x # w => work'[x] = work[x],
         raced \subseteq raced', work'[w].pc # "sweep",
         \A c \in contains' : \/ c \in contains \/ c[1] \in raced'
                              \/ \A x \in DocWorkers : Busy(x, "sweep") => c[2] \notin work[x].todo
  PROVE  SweepOK'
BY DEF DocInv, SweepOK, Busy

LEMMA RaisesStep ==
  ASSUME DocInv, NEW w \in DocWorkers, GraphRaises(w), work[w].pc # "idle"
  PROVE  DocInv'
<1>0. UNCHANGED <<stored, deleted, gDocs, gEntities, contains, related, graphed, raced>>
  BY DEF GraphRaises, graph
<1>1. work' = [work EXCEPT ![w] = NoWork] /\ torn' # {}
  BY DEF GraphRaises
<1>2. WorkOK /\ NoWork \in WorkStates
  BY WorkTypes DEF DocInv
<1>3. /\ work' \in [DocWorkers -> WorkStates] /\ work'[w] = NoWork
      /\ \A x \in DocWorkers : x # w => work'[x] = work[x]
  BY <1>1, <1>2, WorkSet
<1>4. work'[w].pc = "idle"
  BY <1>3 DEF NoWork
<1>5. GraphOK'
  BY <1>0 DEF DocInv, GraphOK
<1>6. WorkOK'
  BY <1>0, <1>2, <1>3, <1>4, WorkGoesOn DEF Writing, Deleting
<1>7. WrittenIsThere'
  BY <1>0, <1>3, <1>4, WrittenStays
<1>9. SweepOK'
  BY <1>0, <1>3, <1>4, SweepsStay
<1>8. SomebodyAtIt'
  BY <1>1 DEF SomebodyAtIt
<1> QED BY <1>5, <1>6, <1>7, <1>8, <1>9 DEF DocInv

LEMMA BegunWork ==
  ASSUME NEW d \in Docs, NEW pc \in Writing \cup Deleting
  PROVE  /\ Begun(pc, d) \in WorkStates /\ Begun(pc, d).pc = pc /\ Begun(pc, d).doc = d
<1> DEFINE k == [NoWork EXCEPT !.pc = pc]
<1>1. k = [pc |-> pc, doc |-> "none", todo |-> {}, pairs |-> {}]
  BY DEF NoWork
<1>2. Begun(pc, d) = [k EXCEPT !.doc = d]
  BY DEF Begun, NoWork
<1> HIDE DEF k
<1> QED BY <1>1, <1>2 DEF WorkStates

LEMMA IngestStep == ASSUME DocInv, NEW w \in DocWorkers, Ingest(w) PROVE DocInv'
<1>0. UNCHANGED <<deleted, gDocs, gEntities, contains, related, graphed, raced, torn>>
  BY DEF Ingest, graph
<1>1. PICK d \in Docs \ (stored \cup deleted) :
        stored' = stored \cup {d} /\ work' = [work EXCEPT ![w] = Begun("node", d)]
  BY DEF Ingest
<1> DEFINE s == Begun("node", d)
<1>2. s \in WorkStates /\ s.pc = "node" /\ s.doc = d
  BY BegunWork DEF Writing
<1>3. work' = [work EXCEPT ![w] = s] /\ WorkOK /\ work[w].pc = "idle"
  BY <1>1 DEF DocInv, Ingest, Busy
<1> HIDE DEF s
<1>4. /\ work' \in [DocWorkers -> WorkStates] /\ work'[w] = s
      /\ \A x \in DocWorkers : x # w => work'[x] = work[x]
  BY <1>2, <1>3, WorkSet
<1>5. GraphOK'
  BY <1>0, <1>1 DEF DocInv, GraphOK
<1>6. WorkOK'
  BY <1>0, <1>1, <1>2, <1>3, <1>4, WorkGoesOn DEF Writing, Deleting
<1>7. WrittenIsThere'
  <2>1. d \notin graphed
    BY <1>1 DEF DocInv, GraphOK
  <2>2. \A x \in DocWorkers : work[x].pc = "merge" => work[x].doc # d
    BY <1>1, <1>3 DEF WorkOK, Writing, Doc
  <2>3. work'[w].pc # "merge"
    BY <1>2, <1>4
  <2> QED BY <1>0, <1>1, <1>4, <2>1, <2>2, <2>3, WrittenStays
<1>9. SweepOK'
  BY <1>0, <1>2, <1>4, SweepsStay
<1>8. SomebodyAtIt'
  <2> SUFFICES ASSUME torn = {}
               PROVE  (WritersOfStored /\ StoredIsWritten /\ DeletedIsSwept /\ NamesAreKnown /\ EntitiesAreNamed)'
    BY <1>0 DEF SomebodyAtIt
  <2>1. WritersOfStored /\ StoredIsWritten /\ DeletedIsSwept /\ NamesAreKnown /\ EntitiesAreNamed
    BY DEF DocInv, SomebodyAtIt
  <2>2. work[w].pc \notin Writing \cup Deleting
    BY <1>3 DEF Writing, Deleting
  <2>3. WritersOfStored'
    BY <1>1, <1>2, <1>4, <2>1 DEF WritersOfStored, Doc
  <2>4. StoredIsWritten'
    BY <1>0, <1>1, <1>2, <1>4, <2>1, <2>2 DEF StoredIsWritten, Doc, Writing
  <2>5. DeletedIsSwept'
    BY <1>0, <1>4, <2>1, <2>2 DEF DeletedIsSwept, Doc, Deleting
  <2>6. NamesAreKnown'
    BY <1>0, <1>2, <1>4, <2>1 DEF NamesAreKnown, Doc, Busy
  <2>7. EntitiesAreNamed'
    BY <1>0, <1>4, <2>1, <2>2 DEF EntitiesAreNamed, Deleting
  <2> QED BY <2>3, <2>4, <2>5, <2>6, <2>7
<1> QED BY <1>5, <1>6, <1>7, <1>8, <1>9 DEF DocInv

LEMMA WorkMoved ==
  ASSUME WorkOK, NEW w \in DocWorkers, NEW pc \in {"merge", "detach", "sweep"}, NEW X \in SUBSET Entities,
         work' = [work EXCEPT ![w].pc = pc, ![w].todo = X]
  PROVE  /\ work' \in [DocWorkers -> WorkStates]
         /\ work'[w].pc = pc /\ work'[w].doc = work[w].doc /\ work'[w].todo = X
         /\ work'[w].pairs = work[w].pairs
         /\ \A x \in DocWorkers : x # w => work'[x] = work[x]
<1> DEFINE s == [work[w] EXCEPT !.pc = pc, !.todo = X]
<1>1. s \in WorkStates /\ s.pc = pc /\ s.doc = work[w].doc /\ s.todo = X /\ s.pairs = work[w].pairs
  BY DEF WorkOK, WorkStates, Writing, Deleting
<1>2. work' = [work EXCEPT ![w] = s]
  BY DEF WorkOK, WorkStates
<1> HIDE DEF s
<1> QED BY <1>1, <1>2, WorkSet

LEMMA MergeNodeStep == ASSUME DocInv, NEW w \in DocWorkers, MergeNode(w) PROVE DocInv'
<1>a. CASE GraphRaises(w)
  BY <1>a, RaisesStep DEF MergeNode, Busy
<1>b. CASE ~GraphRaises(w)
  <2> DEFINE d == Doc(w)
  <2>0. /\ UNCHANGED <<stored, deleted, gEntities, contains, related, graphed, raced, torn>>
        /\ work[w].pc = "node" /\ gDocs' = gDocs \cup {d}
        /\ work' = [work EXCEPT ![w] = [pc |-> "merge", doc |-> d, todo |-> Mentions[d], pairs |-> PairsOf(d)]]
    BY <1>b DEF MergeNode, Busy
  <2>1. WorkOK /\ d \in stored \cup deleted /\ d \in Docs /\ d = work[w].doc
    BY <2>0 DEF DocInv, GraphOK, WorkOK, Writing, Doc
  <2>2. Mentions[d] \in SUBSET Entities /\ PairsOf(d) \in SUBSET SUBSET Entities
    BY <2>1, DocumentsAssumption DEF PairsOf
  <2> HIDE DEF d
  <2>3. /\ work' \in [DocWorkers -> WorkStates]
        /\ work'[w].pc = "merge" /\ work'[w].doc = d /\ work'[w].todo = Mentions[d] /\ work'[w].pairs = PairsOf(d)
        /\ \A x \in DocWorkers : x # w => work'[x] = work[x]
    <3> DEFINE k == [pc |-> "merge", doc |-> d, todo |-> Mentions[d], pairs |-> PairsOf(d)]
    <3>1. /\ k \in WorkStates /\ k.pc = "merge" /\ k.doc = d /\ k.todo = Mentions[d] /\ k.pairs = PairsOf(d)
          /\ work' = [work EXCEPT ![w] = k]
      BY <2>0, <2>1, <2>2 DEF WorkStates, Writing
    <3> HIDE DEF k
    <3> QED BY <2>1, <3>1, WorkSet
  <2>4. GraphOK'
    BY <2>0, <2>1 DEF DocInv, GraphOK
  <2>5. WorkOK'
    BY <2>0, <2>1, <2>3, WorkGoesOn DEF Writing, Deleting
  <2>6. WrittenIsThere'
    <3>1. /\ work'[w].doc \in gDocs'
          /\ \A e \in Mentions[work'[w].doc] \ work'[w].todo : <<work'[w].doc, e>> \in contains'
          /\ PairsOf(work'[w].doc) \ work'[w].pairs \subseteq related'
      BY <2>0, <2>3
    <3> QED BY <2>0, <2>3, <3>1, WrittenStays
  <2>8. SweepOK'
    BY <2>0, <2>3, SweepsStay
  <2>7. SomebodyAtIt'
    <3> SUFFICES ASSUME torn = {}
                 PROVE  (WritersOfStored /\ StoredIsWritten /\ DeletedIsSwept /\ NamesAreKnown /\ EntitiesAreNamed)'
      BY <2>0 DEF SomebodyAtIt
    <3>1. WritersOfStored /\ StoredIsWritten /\ DeletedIsSwept /\ NamesAreKnown /\ EntitiesAreNamed
      BY DEF DocInv, SomebodyAtIt
    <3>2. d \in stored /\ d \notin deleted
      BY <2>0, <2>1, <3>1 DEF WritersOfStored, Writing, d, DocInv, GraphOK
    <3>3. WritersOfStored'
      BY <2>0, <2>3, <3>1, <3>2 DEF WritersOfStored, Doc
    <3>4. StoredIsWritten'
      BY <2>0, <2>1, <2>3, <3>1 DEF StoredIsWritten, Doc, Writing
    <3>5. DeletedIsSwept'
      BY <2>0, <2>3, <3>1, <3>2 DEF DeletedIsSwept, Doc
    <3>6. NamesAreKnown'
      BY <2>0, <2>3, <3>1 DEF NamesAreKnown, Doc, Busy
    <3>7. EntitiesAreNamed'
      BY <2>0, <2>3, <3>1 DEF EntitiesAreNamed, Busy
    <3> QED BY <3>3, <3>4, <3>5, <3>6, <3>7
  <2> QED BY <2>4, <2>5, <2>6, <2>7, <2>8 DEF DocInv
<1> QED BY <1>a, <1>b

LEMMA MergeEntityStep == ASSUME DocInv, NEW w \in DocWorkers, MergeEntity(w) PROVE DocInv'
<1>a. CASE GraphRaises(w)
  BY <1>a, RaisesStep DEF MergeEntity, Busy
<1>b. CASE ~GraphRaises(w)
  <2> DEFINE d == Doc(w)
             todo == work[w].todo
  <2>0. PICK e \in todo :
          /\ UNCHANGED <<stored, deleted, gDocs, related, graphed, torn>>
          /\ raced' = IF Condemned(e) THEN raced \cup {d} ELSE raced
          /\ work[w].pc = "merge" /\ gEntities' = gEntities \cup {e}
          /\ contains' = IF d \in gDocs THEN contains \cup {<<d, e>>} ELSE contains
          /\ work' = [work EXCEPT ![w].todo = todo \ {e}]
    BY <1>b DEF MergeEntity, Busy
  <2>1. /\ WorkOK /\ d \in stored \cup deleted /\ d = work[w].doc
        /\ todo \subseteq Mentions[d] /\ todo \subseteq Entities /\ work[w].pairs = PairsOf(d)
    BY <2>0 DEF DocInv, GraphOK, WorkOK, WorkStates, Writing, Doc, Busy
  <2>3. /\ work' \in [DocWorkers -> WorkStates]
        /\ work'[w].pc = "merge" /\ work'[w].doc = d /\ work'[w].todo = todo \ {e}
        /\ work'[w].pairs = work[w].pairs
        /\ \A x \in DocWorkers : x # w => work'[x] = work[x]
    <3>1. work' = [work EXCEPT ![w].pc = "merge", ![w].todo = todo \ {e}]
      BY <2>0, <2>1 DEF WorkOK, WorkStates
    <3>2. todo \ {e} \in SUBSET Entities
      BY <2>1
    <3> DEFINE X == todo \ {e}
    <3>3. X \in SUBSET Entities /\ work' = [work EXCEPT ![w].pc = "merge", ![w].todo = X]
      BY <3>1, <3>2
    <3> HIDE DEF todo, X
    <3>4. /\ work' \in [DocWorkers -> WorkStates]
          /\ work'[w].pc = "merge" /\ work'[w].doc = work[w].doc /\ work'[w].todo = X
          /\ work'[w].pairs = work[w].pairs
          /\ \A x \in DocWorkers : x # w => work'[x] = work[x]
      BY <2>1, <3>3, WorkMoved
    <3> QED BY <2>1, <3>4 DEF X
  <2> HIDE DEF d, todo
  <2>4. GraphOK'
    BY <2>0, <2>1 DEF DocInv, GraphOK
  <2>5. WorkOK'
    BY <2>0, <2>1, <2>3, WorkGoesOn DEF Writing, Deleting
  <2>6. d \in stored => HoldsBut(d, todo, work[w].pairs)
    BY <2>0 DEF DocInv, WrittenIsThere, Busy, d, todo
  <2>r. raced \subseteq raced' /\ contains \subseteq contains'
    BY <2>0
  <2>7. WrittenIsThere'
    <3>1. d \in stored =>
            /\ d \in gDocs'
            /\ d \notin raced' => /\ \A m \in Mentions[d] \ (todo \ {e}) : <<d, m>> \in contains'
                                 /\ PairsOf(d) \ work[w].pairs \subseteq related'
      BY <2>0, <2>6, <2>r DEF HoldsBut
    <3> QED BY <2>0, <2>3, <2>r, <3>1, WrittenStays
  <2>9. SweepOK'
    <3>1. \A c \in contains' : \/ c \in contains \/ c[1] \in raced'
                               \/ \A x \in DocWorkers : Busy(x, "sweep") => c[2] \notin work[x].todo
      <4>1. CASE Condemned(e)
        BY <2>0, <4>1
      <4>2. CASE ~Condemned(e)
        BY <2>0, <4>2 DEF Condemned
      <4> QED BY <4>1, <4>2
    <3> QED BY <2>3, <2>r, <3>1, SweepsStay
  <2>8. SomebodyAtIt'
    <3> SUFFICES ASSUME torn = {}
                 PROVE  (WritersOfStored /\ StoredIsWritten /\ DeletedIsSwept /\ NamesAreKnown /\ EntitiesAreNamed)'
      BY <2>0 DEF SomebodyAtIt
    <3>1. WritersOfStored /\ StoredIsWritten /\ DeletedIsSwept /\ NamesAreKnown /\ EntitiesAreNamed
      BY DEF DocInv, SomebodyAtIt
    <3>2. d \in stored /\ d \notin deleted /\ d \in gDocs
      BY <2>0, <2>1, <2>6, <3>1 DEF WritersOfStored, Writing, HoldsBut, d, DocInv, GraphOK
    <3>3. WritersOfStored'
      BY <2>0, <2>3, <3>1, <3>2 DEF WritersOfStored, Doc
    <3>4. StoredIsWritten'
      BY <2>0, <2>1, <2>3, <3>1 DEF StoredIsWritten, Doc, Writing
    <3>5. DeletedIsSwept'
      BY <2>0, <2>3, <3>1, <3>2 DEF DeletedIsSwept, Doc
    <3>6. NamesAreKnown'
      <4>1. \A x \in DocWorkers : work[x].pc = "detach" => Doc(x) # d
        BY <3>2 DEF DocInv, WorkOK, Deleting
      <4> QED BY <2>0, <2>3, <3>1, <4>1 DEF NamesAreKnown, Doc, Busy
    <3>7. EntitiesAreNamed'
      <4>1. <<d, e>> \in contains' /\ <<d, e>>[2] = e /\ contains \subseteq contains'
        BY <2>0, <3>2
      <4> QED BY <2>0, <2>3, <3>1, <4>1 DEF EntitiesAreNamed, Busy
    <3> QED BY <3>3, <3>4, <3>5, <3>6, <3>7
  <2> QED BY <2>4, <2>5, <2>7, <2>8, <2>9 DEF DocInv
<1> QED BY <1>a, <1>b

LEMMA MergePairStep == ASSUME DocInv, NEW w \in DocWorkers, MergePair(w) PROVE DocInv'
<1>a. CASE GraphRaises(w)
  BY <1>a, RaisesStep DEF MergePair, Busy
<1>b. CASE ~GraphRaises(w)
  <2> DEFINE d == Doc(w)
             pairs == work[w].pairs
  <2>0. PICK p \in pairs :
          /\ UNCHANGED <<stored, deleted, gDocs, gEntities, contains, graphed, raced, torn>>
          /\ work[w].pc = "merge" /\ work[w].todo = {}
          /\ related' = IF p \subseteq gEntities THEN related \cup {p} ELSE related
          /\ work' = [work EXCEPT ![w].pairs = pairs \ {p}]
    BY <1>b DEF MergePair, Busy
  <2> DEFINE s == [work[w] EXCEPT !.pairs = pairs \ {p}]
  <2>1. /\ WorkOK /\ d \in stored \cup deleted /\ d = work[w].doc /\ work[w] \in WorkStates
        /\ (d \in stored => HoldsBut(d, {}, pairs))
    BY <2>0, WorkTypes DEF DocInv, WorkOK, WrittenIsThere, Writing, Doc, Busy
  <2>2. /\ s \in WorkStates /\ s.pc = "merge" /\ s.doc = d /\ s.todo = {} /\ s.pairs = pairs \ {p}
        /\ work' = [work EXCEPT ![w] = s]
    BY <2>0, <2>1 DEF WorkStates, WorkOK
  <2> HIDE DEF d, pairs, s
  <2>3. /\ work' \in [DocWorkers -> WorkStates] /\ work'[w] = s
        /\ \A x \in DocWorkers : x # w => work'[x] = work[x]
    BY <2>1, <2>2, WorkSet
  <2>4. GraphOK'
    BY <2>0 DEF DocInv, GraphOK
  <2>5. WorkOK'
    BY <2>0, <2>1, <2>2, <2>3, WorkGoesOn DEF Writing, Deleting
  <2>6. WrittenIsThere'
    <3>1. ASSUME d \in stored, d \notin raced, p \in PairsOf(d) PROVE p \subseteq gEntities
      <4>1. \A e \in Mentions[d] : <<d, e>> \in contains
        BY <2>1, <3>1 DEF HoldsBut
      <4>2. contains \subseteq gDocs \X gEntities
        BY DEF DocInv, GraphOK
      <4>3. \A e \in Mentions[d] : e \in gEntities
        BY <4>1, <4>2
      <4> QED BY <3>1, <4>3 DEF PairsOf
    <3>2. d \in stored =>
            /\ d \in gDocs'
            /\ d \notin raced' => /\ \A e \in Mentions[d] \ {} : <<d, e>> \in contains'
                                 /\ PairsOf(d) \ (pairs \ {p}) \subseteq related'
      BY <2>0, <2>1, <3>1 DEF HoldsBut
    <3>3. related \subseteq related'
      BY <2>0
    <3> QED BY <2>0, <2>2, <2>3, <3>2, <3>3, WrittenStays
  <2>7. SweepOK'
    BY <2>0, <2>2, <2>3, SweepsStay
  <2>8. SomebodyAtIt'
    <3> SUFFICES ASSUME torn = {}
                 PROVE  (WritersOfStored /\ StoredIsWritten /\ DeletedIsSwept /\ NamesAreKnown /\ EntitiesAreNamed)'
      BY <2>0 DEF SomebodyAtIt
    <3>1. WritersOfStored /\ StoredIsWritten /\ DeletedIsSwept /\ NamesAreKnown /\ EntitiesAreNamed
      BY DEF DocInv, SomebodyAtIt
    <3>3. WritersOfStored' /\ StoredIsWritten'
      BY <2>0, <2>1, <2>2, <2>3, <3>1 DEF WritersOfStored, StoredIsWritten, Doc, Writing
    <3>5. DeletedIsSwept' /\ NamesAreKnown'
      BY <2>0, <2>2, <2>3, <3>1 DEF DeletedIsSwept, NamesAreKnown, Doc, Busy
    <3>7. EntitiesAreNamed'
      BY <2>0, <2>3, <3>1 DEF EntitiesAreNamed
    <3> QED BY <3>3, <3>5, <3>7
  <2> QED BY <2>4, <2>5, <2>6, <2>7, <2>8 DEF DocInv
<1> QED BY <1>a, <1>b

LEMMA GraphDoneStep == ASSUME DocInv, NEW w \in DocWorkers, GraphDone(w) PROVE DocInv'
<1> DEFINE d == Doc(w)
<1>0. /\ UNCHANGED <<stored, deleted, gDocs, gEntities, contains, related, raced, torn>>
      /\ work[w].pc = "merge" /\ work[w].todo = {} /\ work[w].pairs = {}
      /\ graphed' = graphed \cup {d} /\ work' = [work EXCEPT ![w] = NoWork]
  BY DEF GraphDone, graph, Busy
<1>1. /\ WorkOK /\ NoWork \in WorkStates /\ NoWork.pc = "idle" /\ d \in stored \cup deleted
      /\ (d \in stored => HoldsBut(d, {}, {}))
  BY <1>0, WorkTypes DEF DocInv, WorkOK, WrittenIsThere, Writing, NoWork, Busy
<1> HIDE DEF d
<1>2. /\ work' \in [DocWorkers -> WorkStates] /\ work'[w] = NoWork
      /\ \A x \in DocWorkers : x # w => work'[x] = work[x]
  BY <1>0, <1>1, WorkSet
<1>3. GraphOK'
  BY <1>0, <1>1 DEF DocInv, GraphOK
<1>4. WorkOK'
  BY <1>0, <1>1, <1>2, WorkGoesOn DEF Writing, Deleting
<1>5. WrittenIsThere'
  <2>1. \A x, X, P : HoldsBut(x, X, P)' <=> HoldsBut(x, X, P)
    BY <1>0 DEF HoldsBut, PairsOf
  <2>2. \A x \in graphed' \cap stored' : HoldsBut(x, {}, {})'
    BY <1>0, <1>1, <2>1 DEF DocInv, WrittenIsThere
  <2>3. \A x \in DocWorkers : work'[x].pc = "merge" => x # w /\ work'[x] = work[x]
    BY <1>1, <1>2
  <2> QED BY <1>0, <2>2, <2>3 DEF DocInv, WrittenIsThere, HoldsBut, PairsOf, Busy, Doc
<1>6. SweepOK'
  BY <1>0, <1>1, <1>2, SweepsStay
<1>7. SomebodyAtIt'
  <2> SUFFICES ASSUME torn = {}
               PROVE  (WritersOfStored /\ StoredIsWritten /\ DeletedIsSwept /\ NamesAreKnown /\ EntitiesAreNamed)'
    BY <1>0 DEF SomebodyAtIt
  <2>1. WritersOfStored /\ StoredIsWritten /\ DeletedIsSwept /\ NamesAreKnown /\ EntitiesAreNamed
    BY DEF DocInv, SomebodyAtIt
  <2>2. WritersOfStored'
    BY <1>0, <1>1, <1>2, <2>1 DEF WritersOfStored, Doc, Writing
  <2>3. StoredIsWritten'
    BY <1>0, <1>2, <2>1 DEF StoredIsWritten, Doc, d
  <2>4. DeletedIsSwept' /\ NamesAreKnown'
    BY <1>0, <1>1, <1>2, <2>1 DEF DeletedIsSwept, NamesAreKnown, Doc, Busy
  <2>5. EntitiesAreNamed'
    BY <1>0, <1>2, <2>1 DEF EntitiesAreNamed
  <2> QED BY <2>2, <2>3, <2>4, <2>5
<1> QED BY <1>3, <1>4, <1>5, <1>6, <1>7 DEF DocInv

LEMMA DeleteRowStep == ASSUME DocInv, NEW w \in DocWorkers, DeleteRow(w) PROVE DocInv'
<1>0. work[w].pc = "idle" /\ UNCHANGED <<gDocs, gEntities, contains, related, graphed, raced>>
  BY DEF DeleteRow, graph, Busy
<1>1. PICK d \in stored :
        /\ stored' = stored \ {d} /\ deleted' = deleted \cup {d}
        /\ torn' = IF IsWriting(d) THEN torn \cup {d} ELSE torn
        /\ work' = [work EXCEPT ![w] = Begun("names", d)]
  BY DEF DeleteRow
<1> DEFINE s == Begun("names", d)
<1>2. s \in WorkStates /\ s.pc = "names" /\ s.doc = d
  BY BegunWork DEF Deleting, DocInv, GraphOK
<1>3. work' = [work EXCEPT ![w] = s] /\ WorkOK
  BY <1>1 DEF DocInv
<1> HIDE DEF s
<1>4. /\ work' \in [DocWorkers -> WorkStates] /\ work'[w] = s
      /\ \A x \in DocWorkers : x # w => work'[x] = work[x]
  BY <1>2, <1>3, WorkSet
<1>5. GraphOK'
  BY <1>0, <1>1 DEF DocInv, GraphOK
<1>6. WorkOK'
  BY <1>0, <1>1, <1>2, <1>3, <1>4, WorkGoesOn DEF Writing, Deleting
<1>7. WrittenIsThere'
  BY <1>0, <1>1, <1>2, <1>4, WrittenStays
<1>9. SweepOK'
  BY <1>0, <1>2, <1>4, SweepsStay
<1>8. SomebodyAtIt'
  <2> SUFFICES ASSUME torn' = {}
               PROVE  (WritersOfStored /\ StoredIsWritten /\ DeletedIsSwept /\ NamesAreKnown /\ EntitiesAreNamed)'
    BY DEF SomebodyAtIt
  <2>0. torn = {} /\ ~IsWriting(d)
    BY <1>1
  <2>1. WritersOfStored /\ StoredIsWritten /\ DeletedIsSwept /\ NamesAreKnown /\ EntitiesAreNamed
    BY <2>0 DEF DocInv, SomebodyAtIt
  <2>2. work[w].pc \notin Writing \cup Deleting
    BY <1>0 DEF Writing, Deleting
  <2>3. WritersOfStored'
    <3>1. \A x \in DocWorkers : work[x].pc \in Writing => Doc(x) # d
      BY <2>0 DEF IsWriting, Writing
    <3> QED BY <1>1, <1>2, <1>4, <2>1, <3>1 DEF WritersOfStored, Doc, Writing
  <2>4. StoredIsWritten'
    BY <1>0, <1>1, <1>4, <2>1, <2>2 DEF StoredIsWritten, Doc
  <2>5. DeletedIsSwept'
    BY <1>0, <1>1, <1>2, <1>4, <2>1, <2>2 DEF DeletedIsSwept, Doc, Deleting
  <2>6. NamesAreKnown'
    BY <1>0, <1>2, <1>4, <2>1 DEF NamesAreKnown, Doc, Busy
  <2>7. EntitiesAreNamed'
    BY <1>0, <1>4, <2>1, <2>2 DEF EntitiesAreNamed, Deleting
  <2> QED BY <2>3, <2>4, <2>5, <2>6, <2>7
<1> QED BY <1>5, <1>6, <1>7, <1>8, <1>9 DEF DocInv

LEMMA ReadNamesStep == ASSUME DocInv, NEW w \in DocWorkers, ReadNames(w) PROVE DocInv'
<1>a. CASE GraphRaises(w)
  BY <1>a, RaisesStep DEF ReadNames, Busy
<1>b. CASE ~GraphRaises(w)
  <2> DEFINE d == Doc(w)
             names == {e \in Entities : <<d, e>> \in contains}
  <2>0. /\ UNCHANGED <<stored, deleted, gDocs, gEntities, contains, related, graphed, raced, torn>>
        /\ work[w].pc = "names" /\ work' = [work EXCEPT ![w].pc = "detach", ![w].todo = names]
    BY <1>b DEF ReadNames, graph, Busy
  <2>1. WorkOK /\ d \in deleted /\ d = work[w].doc /\ names \in SUBSET Entities
    BY <2>0 DEF DocInv, WorkOK, Deleting, Doc
  <2>2. \A e \in Entities : <<d, e>> \in contains => e \in names
    OBVIOUS
  <2> HIDE DEF d, names
  <2>3. /\ work' \in [DocWorkers -> WorkStates]
        /\ work'[w].pc = "detach" /\ work'[w].doc = d /\ work'[w].todo = names
        /\ \A x \in DocWorkers : x # w => work'[x] = work[x]
    BY <2>0, <2>1, WorkMoved
  <2>4. GraphOK'
    BY <2>0 DEF DocInv, GraphOK
  <2>5. WorkOK'
    BY <2>0, <2>1, <2>3, WorkGoesOn DEF Writing, Deleting
  <2>6. WrittenIsThere'
    BY <2>0, <2>3, WrittenStays
  <2>8. SweepOK'
    BY <2>0, <2>3, SweepsStay
  <2>7. SomebodyAtIt'
    <3> SUFFICES ASSUME torn = {}
                 PROVE  (WritersOfStored /\ StoredIsWritten /\ DeletedIsSwept /\ NamesAreKnown /\ EntitiesAreNamed)'
      BY <2>0 DEF SomebodyAtIt
    <3>1. WritersOfStored /\ StoredIsWritten /\ DeletedIsSwept /\ NamesAreKnown /\ EntitiesAreNamed
      BY DEF DocInv, SomebodyAtIt
    <3>3. WritersOfStored'
      BY <2>0, <2>3, <3>1 DEF WritersOfStored, Doc, Writing
    <3>4. StoredIsWritten'
      BY <2>0, <2>3, <3>1 DEF StoredIsWritten, Doc, Writing
    <3>5. DeletedIsSwept'
      BY <2>0, <2>1, <2>3, <3>1 DEF DeletedIsSwept, Doc
    <3>6. NamesAreKnown'
      BY <2>0, <2>2, <2>3, <3>1 DEF NamesAreKnown, Doc, Busy
    <3>7. EntitiesAreNamed'
      BY <2>0, <2>3, <3>1 DEF EntitiesAreNamed
    <3> QED BY <3>3, <3>4, <3>5, <3>6, <3>7
  <2> QED BY <2>4, <2>5, <2>6, <2>7, <2>8 DEF DocInv
<1> QED BY <1>a, <1>b

LEMMA DetachStep == ASSUME DocInv, NEW w \in DocWorkers, DetachDocument(w) PROVE DocInv'
<1>a. CASE GraphRaises(w)
  BY <1>a, RaisesStep DEF DetachDocument, Busy
<1>b. CASE ~GraphRaises(w)
  <2> DEFINE d == Doc(w)
             names == work[w].todo
             s == IF names = {} THEN NoWork ELSE [work[w] EXCEPT !.pc = "orphans"]
  <2>0. /\ UNCHANGED <<stored, deleted, gEntities, related, graphed, raced, torn>>
        /\ work[w].pc = "detach" /\ gDocs' = gDocs \ {d}
        /\ contains' = {c \in contains : c[1] # d}
        /\ work' = [work EXCEPT ![w] = s]
    BY <1>b DEF DetachDocument, Busy
  <2>1. WorkOK /\ d \in deleted /\ names \subseteq Entities /\ work[w] \in WorkStates /\ NoWork \in WorkStates
    BY <2>0, WorkTypes DEF DocInv, WorkOK, Deleting
  <2>2. /\ s \in WorkStates /\ s.pc \in {"idle", "orphans"}
        /\ s.pc = "orphans" => s.doc = d /\ s.todo = names
        /\ names # {} => s.pc = "orphans"
    BY <2>1 DEF WorkStates, NoWork, Deleting, Doc
  <2>c. contains \subseteq gDocs \X gEntities /\ stored \cap deleted = {}
    BY DEF DocInv, GraphOK
  <2>k. d \notin stored
    BY <2>1, <2>c
  <2>n. work[w].pc = "detach" /\ (NamesAreKnown => \A e \in Entities : <<d, e>> \in contains => e \in names)
    BY <2>0 DEF NamesAreKnown, Busy
  <2>l. \A x, e : x # d /\ <<x, e>> \in contains => <<x, e>> \in contains'
    BY <2>0
  <2> HIDE DEF d, names, s
  <2>3. /\ work' \in [DocWorkers -> WorkStates] /\ work'[w] = s
        /\ \A x \in DocWorkers : x # w => work'[x] = work[x]
    BY <2>0, <2>1, <2>2, WorkSet
  <2>4. GraphOK'
    <3>1. contains' \subseteq (gDocs \ {d}) \X gEntities
      BY <2>0, <2>c
    <3> QED BY <2>0, <3>1 DEF DocInv, GraphOK
  <2>5. WorkOK'
    BY <2>0, <2>1, <2>2, <2>3, WorkGoesOn DEF Writing, Deleting
  <2>6. WrittenIsThere'
    BY <2>0, <2>2, <2>3, <2>k, <2>l, WrittenStays
  <2>8. SweepOK'
    BY <2>0, <2>2, <2>3, SweepsStay
  <2>7. SomebodyAtIt'
    <3> SUFFICES ASSUME torn = {}
                 PROVE  (WritersOfStored /\ StoredIsWritten /\ DeletedIsSwept /\ NamesAreKnown /\ EntitiesAreNamed)'
      BY <2>0 DEF SomebodyAtIt
    <3>1. WritersOfStored /\ StoredIsWritten /\ DeletedIsSwept /\ NamesAreKnown /\ EntitiesAreNamed
      BY DEF DocInv, SomebodyAtIt
    <3>3. WritersOfStored'
      BY <2>0, <2>2, <2>3, <3>1 DEF WritersOfStored, Doc, Writing
    <3>4. StoredIsWritten'
      BY <2>0, <2>3, <3>1 DEF StoredIsWritten, Doc, Writing
    <3>5. DeletedIsSwept'
      BY <2>0, <2>3, <3>1 DEF DeletedIsSwept, Doc, d
    <3>6. NamesAreKnown'
      BY <2>0, <2>2, <2>3, <3>1 DEF NamesAreKnown, Doc, Busy
    <3>7. EntitiesAreNamed'
      <4>1. ASSUME NEW e \in gEntities, NEW c \in contains, c[2] = e
            PROVE  (\E b \in contains' : b[2] = e) \/ e \in names
        <5>1. CASE c[1] # d
          BY <2>0, <4>1, <5>1
        <5>2. CASE c[1] = d
          <6>1. c = <<d, e>> /\ e \in Entities
            BY <2>c, <4>1, <5>2 DEF DocInv, GraphOK
          <6> QED BY <2>n, <3>1, <6>1
        <5> QED BY <5>1, <5>2
      <4>2. ASSUME NEW e \in names PROVE work'[w].pc = "orphans" /\ e \in work'[w].todo
        BY <2>2, <2>3
      <4>3. \A x \in DocWorkers : work[x].pc \in {"orphans", "sweep"} => work'[x] = work[x]
        BY <2>n, <2>3
      <4> QED BY <2>0, <3>1, <4>1, <4>2, <4>3 DEF EntitiesAreNamed
    <3> QED BY <3>3, <3>4, <3>5, <3>6, <3>7
  <2> QED BY <2>4, <2>5, <2>6, <2>7, <2>8 DEF DocInv
<1> QED BY <1>a, <1>b

\* The entities a removal sets out with have no links.
LEMMA CheckOrphansStep == ASSUME DocInv, NEW w \in DocWorkers, CheckOrphans(w) PROVE DocInv'
<1>a. CASE GraphRaises(w)
  BY <1>a, RaisesStep DEF CheckOrphans, Busy
<1>b. CASE ~GraphRaises(w)
  <2> DEFINE found == Orphans(work[w].todo)
  <2>0. /\ UNCHANGED <<stored, deleted, gDocs, gEntities, contains, related, graphed, raced, torn>>
        /\ work[w].pc = "orphans" /\ work' = [work EXCEPT ![w].pc = "sweep", ![w].todo = found]
    BY <1>b DEF CheckOrphans, graph, Busy
  <2>1. WorkOK /\ work[w].doc \in deleted /\ found \in SUBSET Entities
    BY <2>0 DEF DocInv, WorkOK, GraphOK, Deleting, Doc, Orphans
  <2>2. /\ \A c \in contains : c[2] \notin found
        /\ \A e \in work[w].todo \cap gEntities : e \in found \/ \E c \in contains : c[2] = e
    BY DEF Orphans
  <2> HIDE DEF found
  <2>3. /\ work' \in [DocWorkers -> WorkStates]
        /\ work'[w].pc = "sweep" /\ work'[w].doc = work[w].doc /\ work'[w].todo = found
        /\ \A x \in DocWorkers : x # w => work'[x] = work[x]
    BY <2>0, <2>1, WorkMoved
  <2>4. GraphOK'
    BY <2>0 DEF DocInv, GraphOK
  <2>5. WorkOK'
    BY <2>0, <2>1, <2>3, WorkGoesOn DEF Writing, Deleting
  <2>6. WrittenIsThere'
    BY <2>0, <2>3, WrittenStays
  <2>7. SweepOK'
    BY <2>0, <2>2, <2>3 DEF DocInv, SweepOK, Busy
  <2>8. SomebodyAtIt'
    <3> SUFFICES ASSUME torn = {}
                 PROVE  (WritersOfStored /\ StoredIsWritten /\ DeletedIsSwept /\ NamesAreKnown /\ EntitiesAreNamed)'
      BY <2>0 DEF SomebodyAtIt
    <3>1. WritersOfStored /\ StoredIsWritten /\ DeletedIsSwept /\ NamesAreKnown /\ EntitiesAreNamed
      BY DEF DocInv, SomebodyAtIt
    <3>3. WritersOfStored' /\ StoredIsWritten'
      BY <2>0, <2>3, <3>1 DEF WritersOfStored, StoredIsWritten, Doc, Writing
    <3>5. DeletedIsSwept' /\ NamesAreKnown'
      BY <2>0, <2>3, <3>1 DEF DeletedIsSwept, NamesAreKnown, Doc, Busy
    <3>7. EntitiesAreNamed'
      BY <2>0, <2>2, <2>3, <3>1 DEF EntitiesAreNamed
    <3> QED BY <3>3, <3>5, <3>7
  <2> QED BY <2>4, <2>5, <2>6, <2>7, <2>8 DEF DocInv
<1> QED BY <1>a, <1>b

\* What the removal of some entities makes of the threads' work.
LEMMA SparedWork ==
  ASSUME WorkOK, NEW w \in DocWorkers, NEW gone, work' = [Spared(gone) EXCEPT ![w] = NoWork]
  PROVE  /\ work' \in [DocWorkers -> WorkStates] /\ work'[w] = NoWork /\ NoWork.pc = "idle"
         /\ \A x \in DocWorkers : x # w =>
              /\ work'[x].pc = work[x].pc /\ work'[x].doc = work[x].doc
              /\ work[x].pc # "sweep" => work'[x] = work[x]
              /\ work[x].pc = "sweep" => work'[x].todo = work[x].todo \ gone
<1>1. ASSUME NEW x \in DocWorkers
      PROVE  /\ Spared(gone)[x] \in WorkStates /\ Spared(gone)[x].pc = work[x].pc
             /\ Spared(gone)[x].doc = work[x].doc
             /\ work[x].pc # "sweep" => Spared(gone)[x] = work[x]
             /\ work[x].pc = "sweep" => Spared(gone)[x].todo = work[x].todo \ gone
  <2> DEFINE k == [work[x] EXCEPT !.todo = @ \ gone]
  <2>1. work[x] \in WorkStates
    BY DEF WorkOK
  <2>2. k \in WorkStates /\ k.pc = work[x].pc /\ k.doc = work[x].doc /\ k.todo = work[x].todo \ gone
    BY <2>1 DEF WorkStates
  <2>3. Spared(gone)[x] = IF work[x].pc = "sweep" THEN k ELSE work[x]
    BY DEF Spared, Busy
  <2> HIDE DEF k
  <2> QED BY <2>1, <2>2, <2>3
<1>2. Spared(gone) \in [DocWorkers -> WorkStates]
  <2>1. Spared(gone) = [x \in DocWorkers |-> Spared(gone)[x]]
    BY DEF Spared
  <2> QED BY <1>1, <2>1
<1>3. NoWork \in WorkStates /\ NoWork.pc = "idle"
  BY WorkTypes DEF NoWork
<1> HIDE DEF Spared
<1> QED BY <1>1, <1>2, <1>3

\* The removal takes with it no link of a document that was not raced, and so none of its pairs.
LEMMA RemoveOrphansStep == ASSUME DocInv, NEW w \in DocWorkers, RemoveOrphans(w) PROVE DocInv'
<1>a. CASE GraphRaises(w)
  BY <1>a, RaisesStep DEF RemoveOrphans, Busy
<1>b. CASE ~GraphRaises(w)
  <2> DEFINE gone == work[w].todo
  <2>0. /\ UNCHANGED <<stored, deleted, gDocs, graphed, raced, torn>>
        /\ work[w].pc = "sweep" /\ work' = [Spared(gone) EXCEPT ![w] = NoWork]
        /\ gEntities' = gEntities \ gone
        /\ contains' = {c \in contains : c[2] \notin gone}
        /\ related' = {p \in related : p \cap gone = {}}
    BY <1>b DEF RemoveOrphans, Busy
  <2>1. WorkOK /\ \A c \in contains : c[2] \in gone => c[1] \in raced
    BY <2>0 DEF DocInv, SweepOK, Busy
  <2>2. /\ work' \in [DocWorkers -> WorkStates] /\ work'[w] = NoWork /\ NoWork.pc = "idle"
        /\ \A x \in DocWorkers : x # w =>
             /\ work'[x].pc = work[x].pc /\ work'[x].doc = work[x].doc
             /\ work[x].pc # "sweep" => work'[x] = work[x]
             /\ work[x].pc = "sweep" => work'[x].todo = work[x].todo \ gone
    BY <2>0, <2>1, SparedWork
  <2> HIDE DEF gone
  <2>4. GraphOK'
    <3>1. contains' \subseteq gDocs \X (gEntities \ gone)
      BY <2>0 DEF DocInv, GraphOK
    <3>2. related' \subseteq SUBSET (gEntities \ gone)
      BY <2>0 DEF DocInv, GraphOK
    <3> QED BY <2>0, <3>1, <3>2 DEF DocInv, GraphOK
  <2>5. WorkOK'
    <3>1. \A x \in DocWorkers : work'[x].pc = "merge" => x # w /\ work'[x] = work[x]
      BY <2>2
    <3> QED BY <2>0, <2>1, <2>2, <3>1 DEF WorkOK, PairsOf, Writing, Deleting, Doc, Busy
  <2>6. WrittenIsThere'
    <3>1. ASSUME NEW d \in stored, NEW todo, NEW pairs, HoldsBut(d, todo, pairs),
                 todo = {} \/ pairs = PairsOf(d)
          PROVE  HoldsBut(d, todo, pairs)'
      <4>1. d \notin raced => \A e \in Mentions[d] \ todo : e \notin gone /\ <<d, e>> \in contains
        BY <2>1, <3>1 DEF HoldsBut
      <4>2. \A p \in PairsOf(d) : p \subseteq Mentions[d]
        BY DEF PairsOf
      <4>3. d \notin raced /\ todo = {} => PairsOf(d) \ pairs \subseteq related'
        BY <2>0, <3>1, <4>1, <4>2 DEF HoldsBut
      <4>4. PairsOf(d)' = PairsOf(d)
        BY DEF PairsOf
      <4> QED BY <2>0, <3>1, <4>1, <4>3, <4>4 DEF HoldsBut
    <3>2. \A d \in graphed' \cap stored' : HoldsBut(d, {}, {})'
      BY <2>0, <3>1 DEF DocInv, WrittenIsThere
    <3>3. ASSUME NEW x \in DocWorkers, work'[x].pc = "merge", work'[x].doc \in stored'
          PROVE  work'[x] = work[x] /\ HoldsBut(work[x].doc, work[x].todo, work[x].pairs)'
      <4>1. work'[x] = work[x] /\ work[x].pc = "merge" /\ work[x].doc \in stored
        BY <2>0, <2>2, <3>3
      <4>2. HoldsBut(work[x].doc, work[x].todo, work[x].pairs)
        BY <4>1 DEF DocInv, WrittenIsThere, Busy, Doc
      <4>3. work[x].todo = {} \/ work[x].pairs = PairsOf(work[x].doc)
        BY <4>1 DEF DocInv, WorkOK, Busy, Doc
      <4> QED BY <3>1, <4>1, <4>2, <4>3
    <3> QED BY <3>2, <3>3 DEF WrittenIsThere, HoldsBut, Busy, Doc
  <2>7. SweepOK'
    BY <2>0, <2>2 DEF DocInv, SweepOK, Busy
  <2>8. SomebodyAtIt'
    <3> SUFFICES ASSUME torn = {}
                 PROVE  (WritersOfStored /\ StoredIsWritten /\ DeletedIsSwept /\ NamesAreKnown /\ EntitiesAreNamed)'
      BY <2>0 DEF SomebodyAtIt
    <3>1. WritersOfStored /\ StoredIsWritten /\ DeletedIsSwept /\ NamesAreKnown /\ EntitiesAreNamed
      BY DEF DocInv, SomebodyAtIt
    <3>3. WritersOfStored' /\ StoredIsWritten'
      BY <2>0, <2>2, <3>1 DEF WritersOfStored, StoredIsWritten, Doc, Writing
    <3>5. DeletedIsSwept' /\ NamesAreKnown'
      BY <2>0, <2>2, <3>1 DEF DeletedIsSwept, NamesAreKnown, Doc, Busy
    <3>7. EntitiesAreNamed'
      <4> SUFFICES ASSUME NEW e \in gEntities, e \notin gone
                   PROVE  \/ \E c \in contains' : c[2] = e
                          \/ \E x \in DocWorkers : work'[x].pc \in {"orphans", "sweep"} /\ e \in work'[x].todo
        BY <2>0 DEF EntitiesAreNamed
      <4>1. CASE \E c \in contains : c[2] = e
        BY <2>0, <4>1
      <4>2. CASE \E x \in DocWorkers : work[x].pc \in {"orphans", "sweep"} /\ e \in work[x].todo
        <5>1. PICK x \in DocWorkers : work[x].pc \in {"orphans", "sweep"} /\ e \in work[x].todo
          BY <4>2
        <5>2. x # w
          BY <5>1 DEF gone
        <5> QED BY <2>2, <5>1, <5>2
      <4> QED BY <3>1, <4>1, <4>2 DEF EntitiesAreNamed
    <3> QED BY <3>3, <3>5, <3>7
  <2> QED BY <2>4, <2>5, <2>6, <2>7, <2>8 DEF DocInv
<1> QED BY <1>a, <1>b

LEMMA DocSteps == DocInv /\ [DocNext]_docVars => DocInv'
<1> SUFFICES ASSUME DocInv, [DocNext]_docVars PROVE DocInv'
  OBVIOUS
<1>1. ASSUME NEW w \in DocWorkers,
             \/ Ingest(w) \/ MergeNode(w) \/ MergeEntity(w) \/ MergePair(w) \/ GraphDone(w)
             \/ DeleteRow(w) \/ ReadNames(w) \/ DetachDocument(w) \/ CheckOrphans(w) \/ RemoveOrphans(w)
      PROVE  DocInv'
  BY <1>1, IngestStep, MergeNodeStep, MergeEntityStep, MergePairStep, GraphDoneStep, DeleteRowStep,
     ReadNamesStep, DetachStep, CheckOrphansStep, RemoveOrphansStep
<1>2. CASE UNCHANGED docVars
  <2>1. GraphOK' /\ WorkOK'
    BY <1>2 DEF docVars, DocInv, GraphOK, WorkOK, PairsOf, Busy, Doc
  <2>2. WrittenIsThere' /\ SweepOK'
    BY <1>2 DEF docVars, DocInv, WrittenIsThere, HoldsBut, SweepOK, PairsOf, Busy, Doc
  <2>3. SomebodyAtIt'
    BY <1>2 DEF docVars, DocInv, SomebodyAtIt, WritersOfStored, StoredIsWritten, DeletedIsSwept,
       NamesAreKnown, EntitiesAreNamed, Busy, Doc
  <2> QED BY <2>1, <2>2, <2>3 DEF DocInv
<1> QED BY <1>1, <1>2 DEF DocNext

LEMMA SweptAtRest ==
  ASSUME DocInv, torn = {}, \A w \in DocWorkers : Busy(w, "idle")
  PROVE  /\ gDocs = stored /\ gEntities \subseteq UNION {Mentions[d] : d \in stored}
         /\ UNION {Mentions[d] : d \in stored \ raced} \subseteq gEntities
<1>1. \A w \in DocWorkers : work[w].pc \notin Writing \cup Deleting
  BY DEF Busy, Writing, Deleting
<1>2. /\ \A d \in stored : d \in graphed
      /\ \A d \in deleted : d \notin gDocs
      /\ \A e \in gEntities : \E c \in contains : c[2] = e
  BY <1>1 DEF DocInv, SomebodyAtIt, StoredIsWritten, DeletedIsSwept, EntitiesAreNamed, Deleting
<1>3. /\ gDocs \subseteq stored \cup deleted /\ contains \subseteq gDocs \X gEntities
      /\ \A c \in contains : c[2] \in Mentions[c[1]]
  BY DEF DocInv, GraphOK
<1>4. \A d \in stored : d \in gDocs /\ (d \notin raced => \A e \in Mentions[d] : <<d, e>> \in contains)
  BY <1>2 DEF DocInv, WrittenIsThere, HoldsBut
<1>5. gDocs = stored
  BY <1>2, <1>3, <1>4
<1>6. ASSUME NEW e \in gEntities PROVE \E d \in stored : e \in Mentions[d]
  <2>1. PICK c \in contains : c[2] = e
    BY <1>2
  <2> QED BY <1>3, <1>5, <2>1
<1>7. ASSUME NEW d \in stored \ raced, NEW e \in Mentions[d] PROVE e \in gEntities
  BY <1>3, <1>4
<1> QED BY <1>5, <1>6, <1>7

\* However ingestions and deletions are interleaved and wherever the graph fails: what was written
\* of a stored document stays in the graph unless it was linked to an entity between a deletion's
\* look for orphans and its removal of them; and with nobody at work and nothing left half done the
\* graph holds the stored documents, nothing that none of them mentions, and all that those not
\* linked so mention.
THEOREM DocumentsSound == DocSpec => []DocumentsAreSound
<1>1. DocSpec => []DocInv
  BY DocStarts, DocSteps, PTL DEF DocSpec
<1>2. ASSUME DocInv, NEW d \in (graphed \cap stored) \ raced, NEW e \in Mentions[d]
      PROVE  /\ d \in FindDocumentsByEntities({e})
             /\ \A x \in Mentions[d] \ {e} : {e, x} \in related /\ x \in SearchRelatedEntities({e})
  <2>1. /\ d \in gDocs /\ \A x \in Mentions[d] : <<d, x>> \in contains
        /\ PairsOf(d) \subseteq related
    BY <1>2 DEF DocInv, WrittenIsThere, HoldsBut
  <2>2. ASSUME NEW x \in Mentions[d] PROVE x \in gEntities
    <3>1. <<d, x>> \in gDocs \X gEntities
      BY <1>2, <2>1 DEF DocInv, GraphOK
    <3> QED BY <3>1
  <2>3. ASSUME NEW x \in Mentions[d] \ {e} PROVE {e, x} \in related
    <3>1. e \notin {x}
      BY <2>3
    <3>2. Cardinality({x} \cup {e}) = 2
      <4>1. IsFiniteSet({x}) /\ Cardinality({x}) = 1
        BY FS_Singleton, Zenon
      <4>2. Cardinality({x} \cup {e}) = IF e \in {x} THEN Cardinality({x}) ELSE Cardinality({x}) + 1
        BY <4>1, FS_AddElement, Zenon
      <4>3. Cardinality({x} \cup {e}) = Cardinality({x}) + 1
        BY <3>1, <4>2, Zenon
      <4> QED BY <4>1, <4>3
    <3>3. {x} \cup {e} = {e, x} /\ {e, x} \in SUBSET Mentions[d]
      BY <1>2, <2>3
    <3> QED BY <2>1, <3>2, <3>3 DEF PairsOf
  <2>4. ASSUME NEW x \in Mentions[d] \ {e} PROVE x \in SearchRelatedEntities({e})
    <3>1. x \in gEntities /\ e \in ({e} \cap gEntities) \ {x}
      BY <1>2, <2>2, <2>4
    <3>2. Tied(e, x)
      BY <2>3, <2>4 DEF Tied
    <3> QED BY <3>1, <3>2 DEF SearchRelatedEntities
  <2> QED BY <2>1, <2>3, <2>4 DEF FindDocumentsByEntities
<1>3. DocInv => GraphIsSwept
  BY SweptAtRest DEF GraphIsSwept
<1>4. DocInv => DocumentsAreSound
  BY <1>2, <1>3 DEF DocumentsAreSound, IndexedIsFound
<1> QED BY <1>1, <1>4, PTL
-----------------------------------------------------------------------------
(* The schema setup: the invariant. *)

RunningSteps == {"look", "create", "index"}

SetupStates ==
  [pc : RunningSteps \cup {"idle", "done"}, at : 1..4, known : SUBSET Tables, errors : SUBSET Tables,
   calm : BOOLEAN]

\* In a database that commits a table with its indexes a table stands with those and with the table
\* it references; with pgvector the last one is never there.
SchemaOK ==
  /\ dialect \in AllDialects /\ pgvector \in BOOLEAN
  /\ tables \subseteq Tables /\ indexed \subseteq tables
  /\ setup \in [SetupThreads -> SetupStates]
  /\ dialect.whole => indexed = tables /\ \A n \in tables : n > Documents => n - 1 \in tables
  /\ pgvector => dialect = PostgreSQL /\ Embeddings \notin tables

\* A setup accounts for every table before the one it is at.
AccountsFor(s) ==
  /\ s.pc # "idle" => \A n \in Tables : n < s.at => n \in tables \/ n \in s.errors
  /\ s.pc \in RunningSteps => s.at \in Tables /\ s.known \subseteq tables
  /\ s.pc = "index" => s.at \in tables /\ ~dialect.whole
  /\ s.pc = "done" => s.at = 4

\* A calm setup meets no error but for the vector index, and what it finds at a table it did not
\* create was there when it began.
MeetsNoError(s) ==
  s.calm =>
    /\ s.pc \in RunningSteps =>
         /\ s.errors = {}
         /\ \A n \in Tables : n < s.at => n \in tables
         /\ \A n \in tables : n > s.at => n \in s.known
    /\ s.pc = "look" /\ s.at \in tables => s.at \in s.known
    /\ s.pc = "create" => s.at \notin tables
    /\ s.pc = "done" => s.errors = IF pgvector THEN {Embeddings} ELSE {}

CalmIsAlone == \A t \in SetupThreads : Running(t) /\ setup[t].calm => Others(t) = {}

SetupInv ==
  SchemaOK /\ CalmIsAlone /\ \A t \in SetupThreads : AccountsFor(setup[t]) /\ MeetsNoError(setup[t])

-----------------------------------------------------------------------------
(* The schema setup: what the helpers do to one setup. *)

LEMMA DialectFields ==
  ASSUME dialect \in AllDialects PROVE dialect.whole => dialect.fk /\ ~dialect.open
<1>1. dialect \in {MySQL, PostgreSQL, MongoDB}
  BY DEF AllDialects
<1>2. CASE dialect = MySQL \/ dialect = PostgreSQL
  <2>1. dialect.fk = TRUE /\ dialect.open = FALSE
    BY <1>2 DEF MySQL, PostgreSQL, Dialect
  <2> QED BY <2>1, Zenon
<1>3. CASE dialect = MongoDB
  <2>1. dialect.whole = FALSE
    BY <1>3 DEF MongoDB, Dialect
  <2> QED BY <2>1, Zenon
<1> QED BY <1>1, <1>2, <1>3

LEMMA Afters ==
  ASSUME NEW s \in SetupStates, s.at \in Tables
  PROVE  /\ After(s) \in SetupStates /\ After(s).at = s.at + 1
         /\ After(s).pc = IF s.at = Embeddings THEN "done" ELSE "look"
         /\ After(s).known = s.known /\ After(s).errors = s.errors /\ After(s).calm = s.calm
<1> DEFINE r == [s EXCEPT !.at = s.at + 1]
<1>1. /\ r \in SetupStates /\ r.at = s.at + 1
      /\ r.pc = s.pc /\ r.known = s.known /\ r.errors = s.errors /\ r.calm = s.calm
  BY DEF SetupStates, Tables
<1>2. After(s) = [r EXCEPT !.pc = IF s.at = Embeddings THEN "done" ELSE "look"]
  BY DEF After, SetupStates
<1> HIDE DEF r
<1> QED BY <1>1, <1>2 DEF SetupStates, RunningSteps

LEMMA Faileds ==
  ASSUME NEW s \in SetupStates, s.at \in Tables
  PROVE  /\ Failed(s) \in SetupStates /\ Failed(s).at = s.at + 1
         /\ Failed(s).pc = IF s.at = Embeddings THEN "done" ELSE "look"
         /\ Failed(s).known = s.known /\ Failed(s).errors = s.errors \cup {s.at}
         /\ Failed(s).calm = s.calm
<1> DEFINE r == [s EXCEPT !.errors = s.errors \cup {s.at}]
<1>1. /\ r \in SetupStates /\ r.at = s.at /\ r.errors = s.errors \cup {s.at}
      /\ r.pc = s.pc /\ r.known = s.known /\ r.calm = s.calm
  BY DEF SetupStates
<1>2. Failed(s) = After(r)
  BY DEF Failed
<1> HIDE DEF r
<1> QED BY <1>1, <1>2, Afters

LEMMA Upsets ==
  ASSUME NEW s \in SetupStates
  PROVE  /\ Upset(s) \in SetupStates /\ Upset(s).at = s.at /\ Upset(s).pc = s.pc
         /\ Upset(s).known = s.known /\ Upset(s).errors = s.errors /\ Upset(s).calm = FALSE
BY DEF Upset, SetupStates

-----------------------------------------------------------------------------
(* The schema setup: each step. *)

LEMMA SetupStarts == SetupInit => SetupInv
<1> SUFFICES ASSUME SetupInit PROVE SetupInv
  OBVIOUS
<1>1. NoSetup \in SetupStates /\ NoSetup.pc = "idle"
  BY DEF NoSetup, SetupStates, Tables
<1>2. setup \in [SetupThreads -> SetupStates] /\ \A t \in SetupThreads : setup[t].pc = "idle"
  BY <1>1 DEF SetupInit
<1>3. pgvector \in BOOLEAN /\ (pgvector => dialect = PostgreSQL)
  BY DEF SetupInit
<1>4. SchemaOK
  BY <1>2, <1>3, SetupAssumption DEF SetupInit, SchemaOK
<1>5. CalmIsAlone
  BY <1>2 DEF CalmIsAlone, Running
<1>6. \A t \in SetupThreads : AccountsFor(setup[t]) /\ MeetsNoError(setup[t])
  BY <1>2 DEF AccountsFor, MeetsNoError, RunningSteps
<1> QED BY <1>4, <1>5, <1>6 DEF SetupInv

\* A setup stays as it should be when tables come beside it: it is not calm then.
LEMMA BesideStays ==
  ASSUME SetupInv, UNCHANGED <<dialect, pgvector>>, tables \subseteq tables', NEW u \in SetupThreads,
         setup'[u] = setup[u],
         tables' # tables => ~(setup[u].pc \in RunningSteps /\ setup[u].calm)
  PROVE  AccountsFor(setup[u])' /\ MeetsNoError(setup[u])'
<1>1. AccountsFor(setup[u]) /\ MeetsNoError(setup[u])
  BY DEF SetupInv
<1>2. AccountsFor(setup[u])'
  BY <1>1 DEF AccountsFor
<1>3. CASE tables' = tables
  BY <1>1, <1>2, <1>3 DEF MeetsNoError
<1>4. CASE tables' # tables
  BY <1>1, <1>2, <1>4 DEF MeetsNoError, RunningSteps
<1> QED BY <1>3, <1>4

LEMMA UpsetStays ==
  ASSUME SetupInv, UNCHANGED <<dialect, pgvector>>, tables \subseteq tables', NEW u \in SetupThreads,
         setup'[u] = Upset(setup[u])
  PROVE  AccountsFor(setup[u])' /\ MeetsNoError(setup[u])'
<1>1. AccountsFor(setup[u]) /\ setup[u] \in SetupStates
  BY DEF SetupInv, SchemaOK
<1>2. /\ setup'[u].at = setup[u].at /\ setup'[u].pc = setup[u].pc
      /\ setup'[u].known = setup[u].known /\ setup'[u].errors = setup[u].errors
      /\ setup'[u].calm = FALSE
  BY <1>1, Upsets
<1> QED BY <1>1, <1>2 DEF AccountsFor, MeetsNoError

\* Nobody begins: who is alone stays alone.
LEMMA AloneStays ==
  ASSUME SetupInv,
         \A u \in SetupThreads : setup'[u].pc \in RunningSteps =>
           setup[u].pc \in RunningSteps /\ (setup'[u].calm => setup[u].calm)
  PROVE  CalmIsAlone'
BY DEF SetupInv, CalmIsAlone, Running, Others, RunningSteps

LEMMA RunsBeside ==
  ASSUME SetupInv, NEW t \in SetupThreads, setup[t].pc \in RunningSteps,
         NEW u \in SetupThreads, u # t, setup[u].pc \in RunningSteps
  PROVE  ~setup[u].calm
BY DEF SetupInv, CalmIsAlone, Running, Others, RunningSteps

\* A step of one running setup, which creates at most the table it is at.
LEMMA SetupMoves ==
  ASSUME SetupInv, UNCHANGED <<dialect, pgvector>>, tables \subseteq tables',
         NEW t \in SetupThreads, NEW s \in SetupStates, setup' = [setup EXCEPT ![t] = s],
         setup[t].pc \in RunningSteps, s.calm => setup[t].calm \/ s.pc = "idle",
         (AccountsFor(setup[t]) /\ MeetsNoError(setup[t]))', SchemaOK'
  PROVE  SetupInv'
<1>1. setup'[t] = s /\ \A u \in SetupThreads : u # t => setup'[u] = setup[u]
  BY DEF SetupInv, SchemaOK
<1>2. CalmIsAlone'
  BY <1>1, AloneStays DEF RunningSteps
<1>3. ASSUME NEW u \in SetupThreads PROVE AccountsFor(setup[u])' /\ MeetsNoError(setup[u])'
  <2>1. CASE u = t
    BY <1>1, <2>1 DEF AccountsFor, MeetsNoError
  <2>2. CASE u # t
    BY <1>1, <2>2, RunsBeside, BesideStays
  <2> QED BY <2>1, <2>2
<1> QED BY <1>2, <1>3 DEF SetupInv

LEMMA LookUpStep == ASSUME SetupInv, NEW t \in SetupThreads, LookUp(t) PROVE SetupInv'
<1> DEFINE old == setup[t]
           next == IF Exists(old) THEN After(old) ELSE [old EXCEPT !.pc = "create"]
<1>0. /\ old.pc = "look" /\ setup' = [setup EXCEPT ![t] = next]
      /\ UNCHANGED <<dialect, pgvector, tables, indexed>>
  BY DEF LookUp
<1>1. /\ old \in SetupStates /\ AccountsFor(old) /\ MeetsNoError(old)
      /\ old.at \in Tables /\ old.known \subseteq tables /\ SchemaOK
  BY <1>0 DEF SetupInv, SchemaOK, AccountsFor, RunningSteps
<1>2. next \in SetupStates /\ next.calm = old.calm
  BY <1>1, Afters DEF SetupStates, RunningSteps
<1>s. setup'[t] = next
  <2> HIDE DEF next
  <2> QED BY <1>0, <1>1 DEF SchemaOK
<1>3. (AccountsFor(setup[t]) /\ MeetsNoError(setup[t]))'
  <2>1. CASE Exists(old)
    <3>1. old.at \in tables /\ next = After(old)
      BY <1>1, <2>1 DEF Exists
    <3>2. /\ next.at = old.at + 1 /\ next.pc = IF old.at = Embeddings THEN "done" ELSE "look"
          /\ next.known = old.known /\ next.errors = old.errors
      BY <1>1, <3>1, Afters
    <3>3. pgvector => old.at # Embeddings
      BY <1>1, <3>1 DEF SchemaOK
    <3> HIDE DEF old, next
    <3>4. AccountsFor(setup[t])'
      BY <1>0, <1>1, <1>s, <3>1, <3>2 DEF AccountsFor, RunningSteps, Tables, Embeddings
    <3>5. MeetsNoError(setup[t])'
      BY <1>0, <1>1, <1>2, <1>s, <3>1, <3>2, <3>3 DEF MeetsNoError, RunningSteps, Tables, Embeddings, SchemaOK
    <3> QED BY <3>4, <3>5
  <2>2. CASE ~Exists(old)
    <3>1. old.calm => old.at \notin tables
      BY <1>0, <1>1, <2>2 DEF Exists, MeetsNoError
    <3>2. next.pc = "create" /\ next.at = old.at /\ next.known = old.known /\ next.errors = old.errors
      BY <1>1, <2>2 DEF SetupStates
    <3> HIDE DEF old, next
    <3> QED BY <1>0, <1>1, <1>2, <1>s, <3>1, <3>2 DEF AccountsFor, MeetsNoError, RunningSteps
  <2> QED BY <2>1, <2>2
<1>4. SchemaOK'
  <2> HIDE DEF next
  <2> QED BY <1>0, <1>1, <1>2 DEF SchemaOK
<1>5. setup[t].pc \in RunningSteps /\ (next.calm => setup[t].calm)
  BY <1>0, <1>2 DEF RunningSteps
<1>6. next.calm => setup[t].calm \/ next.pc = "idle"
  BY <1>5
<1>7. UNCHANGED <<dialect, pgvector>> /\ tables \subseteq tables' /\ setup' = [setup EXCEPT ![t] = next]
  BY <1>0
<1> HIDE DEF next
<1> QED BY <1>2, <1>3, <1>4, <1>5, <1>6, <1>7, SetupMoves

LEMMA CreateTableStep == ASSUME SetupInv, NEW t \in SetupThreads, CreateTable(t) PROVE SetupInv'
<1> DEFINE old == setup[t]
<1>0. old.pc = "create" /\ UNCHANGED <<dialect, pgvector>>
  BY DEF CreateTable
<1>1. /\ old \in SetupStates /\ AccountsFor(old) /\ MeetsNoError(old)
      /\ old.at \in Tables /\ old.known \subseteq tables /\ SchemaOK /\ setup[t].pc \in RunningSteps
  BY <1>0 DEF SetupInv, SchemaOK, AccountsFor, RunningSteps
<1>2. CASE Refused(old.at)
  <2> DEFINE next == Failed(old)
  <2>0. setup' = [setup EXCEPT ![t] = next] /\ UNCHANGED <<tables, indexed>>
    BY <1>2 DEF CreateTable
  <2>1. /\ next \in SetupStates /\ next.at = old.at + 1
        /\ next.pc = IF old.at = Embeddings THEN "done" ELSE "look"
        /\ next.known = old.known /\ next.errors = old.errors \cup {old.at} /\ next.calm = old.calm
    BY <1>1, Faileds
  <2>s. setup'[t] = next
    <3> HIDE DEF next
    <3> QED BY <1>1, <2>0 DEF SchemaOK
  <2>2. old.calm => old.errors = {} /\ pgvector /\ old.at = Embeddings
    <3>1. old.calm => /\ old.errors = {} /\ old.at \notin tables
                      /\ \A n \in Tables : n < old.at => n \in tables
      BY <1>0, <1>1 DEF MeetsNoError, RunningSteps
    <3>2. old.calm /\ old.at > Documents => old.at - 1 \in tables
      BY <1>1, <3>1 DEF Tables, Documents
    <3> QED BY <1>2, <3>1, <3>2 DEF Refused
  <2>3. SchemaOK'
    <3> HIDE DEF next
    <3> QED BY <1>0, <1>1, <2>0, <2>1 DEF SchemaOK
  <2> HIDE DEF old, next
  <2>4. AccountsFor(setup[t])'
    BY <1>0, <1>1, <2>0, <2>s, <2>1 DEF AccountsFor, RunningSteps, Tables, Embeddings
  <2>5. MeetsNoError(setup[t])'
    BY <1>0, <1>1, <2>0, <2>s, <2>1, <2>2 DEF MeetsNoError, RunningSteps, Tables, Embeddings
  <2>6. next.calm => setup[t].calm \/ next.pc = "idle"
    BY <2>1 DEF old
  <2>7. tables \subseteq tables'
    BY <2>0
  <2>8. next \in SetupStates /\ setup[t].pc \in RunningSteps
    BY <1>1, <2>1
  <2> QED BY <1>0, <2>0, <2>3, <2>4, <2>5, <2>6, <2>7, <2>8, SetupMoves
<1>3. CASE ~Refused(old.at)
  <2> DEFINE next == IF dialect.whole THEN After(old) ELSE [old EXCEPT !.pc = "index"]
  <2>0. /\ setup' = [setup EXCEPT ![t] = next] /\ tables' = tables \cup {old.at}
        /\ indexed' = IF dialect.whole THEN indexed \cup {old.at} ELSE indexed
    BY <1>3 DEF CreateTable
  <2>1. /\ next \in SetupStates
        /\ next.at = IF dialect.whole THEN old.at + 1 ELSE old.at
        /\ next.pc = IF dialect.whole THEN IF old.at = Embeddings THEN "done" ELSE "look" ELSE "index"
        /\ next.known = old.known /\ next.errors = old.errors /\ next.calm = old.calm
    <3>1. CASE dialect.whole
      BY <1>1, <3>1, Afters
    <3>2. CASE ~dialect.whole
      BY <1>1, <3>2 DEF SetupStates, RunningSteps
    <3> QED BY <3>1, <3>2
  <2>s. setup'[t] = next
    <3> HIDE DEF next
    <3> QED BY <1>1, <2>0 DEF SchemaOK
  <2>2. /\ pgvector => old.at # Embeddings
        /\ dialect.fk /\ old.at > Documents => old.at - 1 \in tables
    BY <1>3 DEF Refused
  <2> HIDE DEF next
  <2>3. SchemaOK'
    <3>1. setup' \in [SetupThreads -> SetupStates]
      BY <1>1, <2>0, <2>1 DEF SchemaOK
    <3>2. tables' \subseteq Tables /\ indexed' \subseteq tables'
      BY <1>1, <2>0 DEF SchemaOK
    <3>3. dialect.whole => indexed' = tables' /\ \A n \in tables' : n > Documents => n - 1 \in tables'
      <4>1. dialect.whole => dialect.fk
        BY <1>1, DialectFields DEF SchemaOK
      <4> HIDE DEF old
      <4> QED BY <1>1, <2>0, <2>2, <4>1 DEF SchemaOK
    <3>4. pgvector => Embeddings \notin tables'
      BY <1>1, <2>0, <2>2 DEF SchemaOK
    <3> QED BY <1>0, <1>1, <3>1, <3>2, <3>3, <3>4 DEF SchemaOK
  <2>n. (AccountsFor(setup[t]) /\ MeetsNoError(setup[t]))'
    <3> HIDE DEF old
    <3>1. CASE dialect.whole
      <4>1. AccountsFor(setup[t])'
        BY <1>0, <1>1, <2>0, <2>s, <2>1, <3>1 DEF AccountsFor, RunningSteps, Tables, Embeddings
      <4>2. MeetsNoError(setup[t])'
        <5> SUFFICES ASSUME setup'[t].calm
                     PROVE  /\ setup'[t].pc \in RunningSteps =>
                                 /\ setup'[t].errors = {}
                                 /\ \A n \in Tables : n < setup'[t].at => n \in tables'
                                 /\ \A n \in tables' : n > setup'[t].at => n \in setup'[t].known
                            /\ setup'[t].pc = "look" /\ setup'[t].at \in tables' => setup'[t].at \in setup'[t].known
                            /\ setup'[t].pc # "create"
                            /\ setup'[t].pc = "done" => setup'[t].errors = IF pgvector THEN {Embeddings} ELSE {}
          BY <1>0 DEF MeetsNoError
        <5>1. /\ old.errors = {} /\ \A n \in Tables : n < old.at => n \in tables
              /\ \A n \in tables : n > old.at => n \in old.known
          BY <1>0, <1>1, <2>1, <2>s DEF MeetsNoError, RunningSteps
        <5>2. /\ setup'[t].at = old.at + 1 /\ setup'[t].errors = {} /\ setup'[t].known = old.known
              /\ setup'[t].pc = IF old.at = Embeddings THEN "done" ELSE "look"
          BY <2>1, <2>s, <3>1, <5>1
        <5>3. tables \subseteq Tables
          BY <1>1 DEF SchemaOK
        <5>4. \A n \in Tables : n < setup'[t].at => n \in tables'
          BY <1>1, <2>0, <5>1, <5>2 DEF Tables
        <5>5. \A n \in tables' : n >= setup'[t].at => n \in setup'[t].known
          BY <1>1, <2>0, <5>1, <5>2, <5>3 DEF Tables
        <5>6. ASSUME setup'[t].pc = "done" PROVE setup'[t].errors = IF pgvector THEN {Embeddings} ELSE {}
          <6>1. old.at = Embeddings /\ ~pgvector
            BY <2>2, <5>2, <5>6
          <6> QED BY <5>2, <6>1
        <5>7. setup'[t].at \in Nat
          BY <1>1, <5>2 DEF Tables
        <5>8. setup'[t].pc # "create"
          BY <5>2
        <5>9. setup'[t].at \in tables' => setup'[t].at \in setup'[t].known
          BY <5>5, <5>7
        <5>10. \A n \in tables' : n > setup'[t].at => n \in setup'[t].known
          BY <2>0, <5>3, <5>5, <5>7, <1>1 DEF Tables
        <5> QED BY <5>2, <5>4, <5>6, <5>8, <5>9, <5>10
      <4> QED BY <4>1, <4>2
    <3>2. CASE ~dialect.whole
      <4>1. AccountsFor(setup[t])'
        BY <1>0, <1>1, <2>0, <2>s, <2>1, <3>2 DEF AccountsFor, RunningSteps, Tables, Embeddings
      <4>2. MeetsNoError(setup[t])'
        BY <1>0, <1>1, <2>0, <2>s, <2>1, <2>2, <3>2 DEF MeetsNoError, RunningSteps, Tables, Embeddings, SchemaOK
      <4> QED BY <4>1, <4>2
    <3> QED BY <3>1, <3>2
  <2>4. next.calm => setup[t].calm \/ next.pc = "idle"
    BY <2>1
  <2>5. tables \subseteq tables'
    BY <2>0
  <2>6. next \in SetupStates /\ setup[t].pc \in RunningSteps
    BY <1>1, <2>1
  <2> HIDE DEF old
  <2> QED BY <1>0, <2>0, <2>3, <2>n, <2>4, <2>5, <2>6, SetupMoves
<1> QED BY <1>2, <1>3

LEMMA CreateIndexStep == ASSUME SetupInv, NEW t \in SetupThreads, CreateIndex(t) PROVE SetupInv'
<1> DEFINE old == setup[t]
           next == After(old)
<1>0. /\ old.pc = "index" /\ setup' = [setup EXCEPT ![t] = next]
      /\ indexed' = indexed \cup {old.at} /\ UNCHANGED <<dialect, pgvector, tables>>
  BY DEF CreateIndex
<1>1. /\ old \in SetupStates /\ AccountsFor(old) /\ MeetsNoError(old)
      /\ old.at \in Tables /\ old.at \in tables /\ ~dialect.whole /\ SchemaOK
      /\ setup[t].pc \in RunningSteps
  BY <1>0 DEF SetupInv, SchemaOK, AccountsFor, RunningSteps
<1>2. /\ next \in SetupStates /\ next.at = old.at + 1
      /\ next.pc = IF old.at = Embeddings THEN "done" ELSE "look"
      /\ next.known = old.known /\ next.errors = old.errors /\ next.calm = old.calm
  BY <1>1, Afters
<1>3. pgvector => old.at # Embeddings
  BY <1>1 DEF SchemaOK
<1>4. next.calm => setup[t].calm \/ next.pc = "idle"
  BY <1>2
<1>s. setup'[t] = next
  <2> HIDE DEF next
  <2> QED BY <1>0, <1>1 DEF SchemaOK
<1> HIDE DEF old, next
<1>5. SchemaOK'
  BY <1>0, <1>1, <1>2 DEF SchemaOK
<1>6. AccountsFor(setup[t])'
  BY <1>0, <1>1, <1>2, <1>s DEF AccountsFor, RunningSteps, Tables, Embeddings
<1>7. MeetsNoError(setup[t])'
  BY <1>0, <1>1, <1>2, <1>3, <1>s DEF MeetsNoError, RunningSteps, Tables, Embeddings, SchemaOK
<1>8. /\ UNCHANGED <<dialect, pgvector>> /\ tables \subseteq tables' /\ setup' = [setup EXCEPT ![t] = next]
      /\ next \in SetupStates /\ setup[t].pc \in RunningSteps
  BY <1>0, <1>1, <1>2
<1> QED BY <1>4, <1>5, <1>6, <1>7, <1>8, SetupMoves

LEMMA SetupFaultStep == ASSUME SetupInv, NEW t \in SetupThreads, SetupFault(t) PROVE SetupInv'
<1> DEFINE old == setup[t]
<1>0. UNCHANGED <<dialect, pgvector, tables, indexed>>
  BY DEF SetupFault
<1>1. old \in SetupStates /\ SchemaOK
  BY DEF SetupInv, SchemaOK
<1>2. CASE old.pc \in {"create", "index"} /\ setup' = [setup EXCEPT ![t] = Upset(Failed(old))]
  <2> DEFINE next == Upset(Failed(old))
  <2>1. AccountsFor(old) /\ old.at \in Tables /\ setup[t].pc \in RunningSteps
    BY <1>1, <1>2 DEF SetupInv, AccountsFor, RunningSteps
  <2>2. /\ next \in SetupStates /\ next.at = old.at + 1
        /\ next.pc = IF old.at = Embeddings THEN "done" ELSE "look"
        /\ next.known = old.known /\ next.errors = old.errors \cup {old.at} /\ next.calm = FALSE
    <3> DEFINE mid == Failed(old)
    <3>1. /\ mid \in SetupStates /\ mid.at = old.at + 1
          /\ mid.pc = IF old.at = Embeddings THEN "done" ELSE "look"
          /\ mid.known = old.known /\ mid.errors = old.errors \cup {old.at}
      BY <1>1, <2>1, Faileds
    <3>2. next = Upset(mid)
      OBVIOUS
    <3> HIDE DEF mid, next
    <3> QED BY <3>1, <3>2, Upsets
  <2>3. setup' = [setup EXCEPT ![t] = next]
    BY <1>2
  <2>s. setup'[t] = next
    <3> HIDE DEF next
    <3> QED BY <1>1, <2>3 DEF SchemaOK
  <2> HIDE DEF next
  <2>4. SchemaOK'
    BY <1>0, <1>1, <2>2, <2>3 DEF SchemaOK
  <2> HIDE DEF old
  <2>5. AccountsFor(setup[t])'
    BY <1>0, <1>2, <2>1, <2>2, <2>s DEF AccountsFor, RunningSteps, Tables, Embeddings
  <2>6. MeetsNoError(setup[t])'
    <3>1. setup'[t].calm = FALSE
      BY <2>2, <2>s
    <3> QED BY <3>1 DEF MeetsNoError
  <2>7. /\ tables \subseteq tables' /\ next \in SetupStates /\ setup[t].pc \in RunningSteps
        /\ (next.calm => setup[t].calm \/ next.pc = "idle")
    <3>1. next.calm = FALSE /\ next \in SetupStates
      BY <2>2
    <3>2. next.calm => setup[t].calm \/ next.pc = "idle"
      BY <3>1, Zenon
    <3> QED BY <1>0, <2>1, <3>1, <3>2
  <2> QED BY <1>0, <2>3, <2>4, <2>5, <2>6, <2>7, SetupMoves
<1>3. CASE Running(t) /\ setup' = [setup EXCEPT ![t] = NoSetup]
  <2>1. NoSetup \in SetupStates /\ NoSetup.pc = "idle"
    BY DEF NoSetup, SetupStates, Tables
  <2>2. SchemaOK'
    BY <1>0, <1>1, <1>3, <2>1 DEF SchemaOK
  <2>3. (AccountsFor(setup[t]) /\ MeetsNoError(setup[t]))'
    <3>1. setup'[t] = NoSetup
      BY <1>1, <1>3 DEF SchemaOK
    <3> QED BY <2>1, <3>1 DEF AccountsFor, MeetsNoError, RunningSteps
  <2>4. setup[t].pc \in RunningSteps
    BY <1>3 DEF Running, RunningSteps
  <2> QED BY <1>0, <1>3, <2>1, <2>2, <2>3, <2>4, SetupMoves
<1> QED BY <1>2, <1>3 DEF SetupFault

\* A setup begins: those that run are upset, and it is calm only when there are none.
LEMMA StartSetupStep == ASSUME SetupInv, NEW t \in SetupThreads, StartSetup(t) PROVE SetupInv'
<1> DEFINE next == [NoSetup EXCEPT !.pc = "look", !.known = tables, !.calm = Others(t) = {}]
<1>0. ~Running(t) /\ UNCHANGED <<dialect, pgvector, tables, indexed>>
  BY DEF StartSetup
<1>1. setup' = [u \in SetupThreads |-> CASE u = t -> next
                                        [] u \in Others(t) -> Upset(setup[u])
                                        [] OTHER -> setup[u]]
  BY DEF StartSetup
<1>2. SchemaOK
  BY DEF SetupInv
<1>3. /\ next \in SetupStates /\ next.pc = "look" /\ next.at = 1 /\ next.known = tables
      /\ next.errors = {} /\ (next.calm => Others(t) = {})
  <2> DEFINE c == Others(t) = {}
  <2>1. c \in BOOLEAN /\ (c => Others(t) = {})
    OBVIOUS
  <2>2. next = [NoSetup EXCEPT !.pc = "look", !.known = tables, !.calm = c]
    OBVIOUS
  <2> HIDE DEF c, next
  <2>3. next = [pc |-> "look", at |-> 1, known |-> tables, errors |-> {}, calm |-> c]
    BY <2>2 DEF NoSetup
  <2>4. next.calm = c /\ next.pc = "look" /\ next.at = 1 /\ next.known = tables /\ next.errors = {}
    BY <2>3
  <2>5. next \in SetupStates
    BY <1>2, <2>1, <2>3 DEF SetupStates, RunningSteps, Tables, SchemaOK
  <2>6. next.calm => Others(t) = {}
    BY <2>1, <2>4
  <2> QED BY <2>4, <2>5, <2>6
<1> HIDE DEF next
<1>4. /\ setup'[t] = next
      /\ \A u \in SetupThreads : u # t /\ Running(u) => setup'[u] = Upset(setup[u])
      /\ \A u \in SetupThreads : u # t /\ ~Running(u) => setup'[u] = setup[u]
  BY <1>1 DEF Others
<1>5. setup' \in [SetupThreads -> SetupStates]
  <2>1. \A u \in SetupThreads : setup'[u] \in SetupStates
    BY <1>2, <1>3, <1>4, Upsets DEF SchemaOK
  <2> QED BY <1>1, <2>1
<1>6. SchemaOK'
  BY <1>0, <1>2, <1>5 DEF SchemaOK
<1>7. ASSUME NEW u \in SetupThreads PROVE AccountsFor(setup[u])' /\ MeetsNoError(setup[u])'
  <2>1. CASE u = t
    BY <1>0, <1>3, <1>4, <2>1 DEF AccountsFor, MeetsNoError, RunningSteps, Tables
  <2>2. CASE u # t /\ Running(u)
    BY <1>0, <1>4, <2>2, UpsetStays
  <2>3. CASE u # t /\ ~Running(u)
    BY <1>0, <1>4, <2>3, BesideStays
  <2> QED BY <2>1, <2>2, <2>3
<1>8. CalmIsAlone'
  <2>1. \A u \in SetupThreads : u # t /\ Running(u)' => Running(u) /\ ~setup'[u].calm
    <3>1. ASSUME NEW u \in SetupThreads, u # t, Running(u) PROVE ~setup'[u].calm
      <4>1. setup'[u].calm = FALSE
        <5>1. setup[u] \in SetupStates /\ setup'[u] = Upset(setup[u])
          BY <1>2, <1>4, <3>1 DEF SchemaOK
        <5> QED BY <5>1, Upsets
      <4> QED BY <4>1, Zenon
    <3> QED BY <1>4, <3>1 DEF Running
  <2>2. setup'[t].calm => \A u \in SetupThreads : u # t => ~Running(u)
    BY <1>3, <1>4 DEF Others
  <2> QED BY <2>1, <2>2 DEF CalmIsAlone, Others
<1> QED BY <1>6, <1>7, <1>8 DEF SetupInv

LEMMA InsertDocumentStep == ASSUME SetupInv, InsertDocument PROVE SetupInv'
<1>0. /\ dialect.open /\ tables' = tables \cup {Documents} /\ UNCHANGED <<dialect, pgvector, indexed>>
      /\ setup' = [t \in SetupThreads |-> IF Running(t) THEN Upset(setup[t]) ELSE setup[t]]
  BY DEF InsertDocument
<1>1. SchemaOK /\ ~dialect.whole
  BY <1>0, DialectFields DEF SetupInv, SchemaOK
<1>2. /\ \A u \in SetupThreads : Running(u) => setup'[u] = Upset(setup[u])
      /\ \A u \in SetupThreads : ~Running(u) => setup'[u] = setup[u]
  BY <1>0
<1>3. SchemaOK'
  <2>1. \A u \in SetupThreads : setup'[u] \in SetupStates
    BY <1>1, <1>2, Upsets DEF SchemaOK
  <2>2. setup' \in [SetupThreads -> SetupStates]
    BY <1>0, <2>1
  <2>3. tables' \subseteq Tables /\ Embeddings # Documents
    BY <1>0, <1>1 DEF SchemaOK, Tables, Documents, Embeddings
  <2> QED BY <1>0, <1>1, <2>2, <2>3 DEF SchemaOK
<1>4. ASSUME NEW u \in SetupThreads PROVE AccountsFor(setup[u])' /\ MeetsNoError(setup[u])'
  <2>1. CASE Running(u)
    BY <1>0, <1>2, <2>1, UpsetStays
  <2>2. CASE ~Running(u)
    BY <1>0, <1>2, <2>2, BesideStays DEF Running, RunningSteps
  <2> QED BY <2>1, <2>2
<1>5. CalmIsAlone'
  <2>1. ASSUME NEW u \in SetupThreads, setup'[u].pc \in RunningSteps
        PROVE  setup[u].pc \in RunningSteps /\ (setup'[u].calm => setup[u].calm)
    <3>1. CASE Running(u)
      <4>1. setup'[u].calm = FALSE
        <5>1. setup[u] \in SetupStates /\ setup'[u] = Upset(setup[u])
          BY <1>1, <1>2, <3>1 DEF SchemaOK
        <5> QED BY <5>1, Upsets
      <4>2. setup[u].pc \in RunningSteps
        BY <3>1 DEF Running, RunningSteps
      <4> QED BY <4>1, <4>2, Zenon
    <3>2. CASE ~Running(u)
      BY <1>2, <2>1, <3>2
    <3> QED BY <3>1, <3>2
  <2> QED BY <2>1, AloneStays
<1> QED BY <1>3, <1>4, <1>5 DEF SetupInv

LEMMA SetupSteps == SetupInv /\ [SetupNext]_setupVars => SetupInv'
<1> SUFFICES ASSUME SetupInv, [SetupNext]_setupVars PROVE SetupInv'
  OBVIOUS
<1>1. CASE InsertDocument
  BY <1>1, InsertDocumentStep
<1>2. ASSUME NEW t \in SetupThreads,
             StartSetup(t) \/ LookUp(t) \/ CreateTable(t) \/ CreateIndex(t) \/ SetupFault(t)
      PROVE  SetupInv'
  BY <1>2, StartSetupStep, LookUpStep, CreateTableStep, CreateIndexStep, SetupFaultStep
<1>3. CASE UNCHANGED setupVars
  <2>1. SchemaOK' /\ CalmIsAlone'
    BY <1>3 DEF setupVars, SetupInv, SchemaOK, CalmIsAlone, Running, Others
  <2>2. \A t \in SetupThreads : AccountsFor(setup[t])' /\ MeetsNoError(setup[t])'
    BY <1>3, BesideStays DEF setupVars
  <2> QED BY <2>1, <2>2 DEF SetupInv
<1> QED BY <1>1, <1>2, <1>3 DEF SetupNext

\* Whatever ran at the same time or failed before: a setup that reports success leaves every table,
\* a table of an SQL database stands with its indexes and the table it references, and a setup left
\* alone meets no error but the one of the vector index.
THEOREM SetupSound == SetupSpec => []SetupIsSound
<1>1. SetupSpec => []SetupInv
  BY SetupStarts, SetupSteps, PTL DEF SetupSpec
<1>2. ASSUME SetupInv PROVE SetupIsHonest
  <2>1. ASSUME NEW t \in SetupThreads, Succeeded(t) PROVE AllReady
    <3>1. AccountsFor(setup[t]) /\ setup[t].pc = "done" /\ setup[t].errors = {} /\ tables \subseteq Tables
      BY <1>2, <2>1 DEF SetupInv, SchemaOK, Succeeded
    <3>2. \A n \in Tables : n \in tables
      BY <3>1 DEF AccountsFor, Tables
    <3> QED BY <3>1, <3>2 DEF AllReady
  <2> QED BY <1>2, <2>1 DEF SetupInv, SchemaOK, SetupIsHonest
<1>3. SetupInv => SetupRepairs
  BY DEF SetupInv, MeetsNoError, SetupRepairs
<1>4. SetupInv => SetupIsSound
  BY <1>2, <1>3 DEF SetupIsSound
<1> QED BY <1>1, <1>4, PTL
(***************************************************************************)
(* Chat.                                                                   *)
(***************************************************************************)
ChatPcs == {"idle", "begin", "split", "route", "routed", "embed", "stream", "tree", "judge",
            "generate", "ground", "act", "gate", "merge"}

Requests ==
    [pc : ChatPcs, kind : {"role", "auto", "team", "stream", "sub", "single"},
     role : Roles \cup {NoRole}, trusted : BOOLEAN, charge : Roles \cup {NoRole},
     provider : 1..ChatChain, tries : Nat, good : Nat, left : 0..MaxSubtasks]

\* What holds of a request on its own: how often it has tried, who may act,
\* and which roles it can have when its caller is not trusted.
RequestOK(r) ==
    /\ r \in Requests
    /\ r.pc \in {"split", "route", "stream", "judge", "generate", "ground", "act", "merge"} =>
        r.tries \in {0, 1}
    /\ r.pc = "tree" => r.tries < TotPaths
    /\ r.pc = "act" => r.good \in {0, 1}
    /\ r.pc \in {"act", "gate"} => r.kind \in {"role", "auto"}
    /\ r.pc = "gate" => r.trusted
    /\ r.pc = "split" => r.kind = "team"
    /\ r.kind = "team" => r.role = NoRole /\ r.pc \in {"begin", "split"}
    /\ ~r.trusted /\ r.kind \in {"auto", "sub", "single"} => r.role \in SafeRoles \cup {NoRole}

\* The calls a request can still make before the global cap is looked at again.
CallsLeft(r) ==
    CASE r.pc \in {"split", "route", "merge"} -> 2 - r.tries
      [] r.pc = "embed" -> CallsPerCheck
      [] r.pc = "stream" -> 1
      [] r.pc = "tree" -> TotPaths - r.tries + 4 + 3 * ChatChain
      [] r.pc \in {"judge", "generate"} -> 4 - r.tries + 3 * ChatChain
      [] r.pc = "ground" -> 2 - r.tries + 3 * ChatChain
      [] r.pc = "act" -> 3 * (ChatChain - r.provider) + 3 - r.tries - r.good
      [] OTHER -> 0

\* All of them, of all requests.
Outstanding == {x \in ChatThreads \X (1..CallsPerCheck) : x[2] <= CallsLeft(request[x[1]])}

\* What was recorded over the cap and what may still be is within the bound.
CapOK ==
    /\ usedGlobal < GlobalCap => over = 0
    /\ usedGlobal = GlobalCap =>
        over + Cardinality(Outstanding) <= CallsPerCheck * (underWay + ledgerFaults)

ChatInv ==
    /\ request \in [ChatThreads -> Requests]
    /\ \A t \in ChatThreads : RequestOK(request[t])
    /\ usedGlobal \in 0..GlobalCap /\ usedBy \in [Roles -> 0..RoleCap]
    /\ over \in Nat /\ underWay \in Nat /\ ledgerFaults \in Nat
    /\ CapOK

LEMMA CallsPerCheckNat == CallsPerCheck \in Nat /\ CallsPerCheck >= TotPaths + 7
BY ChatAssumption DEF CallsPerCheck

LEMMA CallsLeftNat ==
    ASSUME NEW r, RequestOK(r)
    PROVE  CallsLeft(r) \in 0..CallsPerCheck
<1> USE ChatAssumption DEF RequestOK, Requests
<1>1. r.tries \in Nat /\ r.provider \in 1..ChatChain /\ r.pc \in ChatPcs OBVIOUS
<1>2. CASE r.pc \in {"split", "route", "merge"} BY <1>1, <1>2 DEF CallsLeft, CallsPerCheck
<1>3. CASE r.pc = "embed" BY <1>3 DEF CallsLeft, CallsPerCheck
<1>4. CASE r.pc = "stream" BY <1>4 DEF CallsLeft, CallsPerCheck
<1>5. CASE r.pc = "tree" BY <1>1, <1>5 DEF CallsLeft, CallsPerCheck
<1>6. CASE r.pc \in {"judge", "generate"} BY <1>1, <1>6 DEF CallsLeft, CallsPerCheck
<1>7. CASE r.pc = "ground" BY <1>1, <1>7 DEF CallsLeft, CallsPerCheck
<1>8. CASE r.pc = "act"
  <2>1. r.tries \in {0, 1} /\ r.good \in {0, 1} BY <1>8
  <2>2. CallsLeft(r) = 3 * (ChatChain - r.provider) + 3 - r.tries - r.good BY <1>8 DEF CallsLeft
  <2> QED BY <1>1, <2>1, <2>2 DEF CallsPerCheck
<1>9. CASE r.pc \in {"idle", "begin", "routed", "gate"} BY <1>9, CallsPerCheckNat DEF CallsLeft
<1> QED BY <1>1, <1>2, <1>3, <1>4, <1>5, <1>6, <1>7, <1>8, <1>9 DEF ChatPcs

LEMMA CallsLeftInt == ASSUME NEW r, RequestOK(r) PROVE CallsLeft(r) \in Nat
BY CallsLeftNat, CallsPerCheckNat

LEMMA IdleRequestOK == RequestOK(IdleRequest) /\ CallsLeft(IdleRequest) = 0
BY ChatAssumption DEF RequestOK, Requests, IdleRequest, ChatPcs, CallsLeft

\* A step to another state starts its tries and providers over.
LEMMA StepFields ==
    ASSUME NEW r \in Requests, NEW pc \in ChatPcs
    PROVE  /\ Step(r, pc) \in Requests /\ Step(r, pc).pc = pc
           /\ Step(r, pc).provider = 1 /\ Step(r, pc).tries = 0 /\ Step(r, pc).good = 0
           /\ Step(r, pc).kind = r.kind /\ Step(r, pc).role = r.role
           /\ Step(r, pc).trusted = r.trusted /\ Step(r, pc).left = r.left
<1>1. 1 \in 1..ChatChain BY ChatAssumption
<1>2. Step(r, pc) \in Requests BY <1>1 DEF Step, Requests
<1> QED BY <1>2 DEF Step, Requests

\* What an answer makes of the record.
LEMMA NextSubtask ==
    ASSUME NEW r \in Requests, r.left > 1
    PROVE  LET a == [r EXCEPT !.left = @ - 1, !.role = NoRole] IN
           a \in Requests /\ a.pc = r.pc /\ a.kind = r.kind /\ a.role = NoRole
<1>1. r.left \in 0..MaxSubtasks /\ MaxSubtasks \in Nat BY ChatAssumption DEF Requests
<1>2. r.left - 1 \in 0..MaxSubtasks BY <1>1
<1> QED BY <1>2 DEF Requests

LEMMA NoSubtask ==
    ASSUME NEW r \in Requests
    PROVE  LET a == [r EXCEPT !.left = 0] IN
           /\ a \in Requests /\ a.pc = r.pc /\ a.kind = r.kind /\ a.role = r.role
           /\ a.trusted = r.trusted /\ a.tries = r.tries
<1>1. 0 \in 0..MaxSubtasks BY ChatAssumption
<1> QED BY <1>1 DEF Requests

LEMMA AskedAgain ==
    ASSUME NEW r \in Requests
    PROVE  LET a == [r EXCEPT !.kind = "single", !.role = NoRole, !.left = 0] IN
           a \in Requests /\ a.pc = r.pc /\ a.kind = "single" /\ a.role = NoRole
<1>1. 0 \in 0..MaxSubtasks BY ChatAssumption
<1> QED BY <1>1 DEF Requests

LEMMA StepOK ==
    ASSUME NEW r, RequestOK(r), NEW pc \in ChatPcs,
           pc \in {"act", "gate"} => r.kind \in {"role", "auto"},
           pc = "gate" => r.trusted,
           pc = "split" => r.kind = "team",
           pc \in {"begin", "split"} \/ r.kind # "team"
    PROVE  RequestOK(Step(r, pc))
<1>1. r \in Requests BY DEF RequestOK
<1> DEFINE s == Step(r, pc)
<1>2. /\ s \in Requests /\ s.pc = pc /\ s.provider = 1 /\ s.tries = 0 /\ s.good = 0
      /\ s.kind = r.kind /\ s.role = r.role /\ s.trusted = r.trusted
  BY <1>1, StepFields
<1> HIDE DEF s
<1>3. RequestOK(s) BY <1>2, ChatAssumption DEF RequestOK
<1> QED BY <1>3 DEF s

\* What an answer leaves to be called before the next check: a merge at most.
LEMMA AnsweredOK ==
    ASSUME NEW r, RequestOK(r), NEW ok \in BOOLEAN
    PROVE  /\ RequestOK(Answered(r, ok))
           /\ CallsLeft(Answered(r, ok)) \in {0, 2}
           /\ ~ok \/ r.kind # "sub" => CallsLeft(Answered(r, ok)) = 0
<1> USE ChatAssumption
<1>1. r \in Requests /\ r.left \in 0..MaxSubtasks BY DEF RequestOK, Requests
<1> DEFINE b == Step(r, "begin")
           m == Step(r, "merge")
<1>2. /\ b \in Requests /\ b.pc = "begin" /\ b.kind = r.kind /\ b.trusted = r.trusted
      /\ m \in Requests /\ m.pc = "merge" /\ m.kind = r.kind /\ m.trusted = r.trusted
      /\ m.tries = 0 /\ m.role = r.role /\ b.left = r.left /\ m.left = r.left
  BY <1>1, StepFields DEF ChatPcs
<1> HIDE DEF b, m
<1>3. CASE r.kind # "sub" BY <1>3, IdleRequestOK DEF Answered
<1>4. CASE r.kind = "sub" /\ ok /\ r.left > 1
  <2> DEFINE a == [b EXCEPT !.left = @ - 1, !.role = NoRole]
  <2>1. a \in Requests /\ a.pc = "begin" /\ a.kind = "sub" /\ a.role = NoRole
    BY <1>2, <1>4, NextSubtask
  <2>2. Answered(r, ok) = a BY <1>4 DEF Answered, b
  <2> HIDE DEF a
  <2> QED BY <1>4, <2>1, <2>2 DEF RequestOK, CallsLeft
<1>5. CASE r.kind = "sub" /\ ok /\ r.left = 1
  <2> DEFINE a == [m EXCEPT !.left = 0]
  <2>1. /\ a \in Requests /\ a.pc = "merge" /\ a.kind = "sub" /\ a.role = r.role
        /\ a.trusted = r.trusted /\ a.tries = 0
    BY <1>2, <1>5, NoSubtask
  <2>2. Answered(r, ok) = a BY <1>5 DEF Answered, m
  <2> HIDE DEF a
  <2>3. RequestOK(a) BY <1>5, <2>1 DEF RequestOK
  <2>4. CallsLeft(a) = 2 BY <2>1 DEF CallsLeft
  <2> QED BY <1>5, <2>2, <2>3, <2>4
<1>6. CASE r.kind = "sub" /\ ~(ok /\ r.left > 1) /\ ~(ok /\ r.left = 1)
  <2> DEFINE a == [b EXCEPT !.kind = "single", !.role = NoRole, !.left = 0]
  <2>1. a \in Requests /\ a.pc = "begin" /\ a.kind = "single" /\ a.role = NoRole
    BY <1>2, AskedAgain
  <2>2. Answered(r, ok) = a BY <1>6 DEF Answered, b
  <2> HIDE DEF a
  <2> QED BY <2>1, <2>2 DEF RequestOK, CallsLeft
<1> QED BY <1>3, <1>4, <1>5, <1>6

-----------------------------------------------------------------------------
(* Counting the calls that are still to come. *)

Seats == ChatThreads \X (1..CallsPerCheck)

LEMMA SeatsOf ==
    ASSUME NEW S \in SUBSET ChatThreads
    PROVE  /\ IsFiniteSet(S) /\ IsFiniteSet(S \X (1..CallsPerCheck)) /\ Cardinality(S) \in Nat
           /\ Cardinality(S \X (1..CallsPerCheck)) = Cardinality(S) * CallsPerCheck
<1> DEFINE n == CallsPerCheck
<1>1. n \in Nat BY CallsPerCheckNat
<1> HIDE DEF n
<1>2. IsFiniteSet(S) BY FS_Subset, ChatAssumption
<1>3. IsFiniteSet(1..n) /\ Cardinality(1..n) = n BY <1>1, FS_Interval
<1>4. IsFiniteSet(S \X (1..n)) /\ Cardinality(S \X (1..n)) = Cardinality(S) * n
  BY <1>2, <1>3, FS_Product
<1> QED BY <1>2, <1>4, FS_CardinalityType DEF n

LEMMA OutstandingFinite == IsFiniteSet(Outstanding) /\ Cardinality(Outstanding) \in Nat
<1>1. IsFiniteSet(Seats) BY SeatsOf DEF Seats
<1>2. Outstanding \subseteq Seats BY DEF Outstanding, Seats
<1> QED BY <1>1, <1>2, FS_Subset, FS_CardinalityType

\* What one thread's next state does to what is outstanding.
LEMMA OutstandingMoves ==
    ASSUME NEW t \in ChatThreads, NEW r,
           request \in [ChatThreads -> Requests], request' = [request EXCEPT ![t] = r],
           CallsLeft(request[t]) \in 0..CallsPerCheck, CallsLeft(r) \in 0..CallsPerCheck
    PROVE  /\ IsFiniteSet(Outstanding') /\ Cardinality(Outstanding') \in Nat
           /\ CallsLeft(r) <= CallsLeft(request[t]) => Cardinality(Outstanding') <= Cardinality(Outstanding)
           /\ CallsLeft(r) < CallsLeft(request[t]) => Cardinality(Outstanding') + 1 <= Cardinality(Outstanding)
           /\ Cardinality(Outstanding') <= Cardinality(Outstanding) + CallsPerCheck
<1> DEFINE O == Outstanding
           P == Outstanding'
           n == CallsPerCheck
           a == CallsLeft(request[t])
           b == CallsLeft(r)
           T == {t} \X (1..n)
<1>1. n \in Nat /\ a \in 0..n /\ b \in 0..n BY CallsPerCheckNat
<1>2. /\ O \subseteq Seats /\ P \subseteq Seats
      /\ \A i \in 1..n : /\ <<t, i>> \in O <=> i <= a
                         /\ <<t, i>> \in P <=> i <= b
      /\ \A u \in ChatThreads \ {t} : \A i \in 1..n : <<u, i>> \in O <=> <<u, i>> \in P
  BY DEF Outstanding, Seats, CallsPerCheck
<1>3. IsFiniteSet(Seats) BY SeatsOf DEF Seats
<1> HIDE DEF O, P, n, a, b
<1>4. Seats = ChatThreads \X (1..n) BY DEF Seats, n
<1>5. IsFiniteSet(O) /\ IsFiniteSet(P) /\ Cardinality(O) \in Nat /\ Cardinality(P) \in Nat
  BY <1>2, <1>3, FS_Subset, FS_CardinalityType
<1>6. ASSUME b <= a PROVE P \subseteq O
  <2> SUFFICES ASSUME NEW x \in P PROVE x \in O OBVIOUS
  <2>1. PICK u \in ChatThreads, i \in 1..n : x = <<u, i>> BY <1>2, <1>4
  <2> QED BY <1>1, <1>2, <1>6, <2>1
<1>7. b <= a => Cardinality(P) <= Cardinality(O) BY <1>5, <1>6, FS_Subset
<1>8. ASSUME b < a PROVE Cardinality(P) + 1 <= Cardinality(O)
  <2>1. a \in 1..n /\ <<t, a>> \in O /\ <<t, a>> \notin P BY <1>1, <1>2, <1>8
  <2>2. P \subseteq O \ {<<t, a>>} BY <1>1, <1>6, <1>8, <2>1
  <2>3. IsFiniteSet(O \ {<<t, a>>}) /\ Cardinality(O \ {<<t, a>>}) = Cardinality(O) - 1
    BY <1>5, <2>1, FS_RemoveElement
  <2>4. Cardinality(P) <= Cardinality(O) - 1 BY <2>2, <2>3, FS_Subset
  <2> QED BY <1>5, <2>4
<1>9. Cardinality(P) <= Cardinality(O) + n
  <2>1. IsFiniteSet(T) /\ Cardinality(T) = n
    <3>1. IsFiniteSet({t}) /\ Cardinality({t}) = 1 BY FS_Singleton
    <3>2. Cardinality(T) = Cardinality({t}) * n /\ IsFiniteSet(T) BY SeatsOf DEF n
    <3> QED BY <1>1, <3>1, <3>2
  <2>2. P \subseteq O \cup T
    <3> SUFFICES ASSUME NEW x \in P PROVE x \in O \cup T OBVIOUS
    <3>1. PICK u \in ChatThreads, i \in 1..n : x = <<u, i>> BY <1>2, <1>4
    <3> QED BY <1>2, <3>1
  <2>3. IsFiniteSet(O \cup T) /\ Cardinality(O \cup T) = Cardinality(O) + Cardinality(T) - Cardinality(O \cap T)
    BY <1>5, <2>1, FS_Union
  <2>4. Cardinality(O \cap T) \in Nat
    <3>1. IsFiniteSet(O \cap T) BY <1>5, FS_Subset
    <3> QED BY <3>1, FS_CardinalityType
  <2>5. Cardinality(P) <= Cardinality(O \cup T) BY <2>2, <2>3, FS_Subset
  <2> QED BY <1>1, <1>5, <2>1, <2>3, <2>4, <2>5
<1> QED BY <1>5, <1>7, <1>8, <1>9 DEF O, P, n, a, b

LEMMA Times ==
    ASSUME NEW n \in Nat, NEW m \in Nat
    PROVE  n * m \in Nat /\ n * (m + 1) = n * m + n /\ m * n = n * m
OBVIOUS

\* Whatever a step does to one request alone.
LEMMA RequestMoves ==
    ASSUME ChatInv, NEW t \in ChatThreads, NEW r, RequestOK(r), request' = [request EXCEPT ![t] = r]
    PROVE  /\ request' \in [ChatThreads -> Requests]
           /\ \A u \in ChatThreads : RequestOK(request'[u])
           /\ CallsLeft(request[t]) \in 0..CallsPerCheck /\ CallsLeft(r) \in 0..CallsPerCheck
           /\ request'[t] = r /\ \A u \in ChatThreads \ {t} : request'[u] = request[u]
<1>1. r \in Requests BY DEF RequestOK
<1>2. request' \in [ChatThreads -> Requests] BY <1>1 DEF ChatInv
<1>3. request'[t] = r /\ \A u \in ChatThreads \ {t} : request'[u] = request[u] BY DEF ChatInv
<1>4. \A u \in ChatThreads : RequestOK(request'[u]) BY <1>3 DEF ChatInv
<1>5. CallsLeft(request[t]) \in 0..CallsPerCheck /\ CallsLeft(r) \in 0..CallsPerCheck
  BY CallsLeftNat DEF ChatInv
<1> QED BY <1>2, <1>3, <1>4, <1>5

\* A step without a call that counts.
LEMMA ProceedKeeps ==
    ASSUME ChatInv, NEW t \in ChatThreads, NEW r, RequestOK(r), Proceed(t, r),
           usedGlobal < GlobalCap \/ CallsLeft(r) <= CallsLeft(request[t])
    PROVE  ChatInv'
<1>1. /\ request' = [request EXCEPT ![t] = r]
      /\ UNCHANGED <<usedGlobal, usedBy, over, underWay, chats, ledgerFaults>>
  BY DEF Proceed
<1>2. request' \in [ChatThreads -> Requests] /\ \A u \in ChatThreads : RequestOK(request'[u])
  BY <1>1, RequestMoves
<1>3. CapOK'
  <2>1. /\ Cardinality(Outstanding) \in Nat /\ Cardinality(Outstanding') \in Nat
        /\ CallsLeft(r) <= CallsLeft(request[t]) => Cardinality(Outstanding') <= Cardinality(Outstanding)
    BY <1>1, RequestMoves, OutstandingMoves, OutstandingFinite DEF ChatInv
  <2>2. CallsPerCheck * (underWay + ledgerFaults) \in Nat /\ CallsPerCheck' = CallsPerCheck
    BY Times, CallsPerCheckNat DEF ChatInv, CallsPerCheck
  <2>3. usedGlobal \in 0..GlobalCap /\ GlobalCap \in Nat /\ over \in Nat BY ChatAssumption DEF ChatInv
  <2> QED BY <1>1, <2>1, <2>2, <2>3 DEF ChatInv, CapOK
<1> QED BY <1>1, <1>2, <1>3 DEF ChatInv

\* A check of the budget that fails open, or a call whose row is lost.
LEMMA FaultKeeps ==
    ASSUME ChatInv, NEW t \in ChatThreads, NEW r, RequestOK(r),
           request' = [request EXCEPT ![t] = r], ledgerFaults' = ledgerFaults + 1,
           UNCHANGED <<usedGlobal, usedBy, over, underWay>>
    PROVE  ChatInv'
<1>1. request' \in [ChatThreads -> Requests] /\ \A u \in ChatThreads : RequestOK(request'[u])
  BY RequestMoves
<1>2. CapOK'
  <2> DEFINE n == CallsPerCheck
             m == underWay + ledgerFaults
             o == Cardinality(Outstanding)
             p == Cardinality(Outstanding')
  <2>1. o \in Nat /\ p \in Nat /\ p <= o + n
    BY RequestMoves, OutstandingMoves, OutstandingFinite DEF ChatInv
  <2>2. n \in Nat /\ m \in Nat BY CallsPerCheckNat DEF ChatInv
  <2>3. n * m \in Nat /\ n * (m + 1) = n * m + n BY <2>2, Times
  <2>4. underWay' + ledgerFaults' = m + 1 BY DEF ChatInv
  <2>5. CallsPerCheck' = n BY DEF CallsPerCheck
  <2>6. over \in Nat /\ (usedGlobal = GlobalCap => over + o <= n * m) BY DEF ChatInv, CapOK
  <2> HIDE DEF n, m, o, p
  <2>7. usedGlobal = GlobalCap => over + p <= n * (m + 1) BY <2>1, <2>2, <2>3, <2>6
  <2> QED BY <2>4, <2>5, <2>7 DEF p, ChatInv, CapOK
<1> QED BY <1>1, <1>2 DEF ChatInv

\* A call that is written to the ledger.  When it is the one that reaches
\* the cap, every request under way may still make its calls.
LEMMA WrittenKeeps ==
    ASSUME ChatInv, NEW t \in ChatThreads, NEW r, RequestOK(r),
           CallsLeft(r) < CallsLeft(request[t]), NEW c,
           request' = [request EXCEPT ![t] = r], ledgerFaults' = ledgerFaults,
           usedGlobal' = UpTo(usedGlobal + 1, GlobalCap),
           usedBy' = [x \in Roles |-> IF x = c THEN UpTo(usedBy[x] + 1, RoleCap) ELSE usedBy[x]],
           over' = (IF usedGlobal = GlobalCap THEN over + 1 ELSE over),
           underWay' = (IF usedGlobal = GlobalCap THEN underWay
                        ELSE Cardinality({x \in ChatThreads : request[x].pc # "idle"}))
    PROVE  ChatInv'
<1> DEFINE n == CallsPerCheck
           o == Cardinality(Outstanding)
           p == Cardinality(Outstanding')
           B == {x \in ChatThreads : request[x].pc # "idle"}
<1>1. request' \in [ChatThreads -> Requests] /\ \A u \in ChatThreads : RequestOK(request'[u])
  BY RequestMoves
<1>2. o \in Nat /\ p \in Nat /\ p + 1 <= o
  BY RequestMoves, OutstandingMoves, OutstandingFinite DEF ChatInv
<1>3. /\ usedGlobal \in 0..GlobalCap /\ GlobalCap \in Nat \ {0} /\ RoleCap \in Nat \ {0}
      /\ usedBy \in [Roles -> 0..RoleCap] /\ over \in Nat /\ underWay \in Nat /\ ledgerFaults \in Nat
  BY ChatAssumption DEF ChatInv
<1>4. usedGlobal' \in 0..GlobalCap /\ usedBy' \in [Roles -> 0..RoleCap] /\ over' \in Nat
  BY <1>3 DEF UpTo
<1>5. n \in Nat /\ CallsPerCheck' = n BY CallsPerCheckNat DEF CallsPerCheck
<1>6. Cardinality(B) \in Nat /\ underWay' \in Nat BY <1>3, SeatsOf
<1>7. CASE usedGlobal = GlobalCap
  <2>1. usedGlobal' = GlobalCap /\ underWay' = underWay /\ over' = over + 1 BY <1>3, <1>7 DEF UpTo
  <2>2. over + o <= n * (underWay + ledgerFaults) BY <1>7 DEF ChatInv, CapOK
  <2>3. n * (underWay + ledgerFaults) \in Nat BY <1>3, <1>5, Times
  <2> HIDE DEF n, o, p
  <2>4. over' + p <= n * (underWay' + ledgerFaults') BY <1>2, <1>3, <2>1, <2>2, <2>3
  <2>5. CapOK' BY <1>3, <1>5, <2>1, <2>4 DEF CapOK, p
  <2> QED BY <1>1, <1>3, <1>4, <1>6, <2>5 DEF ChatInv
<1>8. CASE usedGlobal < GlobalCap
  <2>1. over' = 0 /\ underWay' = Cardinality(B) BY <1>3, <1>8 DEF ChatInv, CapOK
  <2>2. Outstanding' \subseteq B \X (1..n)
    <3> SUFFICES ASSUME NEW x \in Outstanding' PROVE x \in B \X (1..n) OBVIOUS
    <3>1. PICK u \in ChatThreads, i \in 1..n : x = <<u, i>> /\ i <= CallsLeft(request'[u])
      BY <1>5 DEF Outstanding, CallsPerCheck
    <3>2. CallsLeft(request[u]) >= i
      <4>1. /\ request'[t] = r /\ \A v \in ChatThreads \ {t} : request'[v] = request[v]
            /\ CallsLeft(request[t]) \in 0..CallsPerCheck /\ CallsLeft(r) \in 0..CallsPerCheck
        BY RequestMoves
      <4>2. CASE u = t
        <5>1. i <= CallsLeft(r) BY <3>1, <4>1, <4>2
        <5>2. CallsLeft(request[t]) \in Int /\ CallsLeft(r) \in Int /\ i \in Int
          BY <1>5, <3>1, <4>1
        <5> QED BY <4>2, <5>1, <5>2
      <4>3. CASE u # t
        <5>1. i <= CallsLeft(request[u]) BY <3>1, <4>1, <4>3
        <5>2. CallsLeft(request[u]) \in Int BY CallsLeftNat DEF ChatInv
        <5> QED BY <4>1, <5>1, <5>2
      <4> QED BY <4>2, <4>3
    <3>3. request[u].pc # "idle" BY <3>1, <3>2 DEF CallsLeft
    <3> QED BY <3>1, <3>3
  <2>3. p <= Cardinality(B) * n
    <3>1. IsFiniteSet(B \X (1..n)) /\ Cardinality(B \X (1..n)) = Cardinality(B) * n BY SeatsOf
    <3> QED BY <2>2, <3>1, FS_Subset
  <2> DEFINE k == Cardinality(B)
  <2>4. k \in Nat BY <1>6
  <2> HIDE DEF n, o, p, B, k
  <2>5. k * n <= n * (k + ledgerFaults) BY <1>3, <1>5, <2>4
  <2>6. over' + p <= n * (underWay' + ledgerFaults')
    <3>1. p <= k * n /\ underWay' = k BY <2>1, <2>3 DEF k
    <3>2. k * n \in Nat /\ n * (k + ledgerFaults) \in Nat BY <1>3, <1>5, <2>4, Times
    <3> QED BY <1>2, <2>1, <2>5, <3>1, <3>2
  <2>7. CapOK' BY <1>5, <2>1, <2>6 DEF CapOK, p
  <2> QED BY <1>1, <1>3, <1>4, <1>6, <2>7 DEF ChatInv
<1> QED BY <1>3, <1>7, <1>8

LEMMA CalledKeeps ==
    ASSUME ChatInv, NEW t \in ChatThreads, NEW r, RequestOK(r),
           CallsLeft(r) < CallsLeft(request[t]), Called(t, r)
    PROVE  ChatInv'
<1> DEFINE c == request[t].charge
<1>1. CASE /\ usedGlobal' = UpTo(usedGlobal + 1, GlobalCap)
           /\ usedBy' = [x \in Roles |-> IF x = c THEN UpTo(usedBy[x] + 1, RoleCap) ELSE usedBy[x]]
           /\ over' = IF usedGlobal = GlobalCap THEN over + 1 ELSE over
           /\ underWay' = IF usedGlobal = GlobalCap THEN underWay
                          ELSE Cardinality({x \in ChatThreads : request[x].pc # "idle"})
           /\ UNCHANGED ledgerFaults
  <2>1. request' = [request EXCEPT ![t] = r] BY DEF Called
  <2> QED BY <1>1, <2>1, WrittenKeeps
<1>2. CASE /\ ledgerFaults' = ledgerFaults + 1
           /\ UNCHANGED <<usedGlobal, usedBy, over, underWay>>
  BY <1>2, FaultKeeps DEF Called
<1> QED BY <1>1, <1>2 DEF Called

LEMMA CheckKeeps ==
    ASSUME ChatInv, NEW t \in ChatThreads, NEW role, NEW pass, NEW stop,
           RequestOK(pass), RequestOK(stop), CallsLeft(stop) = 0, Check(t, role, pass, stop)
    PROVE  ChatInv'
<1>1. CASE Proceed(t, IF Blocked(role) THEN stop ELSE pass)
  <2>1. CallsLeft(stop) <= CallsLeft(request[t]) BY CallsLeftNat, CallsPerCheckNat DEF ChatInv
  <2>2. Blocked(role) \/ usedGlobal < GlobalCap BY ChatAssumption DEF Blocked, ChatInv
  <2> QED BY <1>1, <2>1, <2>2, ProceedKeeps
<1>2. CASE /\ ledgerFaults' = ledgerFaults + 1
           /\ request' = [request EXCEPT ![t] = pass]
           /\ UNCHANGED <<usedGlobal, usedBy, over, underWay, chats>>
  BY <1>2, FaultKeeps
<1> QED BY <1>1, <1>2 DEF Check

\* An empty reply is asked for again once.
LEMMA AskedTwice ==
    ASSUME NEW r, RequestOK(r), r.tries = 0,
           r.pc \in {"split", "route", "judge", "ground", "merge", "generate"}
    PROVE  LET s == [r EXCEPT !.tries = 1] IN RequestOK(s) /\ CallsLeft(s) < CallsLeft(r)
<1> DEFINE s == [r EXCEPT !.tries = 1]
<1>1. r \in Requests BY DEF RequestOK
<1>2. s \in Requests /\ s.tries = 1 BY <1>1 DEF Requests
<1>3. s.pc = r.pc /\ s.kind = r.kind /\ s.role = r.role /\ s.trusted = r.trusted BY <1>1 DEF Requests
<1> HIDE DEF s
<1>4. RequestOK(s) BY <1>2, <1>3 DEF RequestOK
<1>5. CallsLeft(s) < CallsLeft(r)
  <2>1. 3 * ChatChain \in Int BY ChatAssumption
  <2>2. CASE r.pc \in {"split", "route", "merge"} BY <2>2, <1>2, <1>3 DEF CallsLeft
  <2>3. CASE r.pc \in {"judge", "generate"} BY <2>1, <2>3, <1>2, <1>3 DEF CallsLeft
  <2>4. CASE r.pc = "ground" BY <2>1, <2>4, <1>2, <1>3 DEF CallsLeft
  <2> QED BY <2>2, <2>3, <2>4
<1> QED BY <1>4, <1>5 DEF s

LEMMA AskTwiceKeeps ==
    ASSUME ChatInv, NEW t \in ChatThreads, NEW answer, NEW without,
           request[t].pc \in {"split", "route", "judge", "ground", "merge"},
           RequestOK(answer), RequestOK(without), CallsLeft(answer) < CallsLeft(request[t]),
           CallsLeft(without) < CallsLeft(request[t]), AskTwice(t, answer, without)
    PROVE  ChatInv'
<1> DEFINE r == request[t]
<1>1. RequestOK(r) BY DEF ChatInv
<1>2. CallsLeft(without) \in Int /\ CallsLeft(r) \in Int BY <1>1, CallsLeftNat
<1>3. CASE Called(t, answer) BY <1>3, CalledKeeps
<1>4. CASE r.tries = 0 /\ Called(t, [r EXCEPT !.tries = 1])
  BY <1>1, <1>4, AskedTwice, CalledKeeps
<1>5. CASE Called(t, without) BY <1>5, CalledKeeps
<1>6. CASE Proceed(t, without) BY <1>2, <1>6, ProceedKeeps
<1> QED BY <1>3, <1>4, <1>5, <1>6 DEF AskTwice

-----------------------------------------------------------------------------
(* The steps of a request. *)

LEMMA AskKeeps == ASSUME ChatInv, NEW t \in ChatThreads, Ask_(t) \/ AskStream(t) PROVE ChatInv'
<1>1. PICK kind \in {"role", "auto", "team", "stream"}, role \in Roles \cup {NoRole}, tr \in BOOLEAN :
        /\ kind \in {"auto", "team"} => role = NoRole
        /\ Arrives(t, kind, role, tr)
  BY DEF Ask_, AskStream
<1> DEFINE r == [IdleRequest EXCEPT !.pc = "begin", !.kind = kind, !.role = role, !.trusted = tr]
<1>2. r \in Requests /\ r.pc = "begin" /\ r.kind = kind /\ r.role = role
  <2>1. \A q \in Requests :
          LET s == [q EXCEPT !.pc = "begin", !.kind = kind, !.role = role, !.trusted = tr] IN
          s \in Requests /\ s.pc = "begin" /\ s.kind = kind /\ s.role = role
    <3>1. "begin" \in ChatPcs BY DEF ChatPcs
    <3> QED BY <3>1 DEF Requests
  <2>2. IdleRequest \in Requests BY IdleRequestOK DEF RequestOK
  <2> QED BY <2>1, <2>2
<1>3. request' = [request EXCEPT ![t] = r] BY <1>1 DEF Arrives
<1> HIDE DEF r
<1>4. RequestOK(r) BY <1>1, <1>2 DEF RequestOK
<1>5. CallsLeft(r) = 0 BY <1>2 DEF CallsLeft
<1>6. UNCHANGED <<usedGlobal, usedBy, over, underWay, ledgerFaults>> BY <1>1 DEF Arrives
<1>7. request' \in [ChatThreads -> Requests] /\ \A u \in ChatThreads : RequestOK(request'[u])
  BY <1>3, <1>4, RequestMoves
<1>8. CapOK'
  <2>1. /\ Cardinality(Outstanding) \in Nat /\ Cardinality(Outstanding') \in Nat
        /\ CallsLeft(request[t]) \in 0..CallsPerCheck
        /\ CallsLeft(r) <= CallsLeft(request[t]) => Cardinality(Outstanding') <= Cardinality(Outstanding)
    BY <1>3, <1>4, RequestMoves, OutstandingMoves, OutstandingFinite DEF ChatInv
  <2>2. CallsPerCheck * (underWay + ledgerFaults) \in Nat /\ CallsPerCheck' = CallsPerCheck
    BY Times, CallsPerCheckNat DEF ChatInv, CallsPerCheck
  <2>3. usedGlobal \in 0..GlobalCap /\ GlobalCap \in Nat /\ over \in Nat BY ChatAssumption DEF ChatInv
  <2>4. CallsLeft(r) <= CallsLeft(request[t]) BY <1>5, <2>1, CallsPerCheckNat
  <2> QED BY <1>6, <2>1, <2>2, <2>3, <2>4 DEF ChatInv, CapOK
<1> QED BY <1>6, <1>7, <1>8 DEF ChatInv

\* The charge of a request is what its calls are written to, and nothing else.
LEMMA ChargeOK ==
    ASSUME NEW r, RequestOK(r), NEW c \in Roles \cup {NoRole}
    PROVE  LET s == [r EXCEPT !.charge = c] IN
           RequestOK(s) /\ CallsLeft(s) = CallsLeft(r) /\ s.role = r.role /\ s.kind = r.kind /\ s.pc = r.pc
<1> DEFINE s == [r EXCEPT !.charge = c]
<1>1. r \in Requests BY DEF RequestOK
<1>2. s \in Requests BY <1>1 DEF Requests
<1>3. /\ s.pc = r.pc /\ s.kind = r.kind /\ s.role = r.role /\ s.trusted = r.trusted /\ s.tries = r.tries
      /\ s.good = r.good /\ s.provider = r.provider
  BY <1>1 DEF Requests
<1> HIDE DEF s
<1>4. RequestOK(s) BY <1>2, <1>3 DEF RequestOK
<1>5. CallsLeft(s) = CallsLeft(r) BY <1>3 DEF CallsLeft
<1> QED BY <1>3, <1>4, <1>5 DEF s

LEMMA BeginKeeps == ASSUME ChatInv, NEW t \in ChatThreads, BeginTask(t) PROVE ChatInv'
<1> DEFINE r == [request[t] EXCEPT !.charge = request[t].role]
           pc == CASE r.kind = "team" -> "split"
                   [] r.kind \in {"auto", "sub", "single"} -> "route"
                   [] OTHER -> "embed"
<1>1. RequestOK(request[t]) /\ request[t].role \in Roles \cup {NoRole}
  BY DEF ChatInv, RequestOK, Requests
<1>2. RequestOK(r) BY <1>1, ChargeOK
<1>3. Check(t, r.role, Step(r, pc), Answered(r, FALSE)) BY DEF BeginTask
<1>4. pc \in {"split", "route", "embed"} /\ (pc = "split" <=> r.kind = "team") OBVIOUS
<1> HIDE DEF r, pc
<1>5. RequestOK(Step(r, pc)) BY <1>2, <1>4, StepOK DEF ChatPcs
<1>6. RequestOK(Answered(r, FALSE)) /\ CallsLeft(Answered(r, FALSE)) = 0 BY <1>2, AnsweredOK
<1> QED BY <1>3, <1>5, <1>6, CheckKeeps

LEMMA CheckRoleKeeps == ASSUME ChatInv, NEW t \in ChatThreads, CheckRole(t) PROVE ChatInv'
<1> DEFINE r == request[t]
<1>1. RequestOK(r) /\ r.kind # "team" BY DEF ChatInv, CheckRole, Doing, RequestOK
<1>2. Check(t, r.role, Step(r, "embed"), Answered(r, FALSE)) BY DEF CheckRole
<1> HIDE DEF r
<1>3. RequestOK(Step(r, "embed")) BY <1>1, StepOK DEF ChatPcs
<1>4. RequestOK(Answered(r, FALSE)) /\ CallsLeft(Answered(r, FALSE)) = 0 BY <1>1, AnsweredOK
<1> QED BY <1>2, <1>3, <1>4, CheckKeeps

LEMMA SplitKeeps == ASSUME ChatInv, NEW t \in ChatThreads, SplitTask(t) PROVE ChatInv'
<1> DEFINE r == request[t]
           b == Step(r, "begin")
<1>1. RequestOK(r) /\ r.pc = "split" BY DEF ChatInv, SplitTask, Doing
<1>2. PICK n \in 0..MaxSubtasks :
        AskTwice(t, [b EXCEPT !.kind = IF n < 2 THEN "single" ELSE "sub",
                              !.left = IF n < 2 THEN 0 ELSE n],
                    [b EXCEPT !.kind = "single"])
  BY DEF SplitTask
<1>3. PICK k \in {"single", "sub"} : k = IF n < 2 THEN "single" ELSE "sub" OBVIOUS
<1>4. PICK l \in 0..MaxSubtasks : l = IF n < 2 THEN 0 ELSE n BY ChatAssumption
<1>5. b \in Requests /\ b.pc = "begin" /\ b.role = NoRole
  BY <1>1, StepFields DEF RequestOK, ChatPcs
<1> HIDE DEF b
<1> DEFINE x == [b EXCEPT !.kind = k, !.left = l]
           y == [b EXCEPT !.kind = "single"]
<1>6. /\ x \in Requests /\ x.pc = "begin" /\ x.role = NoRole /\ x.kind = k
      /\ y \in Requests /\ y.pc = "begin" /\ y.role = NoRole /\ y.kind = "single"
  BY <1>5 DEF Requests
<1>7. AskTwice(t, x, y) BY <1>2, <1>3, <1>4
<1> HIDE DEF x, y
<1>8. RequestOK(x) /\ RequestOK(y) /\ CallsLeft(x) = 0 /\ CallsLeft(y) = 0
  BY <1>6 DEF RequestOK, CallsLeft
<1>9. CallsLeft(r) > 0
  <2>1. r.tries \in {0, 1} BY <1>1 DEF RequestOK
  <2> QED BY <1>1, <2>1 DEF CallsLeft
<1> QED BY <1>1, <1>7, <1>8, <1>9, AskTwiceKeeps

\* A request that has been given an allowed role goes on to that role's check.
LEMMA RoutedOK ==
    ASSUME NEW r, RequestOK(r), r.kind # "team", NEW x \in Roles, r.trusted \/ x \in SafeRoles
    PROVE  LET s == [Step(r, "routed") EXCEPT !.role = x, !.charge = x] IN
           RequestOK(s) /\ CallsLeft(s) = 0
<1> DEFINE q == Step(r, "routed")
           s == [q EXCEPT !.role = x, !.charge = x]
<1>1. q \in Requests /\ q.pc = "routed" /\ q.kind = r.kind /\ q.trusted = r.trusted
  BY StepFields DEF RequestOK, ChatPcs
<1> HIDE DEF q
<1>2. s \in Requests /\ s.pc = "routed" /\ s.kind = r.kind /\ s.trusted = r.trusted /\ s.role = x
  BY <1>1 DEF Requests
<1> HIDE DEF s
<1>3. RequestOK(s) /\ CallsLeft(s) = 0 BY <1>2 DEF RequestOK, CallsLeft
<1> QED BY <1>3 DEF s, q

LEMMA RouteKeeps == ASSUME ChatInv, NEW t \in ChatThreads, RouteTask(t) PROVE ChatInv'
<1> DEFINE r == request[t]
           Routed(x) == [Step(r, "routed") EXCEPT !.role = x, !.charge = x]
           Otherwise(allowed) == {x \in SafeRoles : allowed = {} \/ x \in allowed} \cup {DefaultRole}
<1>1. RequestOK(r) /\ r.pc = "route" BY DEF ChatInv, RouteTask, Doing
<1>2. PICK active \in SUBSET Roles :
        LET allowed == AllowedRoles(r.trusted, active) IN
        \E other \in Otherwise(allowed) :
            \/ /\ allowed # {}
               /\ \E pick \in allowed \cup {other} : AskTwice(t, Routed(pick), Routed(other))
            \/ allowed = {} /\ Proceed(t, Routed(other))
  BY DEF RouteTask, ActiveRoles
<1> DEFINE allowed == AllowedRoles(r.trusted, active)
<1>3. allowed \subseteq Roles /\ (r.trusted \/ allowed \subseteq SafeRoles) BY DEF AllowedRoles
<1>4. PICK other \in Otherwise(allowed) :
        \/ /\ allowed # {}
           /\ \E pick \in allowed \cup {other} : AskTwice(t, Routed(pick), Routed(other))
        \/ allowed = {} /\ Proceed(t, Routed(other))
  BY <1>2
<1>5. other \in SafeRoles BY ChatAssumption
<1> HIDE DEF allowed, Routed
<1>6. ASSUME NEW x \in allowed \cup {other} PROVE RequestOK(Routed(x)) /\ CallsLeft(Routed(x)) = 0
  <2>1. x \in Roles /\ (r.trusted \/ x \in SafeRoles) BY <1>3, <1>5, ChatAssumption
  <2>2. r.kind # "team" BY <1>1 DEF RequestOK
  <2> QED BY <1>1, <2>1, <2>2, RoutedOK DEF Routed
<1>7. CallsLeft(r) > 0
  <2>1. r.tries \in {0, 1} BY <1>1 DEF RequestOK
  <2> QED BY <1>1, <2>1 DEF CallsLeft
<1>8. CallsLeft(r) \in Int BY <1>1, CallsLeftNat
<1>9. CASE \E pick \in allowed \cup {other} : AskTwice(t, Routed(pick), Routed(other))
  <2>1. PICK pick \in allowed \cup {other} : AskTwice(t, Routed(pick), Routed(other)) BY <1>9
  <2> QED BY <1>1, <1>6, <1>7, <2>1, AskTwiceKeeps
<1>10. CASE Proceed(t, Routed(other))
  <2>1. CallsLeft(Routed(other)) <= CallsLeft(r) BY <1>6, <1>7, <1>8
  <2> QED BY <1>6, <1>10, <2>1, ProceedKeeps
<1> QED BY <1>4, <1>9, <1>10

\* The calls left once a request has taken a step to one of these.
LEMMA LeftAfterStep ==
    ASSUME NEW r, RequestOK(r)
    PROVE  /\ CallsLeft(Step(r, "stream")) = 1
           /\ CallsLeft(Step(r, "tree")) = TotPaths + 4 + 3 * ChatChain
           /\ CallsLeft(Step(r, "judge")) = 4 + 3 * ChatChain
           /\ CallsLeft(Step(r, "generate")) = 4 + 3 * ChatChain
           /\ CallsLeft(Step(r, "ground")) = 2 + 3 * ChatChain
           /\ CallsLeft(Step(r, "act")) = 3 * ChatChain
           /\ CallsLeft(Step(r, "gate")) = 0
<1>1. /\ ChatChain \in Nat /\ TotPaths \in Nat /\ 3 * ChatChain \in Nat
      /\ 3 * (ChatChain - 1) = 3 * ChatChain - 3
  BY ChatAssumption
<1>2. r \in Requests BY DEF RequestOK
<1>3. \A pc \in ChatPcs : /\ Step(r, pc).pc = pc /\ Step(r, pc).tries = 0
                          /\ Step(r, pc).good = 0 /\ Step(r, pc).provider = 1
  BY <1>2, StepFields
<1>4. {"stream", "tree", "judge", "generate", "ground", "act", "gate"} \subseteq ChatPcs BY DEF ChatPcs
<1>5. CallsLeft(Step(r, "stream")) = 1 BY <1>3, <1>4 DEF CallsLeft
<1>6. CallsLeft(Step(r, "tree")) = TotPaths + 4 + 3 * ChatChain BY <1>1, <1>3, <1>4 DEF CallsLeft
<1>7. CallsLeft(Step(r, "judge")) = 4 + 3 * ChatChain BY <1>1, <1>3, <1>4 DEF CallsLeft
<1>8. CallsLeft(Step(r, "generate")) = 4 + 3 * ChatChain BY <1>1, <1>3, <1>4 DEF CallsLeft
<1>9. CallsLeft(Step(r, "ground")) = 2 + 3 * ChatChain BY <1>1, <1>3, <1>4 DEF CallsLeft
<1>10. CallsLeft(Step(r, "act")) = 3 * ChatChain BY <1>1, <1>3, <1>4 DEF CallsLeft
<1>11. CallsLeft(Step(r, "gate")) = 0 BY <1>3, <1>4 DEF CallsLeft
<1> QED BY <1>5, <1>6, <1>7, <1>8, <1>9, <1>10, <1>11

LEMMA PrepareKeeps == ASSUME ChatInv, NEW t \in ChatThreads, Prepare(t) PROVE ChatInv'
<1> DEFINE r == request[t]
<1>1. RequestOK(r) /\ r.pc = "embed" BY DEF ChatInv, Prepare, Doing
<1>2. CallsLeft(r) = TotPaths + 4 + 3 * ChatChain BY <1>1 DEF CallsLeft, CallsPerCheck
<1>3. TotPaths \in Nat /\ 3 * ChatChain \in Nat BY ChatAssumption
<1>4. CASE Proceed(t, Answered(r, FALSE))
  <2>1. RequestOK(Answered(r, FALSE)) /\ CallsLeft(Answered(r, FALSE)) = 0 BY <1>1, AnsweredOK
  <2>2. 0 <= CallsLeft(r) BY <1>2, <1>3
  <2>3. CallsLeft(Answered(r, FALSE)) <= CallsLeft(r) BY <2>1, <2>2
  <2> QED BY <1>4, <2>1, <2>3, ProceedKeeps
<1>5. ASSUME NEW pc \in {"stream", "tree", "generate"}, Proceed(t, Step(r, pc)) PROVE ChatInv'
  <2>1. RequestOK(Step(r, pc)) BY <1>1, StepOK DEF ChatPcs, RequestOK
  <2>2. CallsLeft(Step(r, pc)) <= CallsLeft(r) BY <1>1, <1>2, <1>3, LeftAfterStep
  <2> QED BY <1>5, <2>1, <2>2, ProceedKeeps
<1>6. \/ Proceed(t, Answered(r, FALSE))
      \/ \E pc \in {"stream", "tree", "generate"} : Proceed(t, Step(r, pc))
  BY DEF Prepare
<1> QED BY <1>4, <1>5, <1>6

LEMMA TreeKeeps == ASSUME ChatInv, NEW t \in ChatThreads, TreeOfThought(t) PROVE ChatInv'
<1> DEFINE r == request[t]
           Next_(n) == IF r.tries + 1 < TotPaths THEN [r EXCEPT !.tries = @ + 1, !.good = @ + n]
                       ELSE Step(r, IF r.good + n >= 2 THEN "judge" ELSE "generate")
<1>1. RequestOK(r) /\ r.pc = "tree" BY DEF ChatInv, TreeOfThought, Doing
<1>2. r \in Requests /\ r.tries \in Nat /\ r.tries < TotPaths /\ r.good \in Nat
  BY <1>1 DEF RequestOK, Requests
<1>3. TotPaths \in Nat /\ 3 * ChatChain \in Nat BY ChatAssumption
<1>4. CallsLeft(r) = TotPaths - r.tries + 4 + 3 * ChatChain BY <1>1 DEF CallsLeft
<1>5. \E n \in {0, 1} : Called(t, Next_(n)) \/ Proceed(t, Next_(n)) BY DEF TreeOfThought
<1>6. ASSUME NEW n \in {0, 1} PROVE RequestOK(Next_(n)) /\ CallsLeft(Next_(n)) < CallsLeft(r)
  <2>1. CASE r.tries + 1 < TotPaths
    <3> DEFINE s == [r EXCEPT !.tries = @ + 1, !.good = @ + n]
    <3>1. r.tries + 1 \in Nat /\ r.good + n \in Nat BY <1>2
    <3>2. s \in Requests /\ s.tries = r.tries + 1 BY <1>2, <3>1 DEF Requests
    <3>3. s.pc = "tree" /\ s.kind = r.kind /\ s.role = r.role /\ s.trusted = r.trusted
      BY <1>1, <1>2 DEF Requests
    <3>4. Next_(n) = s BY <2>1
    <3> HIDE DEF s, Next_
    <3>5. RequestOK(s) BY <1>1, <2>1, <3>2, <3>3 DEF RequestOK
    <3>6. CallsLeft(s) = TotPaths - (r.tries + 1) + 4 + 3 * ChatChain BY <3>2, <3>3 DEF CallsLeft
    <3> QED BY <1>2, <1>3, <1>4, <3>4, <3>5, <3>6
  <2>2. CASE ~(r.tries + 1 < TotPaths)
    <3>1. PICK pc \in {"judge", "generate"} : Next_(n) = Step(r, pc) BY <2>2
    <3> HIDE DEF Next_
    <3>2. RequestOK(Step(r, pc)) BY <1>1, StepOK DEF ChatPcs, RequestOK
    <3>3. CallsLeft(Step(r, pc)) = 4 + 3 * ChatChain BY <1>1, LeftAfterStep
    <3> QED BY <1>2, <1>3, <1>4, <3>1, <3>2, <3>3
  <2> QED BY <2>1, <2>2
<1> HIDE DEF Next_
<1>7. \A n \in {0, 1} : CallsLeft(Next_(n)) <= CallsLeft(r) BY <1>1, <1>6, CallsLeftNat
<1> QED BY <1>5, <1>6, <1>7, CalledKeeps, ProceedKeeps

LEMMA JudgeKeeps == ASSUME ChatInv, NEW t \in ChatThreads, JudgePaths(t) PROVE ChatInv'
<1> DEFINE r == request[t]
           s == Step(r, "ground")
<1>1. RequestOK(r) /\ r.pc = "judge" /\ r.tries \in {0, 1} BY DEF ChatInv, JudgePaths, Doing, RequestOK
<1>2. 3 * ChatChain \in Nat BY ChatAssumption
<1>3. RequestOK(s) BY <1>1, StepOK DEF ChatPcs, RequestOK
<1>4. CallsLeft(r) = 4 - r.tries + 3 * ChatChain BY <1>1 DEF CallsLeft
<1>5. CallsLeft(s) < CallsLeft(r) BY <1>1, <1>2, <1>4, LeftAfterStep
<1>6. AskTwice(t, s, s) BY DEF JudgePaths
<1> HIDE DEF s
<1> QED BY <1>1, <1>3, <1>5, <1>6, AskTwiceKeeps

LEMMA GenerateKeeps == ASSUME ChatInv, NEW t \in ChatThreads, Generate(t) PROVE ChatInv'
<1> DEFINE r == request[t]
           g == Step(r, "ground")
           a == Answered(r, FALSE)
           again == [r EXCEPT !.tries = 1]
           next == [r EXCEPT !.provider = @ + 1]
<1>1. RequestOK(r) /\ r.pc = "generate" /\ r.tries \in {0, 1} BY DEF ChatInv, Generate, Doing, RequestOK
<1>2. r \in Requests /\ r.provider \in 1..ChatChain BY <1>1 DEF RequestOK, Requests
<1>3. 3 * ChatChain \in Nat /\ ChatChain \in Nat BY ChatAssumption
<1>4. CallsLeft(r) = 4 - r.tries + 3 * ChatChain BY <1>1 DEF CallsLeft
<1>5. RequestOK(g) /\ CallsLeft(g) < CallsLeft(r)
  <2>1. RequestOK(g) BY <1>1, StepOK DEF ChatPcs, RequestOK
  <2> QED BY <1>1, <1>3, <1>4, <2>1, LeftAfterStep
<1>6. RequestOK(a) /\ CallsLeft(a) < CallsLeft(r)
  <2>1. RequestOK(a) /\ CallsLeft(a) = 0 BY <1>1, AnsweredOK
  <2> HIDE DEF a
  <2> QED BY <1>1, <1>3, <1>4, <2>1
<1>7. r.tries = 0 => RequestOK(again) /\ CallsLeft(again) < CallsLeft(r) BY <1>1, AskedTwice
<1>8. r.provider < ChatChain => RequestOK(next) /\ CallsLeft(next) = CallsLeft(r)
  <2> SUFFICES ASSUME r.provider < ChatChain PROVE RequestOK(next) /\ CallsLeft(next) = CallsLeft(r)
    OBVIOUS
  <2>1. r.provider + 1 \in 1..ChatChain BY <1>2, <1>3
  <2>2. next \in Requests BY <1>2, <2>1 DEF Requests
  <2>3. next.pc = r.pc /\ next.kind = r.kind /\ next.role = r.role /\ next.trusted = r.trusted
        /\ next.tries = r.tries
    BY <1>2 DEF Requests
  <2> HIDE DEF next
  <2>4. RequestOK(next) BY <1>1, <2>2, <2>3 DEF RequestOK
  <2> QED BY <1>1, <2>3, <2>4 DEF CallsLeft
<1>9. \/ Called(t, g) \/ Proceed(t, g) \/ Proceed(t, a)
      \/ r.tries = 0 /\ Called(t, again)
      \/ r.provider < ChatChain /\ Proceed(t, next)
  BY DEF Generate
<1> HIDE DEF g, a, again, next
<1>10. CallsLeft(r) \in Int /\ CallsLeft(g) \in Int /\ CallsLeft(a) \in Int
  BY <1>1, <1>5, <1>6, CallsLeftInt
<1>11. CASE Called(t, g) BY <1>5, <1>11, CalledKeeps
<1>12. CASE Proceed(t, g) BY <1>5, <1>10, <1>12, ProceedKeeps
<1>13. CASE Proceed(t, a) BY <1>6, <1>10, <1>13, ProceedKeeps
<1>14. CASE r.tries = 0 /\ Called(t, again) BY <1>7, <1>14, CalledKeeps
<1>15. CASE r.provider < ChatChain /\ Proceed(t, next) BY <1>8, <1>10, <1>15, ProceedKeeps
<1> QED BY <1>9, <1>11, <1>12, <1>13, <1>14, <1>15

LEMMA StreamKeeps == ASSUME ChatInv, NEW t \in ChatThreads, Stream(t) PROVE ChatInv'
<1> DEFINE r == request[t]
           again == [r EXCEPT !.tries = 1]
           next == [r EXCEPT !.provider = @ + 1]
<1>1. RequestOK(r) /\ r.pc = "stream" /\ CallsLeft(r) = 1
  BY DEF ChatInv, Stream, Doing, CallsLeft
<1>2. r \in Requests /\ r.provider \in 1..ChatChain BY <1>1 DEF RequestOK, Requests
<1>3. RequestOK(again) /\ CallsLeft(again) = 1
  <2>1. again \in Requests /\ again.tries = 1 BY <1>2 DEF Requests
  <2>2. again.pc = r.pc /\ again.kind = r.kind /\ again.role = r.role /\ again.trusted = r.trusted
    BY <1>2 DEF Requests
  <2> HIDE DEF again
  <2> QED BY <1>1, <2>1, <2>2 DEF RequestOK, CallsLeft
<1>4. r.provider < ChatChain => RequestOK(next) /\ CallsLeft(next) = 1
  <2> SUFFICES ASSUME r.provider < ChatChain PROVE RequestOK(next) /\ CallsLeft(next) = 1 OBVIOUS
  <2>1. r.provider + 1 \in 1..ChatChain BY <1>2, ChatAssumption
  <2>2. next \in Requests BY <1>2, <2>1 DEF Requests
  <2>3. next.pc = r.pc /\ next.kind = r.kind /\ next.role = r.role /\ next.trusted = r.trusted
        /\ next.tries = r.tries
    BY <1>2 DEF Requests
  <2> HIDE DEF next
  <2> QED BY <1>1, <2>2, <2>3 DEF RequestOK, CallsLeft
<1>5. RequestOK(IdleRequest) /\ CallsLeft(IdleRequest) = 0 BY IdleRequestOK
<1>6. \/ Proceed(t, again) \/ Called(t, IdleRequest) \/ Proceed(t, IdleRequest)
      \/ r.provider < ChatChain /\ Proceed(t, next)
  BY DEF Stream
<1> HIDE DEF again, next
<1>7. CASE Proceed(t, again) BY <1>1, <1>3, <1>7, ProceedKeeps
<1>8. CASE Called(t, IdleRequest) BY <1>1, <1>5, <1>8, CalledKeeps
<1>9. CASE Proceed(t, IdleRequest) BY <1>1, <1>5, <1>9, ProceedKeeps
<1>10. CASE r.provider < ChatChain /\ Proceed(t, next) BY <1>1, <1>4, <1>10, ProceedKeeps
<1> QED BY <1>6, <1>7, <1>8, <1>9, <1>10

LEMMA GroundingKeeps == ASSUME ChatInv, NEW t \in ChatThreads, CheckGrounding(t) PROVE ChatInv'
<1> DEFINE r == request[t]
           done == IF r.kind \in {"role", "auto"} THEN Step(r, "act") ELSE Answered(r, TRUE)
<1>1. RequestOK(r) /\ r.pc = "ground" /\ r.tries \in {0, 1}
  BY DEF ChatInv, CheckGrounding, Doing, RequestOK
<1>2. 3 * ChatChain \in Nat /\ 3 * ChatChain >= 3 BY ChatAssumption
<1>3. CallsLeft(r) = 2 - r.tries + 3 * ChatChain BY <1>1 DEF CallsLeft
<1>4. RequestOK(done) /\ CallsLeft(done) < CallsLeft(r)
  <2>1. CASE r.kind \in {"role", "auto"}
    <3>1. done = Step(r, "act") BY <2>1
    <3>2. RequestOK(Step(r, "act")) BY <1>1, <2>1, StepOK DEF ChatPcs
    <3>3. CallsLeft(Step(r, "act")) = 3 * ChatChain BY <1>1, LeftAfterStep
    <3> HIDE DEF done
    <3> QED BY <1>1, <1>2, <1>3, <3>1, <3>2, <3>3
  <2>2. CASE r.kind \notin {"role", "auto"}
    <3>1. done = Answered(r, TRUE) BY <2>2
    <3>2. RequestOK(Answered(r, TRUE)) /\ CallsLeft(Answered(r, TRUE)) \in {0, 2} BY <1>1, AnsweredOK
    <3> HIDE DEF done
    <3>3. CallsLeft(done) = 0 \/ CallsLeft(done) = 2 BY <3>1, <3>2
    <3>4. RequestOK(done) BY <3>1, <3>2
    <3>5. CallsLeft(r) > 2 BY <1>1, <1>2, <1>3
    <3>6. CallsLeft(r) \in Int BY <1>1, CallsLeftInt
    <3> QED BY <3>3, <3>4, <3>5, <3>6
  <2> QED BY <2>1, <2>2
<1>5. AskTwice(t, done, done) \/ Proceed(t, done) BY DEF CheckGrounding
<1> HIDE DEF done
<1>6. CallsLeft(r) \in Int /\ CallsLeft(done) \in Int BY <1>1, <1>4, CallsLeftInt
<1>7. CASE AskTwice(t, done, done) BY <1>1, <1>4, <1>7, AskTwiceKeeps
<1>8. CASE Proceed(t, done) BY <1>4, <1>6, <1>8, ProceedKeeps
<1> QED BY <1>5, <1>7, <1>8

\* What the planner makes of its record, with the calls that leaves.
LEMMA PlanFields ==
    ASSUME NEW r, RequestOK(r), r.pc = "act",
           NEW p \in 1..ChatChain, NEW i \in {0, 1}, NEW j \in {0, 1}
    PROVE  LET s == [r EXCEPT !.provider = p, !.tries = i, !.good = j] IN
           RequestOK(s) /\ CallsLeft(s) = 3 * (ChatChain - p) + 3 - i - j
<1> DEFINE s == [r EXCEPT !.provider = p, !.tries = i, !.good = j]
<1>1. r \in Requests BY DEF RequestOK
<1>2. s \in Requests /\ s.provider = p /\ s.tries = i /\ s.good = j
  <2>1. i \in Nat /\ j \in Nat OBVIOUS
  <2> QED BY <1>1, <2>1 DEF Requests
<1>3. s.pc = r.pc /\ s.kind = r.kind /\ s.role = r.role /\ s.trusted = r.trusted BY <1>1 DEF Requests
<1> HIDE DEF s
<1>4. RequestOK(s) BY <1>2, <1>3 DEF RequestOK
<1>5. CallsLeft(s) = 3 * (ChatChain - p) + 3 - i - j BY <1>2, <1>3 DEF CallsLeft
<1> QED BY <1>4, <1>5 DEF s

LEMMA PlanKeeps == ASSUME ChatInv, NEW t \in ChatThreads, PlanAction(t) PROVE ChatInv'
<1> DEFINE r == request[t]
           done == Answered(r, TRUE)
           gate == Step(r, "gate")
           onward == [r EXCEPT !.provider = @ + 1, !.tries = 0, !.good = 0]
           nextProvider == IF r.provider < ChatChain THEN onward ELSE done
           again == [r EXCEPT !.good = 1]
           retry == [r EXCEPT !.tries = 1, !.good = 0]
<1>1. /\ RequestOK(r) /\ r.pc = "act" /\ r.tries \in {0, 1} /\ r.good \in {0, 1}
      /\ r.kind \in {"role", "auto"}
  BY DEF ChatInv, PlanAction, Doing, RequestOK
<1>2. r \in Requests /\ r.provider \in 1..ChatChain /\ ChatChain \in Nat
  BY <1>1, ChatAssumption DEF RequestOK, Requests
<1>3. CallsLeft(r) = 3 * (ChatChain - r.provider) + 3 - r.tries - r.good BY <1>1 DEF CallsLeft
<1>4. 3 * (ChatChain - r.provider) \in Nat /\ (r.provider < ChatChain =>
        3 * (ChatChain - (r.provider + 1)) = 3 * (ChatChain - r.provider) - 3)
  BY <1>2
<1>5. RequestOK(done) /\ CallsLeft(done) = 0 BY <1>1, AnsweredOK
<1>6. r.trusted => RequestOK(gate) /\ CallsLeft(gate) = 0
  <2>1. CallsLeft(gate) = 0 BY <1>1, LeftAfterStep
  <2>2. r.trusted => RequestOK(gate) BY <1>1, StepOK DEF ChatPcs
  <2> QED BY <2>1, <2>2
<1>7. r.provider < ChatChain => RequestOK(onward) /\ CallsLeft(onward) = 3 * (ChatChain - r.provider)
  <2> SUFFICES ASSUME r.provider < ChatChain
               PROVE  RequestOK(onward) /\ CallsLeft(onward) = 3 * (ChatChain - r.provider)
    OBVIOUS
  <2>1. r.provider + 1 \in 1..ChatChain BY <1>2
  <2>2. onward = [r EXCEPT !.provider = r.provider + 1, !.tries = 0, !.good = 0] OBVIOUS
  <2>3. /\ RequestOK(onward)
        /\ CallsLeft(onward) = 3 * (ChatChain - (r.provider + 1)) + 3 - 0 - 0
    BY <1>1, <2>1, <2>2, PlanFields
  <2> QED BY <1>4, <2>3
<1>8. r.good = 0 => RequestOK(again) /\ CallsLeft(again) = 3 * (ChatChain - r.provider) + 3 - r.tries - 1
  <2>1. again = [r EXCEPT !.provider = r.provider, !.tries = r.tries, !.good = 1] BY <1>2 DEF Requests
  <2>2. LET s == [r EXCEPT !.provider = r.provider, !.tries = r.tries, !.good = 1] IN
          RequestOK(s) /\ CallsLeft(s) = 3 * (ChatChain - r.provider) + 3 - r.tries - 1
    BY <1>1, <1>2, PlanFields
  <2> HIDE DEF again
  <2> QED BY <2>1, <2>2
<1>9. RequestOK(retry) /\ CallsLeft(retry) = 3 * (ChatChain - r.provider) + 3 - 1 - 0
  <2>1. retry = [r EXCEPT !.provider = r.provider, !.tries = 1, !.good = 0] BY <1>2 DEF Requests
  <2>2. LET s == [r EXCEPT !.provider = r.provider, !.tries = 1, !.good = 0] IN
          RequestOK(s) /\ CallsLeft(s) = 3 * (ChatChain - r.provider) + 3 - 1 - 0
    BY <1>1, <1>2, PlanFields
  <2> HIDE DEF retry
  <2> QED BY <2>1, <2>2
<1>10. \/ Proceed(t, done)
       \/ r.trusted /\ Called(t, gate)
       \/ Called(t, done)
       \/ r.good = 0 /\ Called(t, again)
       \/ r.good = 1 /\ Called(t, nextProvider)
       \/ r.tries = 0 /\ Proceed(t, retry)
       \/ r.tries = 1 /\ Proceed(t, nextProvider)
  BY DEF PlanAction, PlanOutcome
<1> HIDE DEF done, gate, onward, again, retry
<1>11. /\ RequestOK(nextProvider) /\ CallsLeft(nextProvider) <= 3 * (ChatChain - r.provider)
       /\ CallsLeft(nextProvider) \in Int
  <2>1. CASE r.provider < ChatChain BY <1>4, <1>7, <2>1
  <2>2. CASE ~(r.provider < ChatChain) BY <1>4, <1>5, <2>2
  <2> QED BY <2>1, <2>2
<1> HIDE DEF nextProvider
<1>12. CASE Proceed(t, done)
  <2>1. CallsLeft(done) <= CallsLeft(r) BY <1>1, <1>3, <1>4, <1>5
  <2> QED BY <1>5, <1>12, <2>1, ProceedKeeps
<1>13. CASE r.trusted /\ Called(t, gate)
  <2>1. CallsLeft(gate) < CallsLeft(r) BY <1>1, <1>3, <1>4, <1>6, <1>13
  <2> QED BY <1>6, <1>13, <2>1, CalledKeeps
<1>14. CASE Called(t, done)
  <2>1. CallsLeft(done) < CallsLeft(r) BY <1>1, <1>3, <1>4, <1>5
  <2> QED BY <1>5, <1>14, <2>1, CalledKeeps
<1>15. CASE r.good = 0 /\ Called(t, again)
  <2>1. CallsLeft(again) < CallsLeft(r) BY <1>1, <1>3, <1>4, <1>8, <1>15
  <2> QED BY <1>8, <1>15, <2>1, CalledKeeps
<1>16. CASE r.good = 1 /\ Called(t, nextProvider)
  <2>1. CallsLeft(nextProvider) < CallsLeft(r) BY <1>1, <1>3, <1>4, <1>11, <1>16
  <2> QED BY <1>11, <1>16, <2>1, CalledKeeps
<1>17. CASE r.tries = 0 /\ Proceed(t, retry)
  <2>1. CallsLeft(retry) <= CallsLeft(r) BY <1>1, <1>3, <1>4, <1>9, <1>17
  <2> QED BY <1>9, <1>17, <2>1, ProceedKeeps
<1>18. CASE r.tries = 1 /\ Proceed(t, nextProvider)
  <2>1. CallsLeft(nextProvider) <= CallsLeft(r) BY <1>1, <1>3, <1>4, <1>11, <1>18
  <2> QED BY <1>11, <1>18, <2>1, ProceedKeeps
<1> QED BY <1>10, <1>12, <1>13, <1>14, <1>15, <1>16, <1>17, <1>18

LEMMA RunActionKeeps == ASSUME ChatInv, NEW t \in ChatThreads, RunAction(t) PROVE ChatInv'
<1> DEFINE r == request[t]
           done == Answered(r, TRUE)
<1>1. RequestOK(r) /\ r.kind # "sub" BY DEF ChatInv, RunAction, Doing, RequestOK
<1>2. RequestOK(done) /\ CallsLeft(done) = 0 BY <1>1, AnsweredOK
<1>3. Proceed(t, done) BY DEF RunAction
<1> HIDE DEF done
<1>4. CallsLeft(done) <= CallsLeft(r) BY <1>1, <1>2, CallsLeftInt
<1> QED BY <1>2, <1>3, <1>4, ProceedKeeps

LEMMA MergeKeeps == ASSUME ChatInv, NEW t \in ChatThreads, MergeAnswers(t) PROVE ChatInv'
<1> DEFINE r == request[t]
<1>1. RequestOK(r) /\ r.pc = "merge" /\ r.tries \in {0, 1} BY DEF ChatInv, MergeAnswers, Doing, RequestOK
<1>2. CallsLeft(r) > 0 BY <1>1 DEF CallsLeft
<1>3. AskTwice(t, IdleRequest, IdleRequest) BY DEF MergeAnswers
<1> QED BY <1>1, <1>2, <1>3, IdleRequestOK, AskTwiceKeeps

LEMMA ChatStarts == ChatInit => ChatInv
<1> SUFFICES ASSUME ChatInit PROVE ChatInv OBVIOUS
<1>1. \A t \in ChatThreads : request[t] = IdleRequest BY DEF ChatInit
<1>2. request \in [ChatThreads -> Requests] BY IdleRequestOK DEF ChatInit, RequestOK
<1>3. \A t \in ChatThreads : RequestOK(request[t]) BY <1>1, IdleRequestOK
<1>4. /\ usedGlobal = 0 /\ usedBy \in [Roles -> 0..RoleCap] /\ over = 0 /\ underWay = 0
      /\ ledgerFaults = 0 /\ 0 < GlobalCap /\ usedGlobal \in 0..GlobalCap
  BY ChatAssumption DEF ChatInit
<1>5. CapOK BY <1>4 DEF CapOK
<1> QED BY <1>2, <1>3, <1>4, <1>5 DEF ChatInv

LEMMA ChatStutters == ASSUME ChatInv, UNCHANGED chatVars PROVE ChatInv'
<1>1. Outstanding' = Outstanding /\ CallsPerCheck' = CallsPerCheck
  BY DEF Outstanding, CallsPerCheck, chatVars
<1> QED BY <1>1 DEF ChatInv, CapOK, chatVars

LEMMA ChatInvGives == ASSUME ChatInv PROVE ChatIsSound
<1>1. OvershootBounded
  <2> DEFINE n == CallsPerCheck
  <2>1. n \in Nat /\ underWay + ledgerFaults \in Nat BY CallsPerCheckNat DEF ChatInv
  <2>2. n * (underWay + ledgerFaults) \in Nat BY <2>1, Times
  <2>3. Cardinality(Outstanding) \in Nat BY OutstandingFinite
  <2>4. CASE usedGlobal < GlobalCap BY <2>2, <2>4 DEF ChatInv, CapOK, OvershootBounded
  <2>5. CASE usedGlobal = GlobalCap
    <3>1. over + Cardinality(Outstanding) <= n * (underWay + ledgerFaults) /\ over \in Nat
      BY <2>5 DEF ChatInv, CapOK
    <3> HIDE DEF n
    <3>2. over <= n * (underWay + ledgerFaults) BY <2>2, <2>3, <3>1
    <3> QED BY <3>2 DEF OvershootBounded, n
  <2> QED BY <2>4, <2>5, ChatAssumption DEF ChatInv
<1>2. UntrustedConfined
  <2> SUFFICES ASSUME NEW t \in ChatThreads, ~request[t].trusted
               PROVE  /\ request[t].kind \in {"auto", "sub", "single"} => request[t].role \in SafeRoles \cup {NoRole}
                      /\ request[t].pc # "gate"
    BY DEF UntrustedConfined
  <2> QED BY DEF ChatInv, RequestOK
<1> QED BY <1>1, <1>2 DEF ChatIsSound

(***************************************************************************)
(* For any threads, roles, caps, chain and number of candidates: what is   *)
(* spent after the global cap was reached is bounded by the requests that  *)
(* were under way then and the ledger's failures, and a caller that is not *)
(* trusted is confined to the customer-facing roles and hands nothing to   *)
(* the gate (ask, check_budget, _call_provider, route_task).               *)
(***************************************************************************)
THEOREM ChatSound == ChatSpec => []ChatIsSound
<1>1. ChatInv /\ [ChatNext]_chatVars => ChatInv'
  <2> SUFFICES ASSUME ChatInv, [ChatNext]_chatVars PROVE ChatInv' OBVIOUS
  <2>1. ASSUME NEW t \in ChatThreads,
               \/ Ask_(t) \/ AskStream(t) \/ BeginTask(t) \/ SplitTask(t) \/ RouteTask(t) \/ CheckRole(t)
               \/ Prepare(t) \/ TreeOfThought(t) \/ JudgePaths(t) \/ Generate(t) \/ Stream(t) \/ CheckGrounding(t)
               \/ PlanAction(t) \/ RunAction(t) \/ MergeAnswers(t)
        PROVE  ChatInv'
    BY <2>1, AskKeeps, BeginKeeps, SplitKeeps, RouteKeeps, CheckRoleKeeps, PrepareKeeps, TreeKeeps,
       JudgeKeeps, GenerateKeeps, StreamKeeps, GroundingKeeps, PlanKeeps, RunActionKeeps, MergeKeeps
  <2> QED BY <2>1, ChatStutters DEF ChatNext
<1>2. ChatInv => ChatIsSound BY ChatInvGives
<1> QED BY ChatStarts, <1>1, <1>2, PTL DEF ChatSpec
=============================================================================
