--------------------------- MODULE LibraryProofs ---------------------------
(***************************************************************************)
(* What holds of the packages used as libraries, for any number of         *)
(* callers, entries, calls and failures: ragleap-memory's store with its   *)
(* audit log, the MCP client of ragleap-integrations with the transport    *)
(* under it, RagLeap's documents over the vector backends, and the entity  *)
(* graph, its migrations and asking.                                       *)
(***************************************************************************)
EXTENDS MemoryStore, McpClient, McpTransport, VectorStores, Rag, VoicePull, FiniteSetTheorems, SequenceTheorems,
        WellFoundedInduction, TLAPS

-----------------------------------------------------------------------------
(* The store: types. *)

Tables == [Memories -> MemoryRows \cup {NoMemory}]
Events == {"none", "add", "supersede", "forget", "sweep", "erase", "note"}
AuditRecords == [seq : Nat, prev : Nat, event : Events, new : Memories \cup {NoMemory}, gone : SUBSET Memories]
CallerStates == [pc : {"idle", "audit", "append", "commit", "optimize", "checkpoint"}, event : Events,
                 new : Memories \cup {NoMemory}, gone : SUBSET Memories, last : Nat]

StoreTypes ==
  /\ memories \in Tables
  /\ stored \subseteq Memories /\ indexed \subseteq traces /\ traces \subseteq stored
  /\ lingering \subseteq promised /\ promised \subseteq stored
  /\ dbTx.by \in Callers \cup {Nobody}
  /\ auditLog \in Seq(AuditRecords) /\ torn \in BOOLEAN
  /\ logHolder \in Callers \cup {Nobody}
  /\ caller \in [Callers -> CallerStates]

-----------------------------------------------------------------------------
(* The store: the invariant. *)

Held(table) == {m \in Memories : table[m] # NoMemory}

\* What a table says of its rows: they name identifiers that were given, an entry is derived from
\* entries that its readers can read, and one that was replaced knows its one replacement.
TableOK(table, known) ==
  /\ table \in Tables
  /\ Held(table) \subseteq known
  /\ \A m \in Held(table) :
       /\ table[m].derivedFrom \subseteq known /\ table[m].replaces \in known \cup {NoMemory}
       /\ \A d \in table[m].derivedFrom \cap Held(table) : Covers(table[m].scope, table[d].scope)
       /\ table[m].replaces \in Held(table) =>
            /\ table[table[m].replaces].supersededBy = m
            /\ table[table[m].replaces].scope = table[m].scope
  /\ \A m, n \in Held(table) : table[m].replaces = table[n].replaces => m = n \/ table[m].replaces = NoMemory

\* What a transaction will commit: one new entry, or the removal of those it will log as gone.
ChangeOK(k, table) ==
  /\ k.pc \in {"audit", "append", "commit"}
  /\ TableOK(table, stored \cup ({k.new} \ {NoMemory}))
  /\ \/ /\ k.event \in {"add", "supersede"} /\ k.new \in Memories \ stored
        /\ Held(table) = Held(memories) \cup {k.new}
     \/ /\ k.event \in {"forget", "sweep", "erase"} /\ k.new = NoMemory
        /\ k.gone \subseteq Held(memories) /\ Held(table) = Held(memories) \ k.gone

Logged(k) ==
  \E i \in DOMAIN auditLog : auditLog[i].event = k.event /\ auditLog[i].new = k.new /\ auditLog[i].gone = k.gone

\* Where a caller is: the log's lock from its reading of the last record to its own record, the
\* record before the commit, after the commit of an erase() the entries that are gone, and after
\* the rewriting of the index that it does not hold their text.
CallerOK(c) ==
  /\ dbTx.by = c => ChangeOK(caller[c], dbTx.table)
  /\ caller[c].pc = "commit" => dbTx.by = c /\ Logged(caller[c])
  /\ caller[c].pc = "append" => logHolder = c /\ caller[c].last = Len(auditLog)
  /\ logHolder = c => caller[c].pc = "append"
  /\ caller[c].pc \in {"optimize", "checkpoint"} => caller[c].gone \subseteq stored \ Held(memories)
  /\ caller[c].pc = "checkpoint" => caller[c].gone \cap indexed = {}

\* A full checkpoint copies what the index holds, so that must be without what was promised.
FilesOK == ErasedIsGone /\ promised \cap indexed = {}

StoreInv ==
  /\ StoreTypes /\ TableOK(memories, stored)
  /\ \A c \in Callers : CallerOK(c)
  /\ AuditCovers /\ FilesOK

-----------------------------------------------------------------------------
(* The store: tables. *)

LEMMA RowType ==
  ASSUME NEW s \in Scopes, NEW expires \in BOOLEAN, NEW derived \in SUBSET Memories,
         NEW old \in Memories \cup {NoMemory}
  PROVE  /\ Row(s, expires, derived, old) \in MemoryRows
         /\ Row(s, expires, derived, old) # NoMemory
         /\ Row(s, expires, derived, old).scope = s
         /\ Row(s, expires, derived, old).supersededBy = NoMemory
         /\ Row(s, expires, derived, old).derivedFrom = derived
         /\ Row(s, expires, derived, old).replaces = old
<1>1. Row(s, expires, derived, old) \in MemoryRows
  BY DEF Row, MemoryRows
<1> QED BY <1>1, MemoryAssumption DEF Row

\* The rows that a transaction leaves alone need not be looked at again.
LEMMA MoreKnown ==
  ASSUME NEW table, NEW known, NEW more, TableOK(table, known), known \subseteq more
  PROVE  TableOK(table, more)
BY DEF TableOK

\* Entries that go take nothing with them that the others need.
LEMMA FewerRows ==
  ASSUME TableOK(memories, stored), NEW gone \in SUBSET Memories
  PROVE  TableOK(WithoutMemories(gone), stored) /\ Held(WithoutMemories(gone)) = Held(memories) \ gone
<1> DEFINE table == WithoutMemories(gone)
<1>1. table \in Tables /\ \A m \in Memories : table[m] = IF m \in gone THEN NoMemory ELSE memories[m]
  BY DEF WithoutMemories, TableOK, Tables
<1> HIDE DEF table
<1>2. Held(table) = Held(memories) \ gone
  BY <1>1 DEF Held
<1>3. \A m \in Held(table) : m \in Held(memories) /\ table[m] = memories[m]
  BY <1>1, <1>2 DEF Held
<1>4. Held(table) \subseteq stored
  BY <1>3 DEF TableOK
<1>5. ASSUME NEW m \in Held(table)
      PROVE  /\ table[m].derivedFrom \subseteq stored /\ table[m].replaces \in stored \cup {NoMemory}
             /\ \A d \in table[m].derivedFrom \cap Held(table) : Covers(table[m].scope, table[d].scope)
             /\ table[m].replaces \in Held(table) =>
                  /\ table[table[m].replaces].supersededBy = m
                  /\ table[table[m].replaces].scope = table[m].scope
  BY <1>3 DEF TableOK
<1>6. \A m, n \in Held(table) : table[m].replaces = table[n].replaces => m = n \/ table[m].replaces = NoMemory
  BY <1>3 DEF TableOK
<1>7. TableOK(table, stored)
  BY <1>1, <1>4, <1>5, <1>6 DEF TableOK
<1> QED BY <1>2, <1>7 DEF table

\* A new entry, derived from entries of its scope.
LEMMA AddedRow ==
  ASSUME TableOK(memories, stored), stored \subseteq Memories, NEW m \in Memories \ stored, NEW s \in Scopes,
         NEW expires \in BOOLEAN, NEW derived \in SUBSET Visible(memories, s)
  PROVE  LET table == [memories EXCEPT ![m] = Row(s, expires, derived, NoMemory)]
         IN TableOK(table, stored \cup {m}) /\ Held(table) = Held(memories) \cup {m}
<1> DEFINE row == Row(s, expires, derived, NoMemory)
           table == [memories EXCEPT ![m] = row]
           known == stored \cup {m}
<1>0. memories \in Tables /\ Held(memories) \subseteq stored /\ Held(memories) \subseteq Memories
  BY DEF TableOK, Held
<1>1. derived \subseteq Held(memories) /\ \A d \in derived : Covers(s, memories[d].scope)
  BY DEF Visible, Held
<1>2. /\ row \in MemoryRows /\ row # NoMemory /\ row.scope = s /\ row.derivedFrom = derived
      /\ row.replaces = NoMemory
  BY <1>0, <1>1, RowType
<1> HIDE DEF row
<1>3. table \in Tables /\ table[m] = row /\ \A n \in Memories : n # m => table[n] = memories[n]
  BY <1>0, <1>2 DEF Tables
<1> HIDE DEF table
<1>4. Held(table) = Held(memories) \cup {m}
  BY <1>2, <1>3 DEF Held
<1>5. m \notin Held(memories) /\ \A n \in Held(memories) : table[n] = memories[n]
  BY <1>0, <1>3
<1>6. ASSUME NEW n \in Held(table)
      PROVE  /\ table[n].derivedFrom \subseteq known /\ table[n].replaces \in known \cup {NoMemory}
             /\ \A d \in table[n].derivedFrom \cap Held(table) : Covers(table[n].scope, table[d].scope)
             /\ table[n].replaces \in Held(table) =>
                  /\ table[table[n].replaces].supersededBy = n
                  /\ table[table[n].replaces].scope = table[n].scope
  <2>1. CASE n = m
    <3>1. NoMemory \notin Held(table)
      BY MemoryAssumption DEF Held
    <3> QED BY <1>0, <1>1, <1>2, <1>3, <1>5, <2>1, <3>1
  <2>2. CASE n # m
    <3>1. n \in Held(memories)
      BY <1>4, <2>2, <1>6
    <3>2. table[n] = memories[n] /\ m \notin memories[n].derivedFrom /\ memories[n].replaces # m
      BY <1>5, <3>1, MemoryAssumption DEF TableOK
    <3> QED BY <1>4, <1>5, <3>1, <3>2 DEF TableOK
  <2> QED BY <2>1, <2>2
<1>7. ASSUME NEW a \in Held(table), NEW b \in Held(table), table[a].replaces = table[b].replaces
      PROVE  a = b \/ table[a].replaces = NoMemory
  <2>1. CASE a = m \/ b = m
    BY <1>2, <1>3, <1>7, <2>1
  <2>2. CASE a # m /\ b # m
    BY <1>4, <1>5, <1>7, <2>2 DEF TableOK
  <2> QED BY <2>1, <2>2
<1>8. TableOK(table, known)
  BY <1>0, <1>3, <1>4, <1>6, <1>7 DEF TableOK
<1> QED BY <1>4, <1>8 DEF table, row

\* A replacement, in the scope of the entry it replaces, which nothing had replaced.
LEMMA SupersededRow ==
  ASSUME TableOK(memories, stored), stored \subseteq Memories, NEW m \in Memories \ stored,
         NEW expires \in BOOLEAN, NEW old \in Held(memories), MaySupersede(old)
  PROVE  LET table == [memories EXCEPT ![m] = Row(memories[old].scope, expires, {old}, old),
                                       ![old].supersededBy = m]
         IN TableOK(table, stored \cup {m}) /\ Held(table) = Held(memories) \cup {m}
<1> DEFINE s == memories[old].scope
           row == Row(s, expires, {old}, old)
           marked == [memories[old] EXCEPT !.supersededBy = m]
           table == [memories EXCEPT ![m] = row, ![old].supersededBy = m]
           known == stored \cup {m}
<1>0. memories \in Tables /\ Held(memories) \subseteq stored /\ Held(memories) \subseteq Memories
  BY DEF TableOK, Held
<1>1. /\ old \in Memories /\ old # m /\ memories[old] \in MemoryRows /\ s \in Scopes
  <2>1. old \in Memories /\ old # m /\ memories[old] \in MemoryRows
    BY <1>0 DEF Held, Tables
  <2> QED BY <2>1 DEF MemoryRows
<1>2. /\ row \in MemoryRows /\ row # NoMemory /\ row.scope = s /\ row.derivedFrom = {old}
      /\ row.replaces = old
  BY <1>1, RowType
<1>3. /\ marked \in MemoryRows /\ marked # NoMemory /\ marked.scope = s /\ marked.supersededBy = m
      /\ marked.derivedFrom = memories[old].derivedFrom /\ marked.replaces = memories[old].replaces
  <2>1. /\ marked \in MemoryRows /\ marked.scope = s /\ marked.supersededBy = m
        /\ marked.derivedFrom = memories[old].derivedFrom /\ marked.replaces = memories[old].replaces
    BY <1>1 DEF MemoryRows
  <2> HIDE DEF marked
  <2> QED BY <2>1, MemoryAssumption
<1>4. table = [[memories EXCEPT ![m] = row] EXCEPT ![old] = marked]
  <2> HIDE DEF row
  <2> QED BY <1>0, <1>1 DEF Tables
<1> HIDE DEF row, marked, s, table
<1>5. /\ table \in Tables /\ table[m] = row /\ table[old] = marked
      /\ \A n \in Memories : n # m /\ n # old => table[n] = memories[n]
  BY <1>0, <1>1, <1>2, <1>3, <1>4 DEF Tables
<1>6. Held(table) = Held(memories) \cup {m}
  BY <1>2, <1>3, <1>5 DEF Held
<1>7. /\ m \notin Held(memories)
      /\ \A n \in Held(memories) : table[n].scope = memories[n].scope /\ table[n].replaces = memories[n].replaces
           /\ table[n].derivedFrom = memories[n].derivedFrom
           /\ (n # old => table[n] = memories[n])
  BY <1>0, <1>3, <1>5 DEF s
<1>8. \A n \in Held(memories) : memories[n].replaces # old
  <2> SUFFICES ASSUME NEW n \in Held(memories), memories[n].replaces = old PROVE FALSE
    OBVIOUS
  <2>1. memories[old].supersededBy = n /\ n \in Memories
    BY DEF TableOK, Held
  <2> QED BY <2>1, MemoryAssumption DEF MaySupersede
<1>9. ASSUME NEW n \in Held(table)
      PROVE  /\ table[n].derivedFrom \subseteq known /\ table[n].replaces \in known \cup {NoMemory}
             /\ \A d \in table[n].derivedFrom \cap Held(table) : Covers(table[n].scope, table[d].scope)
             /\ table[n].replaces \in Held(table) =>
                  /\ table[table[n].replaces].supersededBy = n
                  /\ table[table[n].replaces].scope = table[n].scope
  <2>1. CASE n = m
    <3>1. old \in known
      BY <1>0
    <3> QED BY <1>2, <1>3, <1>5, <2>1, <3>1 DEF Covers
  <2>2. CASE n # m
    <3>1. n \in Held(memories)
      BY <1>6, <2>2, <1>9
    <3>2. m \notin memories[n].derivedFrom /\ memories[n].replaces # m /\ memories[n].replaces # old
      BY <1>8, <3>1, MemoryAssumption DEF TableOK
    <3>3. table[n].derivedFrom \subseteq known /\ table[n].replaces \in known \cup {NoMemory}
      BY <1>7, <3>1 DEF TableOK
    <3>4. \A d \in table[n].derivedFrom \cap Held(table) : Covers(table[n].scope, table[d].scope)
      <4> SUFFICES ASSUME NEW d \in table[n].derivedFrom \cap Held(table)
                   PROVE  Covers(table[n].scope, table[d].scope)
        OBVIOUS
      <4>1. d \in memories[n].derivedFrom \cap Held(memories)
        BY <1>6, <1>7, <3>1, <3>2
      <4>2. Covers(memories[n].scope, memories[d].scope)
        BY <3>1, <4>1 DEF TableOK
      <4> QED BY <1>7, <3>1, <4>1, <4>2
    <3>5. table[n].replaces \in Held(table) =>
            /\ table[table[n].replaces].supersededBy = n
            /\ table[table[n].replaces].scope = table[n].scope
      <4> SUFFICES ASSUME table[n].replaces \in Held(table)
                   PROVE  /\ table[table[n].replaces].supersededBy = n
                          /\ table[table[n].replaces].scope = table[n].scope
        OBVIOUS
      <4>1. table[n].replaces = memories[n].replaces /\ memories[n].replaces \in Held(memories)
        BY <1>6, <1>7, <3>1, <3>2
      <4>2. /\ memories[memories[n].replaces].supersededBy = n
            /\ memories[memories[n].replaces].scope = memories[n].scope
        BY <3>1, <4>1 DEF TableOK
      <4> QED BY <1>7, <3>1, <3>2, <4>1, <4>2
    <3> QED BY <3>3, <3>4, <3>5
  <2> QED BY <2>1, <2>2
<1>10. ASSUME NEW a \in Held(table), NEW b \in Held(table), table[a].replaces = table[b].replaces
       PROVE  a = b \/ table[a].replaces = NoMemory
  <2>1. CASE a = m /\ b # m
    BY <1>2, <1>5, <1>6, <1>7, <1>8, <1>10, <2>1
  <2>2. CASE a # m /\ b = m
    BY <1>2, <1>5, <1>6, <1>7, <1>8, <1>10, <2>2
  <2>3. CASE a # m /\ b # m
    <3>1. a \in Held(memories) /\ b \in Held(memories)
      BY <1>6, <2>3
    <3>2. memories[a].replaces = memories[b].replaces
      BY <1>7, <1>10, <3>1
    <3> QED BY <1>7, <3>1, <3>2 DEF TableOK
  <2> QED BY <2>1, <2>2, <2>3
<1>11. Held(table) \subseteq known
  BY <1>0, <1>6
<1>12. TableOK(table, known)
  BY <1>5, <1>9, <1>10, <1>11 DEF TableOK
<1> QED BY <1>6, <1>12 DEF table, row, s

-----------------------------------------------------------------------------
(* The store: one lemma for each kind of step. *)

\* What a step leaves alone when it touches neither the table nor the log.
LEMMA StoreFrame ==
  ASSUME StoreInv, UNCHANGED <<memories, stored, indexed, traces, promised, lingering, auditLog>>
  PROVE  TableOK(memories, stored)' /\ AuditCovers' /\ FilesOK'
<1>1. TableOK(memories, stored)'
  BY DEF StoreInv
<1>2. AuditCovers'
  BY DEF StoreInv, AuditCovers, Verify, Present, Records
<1>3. FilesOK'
  BY DEF StoreInv, FilesOK, ErasedIsGone
<1> QED BY <1>1, <1>2, <1>3

\* The record of a caller that has begun, as one record.
AtWork(event, new, gone) == [Resting EXCEPT !.pc = "audit", !.event = event, !.new = new, !.gone = gone]

LEMMA CallerAtWork ==
  ASSUME NEW event, NEW new, NEW gone
  PROVE  AtWork(event, new, gone) = [pc |-> "audit", event |-> event, new |-> new, gone |-> gone, last |-> 0]
<1> DEFINE k0 == Resting
           k1 == [k0 EXCEPT !.pc = "audit"]
           k2 == [k1 EXCEPT !.event = event]
           k3 == [k2 EXCEPT !.new = new]
           k4 == [k3 EXCEPT !.gone = gone]
<1>1. k0 = [pc |-> "idle", event |-> "none", new |-> NoMemory, gone |-> {}, last |-> 0]
  BY DEF Resting
<1> HIDE DEF k0
<1>2. k1 = [pc |-> "audit", event |-> "none", new |-> NoMemory, gone |-> {}, last |-> 0]
  BY <1>1
<1> HIDE DEF k1
<1>3. k2 = [pc |-> "audit", event |-> event, new |-> NoMemory, gone |-> {}, last |-> 0]
  BY <1>2
<1> HIDE DEF k2
<1>4. k3 = [pc |-> "audit", event |-> event, new |-> new, gone |-> {}, last |-> 0]
  BY <1>3
<1> HIDE DEF k3
<1>5. k4 = [pc |-> "audit", event |-> event, new |-> new, gone |-> gone, last |-> 0]
  BY <1>4
<1>6. AtWork(event, new, gone) = k4
  BY DEF k0, k1, k2, k3, AtWork
<1> HIDE DEF k4
<1> QED BY <1>5, <1>6

\* BEGIN IMMEDIATE: there is no other transaction, and this one will commit a sound table.
LEMMA BeginStep ==
  ASSUME StoreInv, NEW c \in Callers, NEW event \in Events, NEW table,
         NEW new \in Memories \cup {NoMemory}, NEW gone \in SUBSET Memories,
         Begin(c, event, table, new, gone),
         TableOK(table, stored \cup ({new} \ {NoMemory})),
         \/ /\ event \in {"add", "supersede"} /\ new \in Memories \ stored
            /\ Held(table) = Held(memories) \cup {new}
         \/ /\ event \in {"forget", "sweep", "erase"} /\ new = NoMemory
            /\ gone \subseteq Held(memories) /\ Held(table) = Held(memories) \ gone
  PROVE  StoreInv'
<1> DEFINE k == AtWork(event, new, gone)
<1>1. /\ caller[c].pc = "idle" /\ dbTx = NoTx
      /\ dbTx' = [by |-> c, table |-> table]
      /\ UNCHANGED <<memories, stored, indexed, traces, promised, lingering, auditLog, torn, logHolder, ttlPassed, kills>>
  BY DEF Begin
<1>2. caller' = [caller EXCEPT ![c] = k]
  BY DEF Begin, AtWork
<1>3. k \in CallerStates /\ k.pc = "audit" /\ k.event = event /\ k.new = new /\ k.gone = gone
  BY CallerAtWork DEF CallerStates
<1> HIDE DEF k
<1>5. caller \in [Callers -> CallerStates] /\ caller' \in [Callers -> CallerStates]
  BY <1>2, <1>3 DEF StoreInv, StoreTypes
<1>6. caller'[c] = k /\ \A d \in Callers : d # c => caller'[d] = caller[d]
  BY <1>2, <1>5
<1>7. dbTx'.by = c /\ dbTx'.table = table
  BY <1>1
<1>8. StoreTypes'
  BY <1>1, <1>5, <1>7 DEF StoreInv, StoreTypes
<1>9. ASSUME NEW d \in Callers PROVE CallerOK(d)'
  <2>0. /\ CallerOK(d) /\ logHolder' = logHolder /\ stored' = stored /\ memories' = memories
        /\ auditLog' = auditLog /\ indexed' = indexed
    BY <1>1 DEF StoreInv
  <2>1. CASE d = c
    <3>1. ChangeOK(caller[c], dbTx.table)'
      BY <1>3, <1>6, <1>7, <2>0 DEF ChangeOK
    <3> QED BY <1>1, <1>3, <1>6, <2>0, <2>1, <3>1 DEF CallerOK
  <2>2. CASE d # c
    <3>1. caller'[d] = caller[d] /\ dbTx'.by # d /\ dbTx.by # d
      BY <1>1, <1>6, <1>7, <2>2, MemoryAssumption DEF NoTx
    <3> QED BY <2>0, <3>1 DEF CallerOK, Logged
  <2> QED BY <2>1, <2>2
<1> QED BY <1>1, <1>8, <1>9, StoreFrame DEF StoreInv

\* The operations, up to their statements.
LEMMA OperationStep ==
  ASSUME StoreInv, NEW c \in Callers,
         Add(c) \/ Supersede(c) \/ Forget(c) \/ SweepExpired(c) \/ Erase(c)
  PROVE  StoreInv'
<1>0. TableOK(memories, stored) /\ stored \subseteq Memories
  BY DEF StoreInv, StoreTypes
<1>1. \A s : Visible(memories, s) \subseteq Held(memories) /\ Held(memories) \subseteq Memories
  BY DEF Visible, Held
<1>2. \A m \in Unused : m \in Memories \ stored
  BY DEF Unused
<1>3. ASSUME NEW gone \in SUBSET Held(memories), NEW event \in {"forget", "sweep", "erase"},
             Begin(c, event, WithoutMemories(gone), NoMemory, gone)
      PROVE  StoreInv'
  <2>1. /\ TableOK(WithoutMemories(gone), stored) /\ Held(WithoutMemories(gone)) = Held(memories) \ gone
        /\ gone \in SUBSET Memories
    BY <1>0, <1>1, FewerRows
  <2>2. stored \cup ({NoMemory} \ {NoMemory}) = stored
    OBVIOUS
  <2>3. TableOK(WithoutMemories(gone), stored \cup ({NoMemory} \ {NoMemory})) /\ event \in Events
    BY <2>1, <2>2 DEF Events
  <2> QED BY <1>3, <2>1, <2>3, BeginStep
<1>4. ASSUME NEW m \in Unused, NEW event \in {"add", "supersede"}, NEW table, NEW gone \in SUBSET Memories,
             TableOK(table, stored \cup {m}), Held(table) = Held(memories) \cup {m},
             Begin(c, event, table, m, gone)
      PROVE  StoreInv'
  <2>1. m \in Memories \ stored /\ {m} \ {NoMemory} = {m} /\ event \in Events
    BY <1>2, MemoryAssumption DEF Events
  <2> QED BY <1>4, <2>1, BeginStep
<1>5. CASE Add(c)
  <2>1. PICK s \in Scopes, m \in Unused, expires \in BOOLEAN :
          \E derived \in {{}} \cup {{d} : d \in Derivable(s)} :
            Begin(c, "add", [memories EXCEPT ![m] = Row(s, expires, derived, NoMemory)], m, {})
    BY <1>5 DEF Add
  <2>2. PICK derived \in {{}} \cup {{d} : d \in Derivable(s)} :
          Begin(c, "add", [memories EXCEPT ![m] = Row(s, expires, derived, NoMemory)], m, {})
    BY <2>1
  <2>3. derived \in SUBSET Visible(memories, s)
    BY DEF Derivable
  <2> DEFINE table == [memories EXCEPT ![m] = Row(s, expires, derived, NoMemory)]
  <2>4. TableOK(table, stored \cup {m}) /\ Held(table) = Held(memories) \cup {m}
    BY <1>0, <1>2, <2>3, AddedRow
  <2> HIDE DEF table
  <2>5. Begin(c, "add", table, m, {})
    BY <2>2 DEF table
  <2> QED BY <1>4, <2>4, <2>5
<1>6. CASE Supersede(c)
  <2>1. PICK s \in Scopes, m \in Unused, expires \in BOOLEAN :
          \E old \in Visible(memories, s) :
            /\ MaySupersede(old)
            /\ Begin(c, "supersede",
                     [memories EXCEPT ![m] = Row(memories[old].scope, expires, {old}, old),
                                      ![old].supersededBy = m], m, {old})
    BY <1>6, Zenon DEF Supersede
  <2>2. PICK old \in Visible(memories, s) :
            /\ MaySupersede(old)
            /\ Begin(c, "supersede",
                     [memories EXCEPT ![m] = Row(memories[old].scope, expires, {old}, old),
                                      ![old].supersededBy = m], m, {old})
    BY <2>1
  <2> DEFINE table == [memories EXCEPT ![m] = Row(memories[old].scope, expires, {old}, old),
                                       ![old].supersededBy = m]
  <2>3. old \in Held(memories) /\ {old} \in SUBSET Memories
    BY <1>1
  <2>4. TableOK(table, stored \cup {m}) /\ Held(table) = Held(memories) \cup {m}
    BY <1>0, <1>2, <2>2, <2>3, SupersededRow
  <2> HIDE DEF table
  <2>5. Begin(c, "supersede", table, m, {old})
    BY <2>2 DEF table
  <2> QED BY <1>4, <2>3, <2>4, <2>5
<1>7. CASE Forget(c)
  <2>1. PICK s \in Scopes : \E ids \in SUBSET Visible(memories, s) :
          ids # {} /\ Begin(c, "forget", WithoutMemories(ids), NoMemory, ids)
    BY <1>7 DEF Forget
  <2>2. PICK ids \in SUBSET Visible(memories, s) : Begin(c, "forget", WithoutMemories(ids), NoMemory, ids)
    BY <2>1
  <2> QED BY <1>1, <1>3, <2>2
<1>8. CASE SweepExpired(c)
  <2>1. PICK s \in Scopes : LET gone == {m \in Visible(memories, s) : Expired(memories[m])}
                            IN  Begin(c, "sweep", WithoutMemories(gone), NoMemory, gone)
    BY <1>8 DEF SweepExpired
  <2>2. PICK gone \in SUBSET Visible(memories, s) : Begin(c, "sweep", WithoutMemories(gone), NoMemory, gone)
    BY <2>1
  <2> QED BY <1>1, <1>3, <2>2
<1>9. CASE Erase(c)
  <2>1. PICK s \in Scopes : Begin(c, "erase", WithoutMemories(Visible(memories, s)), NoMemory, Visible(memories, s))
    BY <1>9 DEF Erase
  <2> QED BY <1>1, <1>3, <2>1
<1> QED BY <1>5, <1>6, <1>7, <1>8, <1>9

\* A caller whose record, lock and transaction a step leaves alone is where it was.
LEMMA OtherCaller ==
  ASSUME StoreInv, NEW d \in Callers, caller'[d] = caller[d], UNCHANGED <<memories, stored, auditLog>>,
         indexed' \subseteq indexed,
         dbTx' = dbTx \/ (dbTx.by # d /\ dbTx'.by # d), logHolder' = d <=> logHolder = d
  PROVE  CallerOK(d)'
<1>1. CallerOK(d) /\ memories' = memories /\ stored' = stored /\ auditLog' = auditLog
  BY DEF StoreInv
<1>2. CASE dbTx' = dbTx
  BY <1>1, <1>2 DEF CallerOK, Logged, ChangeOK
<1>3. CASE dbTx'.by # d /\ dbTx.by # d
  BY <1>1, <1>3 DEF CallerOK, Logged
<1> QED BY <1>2, <1>3

LEMMA RestingCaller ==
  Resting \in CallerStates /\ Resting.pc = "idle"
BY DEF Resting, CallerStates, Events

\* A caller that goes to rest, by itself or because it is killed.
LEMMA RestStep ==
  ASSUME StoreInv, NEW c \in Callers, caller' = [caller EXCEPT ![c] = Resting],
         dbTx' = RolledBack(c), logHolder' \in {logHolder, Nobody}, logHolder' # c,
         logHolder # c => logHolder' = logHolder, torn' \in BOOLEAN,
         UNCHANGED <<memories, stored, indexed, traces, promised, lingering, auditLog>>
  PROVE  StoreInv'
<1>1. /\ caller \in [Callers -> CallerStates] /\ caller' \in [Callers -> CallerStates]
      /\ caller'[c] = Resting /\ \A d \in Callers : d # c => caller'[d] = caller[d]
  BY RestingCaller DEF StoreInv, StoreTypes
<1>2. /\ dbTx'.by # c /\ dbTx'.by \in Callers \cup {Nobody}
      /\ \A d \in Callers : d # c => dbTx' = dbTx \/ (dbTx.by # d /\ dbTx'.by # d)
  BY MemoryAssumption DEF RolledBack, NoTx, StoreInv, StoreTypes
<1>3. StoreTypes'
  BY <1>1, <1>2 DEF StoreInv, StoreTypes
<1>4. ASSUME NEW d \in Callers PROVE CallerOK(d)'
  <2>1. CASE d = c
    BY <1>1, <1>2, <2>1, RestingCaller DEF CallerOK
  <2>2. CASE d # c
    <3>1. logHolder' = d <=> logHolder = d
      BY <2>2, MemoryAssumption
    <3> QED BY <1>1, <1>2, <2>2, <3>1, OtherCaller
  <2> QED BY <2>1, <2>2
<1> QED BY <1>3, <1>4, StoreFrame DEF StoreInv

LEMMA NoteStep ==
  ASSUME StoreInv, NEW c \in Callers, Note(c)
  PROVE  StoreInv'
<1> DEFINE k0 == [Resting EXCEPT !.pc = "audit"]
           k == [k0 EXCEPT !.event = "note"]
<1>1. k0 \in CallerStates /\ k0.pc = "audit"
  BY RestingCaller DEF CallerStates
<1> HIDE DEF k0
<1>2. k \in CallerStates /\ k.pc = "audit"
  BY <1>1 DEF CallerStates, Events
<1>3. /\ caller[c].pc = "idle" /\ caller' = [caller EXCEPT ![c] = k]
      /\ UNCHANGED <<memories, stored, indexed, traces, promised, lingering, dbTx, auditLog, torn, logHolder>>
  BY DEF Note, k0
<1> HIDE DEF k
<1>4. /\ caller \in [Callers -> CallerStates] /\ caller' \in [Callers -> CallerStates]
      /\ caller'[c] = k /\ \A d \in Callers : d # c => caller'[d] = caller[d]
  BY <1>2, <1>3 DEF StoreInv, StoreTypes
<1>5. dbTx.by # c /\ logHolder # c
  BY <1>3 DEF StoreInv, CallerOK, ChangeOK
<1>6. StoreTypes'
  BY <1>3, <1>4 DEF StoreInv, StoreTypes
<1>7. ASSUME NEW d \in Callers PROVE CallerOK(d)'
  <2>1. CASE d = c
    BY <1>2, <1>3, <1>4, <1>5, <2>1 DEF CallerOK
  <2>2. CASE d # c
    BY <1>3, <1>4, <2>2, OtherCaller
  <2> QED BY <2>1, <2>2
<1> QED BY <1>3, <1>6, <1>7, StoreFrame DEF StoreInv

\* The lock is taken, or a log that is cut off sends the transaction back.
LEMMA ReadLastStep ==
  ASSUME StoreInv, NEW c \in Callers, ReadLast(c)
  PROVE  StoreInv'
<1>0. /\ caller[c].pc = "audit" /\ logHolder = Nobody
      /\ UNCHANGED <<memories, stored, indexed, traces, promised, lingering, auditLog, torn>>
  BY DEF ReadLast, LogIsFree
<1>1. CASE torn
  <2>1. caller' = [caller EXCEPT ![c] = Resting] /\ dbTx' = RolledBack(c) /\ logHolder' = logHolder
    BY <1>1 DEF ReadLast
  <2> QED BY <1>0, <2>1, RestStep, MemoryAssumption DEF StoreInv, StoreTypes
<1>2. CASE ~torn
  <2>1. /\ caller' = [caller EXCEPT ![c].pc = "append", ![c].last = Len(auditLog)]
        /\ logHolder' = c /\ dbTx' = dbTx
    BY <1>2 DEF ReadLast
  <2> DEFINE k0 == [caller[c] EXCEPT !.pc = "append"]
             k == [k0 EXCEPT !.last = Len(auditLog)]
  <2>2. caller \in [Callers -> CallerStates] /\ caller[c] \in CallerStates /\ Len(auditLog) \in Nat
    BY DEF StoreInv, StoreTypes
  <2>3. /\ k0 \in CallerStates /\ k0.pc = "append" /\ k0.event = caller[c].event /\ k0.new = caller[c].new
        /\ k0.gone = caller[c].gone
    BY <2>2 DEF CallerStates
  <2>4. caller' = [[caller EXCEPT ![c] = k0] EXCEPT ![c] = k]
    <3>1. caller' = [[caller EXCEPT ![c].pc = "append"] EXCEPT ![c].last = Len(auditLog)]
      BY <2>1
    <3>2. [caller EXCEPT ![c].pc = "append"] = [caller EXCEPT ![c] = k0]
      BY <2>2
    <3>3. [caller EXCEPT ![c] = k0][c] = k0
      BY <2>2
    <3> HIDE DEF k0
    <3> QED BY <3>1, <3>2, <3>3
  <2> HIDE DEF k0
  <2>5. /\ k \in CallerStates /\ k.pc = "append" /\ k.event = caller[c].event /\ k.new = caller[c].new
        /\ k.gone = caller[c].gone /\ k.last = Len(auditLog)
    BY <2>2, <2>3 DEF CallerStates
  <2> HIDE DEF k
  <2>6. /\ caller' \in [Callers -> CallerStates]
        /\ caller'[c] = k /\ \A d \in Callers : d # c => caller'[d] = caller[d]
    BY <2>2, <2>3, <2>4, <2>5
  <2>7. StoreTypes'
    BY <1>0, <2>1, <2>6 DEF StoreInv, StoreTypes
  <2>8. ASSUME NEW d \in Callers PROVE CallerOK(d)'
    <3>1. CASE d = c
      <4>1. /\ CallerOK(c) /\ memories' = memories /\ stored' = stored /\ auditLog' = auditLog
            /\ dbTx' = dbTx /\ logHolder' = c
        BY <1>0, <2>1 DEF StoreInv
      <4>2. ChangeOK(caller[c], dbTx.table) => ChangeOK(caller[c], dbTx.table)'
        BY <2>5, <2>6, <4>1 DEF ChangeOK
      <4> QED BY <2>5, <2>6, <3>1, <4>1, <4>2 DEF CallerOK
    <3>2. CASE d # c
      BY <1>0, <2>1, <2>6, <3>2, OtherCaller, MemoryAssumption
    <3> QED BY <3>1, <3>2
  <2> QED BY <1>0, <2>7, <2>8, StoreFrame DEF StoreInv
<1> QED BY <1>1, <1>2

\* The record is written, by the one who holds the lock and read the last one.
LEMMA AppendStep ==
  ASSUME StoreInv, NEW c \in Callers, Append_(c)
  PROVE  StoreInv'
<1> DEFINE n == Len(auditLog)
           rec == [seq |-> n + 1, prev |-> n, event |-> caller[c].event, new |-> caller[c].new,
                   gone |-> caller[c].gone]
           k == [caller[c] EXCEPT !.pc = IF dbTx.by = c THEN "commit" ELSE "idle"]
<1>0. /\ caller[c].pc = "append" /\ caller[c].last = n /\ logHolder = c
      /\ caller \in [Callers -> CallerStates] /\ caller[c] \in CallerStates
      /\ auditLog \in Seq(AuditRecords) /\ n \in Nat
  BY DEF Append_, StoreInv, CallerOK, StoreTypes
<1>1. /\ auditLog' = Append(auditLog, rec) /\ logHolder' = Nobody /\ caller' = [caller EXCEPT ![c] = k]
      /\ UNCHANGED <<memories, stored, indexed, traces, promised, lingering, dbTx, torn>>
  BY <1>0 DEF Append_
<1>2. rec \in AuditRecords /\ rec.seq = n + 1 /\ rec.prev = n /\ rec.event = caller[c].event
      /\ rec.new = caller[c].new /\ rec.gone = caller[c].gone
  BY <1>0 DEF AuditRecords, CallerStates
<1> HIDE DEF rec
<1>3. /\ auditLog' \in Seq(AuditRecords) /\ DOMAIN auditLog = 1..n /\ DOMAIN auditLog' = 1..(n + 1)
      /\ auditLog'[n + 1] = rec /\ \A i \in 1..n : auditLog'[i] = auditLog[i]
  BY <1>0, <1>1, <1>2
<1>4. /\ k \in CallerStates /\ k.event = caller[c].event /\ k.new = caller[c].new /\ k.gone = caller[c].gone
      /\ k.pc = IF dbTx.by = c THEN "commit" ELSE "idle"
  BY <1>0 DEF CallerStates
<1> HIDE DEF k, n
<1>5. /\ caller' \in [Callers -> CallerStates]
      /\ caller'[c] = k /\ \A d \in Callers : d # c => caller'[d] = caller[d]
  BY <1>0, <1>1, <1>4
<1>6. StoreTypes'
  BY <1>1, <1>3, <1>5 DEF StoreInv, StoreTypes
<1>7. ASSUME NEW d \in Callers PROVE CallerOK(d)'
  <2>0. /\ CallerOK(d) /\ memories' = memories /\ stored' = stored /\ dbTx' = dbTx /\ indexed' = indexed
    BY <1>1 DEF StoreInv
  <2>1. CASE d = c
    <3>1. Logged(caller[c])'
      <4>1. n + 1 \in DOMAIN auditLog'
        BY <1>0, <1>3
      <4>2. /\ auditLog'[n + 1].event = caller'[c].event /\ auditLog'[n + 1].new = caller'[c].new
            /\ auditLog'[n + 1].gone = caller'[c].gone
        BY <1>2, <1>3, <1>4, <1>5
      <4> QED BY <4>1, <4>2 DEF Logged
    <3>2. dbTx.by = c => ChangeOK(caller[c], dbTx.table)'
      BY <1>4, <1>5, <2>0, <2>1 DEF ChangeOK, CallerOK
    <3> QED BY <1>1, <1>4, <1>5, <2>0, <2>1, <3>1, <3>2, MemoryAssumption DEF CallerOK
  <2>2. CASE d # c
    <3>1. caller'[d] = caller[d] /\ caller[d].pc # "append" /\ logHolder' # d
      BY <1>0, <1>1, <1>5, <2>0, <2>2, MemoryAssumption DEF CallerOK
    <3>2. caller[d].pc = "commit" => Logged(caller[d])'
      BY <1>0, <1>3, <2>0, <3>1 DEF CallerOK, Logged
    <3>3. ChangeOK(caller[d], dbTx.table) => ChangeOK(caller[d], dbTx.table)'
      BY <2>0, <3>1 DEF ChangeOK
    <3> QED BY <2>0, <3>1, <3>2, <3>3 DEF CallerOK
  <2> QED BY <2>1, <2>2
<1>8. AuditCovers'
  <2>1. Records \subseteq Records' /\ Present' = Present /\ stored' = stored
    BY <1>0, <1>1, <1>3 DEF Records, Present
  <2>2. \A i \in DOMAIN auditLog' : auditLog'[i].seq = i /\ auditLog'[i].prev = i - 1
    <3> SUFFICES ASSUME NEW i \in DOMAIN auditLog' PROVE auditLog'[i].seq = i /\ auditLog'[i].prev = i - 1
      OBVIOUS
    <3>1. CASE i = n + 1
      BY <1>0, <1>2, <1>3, <3>1
    <3>2. CASE i # n + 1
      <4>1. i \in 1..n
        BY <1>0, <1>3, <3>2
      <4> QED BY <1>3, <4>1 DEF StoreInv, AuditCovers, Verify
    <3> QED BY <3>1, <3>2
  <2> QED BY <2>1, <2>2 DEF StoreInv, AuditCovers, Verify
<1>9. TableOK(memories, stored)' /\ FilesOK'
  BY <1>1 DEF StoreInv, FilesOK, ErasedIsGone
<1> QED BY <1>6, <1>7, <1>8, <1>9 DEF StoreInv

\* COMMIT, of what has been logged.
LEMMA CommitStep ==
  ASSUME StoreInv, NEW c \in Callers, Commit(c)
  PROVE  StoreInv'
<1> DEFINE k == caller[c]
           added == {k.new} \ {NoMemory}
           rest == IF k.event = "erase" THEN [k EXCEPT !.pc = "optimize"] ELSE Resting
<1>0. /\ k.pc = "commit" /\ dbTx.by = c /\ ChangeOK(k, dbTx.table) /\ Logged(k)
      /\ caller \in [Callers -> CallerStates] /\ k \in CallerStates
      /\ \A d \in Callers : CallerOK(d)
  BY DEF Commit, StoreInv, CallerOK, StoreTypes
<1>1. /\ memories' = dbTx.table /\ dbTx' = NoTx
      /\ stored' = stored \cup added /\ traces' = traces \cup added /\ indexed' = indexed \cup added
      /\ caller' = [caller EXCEPT ![c] = rest]
      /\ UNCHANGED <<promised, lingering, auditLog, torn, logHolder>>
  BY DEF Commit
<1>2. /\ rest \in CallerStates /\ rest.pc \in {"idle", "optimize"}
      /\ rest.pc = "optimize" => k.event = "erase" /\ rest.gone = k.gone
  <2>1. [k EXCEPT !.pc = "optimize"] \in CallerStates /\ [k EXCEPT !.pc = "optimize"].pc = "optimize"
        /\ [k EXCEPT !.pc = "optimize"].gone = k.gone
    BY <1>0 DEF CallerStates
  <2> QED BY <2>1, RestingCaller
<1> HIDE DEF rest
<1>3. /\ caller' \in [Callers -> CallerStates]
      /\ caller'[c] = rest /\ \A d \in Callers : d # c => caller'[d] = caller[d]
  BY <1>0, <1>1, <1>2
<1>4. TableOK(memories, stored)'
  BY <1>0, <1>1 DEF ChangeOK
<1>5. added \subseteq Memories \ stored /\ stored \subseteq Memories /\ stored' \subseteq Memories
      /\ Held(memories) \subseteq stored
  <2>1. added \subseteq Memories \ stored
    BY <1>0 DEF ChangeOK
  <2> QED BY <1>1, <2>1 DEF StoreInv, StoreTypes, TableOK
<1>6. \/ /\ k.event \in {"add", "supersede"} /\ k.new \in Memories
         /\ added = {k.new} /\ Held(memories') = Held(memories) \cup added
      \/ /\ k.event \in {"forget", "sweep", "erase"} /\ added = {}
         /\ k.gone \subseteq Held(memories) /\ Held(memories') = Held(memories) \ k.gone
  BY <1>0, <1>1, MemoryAssumption DEF ChangeOK
<1> HIDE DEF added
<1>7. StoreTypes'
  <2>1. memories' \in Tables
    BY <1>4 DEF TableOK
  <2>2. dbTx'.by = Nobody
    BY <1>1 DEF NoTx
  <2> QED BY <1>1, <1>3, <1>5, <2>1, <2>2 DEF StoreInv, StoreTypes
<1>8. FilesOK'
  BY <1>1, <1>5 DEF StoreInv, StoreTypes, FilesOK, ErasedIsGone
<1>9. AuditCovers'
  <2>1. Present = Held(memories) /\ Present' = Held(memories') /\ Records' = Records
    BY <1>1 DEF Present, Held, Records
  <2>2. PICK r \in Records : r.event = k.event /\ r.new = k.new /\ r.gone = k.gone
    BY <1>0 DEF Logged, Records
  <2>3. \A m \in Present' : \E q \in Records' : q.event \in {"add", "supersede"} /\ q.new = m
    <3> SUFFICES ASSUME NEW m \in Present' PROVE \E q \in Records : q.event \in {"add", "supersede"} /\ q.new = m
      BY <2>1
    <3>1. CASE m \in Present
      BY <3>1 DEF StoreInv, AuditCovers, Verify
    <3>2. CASE m \notin Present
      BY <1>6, <2>1, <2>2, <3>2
    <3> QED BY <3>1, <3>2
  <2>4. \A m \in stored' \ Present' : \E q \in Records' : q.event \in {"forget", "sweep", "erase"} /\ m \in q.gone
    <3> SUFFICES ASSUME NEW m \in stored' \ Present'
                 PROVE  \E q \in Records : q.event \in {"forget", "sweep", "erase"} /\ m \in q.gone
      BY <2>1
    <3>1. CASE m \notin Present
      <4>1. m \in stored \ Present
        BY <1>1, <1>6, <2>1, <3>1
      <4> QED BY <4>1 DEF StoreInv, AuditCovers, Verify
    <3>2. CASE m \in Present
      BY <1>6, <2>1, <2>2, <3>2
    <3> QED BY <3>1, <3>2
  <2> QED BY <1>1, <2>3, <2>4 DEF StoreInv, AuditCovers, Verify
<1>10. ASSUME NEW d \in Callers PROVE CallerOK(d)'
  <2>0. dbTx'.by # d
    BY <1>1, MemoryAssumption DEF NoTx
  <2>1. CASE d = c
    <3>1. logHolder' # c
      BY <1>0, <1>1 DEF CallerOK
    <3>2. caller'[c].pc = "optimize" => caller'[c].gone \subseteq stored' \ Held(memories)'
      BY <1>1, <1>2, <1>3, <1>5, <1>6
    <3> QED BY <1>2, <1>3, <2>0, <2>1, <3>1, <3>2 DEF CallerOK
  <2>2. CASE d # c
    <3>1. /\ CallerOK(d) /\ caller'[d] = caller[d] /\ logHolder' = logHolder /\ auditLog' = auditLog
          /\ dbTx.by # d
      BY <1>0, <1>1, <1>3, <2>2
    <3>2. caller[d].gone \subseteq stored \ Held(memories) => caller[d].gone \subseteq stored' \ Held(memories)'
      BY <1>1, <1>5, <1>6
    <3>3. caller[d].gone \subseteq stored /\ caller[d].gone \cap indexed = {}
            => caller[d].gone \cap indexed' = {}
      BY <1>1, <1>5
    <3> QED BY <2>0, <3>1, <3>2, <3>3 DEF CallerOK
  <2> QED BY <2>1, <2>2
<1> QED BY <1>4, <1>7, <1>8, <1>9, <1>10 DEF StoreInv

\* compact(), after nothing of its own.
LEMMA CallCompactStep ==
  ASSUME StoreInv, NEW c \in Callers, CallCompact(c)
  PROVE  StoreInv'
<1> DEFINE k == [Resting EXCEPT !.pc = "optimize"]
<1>1. /\ caller[c].pc = "idle" /\ caller' = [caller EXCEPT ![c] = k]
      /\ UNCHANGED <<memories, stored, indexed, traces, promised, lingering, dbTx, auditLog, torn, logHolder>>
  BY DEF CallCompact
<1>2. k \in CallerStates /\ k.pc = "optimize" /\ k.gone = {}
  BY DEF Resting, CallerStates, Events
<1> HIDE DEF k
<1>3. /\ caller \in [Callers -> CallerStates] /\ caller' \in [Callers -> CallerStates]
      /\ caller'[c] = k /\ \A d \in Callers : d # c => caller'[d] = caller[d]
  BY <1>1, <1>2 DEF StoreInv, StoreTypes
<1>4. dbTx.by # c /\ logHolder # c
  BY <1>1 DEF StoreInv, CallerOK, ChangeOK
<1>5. StoreTypes'
  BY <1>1, <1>3 DEF StoreInv, StoreTypes
<1>6. ASSUME NEW d \in Callers PROVE CallerOK(d)'
  <2>1. CASE d = c
    BY <1>1, <1>2, <1>3, <1>4, <2>1 DEF CallerOK
  <2>2. CASE d # c
    BY <1>1, <1>3, <2>2, OtherCaller
  <2> QED BY <2>1, <2>2
<1> QED BY <1>1, <1>5, <1>6, StoreFrame DEF StoreInv

\* The index is rewritten, while nobody writes, or optimize raises.
LEMMA OptimizeStep ==
  ASSUME StoreInv, NEW c \in Callers, Optimize(c)
  PROVE  StoreInv'
<1>0. /\ caller[c].pc = "optimize" /\ CallerOK(c) /\ caller[c].gone \subseteq stored \ Held(memories)
      /\ caller \in [Callers -> CallerStates] /\ caller[c] \in CallerStates
      /\ UNCHANGED <<memories, stored, traces, promised, lingering, dbTx, auditLog, torn, logHolder>>
  BY DEF Optimize, StoreInv, CallerOK, StoreTypes
<1>1. dbTx.by # c /\ logHolder # c
  BY <1>0 DEF CallerOK, ChangeOK
<1>2. CASE caller' = [caller EXCEPT ![c] = Resting] /\ indexed' = indexed
  BY <1>0, <1>1, <1>2, RestStep DEF RolledBack, StoreInv, StoreTypes
<1>3. CASE indexed' = Optimized /\ caller' = [caller EXCEPT ![c].pc = "checkpoint"]
  <2> DEFINE k == [caller[c] EXCEPT !.pc = "checkpoint"]
  <2>1. k \in CallerStates /\ k.pc = "checkpoint" /\ k.gone = caller[c].gone
    BY <1>0 DEF CallerStates
  <2>2. caller' = [caller EXCEPT ![c] = k]
    BY <1>3
  <2> HIDE DEF k
  <2>3. /\ caller' \in [Callers -> CallerStates]
        /\ caller'[c] = k /\ \A d \in Callers : d # c => caller'[d] = caller[d]
    BY <1>0, <2>1, <2>2
  <2>4. indexed' \subseteq indexed /\ indexed' \subseteq Held(memories)
    BY <1>3 DEF Optimized, Held, StoreInv, StoreTypes
  <2>5. StoreTypes' /\ FilesOK'
    BY <1>0, <2>3, <2>4 DEF StoreInv, StoreTypes, FilesOK, ErasedIsGone
  <2>6. AuditCovers' /\ TableOK(memories, stored)'
    BY <1>0 DEF StoreInv, AuditCovers, Verify, Present, Records
  <2>7. ASSUME NEW d \in Callers PROVE CallerOK(d)'
    <3>1. CASE d = c
      BY <1>0, <1>1, <2>1, <2>3, <2>4, <3>1 DEF CallerOK
    <3>2. CASE d # c
      BY <1>0, <2>3, <2>4, <3>2, OtherCaller
    <3> QED BY <3>1, <3>2
  <2> QED BY <2>5, <2>6, <2>7 DEF StoreInv
<1> QED BY <1>2, <1>3 DEF Optimize

\* The checkpoint, full or cut short, and the end of the erase() it belongs to.
LEMMA CheckpointStep ==
  ASSUME StoreInv, NEW c \in Callers, Checkpoint(c)
  PROVE  StoreInv'
<1>0. /\ caller[c].pc = "checkpoint" /\ CallerOK(c) /\ caller[c].gone \subseteq stored \ Held(memories)
      /\ caller[c].gone \cap indexed = {} /\ caller \in [Callers -> CallerStates]
  BY DEF Checkpoint, StoreInv, CallerOK, StoreTypes
<1>1. /\ \/ traces' = indexed /\ lingering' = {}
         \/ lingering' = lingering \cup caller[c].gone /\ traces' = traces
      /\ promised' = promised \cup caller[c].gone
      /\ caller' = [caller EXCEPT ![c] = Resting]
      /\ UNCHANGED <<memories, stored, indexed, dbTx, auditLog, torn, logHolder>>
  BY DEF Checkpoint
<1>2. /\ caller' \in [Callers -> CallerStates]
      /\ caller'[c] = Resting /\ \A d \in Callers : d # c => caller'[d] = caller[d]
  BY <1>0, <1>1, RestingCaller
<1>3. StoreTypes'
  BY <1>0, <1>1, <1>2 DEF StoreInv, StoreTypes
<1>4. FilesOK'
  BY <1>0, <1>1 DEF StoreInv, FilesOK, ErasedIsGone
<1>5. AuditCovers' /\ TableOK(memories, stored)'
  BY <1>1 DEF StoreInv, AuditCovers, Verify, Present, Records
<1>6. ASSUME NEW d \in Callers PROVE CallerOK(d)'
  <2>1. CASE d = c
    BY <1>0, <1>1, <1>2, <2>1, RestingCaller DEF CallerOK, ChangeOK
  <2>2. CASE d # c
    BY <1>1, <1>2, <2>2, OtherCaller
  <2> QED BY <2>1, <2>2
<1> QED BY <1>3, <1>4, <1>5, <1>6 DEF StoreInv

LEMMA KillStep ==
  ASSUME StoreInv, NEW c \in Callers, Kill(c)
  PROVE  StoreInv'
<1>1. /\ dbTx' = RolledBack(c) /\ logHolder' = (IF logHolder = c THEN Nobody ELSE logHolder)
      /\ caller' = [caller EXCEPT ![c] = Resting]
      /\ UNCHANGED <<memories, stored, indexed, traces, promised, lingering, auditLog>>
  BY DEF Kill
<1>2. torn' \in BOOLEAN
  BY DEF Kill, StoreInv, StoreTypes
<1>3. logHolder' # c /\ logHolder' \in {logHolder, Nobody} /\ (logHolder # c => logHolder' = logHolder)
  BY <1>1, MemoryAssumption
<1> QED BY <1>1, <1>2, <1>3, RestStep

-----------------------------------------------------------------------------
(* The store: the theorem. *)

LEMMA StoreStarts == MemInit => StoreInv
<1> SUFFICES ASSUME MemInit PROVE StoreInv
  OBVIOUS
<1>1. StoreTypes
  <2>1. memories \in Tables /\ caller \in [Callers -> CallerStates]
    BY RestingCaller DEF MemInit, Tables
  <2>2. dbTx.by = Nobody /\ auditLog = <<>>
    BY DEF MemInit, NoTx
  <2>3. auditLog \in Seq(AuditRecords)
    BY <2>2
  <2> QED BY <2>1, <2>2, <2>3 DEF MemInit, StoreTypes
<1>2. Held(memories) = {} /\ Present = {}
  BY DEF MemInit, Held, Present
<1>3. TableOK(memories, stored)
  BY <1>1, <1>2 DEF TableOK, StoreTypes
<1>4. ASSUME NEW c \in Callers PROVE CallerOK(c)
  <2>1. caller[c].pc = "idle" /\ dbTx.by # c /\ logHolder # c
    BY RestingCaller, MemoryAssumption DEF MemInit, NoTx
  <2> QED BY <2>1 DEF CallerOK
<1>5. AuditCovers /\ FilesOK
  BY <1>2 DEF MemInit, AuditCovers, Verify, FilesOK, ErasedIsGone
<1> QED BY <1>1, <1>3, <1>4, <1>5 DEF StoreInv

LEMMA StoreSteps == StoreInv /\ [MemNext]_memVars => StoreInv'
<1> SUFFICES ASSUME StoreInv, [MemNext]_memVars PROVE StoreInv'
  OBVIOUS
<1>1. ASSUME UNCHANGED <<memories, stored, indexed, traces, promised, lingering, dbTx, auditLog, torn, logHolder, caller>>
      PROVE  StoreInv'
  <2>1. StoreTypes'
    BY <1>1 DEF StoreInv, StoreTypes
  <2>2. \A d \in Callers : CallerOK(d)'
    BY <1>1, OtherCaller
  <2> QED BY <1>1, <2>1, <2>2, StoreFrame DEF StoreInv
<1>2. CASE TtlPasses
  BY <1>1, <1>2 DEF TtlPasses
<1>3. CASE UNCHANGED memVars
  BY <1>1, <1>3 DEF memVars
<1>4. ASSUME NEW c \in Callers,
             \/ Add(c) \/ Supersede(c) \/ Forget(c) \/ SweepExpired(c) \/ Erase(c) \/ Note(c)
             \/ ReadLast(c) \/ Append_(c) \/ Commit(c) \/ CallCompact(c) \/ Optimize(c)
             \/ Checkpoint(c) \/ Kill(c)
      PROVE  StoreInv'
  BY <1>4, OperationStep, NoteStep, ReadLastStep, AppendStep, CommitStep, CallCompactStep,
     OptimizeStep, CheckpointStep, KillStep
<1> QED BY <1>2, <1>3, <1>4 DEF MemNext

\* What the table says of its rows is what readers rely on.
LEMMA StoreServes == StoreInv => MemoryIsSound
<1> SUFFICES ASSUME StoreInv PROVE MemoryIsSound
  OBVIOUS
<1>1. Present = Held(memories) /\ TableOK(memories, stored)
  BY DEF Present, Held, StoreInv
<1>2. OneReplacement
  <2>1. ASSUME NEW m \in Present, NEW n \in Present, memories[m].replaces = memories[n].replaces
        PROVE  m = n \/ memories[m].replaces = NoMemory
    BY <1>1, <2>1 DEF TableOK
  <2>2. ASSUME NEW s \in Scopes, NEW n \in Present, memories[n].replaces \in Present
        PROVE  /\ memories[n].replaces \in Visible(memories, s) <=> n \in Visible(memories, s)
               /\ memories[n].replaces \notin Found(s)
    <3>1. /\ memories[memories[n].replaces].supersededBy = n
          /\ memories[memories[n].replaces].scope = memories[n].scope
      BY <1>1, <2>2 DEF TableOK
    <3>2. n \in Memories /\ n # NoMemory /\ memories[n].replaces \in Memories
      BY <2>2, MemoryAssumption DEF Present
    <3>3. memories[n].replaces \in Visible(memories, s) <=> n \in Visible(memories, s)
      BY <2>2, <3>1 DEF Visible, Present
    <3>4. memories[n].replaces \notin Found(s)
      BY <3>1, <3>2 DEF Found
    <3> QED BY <3>3, <3>4
  <2> QED BY <2>1, <2>2 DEF OneReplacement
<1>3. Traceable
  <2> SUFFICES ASSUME NEW s \in Scopes, NEW m \in Visible(memories, s),
                      NEW d \in memories[m].derivedFrom \cap Present
               PROVE  d \in Visible(memories, s)
    BY DEF Traceable
  <2>1. m \in Held(memories) /\ Covers(s, memories[m].scope)
    BY DEF Visible, Held
  <2>2. Covers(memories[m].scope, memories[d].scope)
    BY <1>1, <2>1 DEF TableOK
  <2>3. d \in Memories /\ memories[d] # NoMemory
    BY DEF Present
  <2> QED BY <2>1, <2>2, <2>3 DEF Visible, Covers
<1> QED BY <1>2, <1>3 DEF StoreInv, FilesOK, MemoryIsSound

\* For any number of processes killed wherever they may be: whatever the table holds or has lost
\* is in the log, whose numbers and links are in order; the text an erase() removed is in none
\* of the files once it has returned, unless its checkpoint was cut short, and then not after the
\* next one that was not; an entry has one replacement, which the readers of the entry can read; and whoever can
\* read an entry can read what it was derived from.
THEOREM MemorySound == MemSpec => []MemoryIsSound
<1>1. MemSpec => []StoreInv
  BY StoreStarts, StoreSteps, PTL DEF MemSpec
<1> QED BY <1>1, StoreServes, PTL

-----------------------------------------------------------------------------
(* The MCP client: the invariant. *)

Sending == {"modern", "initialize", "legacy"}
CallIds == 1..MaxMcpCalls

Requesting == [pc : {"idle", "approve", "go", "answered"} \cup Sending, method : {"none", "list", "call"}, page : Nat]

McpTypes ==
  /\ timesRun \in [CallIds -> Nat]
  /\ outcomes \in [CallIds -> {"none", "refused", "denied", "failed", "ok"}]
  /\ cleared \in [CallIds -> {"unchecked", "not_required", "approved", "denied", "raised"}]
  /\ toolOf \in [CallIds -> McpTools \cup AllowedTools \cup {NoTool}]
  /\ mcpCalls \in 0..MaxMcpCalls

\* A tool that needs nobody's approval, for as long as the client lives: the snapshot is complete.
Waived(t) == t \in PreApproved \/ (hasTools /\ TrustAnnotations /\ snapshot[t] = "readOnly")

\* A call that may be sent.
MayRun(k) == toolOf[k] \in AllowedTools /\ (cleared[k] = "approved" \/ Waived(toolOf[k]))

\* The request under way: the last call, which has not run, cleared before it is sent; or a page
\* of the discovery, before there are any tools.
RequestOK ==
  /\ request_ \in Requesting
  /\ request_.pc = "idle" <=> request_.method = "none"
  /\ request_.method = "list" => ~hasTools /\ request_.pc \in Sending \cup {"answered"}
  /\ request_.method = "call" =>
       /\ request_.pc \in {"approve", "go"} \cup Sending
       /\ mcpCalls \in CallIds /\ timesRun[mcpCalls] = 0 /\ outcomes[mcpCalls] = "none"
       /\ toolOf[mcpCalls] \in AllowedTools
       /\ request_.pc = "go" => Waived(toolOf[mcpCalls])
       /\ request_.pc \in Sending => MayRun(mcpCalls)

McpInv ==
  /\ McpTypes /\ RequestOK /\ RunsOnce
  /\ \A k \in CallIds : timesRun[k] > 0 => MayRun(k)
  /\ \A k \in CallIds : k > mcpCalls => timesRun[k] = 0 /\ outcomes[k] = "none"

-----------------------------------------------------------------------------
(* The MCP client: its requests. *)

LEMMA Requests ==
  /\ NoRequest \in Requesting /\ NoRequest.pc = "idle" /\ NoRequest.method = "none"
  /\ \A method \in {"list", "call"} :
       Send(method) \in Requesting /\ Send(method).pc \in Sending /\ Send(method).method = method
BY DEF NoRequest, Send, Requesting, Sending

LEMMA WithPc ==
  ASSUME request_ \in Requesting, NEW pc \in Sending \cup {"answered"}
  PROVE  /\ [request_ EXCEPT !.pc = pc] \in Requesting
         /\ [request_ EXCEPT !.pc = pc].pc = pc
         /\ [request_ EXCEPT !.pc = pc].method = request_.method
BY DEF Requesting

\* What a step leaves alone when it touches neither the calls nor the policy.
LEMMA CallsFrame ==
  ASSUME McpInv, UNCHANGED <<snapshot, hasTools, timesRun, outcomes, cleared, toolOf, mcpCalls>>, RequestOK'
  PROVE  McpInv'
BY DEF McpInv, McpTypes, RunsOnce, MayRun, Waived

\* The snapshot is made before there are tools, when it waives nothing.
LEMMA SnapshotFrame ==
  ASSUME McpInv, ~hasTools, UNCHANGED <<timesRun, outcomes, cleared, toolOf, mcpCalls>>, RequestOK'
  PROVE  McpInv'
<1>1. \A t : Waived(t) => Waived(t)'
  BY DEF Waived
<1>2. \A k : MayRun(k) => MayRun(k)'
  BY <1>1 DEF MayRun
<1> QED BY <1>2 DEF McpInv, McpTypes, RunsOnce

\* A call that was sent ends: it has run or it has not, and it is ok only when it has.
LEMMA CallEnds ==
  ASSUME McpInv, request_.method = "call", request_.pc \in Sending, NEW how \in {"failed", "ok"}, Ends(how),
         UNCHANGED <<snapshot, hasTools, cleared, toolOf, mcpCalls>>,
         \/ timesRun' = [timesRun EXCEPT ![mcpCalls] = @ + 1]
         \/ how = "failed" /\ UNCHANGED timesRun
  PROVE  McpInv'
<1>1. /\ mcpCalls \in CallIds /\ timesRun[mcpCalls] = 0 /\ MayRun(mcpCalls)
      /\ timesRun \in [CallIds -> Nat] /\ mcpCalls \in 0..MaxMcpCalls
      /\ outcomes \in [CallIds -> {"none", "refused", "denied", "failed", "ok"}]
  BY DEF McpInv, RequestOK, McpTypes
<1>2. request_' = NoRequest /\ outcomes' = [outcomes EXCEPT ![mcpCalls] = how]
  BY DEF Ends
<1>3. \A k : MayRun(k)' <=> MayRun(k)
  BY DEF MayRun, Waived
<1>a. timesRun' = [timesRun EXCEPT ![mcpCalls] = 1] \/ (how = "failed" /\ timesRun' = timesRun)
  BY <1>1
<1>4. /\ outcomes'[mcpCalls] = how
      /\ timesRun'[mcpCalls] = 1 \/ (how = "failed" /\ timesRun'[mcpCalls] = 0)
      /\ \A k \in CallIds : k # mcpCalls => timesRun'[k] = timesRun[k] /\ outcomes'[k] = outcomes[k]
      /\ timesRun' \in [CallIds -> Nat]
      /\ outcomes' \in [CallIds -> {"none", "refused", "denied", "failed", "ok"}]
  BY <1>1, <1>2, <1>a
<1>5. McpTypes'
  BY <1>4 DEF McpInv, McpTypes
<1>6. RequestOK'
  BY <1>2, Requests DEF RequestOK
<1>7. RunsOnce'
  <2> SUFFICES ASSUME NEW k \in CallIds
               PROVE  /\ timesRun'[k] <= 1
                      /\ outcomes'[k] = "ok" => timesRun'[k] = 1
                      /\ outcomes'[k] \in {"refused", "denied"} => timesRun'[k] = 0
    BY DEF RunsOnce, CallIds
  <2>1. CASE k = mcpCalls
    BY <1>4, <2>1
  <2>2. CASE k # mcpCalls
    BY <1>4, <2>2 DEF McpInv, RunsOnce, CallIds
  <2> QED BY <2>1, <2>2
<1>8. \A k \in CallIds : timesRun'[k] > 0 => MayRun(k)'
  <2> SUFFICES ASSUME NEW k \in CallIds, timesRun'[k] > 0 PROVE MayRun(k)
    BY <1>3
  <2> QED BY <1>1, <1>4 DEF McpInv
<1>9. \A k \in CallIds : k > mcpCalls' => timesRun'[k] = 0 /\ outcomes'[k] = "none"
  BY <1>1, <1>4 DEF McpInv, CallIds
<1> QED BY <1>5, <1>6, <1>7, <1>8, <1>9 DEF McpInv

\* A new call: nothing is known of it yet.
LEMMA CallBegins ==
  ASSUME McpInv, mcpCalls < MaxMcpCalls, NEW t \in McpTools \cup AllowedTools,
         toolOf' = [toolOf EXCEPT ![mcpCalls + 1] = t], mcpCalls' = mcpCalls + 1,
         UNCHANGED <<snapshot, hasTools, timesRun, cleared>>, RequestOK',
         outcomes' = outcomes \/ outcomes' = [outcomes EXCEPT ![mcpCalls + 1] = "refused"]
  PROVE  McpInv'
<1> DEFINE n == mcpCalls + 1
<1>1. /\ n \in CallIds /\ timesRun[n] = 0 /\ outcomes[n] = "none" /\ mcpCalls' \in 0..MaxMcpCalls
      /\ mcpCalls \in Nat
  BY McpAssumption DEF McpInv, McpTypes, CallIds
<1>2. /\ timesRun \in [CallIds -> Nat] /\ timesRun' = timesRun
      /\ outcomes \in [CallIds -> {"none", "refused", "denied", "failed", "ok"}]
      /\ toolOf \in [CallIds -> McpTools \cup AllowedTools \cup {NoTool}]
  BY DEF McpInv, McpTypes
<1>3. outcomes' = outcomes \/ outcomes' = [outcomes EXCEPT ![n] = "refused"]
  OBVIOUS
<1>4. toolOf' = [toolOf EXCEPT ![n] = t] /\ mcpCalls' = n
  OBVIOUS
<1> HIDE DEF n
<1>5. /\ outcomes'[n] \in {"none", "refused"}
      /\ outcomes' \in [CallIds -> {"none", "refused", "denied", "failed", "ok"}]
      /\ toolOf' \in [CallIds -> McpTools \cup AllowedTools \cup {NoTool}]
      /\ \A k \in CallIds : k # n => outcomes'[k] = outcomes[k] /\ toolOf'[k] = toolOf[k]
  BY <1>1, <1>2, <1>3, <1>4
<1>6. McpTypes'
  BY <1>1, <1>5 DEF McpInv, McpTypes
<1>7. RunsOnce'
  <2> SUFFICES ASSUME NEW k \in CallIds
               PROVE  /\ timesRun[k] <= 1
                      /\ outcomes'[k] = "ok" => timesRun[k] = 1
                      /\ outcomes'[k] \in {"refused", "denied"} => timesRun[k] = 0
    BY <1>2 DEF RunsOnce, CallIds
  <2>1. CASE k = n
    BY <1>1, <1>5, <2>1
  <2>2. CASE k # n
    BY <1>5, <2>2 DEF McpInv, RunsOnce, CallIds
  <2> QED BY <2>1, <2>2
<1>8. \A k \in CallIds : timesRun'[k] > 0 => MayRun(k)'
  <2> SUFFICES ASSUME NEW k \in CallIds, timesRun[k] > 0 PROVE MayRun(k)'
    BY <1>2
  <2>1. MayRun(k) /\ k # n
    BY <1>1 DEF McpInv
  <2>2. toolOf'[k] = toolOf[k] /\ cleared' = cleared /\ snapshot' = snapshot /\ hasTools' = hasTools
    BY <1>5, <2>1
  <2> QED BY <2>1, <2>2 DEF MayRun, Waived
<1>9. \A k \in CallIds : k > mcpCalls' => timesRun'[k] = 0 /\ outcomes'[k] = "none"
  <2> SUFFICES ASSUME NEW k \in CallIds, k > n PROVE timesRun[k] = 0 /\ outcomes'[k] = "none"
    BY <1>2, <1>4
  <2>1. k > mcpCalls /\ k # n
    BY <1>1 DEF n, CallIds
  <2> QED BY <1>5, <2>1 DEF McpInv
<1> QED BY <1>6, <1>7, <1>8, <1>9 DEF McpInv

\* The verdict on a call: it is sent when it may run, or it ends without having run.
LEMMA CheckApprovalStep ==
  ASSUME McpInv, CheckApproval
  PROVE  McpInv'
<1> DEFINE n == mcpCalls
<1>0. /\ request_.pc \in {"approve", "go"} /\ request_.method = "call"
      /\ UNCHANGED <<snapshot, hasTools, timesRun, toolOf, mcpCalls>>
  BY DEF CheckApproval, McpInv, RequestOK, Requesting, Sending
<1>1. /\ n \in CallIds /\ n \in 0..MaxMcpCalls /\ timesRun[n] = 0 /\ outcomes[n] = "none"
      /\ toolOf[n] \in AllowedTools /\ (request_.pc = "go" => Waived(toolOf[n]))
      /\ outcomes \in [CallIds -> {"none", "refused", "denied", "failed", "ok"}]
      /\ cleared \in [CallIds -> {"unchecked", "not_required", "approved", "denied", "raised"}]
  BY <1>0 DEF McpInv, RequestOK, McpTypes
<1>2. PICK answer \in {"not_required", "approved", "denied", "raised"} :
        /\ cleared' = [cleared EXCEPT ![n] = answer]
        /\ \/ /\ answer = "approved" \/ (answer = "not_required" /\ request_.pc = "go")
              /\ request_' = Send("call") /\ UNCHANGED outcomes
           \/ request_' = NoRequest /\ outcomes' = [outcomes EXCEPT ![n] = "denied"]
  <2>1. CASE request_.pc = "go"
    BY <2>1 DEF CheckApproval
  <2>2. CASE request_.pc = "approve"
    <3>1. PICK answer \in {"approved", "denied", "raised"} :
            /\ cleared' = [cleared EXCEPT ![n] = answer]
            /\ IF answer \in AnswersTrue THEN request_' = Send("call") /\ UNCHANGED outcomes ELSE Ends("denied")
      BY <2>2 DEF CheckApproval
    <3>2. CASE answer = "approved"
      BY <3>1, <3>2 DEF AnswersTrue
    <3>3. CASE answer # "approved"
      BY <3>1, <3>3 DEF AnswersTrue, Ends
    <3> QED BY <3>2, <3>3
  <2> QED BY <1>0, <2>1, <2>2
<1>3. /\ cleared' \in [CallIds -> {"unchecked", "not_required", "approved", "denied", "raised"}]
      /\ cleared'[n] = answer /\ \A k \in CallIds : k # n => cleared'[k] = cleared[k]
      /\ outcomes' \in [CallIds -> {"none", "refused", "denied", "failed", "ok"}]
      /\ outcomes'[n] \in {"none", "denied"} /\ \A k \in CallIds : k # n => outcomes'[k] = outcomes[k]
  BY <1>1, <1>2
<1>4. McpTypes'
  BY <1>0, <1>3 DEF McpInv, McpTypes
<1>5. RequestOK'
  <2>1. CASE request_' = NoRequest
    BY <2>1, Requests DEF RequestOK
  <2>2. CASE request_' = Send("call") /\ UNCHANGED outcomes /\ (answer = "approved" \/ request_.pc = "go")
    <3>1. MayRun(n)'
      BY <1>0, <1>1, <1>3, <2>2 DEF MayRun, Waived
    <3> QED BY <1>0, <1>1, <2>2, <3>1, Requests DEF RequestOK, Sending
  <2> QED BY <1>2, <2>1, <2>2
<1>6. RunsOnce'
  <2> SUFFICES ASSUME NEW k \in CallIds
               PROVE  /\ timesRun[k] <= 1
                      /\ outcomes'[k] = "ok" => timesRun[k] = 1
                      /\ outcomes'[k] \in {"refused", "denied"} => timesRun[k] = 0
    BY <1>0 DEF RunsOnce, CallIds
  <2>1. CASE k = n
    BY <1>1, <1>3, <2>1
  <2>2. CASE k # n
    BY <1>3, <2>2 DEF McpInv, RunsOnce, CallIds
  <2> QED BY <2>1, <2>2
<1>7. \A k \in CallIds : timesRun'[k] > 0 => MayRun(k)'
  <2> SUFFICES ASSUME NEW k \in CallIds, timesRun[k] > 0 PROVE MayRun(k)'
    BY <1>0
  <2>1. MayRun(k) /\ k # n
    BY <1>1 DEF McpInv
  <2> QED BY <1>0, <1>3, <2>1 DEF MayRun, Waived
<1>8. \A k \in CallIds : k > mcpCalls' => timesRun'[k] = 0 /\ outcomes'[k] = "none"
  <2> SUFFICES ASSUME NEW k \in CallIds, k > n PROVE timesRun[k] = 0 /\ outcomes'[k] = "none"
    BY <1>0
  <2> QED BY <1>1, <1>3 DEF McpInv, CallIds
<1> QED BY <1>4, <1>5, <1>6, <1>7, <1>8 DEF McpInv

\* A page of the discovery.
LEMMA ListPageStep ==
  ASSUME McpInv, ListPage
  PROVE  McpInv'
<1>1. /\ request_.method = "list" /\ ~hasTools
      /\ UNCHANGED <<timesRun, outcomes, cleared, toolOf, mcpCalls>>
  BY DEF ListPage, McpInv, RequestOK
<1>2. \/ request_' = [Send("list") EXCEPT !.page = request_.page + 1] /\ UNCHANGED hasTools
      \/ request_' = NoRequest /\ hasTools' = TRUE
  BY DEF ListPage
<1> DEFINE posted == Send("list")
           more == [posted EXCEPT !.page = request_.page + 1]
<1>3. posted \in Requesting /\ posted.pc \in Sending /\ posted.method = "list" /\ request_.page + 1 \in Nat
  BY Requests DEF McpInv, RequestOK, Requesting
<1> HIDE DEF posted
<1>4. more \in Requesting /\ more.pc \in Sending /\ more.method = "list"
  BY <1>3 DEF Requesting
<1>5. (request_' = more /\ UNCHANGED hasTools) \/ (request_' = NoRequest /\ hasTools' = TRUE)
  BY <1>2 DEF posted
<1> HIDE DEF more
<1>6. RequestOK'
  BY <1>1, <1>4, <1>5, Requests DEF RequestOK, Sending
<1> QED BY <1>1, <1>6, SnapshotFrame

\* A call by a tool's handler, or straight to the client.
LEMMA CallToolStep ==
  ASSUME McpInv, CallTool
  PROVE  McpInv'
<1> DEFINE asked(needed) == [NoRequest EXCEPT !.pc = IF needed THEN "approve" ELSE "go", !.method = "call"]
<1>1. PICK t \in AllowedTools, direct \in BOOLEAN :
        /\ direct \/ (hasTools /\ snapshot[t] # "absent")
        /\ toolOf' = [toolOf EXCEPT ![mcpCalls + 1] = t]
        /\ request_' = asked(direct \/ RequiresApproval(t))
  BY ZenonT(30) DEF CallTool
<1>2. /\ mcpCalls < MaxMcpCalls /\ mcpCalls' = mcpCalls + 1
      /\ UNCHANGED <<snapshot, hasTools, timesRun, outcomes, cleared>>
  BY DEF CallTool
<1>3. /\ mcpCalls + 1 \in CallIds /\ timesRun[mcpCalls + 1] = 0 /\ outcomes[mcpCalls + 1] = "none"
      /\ toolOf \in [CallIds -> McpTools \cup AllowedTools \cup {NoTool}]
  BY <1>2, McpAssumption DEF McpInv, McpTypes, CallIds
<1>4. /\ request_' \in Requesting /\ request_'.method = "call" /\ request_'.pc \in {"approve", "go"}
      /\ request_'.pc = "go" => Waived(t)
  <2>1. \A needed \in BOOLEAN : /\ asked(needed) \in Requesting /\ asked(needed).method = "call"
                                /\ asked(needed).pc = IF needed THEN "approve" ELSE "go"
    BY DEF NoRequest, Requesting
  <2> HIDE DEF asked
  <2> DEFINE needed == direct \/ RequiresApproval(t)
  <2>2. needed \in BOOLEAN /\ (~needed => Waived(t))
    BY <1>1 DEF RequiresApproval, Waived
  <2> HIDE DEF needed
  <2>3. request_' = asked(needed)
    BY <1>1 DEF needed
  <2> QED BY <2>1, <2>2, <2>3
<1>5. toolOf'[mcpCalls'] = t
  BY <1>1, <1>2, <1>3
<1>6. RequestOK'
  BY <1>2, <1>3, <1>4, <1>5 DEF RequestOK, Waived, Sending
<1> QED BY <1>1, <1>2, <1>6, CallBegins

\* A request that fails: the call that it was ends, a discovery is given up.
LEMMA RequestFails ==
  ASSUME McpInv, request_.pc \in Sending, Fails,
         UNCHANGED <<snapshot, hasTools, cleared, toolOf, mcpCalls>>,
         UNCHANGED timesRun \/ Runs
  PROVE  McpInv'
<1>1. CASE request_.method = "call"
  BY <1>1, CallEnds DEF Fails, Runs
<1>2. CASE request_.method # "call"
  <2>1. request_' = NoRequest /\ UNCHANGED <<outcomes, timesRun>>
    BY <1>2 DEF Fails, Runs
  <2>2. RequestOK'
    BY <2>1, Requests DEF RequestOK
  <2> QED BY <2>1, <2>2, CallsFrame
<1> QED BY <1>1, <1>2

\* A request that is answered.
LEMMA RequestAnswered ==
  ASSUME McpInv, request_.pc \in Sending, NEW e, Answered(e), Runs,
         UNCHANGED <<snapshot, hasTools, cleared, toolOf, mcpCalls>>
  PROVE  McpInv'
<1>1. CASE request_.method = "call"
  BY <1>1, CallEnds DEF Answered, Runs
<1>2. CASE request_.method # "call"
  <2>1. request_' = [request_ EXCEPT !.pc = "answered"] /\ UNCHANGED <<outcomes, timesRun>>
    BY <1>2 DEF Answered, Runs
  <2>2. request_.method = "list" /\ ~hasTools
    BY <1>2 DEF McpInv, RequestOK, Requesting, Sending
  <2>3. request_' \in Requesting /\ request_'.pc = "answered" /\ request_'.method = "list"
    BY <2>1, <2>2, WithPc DEF McpInv, RequestOK
  <2>4. RequestOK'
    BY <2>2, <2>3 DEF RequestOK
  <2> QED BY <2>1, <2>4, CallsFrame
<1> QED BY <1>1, <1>2

\* A request that goes on in the legacy protocol has not run.
LEMMA RequestGoesOn ==
  ASSUME McpInv, request_.pc \in Sending, NEW pc \in Sending, request_' = [request_ EXCEPT !.pc = pc],
         UNCHANGED <<snapshot, hasTools, timesRun, outcomes, cleared, toolOf, mcpCalls>>
  PROVE  McpInv'
<1>1. /\ request_' \in Requesting /\ request_'.pc = pc /\ request_'.pc \in Sending
      /\ request_'.method = request_.method
  BY WithPc DEF McpInv, RequestOK
<1>2. RequestOK'
  BY <1>1 DEF McpInv, RequestOK, MayRun, Waived, Sending
<1> QED BY <1>2, CallsFrame

LEMMA McpSteps == McpInv /\ [McpNext]_mcpVars => McpInv'
<1> SUFFICES ASSUME McpInv, [McpNext]_mcpVars PROVE McpInv'
  OBVIOUS
<1>a. ASSUME UNCHANGED <<snapshot, hasTools, timesRun, outcomes, cleared, toolOf, mcpCalls, request_>>
      PROVE  McpInv'
  <2>1. RequestOK'
    BY <1>a DEF McpInv, RequestOK, MayRun, Waived
  <2> QED BY <1>a, <2>1, CallsFrame
<1>1. CASE ServerChanges
  BY <1>a, <1>1 DEF ServerChanges
<1>2. CASE Discover
  <2>1. RequestOK'
    BY <1>2, Requests DEF Discover, RequestOK, Sending
  <2> QED BY <1>2, <2>1, SnapshotFrame DEF Discover
<1>3. CASE OwnerSpecs
  <2>1. RequestOK'
    BY <1>3 DEF OwnerSpecs, McpInv, RequestOK, Sending
  <2> QED BY <1>3, <2>1, SnapshotFrame DEF OwnerSpecs
<1>4. CASE ListPage
  BY <1>4, ListPageStep
<1>5. CASE CallTool
  BY <1>5, CallToolStep
<1>6. CASE RefuseCall
  <2>1. PICK t \in McpTools : toolOf' = [toolOf EXCEPT ![mcpCalls + 1] = t]
    BY <1>6 DEF RefuseCall
  <2>2. RequestOK'
    BY <1>6 DEF RefuseCall, McpInv, RequestOK, Sending
  <2> QED BY <1>6, <2>1, <2>2, CallBegins DEF RefuseCall
<1>7. CASE CheckApproval
  BY <1>7, CheckApprovalStep
<1>8. CASE Modern
  <2>0. request_.pc = "modern" /\ UNCHANGED <<snapshot, hasTools, cleared, toolOf, mcpCalls>>
    BY <1>8 DEF Modern
  <2>1. PICK reply \in {"result", "lost", "rejected", "error"} :
          /\ IF reply \in {"result", "lost"} THEN Runs ELSE UNCHANGED timesRun
          /\ IF reply = "result" THEN Answered("modern")
             ELSE IF UsesLegacy(reply) THEN request_' = [request_ EXCEPT !.pc = "initialize"] /\ UNCHANGED outcomes
                  ELSE Fails
    BY <1>8 DEF Modern
  <2>2. CASE reply = "result"
    BY <2>0, <2>1, <2>2, RequestAnswered DEF Sending
  <2>3. CASE reply = "rejected"
    BY <2>0, <2>1, <2>3, RequestGoesOn DEF UsesLegacy, Sending
  <2>4. CASE reply \in {"lost", "error"}
    BY <2>0, <2>1, <2>4, RequestFails DEF UsesLegacy, Sending
  <2> QED BY <2>2, <2>3, <2>4
<1>9. CASE Initialize
  BY <1>9, RequestGoesOn, RequestFails DEF Initialize, Sending
<1>10. CASE Legacy
  BY <1>10, RequestAnswered, RequestFails DEF Legacy, Sending
<1>11. CASE UNCHANGED mcpVars
  BY <1>a, <1>11 DEF mcpVars
<1> QED BY <1>1, <1>2, <1>3, <1>4, <1>5, <1>6, <1>7, <1>8, <1>9, <1>10, <1>11 DEF McpNext

LEMMA McpStarts == McpInit => McpInv
<1> SUFFICES ASSUME McpInit PROVE McpInv
  OBVIOUS
<1>1. McpTypes
  BY McpAssumption DEF McpInit, McpTypes, CallIds
<1>2. \A k \in CallIds : timesRun[k] = 0 /\ outcomes[k] = "none"
  BY DEF McpInit, CallIds
<1>3. RequestOK
  BY Requests DEF McpInit, RequestOK
<1> QED BY <1>1, <1>2, <1>3 DEF McpInv, RunsOnce, CallIds

\* Whatever protocols are tried for a call and whatever replies are lost, it runs at the server at
\* most once, exactly once when it is reported ok and never when it is refused or denied; and what
\* runs is allowlisted and was approved, unless the owner waived it for what the snapshot says.
THEOREM McpCallsSafe == McpSpec => []McpCallsAreSafe
<1>1. McpSpec => []McpInv
  BY McpStarts, McpSteps, PTL DEF McpSpec
<1>2. McpInv => McpCallsAreSafe
  BY DEF McpInv, McpCallsAreSafe, RunsCleared, MayRun, Waived, CallIds
<1> QED BY <1>1, <1>2, PTL
-----------------------------------------------------------------------------
(* The transport: one POST, its watchdog and the server. *)

Responses == [size : Nat, sized : BOOLEAN, final : Nat, open : BOOLEAN]
CallSteps == {"resolve", "connect", "wrap", "check", "talk", "read", "end", "stopped",
              "returned", "refused", "deadline", "error", "too_large"}

NetTypes ==
  /\ dns \subseteq Addresses /\ call \in CallSteps
  /\ holder \in {"none", "open", "shut"} /\ watchdog \in {"unset", "armed", "flagged", "over"}
  /\ deadlineHit \in BOOLEAN /\ late \in BOOLEAN
  /\ response \in Responses
  /\ sent \in Nat /\ read \in Nat /\ read <= sent /\ sent <= response.size

\* Only a public address is pinned, and before anything is connected to.
Pinned ==
  /\ pinned \in PublicAddresses \cup {NoAddress}
  /\ call \notin {"resolve", "refused"} => pinned \in PublicAddresses
  /\ PeerIsPublic

\* The body: at a normal end it is whole or the server broke off, unless the flag is set, which is
\* what tells a socket shut down from a body at its end.
BodyOK ==
  /\ call = "end" /\ ~deadlineHit => ~response.open \/ read = response.size
  /\ call = "stopped" => response.final # 0 /\ read = response.final
  /\ ReturnedIsWhole

\* The watchdog: it sets the flag before it shuts anything down, and from the check on there is a
\* socket for it to shut down.
WatchdogOK ==
  /\ holder = "shut" \/ watchdog = "flagged" => deadlineHit
  /\ call \in {"check", "talk", "read", "end", "stopped"} => holder # "none"
  /\ WatchdogBites

NetInv == NetTypes /\ Pinned /\ BodyOK /\ WatchdogOK

LEMMA NetStarts == NetInit => NetInv
<1> SUFFICES ASSUME NetInit PROVE NetInv
  OBVIOUS
<1>1. response \in Responses /\ response.open = TRUE
  <2>1. response.final \in Nat
    BY NetAssumption DEF NetInit
  <2> QED BY <2>1, NetAssumption DEF NetInit, Responses
<1>2. NetTypes
  <2>1. response.size \in Nat
    BY <1>1 DEF Responses
  <2>2. sent = 0 /\ read = 0 /\ deadlineHit = FALSE /\ late = FALSE
    BY DEF NetInit
  <2>3. deadlineHit \in BOOLEAN /\ late \in BOOLEAN
    BY <2>2, Zenon
  <2>4. /\ dns \subseteq Addresses /\ call = "resolve" /\ holder = "none" /\ watchdog = "unset"
    BY DEF NetInit
  <2> QED BY <1>1, <2>1, <2>2, <2>3, <2>4 DEF NetTypes, CallSteps
<1>3. Pinned /\ BodyOK /\ WatchdogOK
  BY DEF NetInit, Pinned, PeerIsPublic, BodyOK, ReturnedIsWhole, WatchdogOK, WatchdogBites
<1> QED BY <1>2, <1>3 DEF NetInv

\* The finally clause disturbs nothing of the invariant when the call ends with an exception.
LEMMA Throws ==
  ASSUME NetInv, NEW how \in {"deadline", "error", "too_large"}, End(how),
         call \notin {"resolve", "refused"},
         UNCHANGED <<dns, pinned, peer, holder, deadlineHit, late, response, sent>>,
         read' \in Nat, read' <= sent
  PROVE  NetInv'
<1>1. call' = how /\ watchdog' \in {watchdog, "over"}
  BY DEF End
<1>2. NetTypes'
  BY <1>1 DEF NetInv, NetTypes, CallSteps
<1>3. Pinned'
  BY <1>1 DEF NetInv, Pinned, PeerIsPublic
<1>4. BodyOK'
  BY <1>1 DEF BodyOK, ReturnedIsWhole
<1>5. WatchdogOK'
  BY <1>1 DEF NetInv, WatchdogOK, WatchdogBites
<1> QED BY <1>2, <1>3, <1>4, <1>5 DEF NetInv

\* The call goes on, its socket and the body as they are.
LEMMA GoesOn ==
  ASSUME NetInv, call \notin {"resolve", "refused"}, call' \in {"wrap", "talk", "read"},
         call' = "wrap" => call = "connect", call' = "talk" => ~deadlineHit /\ call = "check",
         call' = "read" => call = "talk",
         peer' \in {peer, pinned},
         UNCHANGED <<dns, pinned, holder, deadlineHit, watchdog, late, response, sent, read>>
  PROVE  NetInv'
<1>1. NetTypes'
  BY DEF NetInv, NetTypes, CallSteps
<1>2. Pinned'
  BY DEF NetInv, Pinned, PeerIsPublic
<1>3. BodyOK'
  BY DEF BodyOK, ReturnedIsWhole
<1>4. WatchdogOK'
  BY DEF NetInv, WatchdogOK, WatchdogBites
<1> QED BY <1>1, <1>2, <1>3, <1>4 DEF NetInv

LEMMA ResolveStep == ASSUME NetInv, Resolve PROVE NetInv'
<1>0. call = "resolve" /\ UNCHANGED <<dns, peer, holder, deadlineHit, late, response, sent, read>>
  BY DEF Resolve
<1>1. \/ pinned' \in PublicAddresses /\ call' = "connect" /\ watchdog' = "armed"
      \/ call' = "refused" /\ watchdog' \in {watchdog, "over"} /\ pinned' = pinned
  BY DEF Resolve, End
<1>2. NetTypes'
  BY <1>0, <1>1 DEF NetInv, NetTypes, CallSteps
<1>3. Pinned'
  BY <1>0, <1>1 DEF NetInv, Pinned, PeerIsPublic
<1>4. BodyOK'
  BY <1>1 DEF BodyOK, ReturnedIsWhole
<1>5. WatchdogOK'
  BY <1>0, <1>1 DEF NetInv, WatchdogOK, WatchdogBites
<1> QED BY <1>2, <1>3, <1>4, <1>5 DEF NetInv

LEMMA WrapSocketStep == ASSUME NetInv, WrapSocket PROVE NetInv'
<1>0. /\ call = "wrap" /\ holder' = "open" /\ call' = "check"
      /\ UNCHANGED <<dns, pinned, peer, deadlineHit, watchdog, late, response, sent, read>>
  BY DEF WrapSocket
<1>2. NetTypes'
  BY <1>0 DEF NetInv, NetTypes, CallSteps
<1>3. Pinned'
  BY <1>0 DEF NetInv, Pinned, PeerIsPublic
<1>4. BodyOK'
  BY <1>0 DEF BodyOK, ReturnedIsWhole
<1>5. WatchdogOK'
  BY <1>0 DEF NetInv, WatchdogOK, WatchdogBites
<1> QED BY <1>2, <1>3, <1>4, <1>5 DEF NetInv

LEMMA ReadPieceStep == ASSUME NetInv, ReadPiece PROVE NetInv'
<1>0. /\ call = "read" /\ holder = "open" /\ read < sent /\ read' = read + 1
      /\ UNCHANGED <<dns, pinned, peer, holder, deadlineHit, late, response, sent>>
  BY DEF ReadPiece
<1>1. read' \in Nat /\ read' <= sent /\ read' # 0
  BY <1>0 DEF NetInv, NetTypes
<1>2. CASE End("too_large") \/ End("deadline")
  BY <1>0, <1>1, <1>2, Throws
<1>3. CASE /\ call' = (IF read' = response.final THEN "stopped" ELSE "read")
           /\ UNCHANGED watchdog
  <2>1. NetTypes'
    BY <1>0, <1>1, <1>3 DEF NetInv, NetTypes, CallSteps
  <2>2. Pinned'
    BY <1>0, <1>3 DEF NetInv, Pinned, PeerIsPublic
  <2>3. BodyOK'
    BY <1>0, <1>1, <1>3 DEF BodyOK, ReturnedIsWhole
  <2>4. WatchdogOK'
    BY <1>0, <1>3 DEF NetInv, WatchdogOK, WatchdogBites
  <2> QED BY <2>1, <2>2, <2>3, <2>4 DEF NetInv
<1> QED BY <1>2, <1>3 DEF ReadPiece

\* An end of the body that is a shutdown in disguise comes with the flag.
LEMMA ReadEndStep == ASSUME NetInv, ReadEnd PROVE NetInv'
<1>0. /\ call = "read" /\ call' = "end"
      /\ UNCHANGED <<dns, pinned, peer, holder, deadlineHit, watchdog, late, response, sent, read>>
  BY DEF ReadEnd
<1>1. ~deadlineHit => ~response.open \/ read = response.size
  BY DEF ReadEnd, NetInv, WatchdogOK
<1>2. NetTypes'
  BY <1>0 DEF NetInv, NetTypes, CallSteps
<1>3. Pinned'
  BY <1>0 DEF NetInv, Pinned, PeerIsPublic
<1>4. BodyOK'
  BY <1>0, <1>1 DEF BodyOK, ReturnedIsWhole
<1>5. WatchdogOK'
  BY <1>0 DEF NetInv, WatchdogOK, WatchdogBites
<1> QED BY <1>2, <1>3, <1>4, <1>5 DEF NetInv

LEMMA EndOfBodyStep == ASSUME NetInv, EndOfBody PROVE NetInv'
<1>0. /\ call \in {"end", "stopped"}
      /\ UNCHANGED <<dns, pinned, peer, holder, deadlineHit, late, response, sent, read>>
  BY DEF EndOfBody
<1>1. CASE End("deadline") \/ End("error")
  BY <1>0, <1>1, Throws DEF NetInv, NetTypes
<1>2. CASE ~deadlineHit /\ ~(call = "end" /\ response.sized /\ read < response.size) /\ End("returned")
  <2>0. call' = "returned" /\ watchdog' \in {watchdog, "over"}
    BY <1>2 DEF End
  <2>1. NetTypes'
    BY <1>0, <2>0 DEF NetInv, NetTypes, CallSteps
  <2>2. Pinned'
    BY <1>0, <2>0 DEF NetInv, Pinned, PeerIsPublic
  <2>3. BodyOK'
    <3>1. response.size \in Nat /\ read \in Nat /\ read <= response.size
      BY DEF NetInv, NetTypes, Responses
    <3>2. \/ read = response.size
          \/ response.final # 0 /\ read = response.final
          \/ ~response.sized /\ ~response.open
      BY <1>0, <1>2, <3>1 DEF NetInv, BodyOK
    <3> QED BY <1>0, <2>0, <3>2 DEF BodyOK, ReturnedIsWhole
  <2>4. WatchdogOK'
    BY <1>0, <1>2, <2>0 DEF NetInv, WatchdogOK, WatchdogBites
  <2> QED BY <2>1, <2>2, <2>3, <2>4 DEF NetInv
<1> QED BY <1>1, <1>2 DEF EndOfBody, DeadlineSeen

\* The watchdog and the clock.
LEMMA WatchdogStep ==
  ASSUME NetInv, TimePasses \/ WatchdogFlags \/ WatchdogShuts PROVE NetInv'
<1>0. UNCHANGED <<dns, pinned, peer, call, response, sent, read>>
  BY DEF TimePasses, WatchdogFlags, WatchdogShuts
<1>1. NetTypes'
  BY <1>0 DEF NetInv, NetTypes, TimePasses, WatchdogFlags, WatchdogShuts
<1>2. Pinned'
  BY <1>0 DEF NetInv, Pinned, PeerIsPublic
<1>3. ASSUME deadlineHit PROVE deadlineHit'
  <2>1. \/ deadlineHit' = TRUE
        \/ deadlineHit' = deadlineHit
    BY Zenon DEF TimePasses, WatchdogFlags, WatchdogShuts
  <2> QED BY <1>3, <2>1, Zenon
<1>4. BodyOK'
  BY <1>0, <1>3 DEF NetInv, BodyOK, ReturnedIsWhole
<1>5. WatchdogOK'
  BY <1>0 DEF NetInv, NetTypes, WatchdogOK, WatchdogBites, TimePasses, WatchdogFlags, WatchdogShuts
<1> QED BY <1>1, <1>2, <1>4, <1>5 DEF NetInv

\* The name service and the server.
LEMMA PeerStep ==
  ASSUME NetInv, NameChanges \/ ServerSends \/ ServerBreaksOff PROVE NetInv'
<1>0. UNCHANGED <<pinned, peer, call, holder, deadlineHit, watchdog, late, read>>
  BY DEF NameChanges, ServerSends, ServerBreaksOff
<1>1. NetTypes'
  <2>1. CASE NameChanges
    BY <2>1 DEF NetInv, NetTypes, NameChanges
  <2>2. CASE ServerSends
    BY <2>2 DEF NetInv, NetTypes, Responses, ServerSends
  <2>3. CASE ServerBreaksOff
    BY <2>3 DEF NetInv, NetTypes, Responses, ServerBreaksOff
  <2> QED BY <2>1, <2>2, <2>3
<1>2. Pinned'
  BY <1>0 DEF NetInv, Pinned, PeerIsPublic
<1>3. BodyOK'
  BY <1>0 DEF NetInv, BodyOK, ReturnedIsWhole, NameChanges, ServerSends, ServerBreaksOff
<1>4. WatchdogOK'
  BY <1>0 DEF NetInv, WatchdogOK, WatchdogBites
<1> QED BY <1>1, <1>2, <1>3, <1>4 DEF NetInv

LEMMA NetSteps == NetInv /\ [NetNext]_netVars => NetInv'
<1> SUFFICES ASSUME NetInv, [NetNext]_netVars PROVE NetInv'
  OBVIOUS
<1>r. read \in Nat /\ read <= sent
  BY DEF NetInv, NetTypes
<1>1. CASE NameChanges \/ ServerSends \/ ServerBreaksOff
  BY <1>1, PeerStep
<1>2. CASE Resolve
  BY <1>2, ResolveStep
<1>3. CASE Connect
  BY <1>3, <1>r, Throws, GoesOn DEF Connect, Address
<1>4. CASE WrapSocket
  BY <1>4, WrapSocketStep
<1>5. CASE CheckDeadline
  BY <1>5, <1>r, Throws, GoesOn DEF CheckDeadline
<1>6. CASE Talk
  BY <1>6, <1>r, Throws, GoesOn DEF Talk
<1>7. CASE ReadPiece
  BY <1>7, ReadPieceStep
<1>8. CASE ReadEnd
  BY <1>8, ReadEndStep
<1>9. CASE ReadFails
  BY <1>9, <1>r, Throws DEF ReadFails
<1>10. CASE EndOfBody
  BY <1>10, EndOfBodyStep
<1>11. CASE TimePasses \/ WatchdogFlags \/ WatchdogShuts
  BY <1>11, WatchdogStep
<1>12. CASE UNCHANGED netVars
  BY <1>12 DEF netVars, NetInv, NetTypes, Pinned, PeerIsPublic, BodyOK, ReturnedIsWhole, WatchdogOK,
     WatchdogBites
<1> QED BY <1>1, <1>2, <1>3, <1>4, <1>5, <1>6, <1>7, <1>8, <1>9, <1>10, <1>11, <1>12 DEF NetNext

\* Whatever the name resolves to and however slow or short the server is, https_post connects only
\* to the public address it checked, returns no cut-off body as a whole one, and once the watchdog
\* is over no call that is under way has a socket that can block it.
THEOREM TransportKept == NetSpec => []TransportKeepsItsWord
<1>1. NetSpec => []NetInv
  BY NetStarts, NetSteps, PTL DEF NetSpec
<1>2. NetInv => TransportKeepsItsWord
  BY DEF NetInv, Pinned, BodyOK, WatchdogOK, TransportKeepsItsWord
<1> QED BY <1>1, <1>2, PTL
(***************************************************************************)
(* Vector stores.                                                          *)
(***************************************************************************)
OpSet ==
    [pc : {"idle", "ingest", "embed", "put", "vector", "delete", "unregister", "save"},
     doc : VDocs \cup {NoThread}, next : 1..(NChunks + 1),
     stored : SUBSET (VDocs \X (1..NChunks)), clean : BOOLEAN, then : {"return", "ingest"}]

VecShape ==
    /\ backend \in AllBackends /\ registered \subseteq VDocs /\ opened \in BOOLEAN
    /\ lockedBy \in VThreads \cup {NoThread} /\ lastRowId \in Nat
    /\ op \in [VThreads -> OpSet]
    /\ fate \in [VDocs -> {"unused", "ingesting", "stored", "touched", "gone"}]
    /\ kept \in [VDocs -> SUBSET (VDocs \X (1..NChunks))]
    /\ \A d \in VDocs : kept[d] \subseteq ({d} \X (1..NChunks))

Ingesting(t) == op[t].pc \in {"embed", "put", "vector"}
Deleting(t) == op[t].pc \in {"delete", "unregister", "save"}

Everywhere == rows \cup vecs \cup indexFile

\* An id names one chunk, now and in any vector that outlived its row.
IdsOK ==
    /\ \A x \in Everywhere : /\ x[2] \in VDocs \X (1..NChunks)
                             /\ IF backend.file THEN x[1] \in 1..lastRowId ELSE x[1] = x[2]
    /\ \A x \in Everywhere, r \in rows : x[1] = r[1] => x[2] = r[2]

\* What has to be where for a search to find a chunk, also after a restart.
Findable(c) ==
    IF backend.text = "row"
    THEN \E r \in rows : r[2] = c /\ r \in vecs /\ (backend.file => r \in indexFile)
    ELSE \E v \in vecs : v[2] = c

NoRowOf(d) == \A r \in rows : r[2][1] # d
NoVecOf(d) == \A v \in vecs : v[2][1] # d

\* A document is ingested by one thread, which has put what it counts as stored.
IngestsOK(t) ==
    Ingesting(t) =>
        LET d == op[t].doc IN
        /\ d \in VDocs /\ fate[d] \in {"ingesting", "touched"}
        /\ op[t].stored \subseteq ({d} \X (1..NChunks))
        /\ op[t].pc # "embed" => op[t].next <= NChunks
        /\ fate[d] = "ingesting" => \A c \in op[t].stored : Findable(c)
        /\ op[t].pc = "vector" => /\ backend.text = "row"
                                  /\ fate[d] = "ingesting" => \E r \in rows : r[2] = Chunk(t)

\* A clean delete has nobody beside it who adds to its document.
DeletesOK(t) ==
    Deleting(t) =>
        LET d == op[t].doc IN
        /\ d \in VDocs /\ fate[d] \in {"touched", "gone"}
        /\ op[t].pc = "unregister" => backend.text # "sql"
        /\ op[t].pc = "save" => backend.file
        /\ op[t].clean =>
            /\ Ready
            /\ \A u \in VThreads : Ingesting(u) => op[u].doc # d
            /\ op[t].pc = "unregister" /\ backend.text = "vector" => NoVecOf(d)
            /\ op[t].pc = "save" => NoRowOf(d)

Apart(t, u) == Ingesting(t) /\ Ingesting(u) => op[t].doc # op[u].doc

FateOK(d) ==
    /\ fate[d] = "stored" => \A c \in kept[d] : Findable(c)
    /\ fate[d] = "gone" => /\ backend.text # "vector" => NoRowOf(d)
                           /\ backend.text # "row" => NoVecOf(d)

VecInv ==
    /\ VecShape
    /\ IdsOK
    /\ \A t \in VThreads : IngestsOK(t) /\ DeletesOK(t)
    /\ \A t, u \in VThreads : t # u => Apart(t, u)
    /\ \A d \in VDocs : FateOK(d)

LEMMA IdleOpFields ==
    /\ IdleOp \in OpSet /\ IdleOp.pc = "idle" /\ IdleOp.doc = NoThread /\ IdleOp.next = 1
    /\ IdleOp.stored = {} /\ IdleOp.clean = FALSE /\ IdleOp.then = "return"
BY VectorAssumption DEF IdleOp, OpSet

\* What starting an operation on a document makes of a thread's record.
LEMMA IngestFields ==
    ASSUME NEW d \in VDocs
    PROVE  LET k == [IdleOp EXCEPT !.pc = "embed", !.doc = d] IN
           /\ k \in OpSet /\ k.pc = "embed" /\ k.doc = d /\ k.next = 1 /\ k.stored = {}
<1>1. \A k \in OpSet : LET k1 == [k EXCEPT !.pc = "embed", !.doc = d] IN
        k1 \in OpSet /\ k1.pc = "embed" /\ k1.doc = d /\ k1.next = k.next /\ k1.stored = k.stored
  BY DEF OpSet
<1> QED BY <1>1, IdleOpFields

LEMMA DeleteFields ==
    ASSUME NEW d \in VDocs, NEW n \in {"return", "ingest"}
    PROVE  LET k == [IdleOp EXCEPT !.pc = "delete", !.doc = d, !.then = n, !.clean = IsClean(d)] IN
           k \in OpSet /\ k.pc = "delete" /\ k.doc = d /\ (k.clean => IsClean(d))
<1>1. IsClean(d) \in BOOLEAN BY DEF IsClean
<1>2. \A k \in OpSet :
        LET k1 == [k EXCEPT !.pc = "delete", !.doc = d, !.then = n, !.clean = IsClean(d)] IN
        k1 \in OpSet /\ k1.pc = "delete" /\ k1.doc = d /\ (k1.clean => IsClean(d))
  BY <1>1 DEF OpSet
<1> QED BY <1>2, IdleOpFields

LEMMA ResumeFields ==
    LET k == [IdleOp EXCEPT !.pc = "ingest"] IN k \in OpSet /\ k.pc = "ingest"
<1>1. \A k \in OpSet : LET k1 == [k EXCEPT !.pc = "ingest"] IN k1 \in OpSet /\ k1.pc = "ingest"
  BY DEF OpSet
<1> QED BY <1>1, IdleOpFields

LEMMA BackendFacts ==
    ASSUME VecShape
    PROVE  /\ backend.text \in {"sql", "row", "vector"}
           /\ backend.file \in BOOLEAN /\ backend.lazy \in BOOLEAN /\ backend.locked \in BOOLEAN
           /\ backend.file => backend.text = "row"
           /\ backend.text = "sql" => Ready
<1>1. CASE backend = Trait("sql", FALSE, FALSE, FALSE) BY <1>1 DEF Trait, Ready
<1>2. CASE backend = Trait("row", TRUE, TRUE, TRUE) BY <1>2 DEF Trait
<1>3. CASE backend = Trait("row", TRUE, FALSE, TRUE) BY <1>3 DEF Trait
<1>4. CASE backend = Trait("vector", TRUE, FALSE, TRUE) BY <1>4 DEF Trait
<1>5. CASE backend = Trait("vector", FALSE, FALSE, FALSE) BY <1>5 DEF Trait
<1> QED
  BY <1>1, <1>2, <1>3, <1>4, <1>5
  DEF VecShape, AllBackends, PgVector, OpenSearch, Faiss, Pinecone, Qdrant, Milvus, Weaviate, Chroma,
      LanceDB, Upstash, Redis

\* The invariant gives the promise: what a search finds has its text, and what is stored is found.
LEMMA VecInvGives ==
    ASSUME VecInv PROVE VecTypeOK /\ VectorStoresAreSound
<1> USE BackendFacts DEF VecInv
<1>1. VecTypeOK BY DEF VecTypeOK, VecShape, OpSet
<1>2. SearchIsHonest
  <2> SUFFICES ASSUME Ready, NEW f \in SearchDense PROVE f[1] = f[2] /\ fate[f[1][1]] # "gone"
    BY DEF SearchIsHonest, SearchDense
  <2>1. CASE backend.text = "row"
    <3>1. PICK v \in vecs, r \in rows : v[1] = r[1] /\ f = <<v[2], r[2]>>
      BY <2>1 DEF SearchDense
    <3>2. v[2] = r[2] BY <3>1 DEF IdsOK, Everywhere
    <3>3. r[2][1] \in VDocs BY DEF IdsOK, Everywhere
    <3>4. fate[r[2][1]] = "gone" => NoRowOf(r[2][1]) BY <2>1, <3>3 DEF FateOK
    <3> QED BY <3>1, <3>2, <3>4 DEF NoRowOf
  <2>2. CASE backend.text # "row"
    <3>1. PICK v \in vecs : f = <<v[2], v[2]>> BY <2>2 DEF SearchDense
    <3>2. v[2][1] \in VDocs BY DEF IdsOK, Everywhere
    <3>3. fate[v[2][1]] = "gone" => NoVecOf(v[2][1]) BY <2>2, <3>2 DEF FateOK
    <3> QED BY <3>1, <3>3 DEF NoVecOf
  <2> QED BY <2>1, <2>2
<1>3. StoredIsFound
  <2> SUFFICES ASSUME Ready, NEW d \in VDocs, fate[d] = "stored", NEW c \in kept[d]
               PROVE  <<c, c>> \in SearchDense
    BY DEF StoredIsFound
  <2>1. Findable(c) BY DEF FateOK
  <2>2. CASE backend.text = "row"
    <3>1. PICK r \in rows : r[2] = c /\ r \in vecs BY <2>1, <2>2 DEF Findable
    <3>2. <<r, r>> \in {p \in vecs \X rows : p[1][1] = p[2][1]} BY <3>1
    <3>3. SearchDense = {<<p[1][2], p[2][2]>> : p \in {p \in vecs \X rows : p[1][1] = p[2][1]}}
      BY <2>2 DEF SearchDense
    <3>4. <<c, c>> = <<<<r, r>>[1][2], <<r, r>>[2][2]>> BY <3>1
    <3> QED BY <3>2, <3>3, <3>4
  <2>3. CASE backend.text # "row" BY <2>1, <2>3 DEF Findable, SearchDense
  <2> QED BY <2>2, <2>3
<1> QED BY <1>1, <1>2, <1>3 DEF VectorStoresAreSound

LEMMA VecInitInv == ASSUME VecInit PROVE VecInv
<1> USE VectorAssumption DEF VecInit
<1>1. VecShape BY DEF VecShape, OpSet, IdleOp
<1>2. IdsOK BY DEF IdsOK, Everywhere
<1>3. \A t \in VThreads : IngestsOK(t) /\ DeletesOK(t)
  BY DEF IngestsOK, DeletesOK, Ingesting, Deleting, IdleOp
<1>4. \A t, u \in VThreads : t # u => Apart(t, u) BY DEF Apart, Ingesting, IdleOp
<1>5. \A d \in VDocs : FateOK(d) BY DEF FateOK
<1> QED BY <1>1, <1>2, <1>3, <1>4, <1>5 DEF VecInv

LEMMA StepIngestText ==
    ASSUME VecInv, NEW t \in VThreads, IngestText(t) PROVE VecInv'
<1> USE VectorAssumption DEF VecInv
<1>1. PICK d \in VDocs : /\ fate[d] = "unused" /\ fate' = [fate EXCEPT ![d] = "ingesting"]
                         /\ registered' = registered \cup {d}
                         /\ op' = [op EXCEPT ![t] = [IdleOp EXCEPT !.pc = "embed", !.doc = d]]
  BY DEF IngestText
<1>2. UNCHANGED <<backend, rows, vecs, indexFile, lastRowId, opened, lockedBy, kept>>
  BY DEF IngestText
<1> DEFINE k == [IdleOp EXCEPT !.pc = "embed", !.doc = d]
<1>3. k \in OpSet /\ k.pc = "embed" /\ k.doc = d /\ k.next = 1 /\ k.stored = {}
  BY IngestFields
<1>4. /\ \A u \in VThreads \ {t} : op'[u] = op[u]
      /\ op'[t] = k
  BY <1>1 DEF VecShape
<1> HIDE DEF k
<1>14. op' \in [VThreads -> OpSet]
  <2>1. op' = [op EXCEPT ![t] = k] BY <1>1 DEF k
  <2> QED BY <2>1, <1>3 DEF VecShape
<1>13. VecShape' BY <1>1, <1>2, <1>14 DEF VecShape
<1>5. IdsOK' BY <1>2 DEF IdsOK, Everywhere
<1>6. fate'[d] = "ingesting" /\ \A e \in VDocs \ {d} : fate'[e] = fate[e] BY <1>1 DEF VecShape
<1>7. \A c : Findable(c)' <=> Findable(c) BY <1>2 DEF Findable
<1>8. \A u \in VThreads : /\ Ingesting(u) => op[u].doc # d
                          /\ Deleting(u) => op[u].doc # d
  BY <1>1 DEF IngestsOK, DeletesOK
<1>9. \A u \in VThreads \ {t} : (IngestsOK(u) /\ DeletesOK(u))'
  <2> SUFFICES ASSUME NEW u \in VThreads \ {t} PROVE (IngestsOK(u) /\ DeletesOK(u))'
    OBVIOUS
  <2>1. IngestsOK(u)' BY <1>2, <1>4, <1>6, <1>7, <1>8 DEF IngestsOK, Ingesting, Chunk
  <2>2. DeletesOK(u)'
    BY <1>2, <1>3, <1>4, <1>6, <1>8 DEF DeletesOK, Deleting, Ingesting, Ready, NoVecOf, NoRowOf
  <2> QED BY <2>1, <2>2
<1>10. (IngestsOK(t) /\ DeletesOK(t))' BY <1>3, <1>4, <1>6 DEF IngestsOK, DeletesOK, Ingesting, Deleting
<1>11. \A u, v \in VThreads : u # v => Apart(u, v)'
  BY <1>3, <1>4, <1>8 DEF Apart, Ingesting
<1>12. \A e \in VDocs : FateOK(e)' BY <1>2, <1>6, <1>7 DEF FateOK, NoRowOf, NoVecOf
<1> QED BY <1>13, <1>5, <1>9, <1>10, <1>11, <1>12

FateStep(t, d) ==
    \/ fate'[d] = fate[d]
    \/ fate[d] \in {"ingesting", "stored", "touched"} /\ fate'[d] = "touched"
    \/ fate[d] = "ingesting" /\ fate'[d] = "stored" /\ Ingesting(t) /\ op[t].doc = d
    \/ Deleting(t) /\ op[t].clean /\ op[t].doc = d /\ fate'[d] = "gone"

\* A thread's step leaves what the invariant says of the others, when it adds to the document only
\* that it ingests, and takes from none that is being ingested or stored.
LEMMA VecStep ==
    ASSUME VecInv, NEW t \in VThreads, VecShape', IdsOK', IngestsOK(t)', DeletesOK(t)',
           \A u \in VThreads \ {t} : op'[u] = op[u],
           UNCHANGED <<backend, opened>>,
           Ingesting(t)' => Ingesting(t) /\ op'[t].doc = op[t].doc,
           \A d \in VDocs : FateStep(t, d),
           \A d \in VDocs : fate'[d] = "stored" =>
                \/ fate[d] = "stored" /\ kept'[d] = kept[d]
                \/ \A c \in kept'[d] : Findable(c)',
           \A c \in VDocs \X (1..NChunks) :
                fate'[c[1]] \in {"ingesting", "stored"} /\ Findable(c) => Findable(c)',
           \A r \in rows : r \in rows' \/ fate'[r[2][1]] # "ingesting",
           \A x \in (rows' \ rows) \cup (vecs' \ vecs) : Ingesting(t) /\ x[2][1] = op[t].doc,
           \A d \in VDocs : fate'[d] = "gone" /\ fate[d] # "gone" =>
                /\ backend.text # "vector" => NoRowOf(d)'
                /\ backend.text # "row" => NoVecOf(d)'
    PROVE  VecInv'
<1> USE VectorAssumption DEF VecInv
<1>1. \A u \in VThreads : Ingesting(u)' => Ingesting(u) /\ op'[u].doc = op[u].doc
  BY DEF Ingesting
<1>2. \A u, v \in VThreads : u # v => Apart(u, v)' BY <1>1 DEF Apart
<1>3. \A d \in VDocs : NoRowOf(d) /\ ~(Ingesting(t) /\ op[t].doc = d) => NoRowOf(d)' BY DEF NoRowOf
<1>4. \A d \in VDocs : NoVecOf(d) /\ ~(Ingesting(t) /\ op[t].doc = d) => NoVecOf(d)' BY DEF NoVecOf
<1>5. ASSUME NEW u \in VThreads \ {t} PROVE IngestsOK(u)'
  <2> SUFFICES ASSUME Ingesting(u) PROVE IngestsOK(u)' BY <1>1 DEF IngestsOK
  <2> DEFINE d == op[u].doc
  <2>1. op'[u] = op[u] /\ d \in VDocs /\ fate[d] \in {"ingesting", "touched"} BY DEF IngestsOK
  <2>2. FateStep(t, d) BY <2>1
  <2>3. fate'[d] \in {"ingesting", "touched"} /\ (fate'[d] = "ingesting" => fate[d] = "ingesting")
    <3>1. ~(Ingesting(t) /\ op[t].doc = d) BY DEF Apart
    <3>2. ~(Deleting(t) /\ op[t].clean /\ op[t].doc = d) BY DEF DeletesOK
    <3> QED BY <2>1, <2>2, <3>1, <3>2 DEF FateStep
  <2>4. fate'[d] = "ingesting" => \A c \in op[u].stored : Findable(c)'
    <3> SUFFICES ASSUME fate'[d] = "ingesting", NEW c \in op[u].stored PROVE Findable(c)' OBVIOUS
    <3>1. c \in {d} \X (1..NChunks) /\ Findable(c) BY <2>3 DEF IngestsOK
    <3> QED BY <3>1, <2>1
  <2>5. ASSUME op[u].pc = "vector", fate'[d] = "ingesting" PROVE \E r \in rows' : r[2] = Chunk(u)
    <3>1. PICK r \in rows : r[2] = Chunk(u) BY <2>3, <2>5 DEF IngestsOK
    <3>2. r[2][1] = d BY <3>1 DEF Chunk
    <3> QED BY <3>1, <3>2, <2>5
  <2>6. Chunk(u)' = Chunk(u) BY <2>1 DEF Chunk
  <2> HIDE DEF d
  <2> QED BY <2>1, <2>3, <2>4, <2>5, <2>6 DEF IngestsOK, d
<1>6. ASSUME NEW u \in VThreads \ {t} PROVE DeletesOK(u)'
  <2> SUFFICES ASSUME Deleting(u) PROVE DeletesOK(u)' BY DEF DeletesOK, Deleting
  <2> DEFINE d == op[u].doc
  <2>1. op'[u] = op[u] /\ d \in VDocs /\ fate[d] \in {"touched", "gone"} BY DEF DeletesOK
  <2>2. fate'[d] \in {"touched", "gone"} BY <2>1 DEF FateStep
  <2>3. ASSUME op[u].clean
        PROVE /\ Ready'
              /\ \A v \in VThreads : Ingesting(v)' => op'[v].doc # d
              /\ op[u].pc = "unregister" /\ backend.text = "vector" => NoVecOf(d)'
              /\ op[u].pc = "save" => NoRowOf(d)'
    <3>1. ~(Ingesting(t) /\ op[t].doc = d) BY <2>3 DEF DeletesOK
    <3> QED BY <1>1, <1>3, <1>4, <2>1, <2>3, <3>1 DEF DeletesOK, Ready
  <2> HIDE DEF d
  <2>4. backend' = backend /\ (op[u].pc = "unregister" => backend.text # "sql") /\ (op[u].pc = "save" => backend.file)
    BY DEF DeletesOK
  <2> QED BY <2>1, <2>2, <2>3, <2>4 DEF DeletesOK, d
<1>7. ASSUME NEW d \in VDocs PROVE FateOK(d)'
  <2>1. fate'[d] = "stored" => \A c \in kept'[d] : Findable(c)'
    <3> SUFFICES ASSUME fate'[d] = "stored", fate[d] = "stored", kept'[d] = kept[d],
                        NEW c \in kept[d]
                 PROVE  Findable(c)'
      OBVIOUS
    <3>1. Findable(c) BY DEF FateOK
    <3>2. c \in VDocs \X (1..NChunks) /\ c[1] = d BY DEF VecShape
    <3> QED BY <3>1, <3>2
  <2>2. fate'[d] = "gone" => /\ backend.text # "vector" => NoRowOf(d)'
                             /\ backend.text # "row" => NoVecOf(d)'
    <3>1. fate[d] = "gone" => ~(Ingesting(t) /\ op[t].doc = d) BY DEF IngestsOK
    <3> QED BY <1>3, <1>4, <3>1 DEF FateOK
  <2> QED BY <2>1, <2>2 DEF FateOK
<1> QED BY <1>2, <1>5, <1>6, <1>7

LEMMA FindableGrows ==
    ASSUME backend' = backend, rows \subseteq rows', vecs \subseteq vecs',
           indexFile \subseteq indexFile' \/ vecs \subseteq indexFile'
    PROVE  \A c : Findable(c) => Findable(c)'
BY DEF Findable

LEMMA StepEmbedChunk ==
    ASSUME VecInv, NEW t \in VThreads, EmbedChunk(t) PROVE VecInv'
<1> USE VectorAssumption DEF VecInv
<1> DEFINE d == op[t].doc
<1>1. /\ op[t].pc = "embed" /\ op[t] \in OpSet
      /\ UNCHANGED <<backend, registered, rows, vecs, indexFile, lastRowId, opened, lockedBy>>
  BY DEF EmbedChunk, VecShape
<1>2. /\ d \in VDocs /\ fate[d] \in {"ingesting", "touched"} /\ op[t].stored \subseteq ({d} \X (1..NChunks))
      /\ fate[d] = "ingesting" => \A c \in op[t].stored : Findable(c)
      /\ \A u \in VThreads \ {t} : Ingesting(u) => op[u].doc # d
  <2>1. Ingesting(t) BY <1>1 DEF Ingesting
  <2> QED BY <1>1, <2>1 DEF IngestsOK, Apart
<1>3. IdsOK' BY <1>1 DEF IdsOK, Everywhere
<1>4. \A c : Findable(c)' <=> Findable(c) BY <1>1 DEF Findable
<1>5. (\A e : NoRowOf(e)' <=> NoRowOf(e)) /\ (\A e : NoVecOf(e)' <=> NoVecOf(e)) BY <1>1 DEF NoRowOf, NoVecOf
<1>6. CASE op[t].next <= NChunks
  <2>1. fate' = fate /\ kept' = kept
    BY <1>1, <1>6 DEF EmbedChunk, VecShape, OpSet
  <2>2. \/ op' = [op EXCEPT ![t].next = @ + 1]
        \/ op' = [op EXCEPT ![t].pc = "put"]
    BY <1>1, <1>6 DEF EmbedChunk, VecShape, OpSet
  <2>3. /\ op' \in [VThreads -> OpSet] /\ \A u \in VThreads \ {t} : op'[u] = op[u]
        /\ op'[t].pc \in {"embed", "put"} /\ op'[t].doc = d /\ op'[t].stored = op[t].stored
        /\ op'[t].pc = "put" => op'[t].next <= NChunks
    BY <2>2, <1>1, <1>6 DEF VecShape, OpSet
  <2> HIDE DEF d
  <2>4. VecShape' BY <1>1, <2>1, <2>3 DEF VecShape
  <2>5. IngestsOK(t)' BY <2>1, <2>3, <1>2, <1>4 DEF IngestsOK, Ingesting
  <2>6. DeletesOK(t)' BY <2>3 DEF DeletesOK, Deleting
  <2>7. Ingesting(t)' => Ingesting(t) /\ op'[t].doc = op[t].doc BY <1>1, <2>3 DEF Ingesting, d
  <2>8. \A e \in VDocs : FateStep(t, e) BY <2>1 DEF FateStep
  <2> QED BY <1>1, <1>3, <1>4, <2>1, <2>3, <2>4, <2>5, <2>6, <2>7, <2>8, VecStep
<1>7. CASE op[t].next > NChunks /\ op[t].stored = {}
  <2>1. /\ op' = [op EXCEPT ![t].pc = "delete", ![t].clean = Ready]
        /\ fate' = [fate EXCEPT ![d] = "touched"] /\ kept' = kept
    BY <1>1, <1>7 DEF EmbedChunk, VecShape, OpSet
  <2>2. Ready \in BOOLEAN BY BackendFacts DEF Ready, VecShape
  <2>3. /\ op' \in [VThreads -> OpSet] /\ \A u \in VThreads \ {t} : op'[u] = op[u]
        /\ op'[t].pc = "delete" /\ op'[t].doc = d /\ op'[t].clean = Ready
    BY <2>1, <2>2, <1>1 DEF VecShape, OpSet
  <2> HIDE DEF d
  <2>4. fate'[d] = "touched" /\ \A e \in VDocs \ {d} : fate'[e] = fate[e] BY <2>1, <1>2 DEF VecShape
  <2>5. VecShape' BY <1>1, <2>1, <2>3, <1>2 DEF VecShape
  <2>6. IngestsOK(t)' BY <2>3 DEF IngestsOK, Ingesting
  <2>7. \A u \in VThreads : Ingesting(u)' => op'[u].doc # d BY <1>2, <2>3 DEF Ingesting
  <2>8. DeletesOK(t)'
    <3>1. Ready' <=> Ready BY <1>1 DEF Ready
    <3> QED BY <2>3, <2>4, <1>2, <2>7, <3>1 DEF DeletesOK, Deleting
  <2>9. ~Ingesting(t)' BY <2>3 DEF Ingesting
  <2>10. \A e \in VDocs : FateStep(t, e) BY <1>2, <2>4 DEF FateStep
  <2>11. \A e \in VDocs : fate'[e] # fate[e] => fate'[e] = "touched" BY <2>4
  <2> QED BY <1>1, <1>3, <1>4, <2>1, <2>3, <2>5, <2>6, <2>8, <2>9, <2>10, <2>11, <2>4, <1>2, VecStep
<1>8. CASE op[t].next > NChunks /\ op[t].stored # {}
  <2>1. /\ op' = [op EXCEPT ![t] = IdleOp]
        /\ kept' = [kept EXCEPT ![d] = op[t].stored]
        /\ fate' = [fate EXCEPT ![d] = IF @ = "ingesting" THEN "stored" ELSE @]
    BY <1>1, <1>8 DEF EmbedChunk, VecShape, OpSet
  <2>2. /\ op' \in [VThreads -> OpSet] /\ \A u \in VThreads \ {t} : op'[u] = op[u]
        /\ op'[t] = IdleOp
    BY <2>1, <1>1, IdleOpFields DEF VecShape
  <2> HIDE DEF d
  <2>3. fate'[d] = (IF fate[d] = "ingesting" THEN "stored" ELSE fate[d]) /\ \A e \in VDocs \ {d} : fate'[e] = fate[e]
    BY <2>1, <1>2 DEF VecShape
  <2>4. kept'[d] = op[t].stored /\ \A e \in VDocs \ {d} : kept'[e] = kept[e] BY <2>1, <1>2 DEF VecShape
  <2>5. VecShape'
    <3>1. kept' \in [VDocs -> SUBSET (VDocs \X (1..NChunks))] BY <2>1, <1>1 DEF VecShape, OpSet
    <3>2. \A e \in VDocs : kept'[e] \subseteq ({e} \X (1..NChunks)) BY <2>4, <1>2 DEF VecShape
    <3>3. fate' \in [VDocs -> {"unused", "ingesting", "stored", "touched", "gone"}] BY <2>1 DEF VecShape
    <3> QED BY <1>1, <2>2, <3>1, <3>2, <3>3 DEF VecShape
  <2>6. IngestsOK(t)' /\ ~Ingesting(t)' BY <2>2, IdleOpFields DEF IngestsOK, Ingesting
  <2>7. DeletesOK(t)' BY <2>2, IdleOpFields DEF DeletesOK, Deleting
  <2>8. Ingesting(t) BY <1>1 DEF Ingesting
  <2>9. \A e \in VDocs : FateStep(t, e) BY <2>3, <2>8, <1>2 DEF FateStep, d
  <2>10. \A e \in VDocs : fate'[e] = "stored" =>
                \/ fate[e] = "stored" /\ kept'[e] = kept[e]
                \/ \A c \in kept'[e] : Findable(c)'
    BY <1>2, <1>4, <2>3, <2>4
  <2>11. \A e \in VDocs : fate'[e] = "gone" => fate[e] = "gone" BY <2>3, <1>2
  <2> QED BY <1>1, <1>3, <1>4, <2>2, <2>5, <2>6, <2>7, <2>9, <2>10, <2>11, VecStep
<1> QED BY <1>6, <1>7, <1>8, <1>1 DEF OpSet

\* What Stored and Raised make of a thread's record.
LEMMA RaisedFields ==
    ASSUME VecShape, NEW t \in VThreads, op' = Raised(t)
    PROVE  /\ op' \in [VThreads -> OpSet] /\ \A u \in VThreads \ {t} : op'[u] = op[u]
           /\ op'[t] = IdleOp /\ ~Ingesting(t)' /\ ~Deleting(t)' /\ IngestsOK(t)' /\ DeletesOK(t)'
<1>1. /\ op' \in [VThreads -> OpSet] /\ \A u \in VThreads \ {t} : op'[u] = op[u] /\ op'[t] = IdleOp
  BY IdleOpFields DEF VecShape, Raised
<1> QED BY <1>1, IdleOpFields DEF VecShape, Raised, Ingesting, Deleting, IngestsOK, DeletesOK

LEMMA StoredFields ==
    ASSUME VecInv, NEW t \in VThreads, op[t].pc \in {"put", "vector"}, op' = Stored(t)
    PROVE  /\ op' \in [VThreads -> OpSet] /\ \A u \in VThreads \ {t} : op'[u] = op[u]
           /\ op'[t].pc = "embed" /\ op'[t].doc = op[t].doc /\ op'[t].stored = op[t].stored \cup {Chunk(t)}
           /\ Chunk(t) \in {op[t].doc} \X (1..NChunks)
<1>1. op[t].next <= NChunks /\ op[t].doc \in VDocs /\ op[t] \in OpSet
  BY DEF VecInv, IngestsOK, Ingesting, VecShape
<1>2. Chunk(t) \in VDocs \X (1..NChunks) /\ Chunk(t) \in {op[t].doc} \X (1..NChunks)
  BY <1>1, VectorAssumption DEF Chunk, OpSet
<1>3. op \in [VThreads -> OpSet] BY DEF VecInv, VecShape
<1> DEFINE c == Chunk(t)
<1>4. op' = [op EXCEPT ![t].pc = "embed", ![t].next = @ + 1, ![t].stored = @ \cup {c}] BY DEF Stored
<1> HIDE DEF c
<1>5. c \in VDocs \X (1..NChunks) BY <1>2 DEF c
<1>6. /\ op' \in [VThreads -> OpSet] /\ \A u \in VThreads \ {t} : op'[u] = op[u]
      /\ op'[t].pc = "embed" /\ op'[t].doc = op[t].doc /\ op'[t].stored = op[t].stored \cup {c}
  BY <1>1, <1>3, <1>4, <1>5, VectorAssumption DEF OpSet
<1> QED BY <1>2, <1>6 DEF c

LEMMA StepPutChunk ==
    ASSUME VecInv, NEW t \in VThreads, PutChunk(t) PROVE VecInv'
<1> USE VectorAssumption DEF VecInv
<1> DEFINE d == op[t].doc
<1>0. PICK c : c = Chunk(t) OBVIOUS
<1>1. /\ op[t].pc = "put" /\ op[t] \in OpSet
      /\ UNCHANGED <<backend, registered, indexFile, opened, fate, kept>>
  BY DEF PutChunk, VecShape
<1>2. /\ Ingesting(t) /\ d \in VDocs /\ fate[d] \in {"ingesting", "touched"}
      /\ op[t].stored \subseteq ({d} \X (1..NChunks)) /\ op[t].next <= NChunks
      /\ fate[d] = "ingesting" => \A x \in op[t].stored : Findable(x)
  BY <1>0, <1>1 DEF IngestsOK, Ingesting
<1>3. c \in VDocs \X (1..NChunks) /\ c \in {d} \X (1..NChunks) /\ c[1] = d
  BY <1>0, <1>1, <1>2 DEF Chunk, OpSet
<1>4. (\A e \in VDocs : FateStep(t, e)) /\ (\A e \in VDocs : fate'[e] = fate[e] /\ kept'[e] = kept[e])
  BY <1>1 DEF FateStep
<1>5. CASE backend.text = "row"
  <2> DEFINE id == IF backend.file THEN NewRowId(lastRowId) ELSE c
  <2>1. /\ rows' = rows \cup {<<id, c>>} /\ vecs' = vecs
        /\ lastRowId' = IF backend.file THEN lastRowId + 1 ELSE lastRowId
        /\ op' = [op EXCEPT ![t].pc = "vector"]
        /\ Hold(t)
    BY <1>0, <1>5 DEF PutChunk, NewRowId
  <2>2. backend.file => id = lastRowId + 1 BY DEF NewRowId
  <2>3. ~backend.file => id = c OBVIOUS
  <2> HIDE DEF id, d
  <2>4. /\ op' \in [VThreads -> OpSet] /\ \A u \in VThreads \ {t} : op'[u] = op[u]
        /\ op'[t].pc = "vector" /\ op'[t].doc = d /\ op'[t].stored = op[t].stored /\ op'[t].next = op[t].next
    BY <2>1, <1>1 DEF VecShape, OpSet, d
  <2>5. lockedBy' \in VThreads \cup {NoThread} /\ lastRowId' \in Nat BY <2>1 DEF Hold, VecShape
  <2>6. VecShape' BY <1>1, <2>4, <2>5 DEF VecShape
  <2>7. IdsOK'
    <3>1. Everywhere' = Everywhere \cup {<<id, c>>} BY <2>1, <1>1 DEF Everywhere
    <3>2. \A x \in Everywhere' : /\ x[2] \in VDocs \X (1..NChunks)
                                 /\ IF backend.file THEN x[1] \in 1..lastRowId' ELSE x[1] = x[2]
      BY <1>3, <2>1, <2>2, <2>3, <3>1, BackendFacts DEF IdsOK, VecShape
    <3>3. ASSUME NEW x \in Everywhere', NEW r \in rows', x[1] = r[1] PROVE x[2] = r[2]
      <4>3. rows' \subseteq Everywhere' BY DEF Everywhere
      <4>1. CASE ~backend.file BY <4>1, <4>3, <3>2, <3>3
      <4>2. CASE backend.file
        <5>1. \A y \in Everywhere : y[1] \in 1..lastRowId BY <4>2 DEF IdsOK
        <5>2. rows \subseteq Everywhere BY DEF Everywhere
        <5>3. \A y \in Everywhere : y[1] # id BY <5>1, <2>2, <4>2 DEF VecShape
        <5>4. (x \in Everywhere \/ x = <<id, c>>) /\ (r \in rows \/ r = <<id, c>>) BY <3>1, <2>1
        <5>5. CASE x \in Everywhere /\ r \in rows BY <5>5, <3>3 DEF IdsOK
        <5>6. CASE x \in Everywhere /\ r = <<id, c>> BY <5>6, <3>3, <5>3
        <5>7. CASE x = <<id, c>> /\ r \in rows BY <5>7, <3>3, <5>3, <5>2
        <5>8. CASE x = <<id, c>> /\ r = <<id, c>> BY <5>8
        <5> QED BY <5>4, <5>5, <5>6, <5>7, <5>8
      <4> QED BY <4>1, <4>2
    <3> QED BY <1>1, <3>2, <3>3 DEF IdsOK
  <2>8. \A x : Findable(x) => Findable(x)' BY <1>1, <2>1, FindableGrows
  <2>9. IngestsOK(t)'
    <3>1. Chunk(t)' = c BY <1>0, <2>4 DEF Chunk, d
    <3>2. <<id, c>> \in rows' /\ <<id, c>>[2] = c BY <2>1
    <3> QED BY <1>1, <1>2, <1>5, <2>4, <2>8, <3>1, <3>2 DEF IngestsOK
  <2>10. DeletesOK(t)' BY <2>4 DEF DeletesOK, Deleting
  <2>11. \A x \in (rows' \ rows) \cup (vecs' \ vecs) : x[2][1] = op[t].doc BY <2>1, <1>3 DEF d
  <2>12. op'[t].doc = op[t].doc BY <2>4 DEF d
  <2> QED BY <1>1, <1>2, <1>4, <2>1, <2>4, <2>6, <2>7, <2>8, <2>9, <2>10, <2>11, <2>12, VecStep
<1>6. CASE backend.text # "row" /\ op' = Stored(t)
  <2>1. /\ vecs' = vecs \cup {<<c, c>>} /\ (rows' = rows \/ rows' = rows \cup {<<c, c>>})
        /\ UNCHANGED <<lastRowId, lockedBy>>
    <3>1. op' # Raised(t)
      BY <1>6, StoredFields, RaisedFields, <1>1, IdleOpFields
    <3> QED BY <1>0, <1>6, <3>1 DEF PutChunk
  <2>2. ~backend.file BY <1>6, BackendFacts
  <2>3. /\ op' \in [VThreads -> OpSet] /\ \A u \in VThreads \ {t} : op'[u] = op[u]
        /\ op'[t].pc = "embed" /\ op'[t].doc = d /\ op'[t].stored = op[t].stored \cup {c}
    BY <1>0, <1>1, <1>6, StoredFields
  <2> HIDE DEF d
  <2>4. VecShape' BY <1>1, <2>1, <2>3 DEF VecShape
  <2>5. IdsOK'
    <3>1. Everywhere' \subseteq Everywhere \cup {<<c, c>>} BY <1>1, <2>1 DEF Everywhere
    <3>2. \A x \in Everywhere' : x[2] \in VDocs \X (1..NChunks) /\ x[1] = x[2]
      BY <1>3, <2>2, <3>1 DEF IdsOK
    <3>3. rows' \subseteq Everywhere' BY DEF Everywhere
    <3> QED BY <1>1, <2>2, <3>2, <3>3 DEF IdsOK
  <2>6. \A x : Findable(x) => Findable(x)' BY <1>1, <2>1, FindableGrows
  <2>7. Findable(c)'
    <3>1. <<c, c>> \in vecs' /\ <<c, c>>[2] = c BY <2>1
    <3> QED BY <1>1, <1>6, <3>1 DEF Findable
  <2>8. IngestsOK(t)'
    <3>1. op'[t].stored \subseteq ({d} \X (1..NChunks)) BY <1>2, <1>3, <2>3
    <3>2. fate[d] = "ingesting" => \A x \in op'[t].stored : Findable(x)' BY <1>2, <2>3, <2>6, <2>7
    <3> QED BY <1>1, <1>2, <2>3, <3>1, <3>2 DEF IngestsOK
  <2>9. DeletesOK(t)' BY <2>3 DEF DeletesOK, Deleting
  <2>10. \A x \in (rows' \ rows) \cup (vecs' \ vecs) : x[2][1] = op[t].doc BY <2>1, <1>3 DEF d
  <2>11. op'[t].doc = op[t].doc BY <2>3 DEF d
  <2> QED BY <1>1, <1>2, <1>4, <2>1, <2>3, <2>4, <2>5, <2>6, <2>8, <2>9, <2>10, <2>11, VecStep
<1>7. CASE backend.text # "row" /\ op' = Raised(t) /\ UNCHANGED <<rows, vecs, lastRowId, lockedBy>>
  <2>1. /\ op' \in [VThreads -> OpSet] /\ \A u \in VThreads \ {t} : op'[u] = op[u]
        /\ ~Ingesting(t)' /\ IngestsOK(t)' /\ DeletesOK(t)'
    BY <1>7, RaisedFields
  <2>2. VecShape' BY <1>1, <1>7, <2>1 DEF VecShape
  <2>3. IdsOK' BY <1>1, <1>7 DEF IdsOK, Everywhere
  <2>4. \A x : Findable(x) => Findable(x)' BY <1>1, <1>7, FindableGrows
  <2> QED BY <1>1, <1>4, <1>7, <2>1, <2>2, <2>3, <2>4, VecStep
<1> QED BY <1>5, <1>6, <1>7 DEF PutChunk

LEMMA StepPutVector ==
    ASSUME VecInv, NEW t \in VThreads, PutVector(t) PROVE VecInv'
<1> USE VectorAssumption DEF VecInv
<1> DEFINE d == op[t].doc
<1>0. PICK c : c = Chunk(t) OBVIOUS
<1>1. /\ op[t].pc = "vector" /\ op[t] \in OpSet /\ lockedBy' = NoThread
      /\ UNCHANGED <<backend, registered, rows, lastRowId, opened, fate, kept>>
  BY DEF PutVector, VecShape, Release
<1>2. /\ Ingesting(t) /\ d \in VDocs /\ fate[d] \in {"ingesting", "touched"}
      /\ op[t].stored \subseteq ({d} \X (1..NChunks)) /\ backend.text = "row"
      /\ fate[d] = "ingesting" => \A x \in op[t].stored : Findable(x)
      /\ fate[d] = "ingesting" => \E r \in rows : r[2] = c
  BY <1>0, <1>1 DEF IngestsOK, Ingesting
<1>3. c \in {d} \X (1..NChunks) /\ c[1] = d
  <2>1. op[t].next <= NChunks BY <1>1 DEF IngestsOK, Ingesting
  <2> QED BY <1>0, <1>1, <1>2, <2>1 DEF Chunk, OpSet
<1>4. (\A e \in VDocs : FateStep(t, e)) /\ (\A e \in VDocs : fate'[e] = fate[e] /\ kept'[e] = kept[e])
  BY <1>1 DEF FateStep
<1>5. CASE /\ vecs' = vecs \cup {x \in rows : x[2] = c}
           /\ indexFile' = AfterInsert(vecs')
           /\ op' = Stored(t)
  <2>1. /\ op' \in [VThreads -> OpSet] /\ \A u \in VThreads \ {t} : op'[u] = op[u]
        /\ op'[t].pc = "embed" /\ op'[t].doc = d /\ op'[t].stored = op[t].stored \cup {c}
    BY <1>0, <1>1, <1>5, StoredFields
  <2> HIDE DEF d
  <2>2. VecShape' BY <1>1, <2>1 DEF VecShape
  <2>3. IdsOK'
    <3>1. Everywhere' \subseteq Everywhere BY <1>1, <1>5 DEF Everywhere, AfterInsert
    <3> QED BY <1>1, <3>1 DEF IdsOK
  <2>4. indexFile \subseteq indexFile' \/ vecs \subseteq indexFile' BY <1>5 DEF AfterInsert
  <2>5. \A x : Findable(x) => Findable(x)' BY <1>1, <1>5, <2>4, FindableGrows
  <2>6. ASSUME fate[d] = "ingesting" PROVE Findable(c)'
    <3>1. PICK r \in rows : r[2] = c BY <1>2, <2>6
    <3>2. r \in rows' /\ r \in vecs' /\ (backend.file => r \in indexFile')
      BY <1>1, <1>5, <3>1 DEF AfterInsert
    <3> QED BY <1>1, <1>2, <3>1, <3>2 DEF Findable
  <2>7. IngestsOK(t)'
    <3>1. op'[t].stored \subseteq ({d} \X (1..NChunks)) BY <1>2, <1>3, <2>1
    <3>2. fate[d] = "ingesting" => \A x \in op'[t].stored : Findable(x)' BY <1>2, <2>1, <2>5, <2>6
    <3> QED BY <1>1, <1>2, <2>1, <3>1, <3>2 DEF IngestsOK
  <2>8. DeletesOK(t)' BY <2>1 DEF DeletesOK, Deleting
  <2>9. \A x \in (rows' \ rows) \cup (vecs' \ vecs) : x[2][1] = op[t].doc BY <1>1, <1>3, <1>5 DEF d
  <2>10. op'[t].doc = op[t].doc BY <2>1 DEF d
  <2> QED BY <1>1, <1>2, <1>4, <2>1, <2>2, <2>3, <2>5, <2>7, <2>8, <2>9, <2>10, VecStep
<1>6. CASE op' = Raised(t) /\ UNCHANGED <<vecs, indexFile>>
  <2>1. /\ op' \in [VThreads -> OpSet] /\ \A u \in VThreads \ {t} : op'[u] = op[u]
        /\ ~Ingesting(t)' /\ IngestsOK(t)' /\ DeletesOK(t)'
    BY <1>6, RaisedFields
  <2>2. VecShape' BY <1>1, <1>6, <2>1 DEF VecShape
  <2>3. IdsOK' BY <1>1, <1>6 DEF IdsOK, Everywhere
  <2>4. \A x : Findable(x) => Findable(x)' BY <1>1, <1>6, FindableGrows
  <2> QED BY <1>1, <1>4, <1>6, <2>1, <2>2, <2>3, <2>4, VecStep
<1> QED BY <1>0, <1>5, <1>6 DEF PutVector

LEMMA FindableElsewhere ==
    ASSUME NEW d, backend' = backend,
           \A x \in (rows \ rows') \cup (vecs \ vecs') : x[2][1] = d,
           indexFile' = indexFile \/ vecs' \subseteq indexFile'
    PROVE  \A c : c[1] # d /\ Findable(c) => Findable(c)'
BY DEF Findable

LEMMA StepDeleteDocument ==
    ASSUME VecInv, NEW t \in VThreads, DeleteDocument(t) PROVE VecInv'
<1> USE VectorAssumption DEF VecInv
<1>1. PICK d \in VDocs, n \in {"return", "ingest"} :
        /\ fate[d] \in {"ingesting", "stored"}
        /\ op' = [op EXCEPT ![t] = [IdleOp EXCEPT !.pc = "delete", !.doc = d, !.then = n,
                                        !.clean = IsClean(d)]]
        /\ fate' = [fate EXCEPT ![d] = "touched"]
  BY DEF DeleteDocument
<1>2. /\ op[t].pc = "idle"
      /\ UNCHANGED <<backend, registered, rows, vecs, indexFile, lastRowId, opened, lockedBy, kept>>
  BY DEF DeleteDocument
<1> DEFINE k == [IdleOp EXCEPT !.pc = "delete", !.doc = d, !.then = n,
                            !.clean = IsClean(d)]
<1>4. /\ k \in OpSet /\ k.pc = "delete" /\ k.doc = d
      /\ k.clean => IsClean(d)
  BY DeleteFields
<1>5. op' = [op EXCEPT ![t] = k] BY <1>1
<1> HIDE DEF k
<1>6. op' \in [VThreads -> OpSet] /\ op'[t] = k /\ \A u \in VThreads \ {t} : op'[u] = op[u]
  BY <1>4, <1>5 DEF VecShape
<1>7. fate'[d] = "touched" /\ \A e \in VDocs \ {d} : fate'[e] = fate[e] BY <1>1 DEF VecShape
<1>8. VecShape' BY <1>1, <1>2, <1>6 DEF VecShape
<1>9. IdsOK' BY <1>2 DEF IdsOK, Everywhere
<1>10. \A x : Findable(x) => Findable(x)' BY <1>2, FindableGrows
<1>11. ~Ingesting(t)' /\ IngestsOK(t)' BY <1>4, <1>6 DEF IngestsOK, Ingesting
<1>12. k.clean => Ready' /\ \A u \in VThreads : Ingesting(u)' => op'[u].doc # d
  <2>1. k.clean => \A u \in VThreads : Ingesting(u) => op[u].doc # d BY <1>4 DEF IngestsOK, IsClean
  <2> QED BY <1>2, <1>4, <1>6, <1>11, <2>1 DEF IsClean, Ready, Ingesting
<1>13. DeletesOK(t)' BY <1>4, <1>6, <1>7, <1>12 DEF DeletesOK, Deleting
<1>14. \A e \in VDocs : FateStep(t, e) BY <1>1, <1>7 DEF FateStep
<1>15. \A e \in VDocs : fate'[e] # fate[e] => fate'[e] = "touched" BY <1>7
<1> QED BY <1>2, <1>6, <1>8, <1>9, <1>10, <1>11, <1>13, <1>14, <1>15, <1>7, VecStep

\* Deleted: the thread is idle, or goes on to ingest.
LEMMA DeletedFields ==
    ASSUME VecShape, NEW t \in VThreads, op' = Deleted(t)
    PROVE  /\ op' \in [VThreads -> OpSet] /\ \A u \in VThreads \ {t} : op'[u] = op[u]
           /\ ~Ingesting(t)' /\ ~Deleting(t)' /\ IngestsOK(t)' /\ DeletesOK(t)'
<1> DEFINE k == IF op[t].then = "ingest" THEN [IdleOp EXCEPT !.pc = "ingest"] ELSE IdleOp
<1>1. k \in OpSet /\ k.pc \in {"idle", "ingest"} BY IdleOpFields, ResumeFields
<1>2. op' = [op EXCEPT ![t] = k] BY DEF Deleted
<1> HIDE DEF k
<1>3. op' \in [VThreads -> OpSet] /\ op'[t] = k /\ \A u \in VThreads \ {t} : op'[u] = op[u]
  BY <1>1, <1>2 DEF VecShape
<1> QED BY <1>1, <1>3 DEF Ingesting, Deleting, IngestsOK, DeletesOK

\* The end of a delete, clean or not, with what it has taken from the tables.
LEMMA DeleteEnds ==
    ASSUME VecInv, NEW t \in VThreads, Deleting(t), op' = Deleted(t), Gone(t),
           UNCHANGED <<backend, opened, lastRowId, kept>>,
           registered' \subseteq VDocs, lockedBy' \in VThreads \cup {NoThread},
           rows' \subseteq rows, vecs' \subseteq vecs, indexFile' = indexFile \/ indexFile' = vecs',
           \A x \in (rows \ rows') \cup (vecs \ vecs') : x[2][1] = op[t].doc,
           op[t].clean => /\ backend.text # "vector" => \A x \in rows' : x[2][1] # op[t].doc
                          /\ backend.text # "row" => \A x \in vecs' : x[2][1] # op[t].doc
    PROVE  VecInv'
<1> USE VectorAssumption DEF VecInv
<1>0. PICK d \in VDocs : d = op[t].doc BY DEF DeletesOK
<1>1. fate[d] \in {"touched", "gone"} BY <1>0 DEF DeletesOK
<1>2. /\ fate'[d] = (IF op[t].clean THEN "gone" ELSE fate[d])
      /\ \A e \in VDocs \ {d} : fate'[e] = fate[e]
      /\ fate' \in [VDocs -> {"unused", "ingesting", "stored", "touched", "gone"}]
  BY <1>0 DEF Gone, VecShape
<1>3. /\ op' \in [VThreads -> OpSet] /\ \A u \in VThreads \ {t} : op'[u] = op[u]
      /\ ~Ingesting(t)' /\ IngestsOK(t)' /\ DeletesOK(t)'
  BY DeletedFields
<1>4. VecShape' BY <1>2, <1>3 DEF VecShape
<1>5. IdsOK'
  <2>1. Everywhere' \subseteq Everywhere BY DEF Everywhere
  <2> QED BY <2>1 DEF IdsOK
<1>6. \A c : c[1] # d /\ Findable(c) => Findable(c)'
  <2>1. indexFile' = indexFile \/ vecs' \subseteq indexFile' OBVIOUS
  <2>2. \A x \in (rows \ rows') \cup (vecs \ vecs') : x[2][1] = d BY <1>0
  <2> QED BY <2>1, <2>2, FindableElsewhere
<1>7. \A e \in VDocs : FateStep(t, e) BY <1>0, <1>1, <1>2 DEF FateStep
<1>8. \A c \in VDocs \X (1..NChunks) :
        fate'[c[1]] \in {"ingesting", "stored"} /\ Findable(c) => Findable(c)'
  BY <1>1, <1>2, <1>6
<1>9. \A e \in VDocs : fate'[e] = "stored" => fate[e] = "stored" /\ kept'[e] = kept[e] BY <1>1, <1>2
<1>10. \A r \in rows : r \in rows' \/ fate'[r[2][1]] # "ingesting" BY <1>0, <1>1, <1>2
<1>11. \A e \in VDocs : fate'[e] = "gone" /\ fate[e] # "gone" =>
                /\ backend.text # "vector" => NoRowOf(e)'
                /\ backend.text # "row" => NoVecOf(e)'
  BY <1>0, <1>2 DEF NoRowOf, NoVecOf
<1>12. (rows' \ rows) \cup (vecs' \ vecs) = {} OBVIOUS
<1> QED BY <1>3, <1>4, <1>5, <1>7, <1>8, <1>9, <1>10, <1>11, <1>12, VecStep

LEMMA StepDeleteVectors ==
    ASSUME VecInv, NEW t \in VThreads, DeleteVectors(t) PROVE VecInv'
<1> USE VectorAssumption DEF VecInv
<1>0. PICK d \in VDocs : d = op[t].doc BY DEF DeletesOK, Deleting, DeleteVectors
<1> DEFINE named == IF backend.text = "row"
                    THEN {x \in vecs : \E r \in rows : r[1] = x[1] /\ r[2][1] = d}
                    ELSE {x \in vecs : x[2][1] = d}
<1>1. /\ op[t].pc = "delete" /\ Deleting(t) /\ op[t] \in OpSet /\ fate[d] \in {"touched", "gone"}
      /\ UNCHANGED <<backend, indexFile, lastRowId, opened, kept>>
  BY <1>0 DEF DeleteVectors, Deleting, DeletesOK, VecShape
<1>2. \A x \in named : x[2][1] = d
  BY DEF IdsOK, Everywhere
<1>3. CASE /\ backend.text # "sql"
           /\ vecs' = IF Ready THEN vecs \ named ELSE vecs
           /\ op' = [op EXCEPT ![t].pc = "unregister"]
           /\ Hold(t)
           /\ UNCHANGED <<registered, rows, fate>>
  <2>1. /\ op' \in [VThreads -> OpSet] /\ \A u \in VThreads \ {t} : op'[u] = op[u]
        /\ op'[t].pc = "unregister" /\ op'[t].doc = d /\ op'[t].clean = op[t].clean
    BY <1>0, <1>1, <1>3 DEF VecShape, OpSet
  <2>2. lockedBy' \in VThreads \cup {NoThread} BY <1>3 DEF Hold
  <2>3. VecShape' BY <1>1, <1>3, <2>1, <2>2 DEF VecShape
  <2>4. IdsOK'
    <3>1. Everywhere' \subseteq Everywhere BY <1>1, <1>3 DEF Everywhere
    <3> QED BY <1>1, <1>3, <3>1 DEF IdsOK
  <2>5. \A x \in (rows \ rows') \cup (vecs \ vecs') : x[2][1] = d BY <1>2, <1>3
  <2>6. \A c : c[1] # d /\ Findable(c) => Findable(c)' BY <1>1, <2>5, FindableElsewhere
  <2>7. ~Ingesting(t)' /\ IngestsOK(t)' BY <2>1 DEF IngestsOK, Ingesting
  <2>8. DeletesOK(t)'
    <3>1. op[t].clean => Ready /\ \A u \in VThreads : Ingesting(u) => op[u].doc # d
      BY <1>0, <1>1 DEF DeletesOK
    <3>2. op[t].clean => Ready' /\ \A u \in VThreads : Ingesting(u)' => op'[u].doc # d
      BY <1>1, <2>1, <2>7, <3>1 DEF Ready, Ingesting
    <3>3. op[t].clean /\ backend.text = "vector" => NoVecOf(d)' BY <1>3, <3>1 DEF NoVecOf
    <3> QED BY <1>1, <1>3, <2>1, <3>2, <3>3 DEF DeletesOK
  <2>9. (\A e \in VDocs : FateStep(t, e)) /\ (\A e \in VDocs : fate'[e] = fate[e] /\ kept'[e] = kept[e])
    BY <1>1, <1>3 DEF FateStep
  <2>10. \A c \in VDocs \X (1..NChunks) :
        fate'[c[1]] \in {"ingesting", "stored"} /\ Findable(c) => Findable(c)'
    BY <1>1, <2>6, <2>9
  <2>11. (rows' \ rows) \cup (vecs' \ vecs) = {} /\ rows' = rows BY <1>3
  <2> QED BY <1>1, <2>1, <2>3, <2>4, <2>7, <2>8, <2>9, <2>10, <2>11, VecStep
<1>4. CASE /\ backend.text = "sql"
           /\ registered' = registered \ {d}
           /\ rows' = rows \ OfDoc(d) /\ vecs' = vecs \ OfDoc(d)
           /\ op' = Deleted(t) /\ Gone(t) /\ UNCHANGED lockedBy
  <2>1. \A x \in rows \cup vecs : x \in OfDoc(d) <=> x[2][1] = d BY DEF OfDoc
  <2>2. /\ \A x \in rows' : x \in rows /\ x[2][1] # op[t].doc
        /\ \A x \in vecs' : x \in vecs /\ x[2][1] # op[t].doc
    BY <1>0, <1>4, <2>1
  <2>3. \A x \in (rows \ rows') \cup (vecs \ vecs') : x[2][1] = op[t].doc BY <1>0, <1>4, <2>1
  <2>4. registered' \subseteq VDocs /\ lockedBy' \in VThreads \cup {NoThread} BY <1>4 DEF VecShape
  <2> QED BY <1>1, <1>4, <2>2, <2>3, <2>4, DeleteEnds
<1>5. CASE op' = Raised(t) /\ UNCHANGED <<registered, rows, vecs, fate, lockedBy>>
  <2>1. /\ op' \in [VThreads -> OpSet] /\ \A u \in VThreads \ {t} : op'[u] = op[u]
        /\ ~Ingesting(t)' /\ IngestsOK(t)' /\ DeletesOK(t)'
    BY <1>5, RaisedFields
  <2>2. VecShape' BY <1>1, <1>5, <2>1 DEF VecShape
  <2>3. IdsOK' BY <1>1, <1>5 DEF IdsOK, Everywhere
  <2>4. \A x : Findable(x) => Findable(x)' BY <1>1, <1>5, FindableGrows
  <2>5. \A e \in VDocs : FateStep(t, e) BY <1>5 DEF FateStep
  <2> QED BY <1>1, <1>5, <2>1, <2>2, <2>3, <2>4, <2>5, VecStep
<1> QED BY <1>0, <1>3, <1>4, <1>5 DEF DeleteVectors

LEMMA StepUnregister ==
    ASSUME VecInv, NEW t \in VThreads, Unregister(t) PROVE VecInv'
<1> USE VectorAssumption DEF VecInv
<1>0. PICK d \in VDocs : d = op[t].doc BY DEF DeletesOK, Deleting, Unregister
<1>1. /\ op[t].pc = "unregister" /\ Deleting(t) /\ op[t] \in OpSet /\ fate[d] \in {"touched", "gone"}
      /\ registered' = registered \ {d} /\ rows' = rows \ OfDoc(d)
      /\ UNCHANGED <<backend, vecs, indexFile, lastRowId, opened, kept>>
  BY <1>0 DEF Unregister, Deleting, DeletesOK, VecShape
<1>2. /\ \A x \in rows' : x \in rows /\ x[2][1] # d
      /\ \A x \in (rows \ rows') \cup (vecs \ vecs') : x[2][1] = d
  BY <1>1 DEF OfDoc
<1>3. CASE backend.file
  <2>1. op' = [op EXCEPT ![t].pc = "save"] /\ UNCHANGED <<fate, lockedBy>> BY <1>3 DEF Unregister
  <2>2. /\ op' \in [VThreads -> OpSet] /\ \A u \in VThreads \ {t} : op'[u] = op[u]
        /\ op'[t].pc = "save" /\ op'[t].doc = d /\ op'[t].clean = op[t].clean
    BY <1>0, <1>1, <2>1 DEF VecShape, OpSet
  <2>3. VecShape' BY <1>1, <2>1, <2>2 DEF VecShape
  <2>4. IdsOK'
    <3>1. Everywhere' \subseteq Everywhere /\ rows' \subseteq rows BY <1>1, <1>2 DEF Everywhere
    <3> QED BY <1>1, <3>1 DEF IdsOK
  <2>5. \A c : c[1] # d /\ Findable(c) => Findable(c)' BY <1>1, <1>2, FindableElsewhere
  <2>6. ~Ingesting(t)' /\ IngestsOK(t)' BY <2>2 DEF IngestsOK, Ingesting
  <2>7. DeletesOK(t)'
    <3>1. op[t].clean => Ready /\ \A u \in VThreads : Ingesting(u) => op[u].doc # d
      BY <1>0, <1>1 DEF DeletesOK
    <3>2. op[t].clean => Ready' /\ \A u \in VThreads : Ingesting(u)' => op'[u].doc # d
      BY <1>1, <2>2, <2>6, <3>1 DEF Ready, Ingesting
    <3>3. NoRowOf(d)' BY <1>2 DEF NoRowOf
    <3> QED BY <1>1, <1>3, <2>1, <2>2, <3>2, <3>3 DEF DeletesOK
  <2>8. (\A e \in VDocs : FateStep(t, e)) /\ (\A e \in VDocs : fate'[e] = fate[e] /\ kept'[e] = kept[e])
    BY <1>1, <2>1 DEF FateStep
  <2>9. \A c \in VDocs \X (1..NChunks) :
        fate'[c[1]] \in {"ingesting", "stored"} /\ Findable(c) => Findable(c)'
    BY <1>1, <2>5, <2>8
  <2>10. (rows' \ rows) \cup (vecs' \ vecs) = {} BY <1>1, <1>2
  <2>11. \A r \in rows : r \in rows' \/ fate'[r[2][1]] # "ingesting" BY <1>1, <1>2, <2>8
  <2> QED BY <1>1, <2>2, <2>3, <2>4, <2>6, <2>7, <2>8, <2>9, <2>10, <2>11, VecStep
<1>4. CASE ~backend.file
  <2>1. op' = Deleted(t) /\ Gone(t) /\ lockedBy' = NoThread BY <1>4 DEF Unregister, Release
  <2>2. backend.text # "sql" BY <1>1 DEF DeletesOK
  <2>3. op[t].clean /\ backend.text = "vector" => \A x \in vecs' : x[2][1] # op[t].doc
    BY <1>1 DEF DeletesOK, NoVecOf
  <2>4. backend.text \in {"row", "vector"} BY <2>2, BackendFacts
  <2>5. registered' \subseteq VDocs BY <1>1 DEF VecShape
  <2> QED BY <1>0, <1>1, <1>2, <2>1, <2>3, <2>4, <2>5, DeleteEnds
<1> QED BY <1>3, <1>4

LEMMA StepSaveIndex ==
    ASSUME VecInv, NEW t \in VThreads, SaveIndex(t) PROVE VecInv'
<1> USE VectorAssumption DEF VecInv
<1>1. /\ op[t].pc = "save" /\ Deleting(t) /\ backend.file /\ indexFile' = vecs
      /\ op' = Deleted(t) /\ Gone(t) /\ lockedBy' = NoThread
      /\ UNCHANGED <<backend, registered, rows, vecs, lastRowId, opened, kept>>
  BY DEF SaveIndex, Release, DeletesOK, Deleting
<1>2. backend.text = "row" BY <1>1, BackendFacts
<1>3. op[t].clean => \A x \in rows' : x[2][1] # op[t].doc BY <1>1 DEF DeletesOK, NoRowOf
<1>4. registered' \subseteq VDocs BY <1>1 DEF VecShape
<1> QED BY <1>1, <1>2, <1>3, <1>4, DeleteEnds

LEMMA StepRemoteCallFails ==
    ASSUME VecInv, NEW t \in VThreads, RemoteCallFails(t) PROVE VecInv'
<1> USE VectorAssumption DEF VecInv
<1>1. /\ op' = Raised(t) /\ lockedBy' \in VThreads \cup {NoThread}
      /\ UNCHANGED <<backend, registered, rows, vecs, indexFile, lastRowId, opened, fate, kept>>
  BY DEF RemoteCallFails, VecShape
<1>2. /\ op' \in [VThreads -> OpSet] /\ \A u \in VThreads \ {t} : op'[u] = op[u]
      /\ ~Ingesting(t)' /\ IngestsOK(t)' /\ DeletesOK(t)'
  BY <1>1, RaisedFields
<1>3. VecShape' BY <1>1, <1>2 DEF VecShape
<1>4. IdsOK' BY <1>1 DEF IdsOK, Everywhere
<1>5. \A x : Findable(x) => Findable(x)' BY <1>1, FindableGrows
<1>6. \A e \in VDocs : FateStep(t, e) BY <1>1 DEF FateStep
<1> QED BY <1>1, <1>2, <1>3, <1>4, <1>5, <1>6, VecStep

LEMMA StepRestart == ASSUME VecInv, Restart PROVE VecInv'
<1> USE VectorAssumption DEF VecInv
<1>1. /\ op' = [t \in VThreads |-> IdleOp] /\ lockedBy' = NoThread /\ opened' = FALSE
      /\ vecs' = IF backend.file THEN indexFile ELSE vecs
      /\ fate' = [d \in VDocs |-> IF fate[d] = "ingesting" THEN "touched" ELSE fate[d]]
      /\ UNCHANGED <<backend, registered, rows, indexFile, lastRowId, kept>>
  BY DEF Restart
<1>2. VecShape' BY <1>1, IdleOpFields DEF VecShape
<1>3. IdsOK'
  <2>1. Everywhere' \subseteq Everywhere BY <1>1 DEF Everywhere
  <2> QED BY <1>1, <2>1 DEF IdsOK
<1>4. \A t \in VThreads : ~Ingesting(t)' /\ IngestsOK(t)' /\ DeletesOK(t)'
  BY <1>1, IdleOpFields DEF IngestsOK, DeletesOK, Ingesting, Deleting
<1>5. \A t, u \in VThreads : t # u => Apart(t, u)' BY <1>4 DEF Apart
<1>6. \A c : Findable(c) => Findable(c)' BY <1>1, BackendFacts DEF Findable
<1>7. ASSUME NEW d \in VDocs PROVE FateOK(d)'
  <2>1. fate'[d] \in {"stored", "gone"} => fate'[d] = fate[d] BY <1>1
  <2>2. backend.text # "row" => vecs' = vecs BY <1>1, BackendFacts
  <2> QED BY <1>1, <1>6, <2>1, <2>2 DEF FateOK, NoRowOf, NoVecOf
<1> QED BY <1>2, <1>3, <1>4, <1>5, <1>7

LEMMA StepInitSchema == ASSUME VecInv, InitSchema PROVE VecInv'
<1> USE VectorAssumption DEF VecInv
<1>1. /\ opened' = TRUE
      /\ UNCHANGED <<backend, registered, rows, vecs, indexFile, lastRowId, lockedBy, op, fate, kept>>
  BY DEF InitSchema
<1>2. VecShape' BY <1>1 DEF VecShape
<1>3. IdsOK' BY <1>1 DEF IdsOK, Everywhere
<1>4. \A c : Findable(c)' <=> Findable(c) BY <1>1 DEF Findable
<1>5. \A t \in VThreads : IngestsOK(t)' BY <1>1, <1>4 DEF IngestsOK, Ingesting, Chunk
<1>6. \A t \in VThreads : DeletesOK(t)'
  BY <1>1 DEF DeletesOK, Deleting, Ingesting, Ready, NoVecOf, NoRowOf
<1>7. \A t, u \in VThreads : t # u => Apart(t, u)' BY <1>1 DEF Apart, Ingesting
<1>8. \A d \in VDocs : FateOK(d)' BY <1>1, <1>4 DEF FateOK, NoRowOf, NoVecOf
<1> QED BY <1>2, <1>3, <1>5, <1>6, <1>7, <1>8

LEMMA VecStutters == ASSUME VecInv, UNCHANGED vecVars PROVE VecInv'
<1> USE DEF VecInv, vecVars
<1>1. VecShape' /\ IdsOK' BY DEF VecShape, IdsOK, Everywhere
<1>2. \A c : Findable(c)' <=> Findable(c) BY DEF Findable
<1>3. \A t \in VThreads : IngestsOK(t)' BY <1>2 DEF IngestsOK, Ingesting, Chunk
<1>4. \A t \in VThreads : DeletesOK(t)' BY DEF DeletesOK, Deleting, Ingesting, Ready, NoVecOf, NoRowOf
<1>5. \A t, u \in VThreads : t # u => Apart(t, u)' BY DEF Apart, Ingesting
<1>6. \A d \in VDocs : FateOK(d)' BY <1>2 DEF FateOK, NoRowOf, NoVecOf
<1> QED BY <1>1, <1>3, <1>4, <1>5, <1>6

(***************************************************************************)
(* For any threads, documents and any of the backends: searches return the *)
(* text a vector was made from and nothing of a document that is gone, and *)
(* find every chunk that was reported as stored, through failing calls,    *)
(* concurrent ingests and deletes, and restarts (ingest_text,              *)
(* delete_document, search_dense).                                         *)
(***************************************************************************)
THEOREM VectorStoresSound == VecSpec => []VectorStoresAreSound
<1>1. VecInit => VecInv BY VecInitInv
<1>2. VecInv /\ [VecNext]_vecVars => VecInv'
  <2> SUFFICES ASSUME VecInv, [VecNext]_vecVars PROVE VecInv' OBVIOUS
  <2>1. ASSUME NEW t \in VThreads,
               \/ IngestText(t) \/ EmbedChunk(t) \/ PutChunk(t) \/ PutVector(t) \/ DeleteDocument(t)
               \/ DeleteVectors(t) \/ Unregister(t) \/ SaveIndex(t) \/ RemoteCallFails(t)
        PROVE  VecInv'
    BY <2>1, StepIngestText, StepEmbedChunk, StepPutChunk, StepPutVector, StepDeleteDocument,
       StepDeleteVectors, StepUnregister, StepSaveIndex, StepRemoteCallFails
  <2> QED BY <2>1, StepRestart, StepInitSchema, VecStutters DEF VecNext
<1>3. VecInv => VectorStoresAreSound BY VecInvGives
<1> QED BY <1>1, <1>2, <1>3, PTL DEF VecSpec
-----------------------------------------------------------------------------
(* Asking: the invariant. *)

Searching == {"embed", "hit", "miss", "touch", "evict", "variant", "search"}
AskPcs == {"idle", "rewrite", "variants", "cost", "costed", "generate", "stream", "remember", "remembered"}
          \cup Searching

AskRows ==
  [pc : AskPcs, id : Nat, kind : {"ask", "stream", "retrieve"}, strategy : Strategies \cup {"fused"},
   query : AskTexts, override : BOOLEAN, text : AskTexts, todo : Seq(AskTexts), provider : Nat,
   spoke : SUBSET Nat, read : Nat]

\* What holds of a call on its own: one provider speaks, and only an ask
\* makes calls that are charged, the last of them for its answer.
AskerOK(a) ==
  /\ a \in AskRows
  /\ a.pc = "idle" <=> a.id = 0
  /\ a.spoke \subseteq {a.provider}
  /\ a.pc \in {"rewrite", "variants", "cost", "costed", "generate"} =>
       a.kind = "ask" /\ a.strategy # "multi_query"
  /\ a.kind # "ask" => a.strategy = "none"
  /\ a.spoke # {} => a.pc = "stream" \/ (a.pc \in {"cost", "costed"} /\ a.todo = <<>>)
  /\ a.pc = "generate" => a.todo = <<>>
  /\ a.pc = "variant" => a.todo # <<>>

\* How often a call may still be charged.
RecordsLeft(a) ==
  CASE a.pc \in {"rewrite", "variants"} -> 2
    [] a.pc \in {"cost", "costed"} -> IF a.spoke = {} THEN 2 ELSE 1
    [] a.pc \in Searching -> IF a.strategy = "multi_query" THEN 2 ELSE 1
    [] a.pc = "generate" -> 1
    [] OTHER -> 0

\* The charges that the calls under way when the budget was reached have
\* made, or can no longer make.
Spent == {x \in underWay \X {1, 2} : \A t \in Askers : asker[t].id = x[1] => RecordsLeft(asker[t]) < x[2]}

Limit == BelowBudget + overridden + Cardinality(Spent)

\* Over the budget, a call is overridden or was under way when it was
\* reached; so it is with a sum that is about to be written back.
CostOK ==
  /\ cumulative <= Limit
  /\ \A t \in Askers :
       /\ asker[t].pc = "costed" => asker[t].read <= Limit
       /\ /\ asker[t].kind = "ask" /\ RecordsLeft(asker[t]) > 0 /\ asker[t].override = FALSE
          /\ cumulative >= Budget \/ (asker[t].pc = "costed" /\ asker[t].read >= Budget)
          => asker[t].id \in underWay

\* A call has nothing in the history before its answer is there, and only
\* its question until both are.
HistoryOK ==
  /\ session \in Seq((1..asks) \X {"user", "assistant"})
  /\ HistoryIsFaithful
  /\ \A t \in Askers, i \in 1..Len(session) :
       session[i][1] = asker[t].id => asker[t].pc = "remembered" /\ session[i][2] = "user"

AskInv ==
  /\ asker \in [Askers -> AskRows] /\ \A t \in Askers : AskerOK(asker[t])
  /\ cumulative \in Nat /\ overridden \in Nat /\ asks \in Nat /\ underWay \subseteq 1..asks
  /\ \A t, u \in Askers : asker[t].id <= asks /\ (asker[t].id = asker[u].id => t = u \/ asker[t].id = 0)
  /\ CostOK /\ HistoryOK

\* A call is about to do something else, and is otherwise as it was.
Alike(s, k) ==
  s.id = k.id /\ s.kind = k.kind /\ s.query = k.query /\ s.override = k.override

\* A row with several fields changed.
ToText(k, p, x) == [k EXCEPT !.pc = p, !.text = x]
ToTodo(k, p, q) == [k EXCEPT !.pc = p, !.todo = q]
ToVariant(k, p, x, q) == [k EXCEPT !.pc = p, !.text = x, !.todo = q]
ToFused(k, p, x) == [k EXCEPT !.pc = p, !.text = x, !.strategy = "fused"]
ToRead(k, p, n) == [k EXCEPT !.pc = p, !.read = n]
FromRead(k, p, n) == [k EXCEPT !.read = n, !.pc = p]
ToStream(k, p, b) == [k EXCEPT !.pc = p, !.override = b]
ToAnswer(p, n) == [IdleAsker EXCEPT !.pc = p, !.id = n]
ToGenerate(p, n, b) == [IdleAsker EXCEPT !.pc = p, !.id = n, !.override = b]

LEMMA IdleAskerRow ==
  /\ IdleAsker \in AskRows /\ IdleAsker.pc = "idle" /\ IdleAsker.id = 0 /\ IdleAsker.kind = "ask"
  /\ IdleAsker.strategy = "none" /\ IdleAsker.spoke = {} /\ IdleAsker.todo = <<>> /\ IdleAsker.provider = 1
<1>1. SorryText \in AskTexts BY DEF AskTexts
<1>2. <<>> \in Seq(AskTexts) OBVIOUS
<1>3. "idle" \in AskPcs BY DEF AskPcs
<1>4. "none" \in Strategies \cup {"fused"} BY DEF Strategies
<1> QED BY <1>1, <1>2, <1>3, <1>4 DEF IdleAsker, AskRows

LEMMA IdleAskerOK == AskerOK(IdleAsker) /\ RecordsLeft(IdleAsker) = 0
BY IdleAskerRow DEF AskerOK, RecordsLeft, Searching

\* A call goes on somewhere else.
LEMMA RowGoes ==
  ASSUME NEW k \in AskRows, NEW p \in AskPcs
  PROVE  LET s == [k EXCEPT !.pc = p] IN
         /\ s \in AskRows /\ Alike(s, k) /\ s.pc = p /\ s.strategy = k.strategy /\ s.spoke = k.spoke
         /\ s.provider = k.provider /\ s.todo = k.todo
BY DEF AskRows, Alike

LEMMA RowProvider ==
  ASSUME NEW k \in AskRows, NEW n \in Nat
  PROVE  LET s == [k EXCEPT !.provider = n] IN
         /\ s \in AskRows /\ Alike(s, k) /\ s.pc = k.pc /\ s.strategy = k.strategy /\ s.spoke = k.spoke
         /\ s.provider = n /\ s.todo = k.todo
BY DEF AskRows, Alike

LEMMA RowText ==
  ASSUME NEW k \in AskRows, NEW x \in AskTexts
  PROVE  LET s == [k EXCEPT !.text = x] IN
         /\ s \in AskRows /\ Alike(s, k) /\ s.pc = k.pc /\ s.strategy = k.strategy /\ s.spoke = k.spoke
         /\ s.provider = k.provider /\ s.todo = k.todo
BY DEF AskRows, Alike

LEMMA RowGoesText ==
  ASSUME NEW k \in AskRows, NEW p \in AskPcs, NEW x \in AskTexts
  PROVE  LET s == ToText(k, p, x) IN
         /\ s \in AskRows /\ Alike(s, k) /\ s.pc = p /\ s.strategy = k.strategy /\ s.spoke = k.spoke
         /\ s.provider = k.provider /\ s.todo = k.todo
BY DEF AskRows, Alike, ToText

LEMMA RowTodo ==
  ASSUME NEW k \in AskRows, NEW q \in Seq(AskTexts)
  PROVE  LET s == [k EXCEPT !.todo = q] IN
         /\ s \in AskRows /\ Alike(s, k) /\ s.pc = k.pc /\ s.strategy = k.strategy /\ s.spoke = k.spoke
         /\ s.provider = k.provider /\ s.todo = q
BY DEF AskRows, Alike

LEMMA RowGoesTodo ==
  ASSUME NEW k \in AskRows, NEW p \in AskPcs, NEW q \in Seq(AskTexts)
  PROVE  LET s == ToTodo(k, p, q) IN
         /\ s \in AskRows /\ Alike(s, k) /\ s.pc = p /\ s.strategy = k.strategy /\ s.spoke = k.spoke
         /\ s.provider = k.provider /\ s.todo = q
BY DEF AskRows, Alike, ToTodo

LEMMA RowVariant ==
  ASSUME NEW k \in AskRows, NEW p \in AskPcs, NEW x \in AskTexts, NEW q \in Seq(AskTexts)
  PROVE  LET s == ToVariant(k, p, x, q) IN
         /\ s \in AskRows /\ Alike(s, k) /\ s.pc = p /\ s.strategy = k.strategy /\ s.spoke = k.spoke
         /\ s.provider = k.provider /\ s.todo = q
BY DEF AskRows, Alike, ToVariant

LEMMA RowFused ==
  ASSUME NEW k \in AskRows, NEW p \in AskPcs, NEW x \in AskTexts
  PROVE  LET s == ToFused(k, p, x) IN
         /\ s \in AskRows /\ Alike(s, k) /\ s.pc = p /\ s.strategy = "fused" /\ s.spoke = k.spoke
         /\ s.provider = k.provider /\ s.todo = k.todo
BY DEF AskRows, Alike, ToFused

LEMMA RowSpoke ==
  ASSUME NEW k \in AskRows, NEW S \in SUBSET Nat
  PROVE  LET s == [k EXCEPT !.spoke = S] IN
         /\ s \in AskRows /\ Alike(s, k) /\ s.pc = k.pc /\ s.strategy = k.strategy /\ s.spoke = S
         /\ s.provider = k.provider /\ s.todo = k.todo
BY DEF AskRows, Alike

\* A sum is read, or no longer needed.
LEMMA RowReads ==
  ASSUME NEW k \in AskRows, NEW p \in AskPcs, NEW n \in Nat
  PROVE  LET s == ToRead(k, p, n) IN
         /\ s \in AskRows /\ Alike(s, k) /\ s.pc = p /\ s.strategy = k.strategy /\ s.spoke = k.spoke
         /\ s.provider = k.provider /\ s.read = n /\ s.todo = k.todo
BY DEF AskRows, Alike, ToRead

LEMMA RowForgets ==
  ASSUME NEW k \in AskRows, NEW p \in AskPcs, NEW n \in Nat
  PROVE  LET s == FromRead(k, p, n) IN
         /\ s \in AskRows /\ Alike(s, k) /\ s.pc = p /\ s.strategy = k.strategy /\ s.spoke = k.spoke
         /\ s.todo = k.todo
BY DEF AskRows, Alike, FromRead

LEMMA RowOverride ==
  ASSUME NEW k \in AskRows, NEW p \in AskPcs, NEW b \in BOOLEAN
  PROVE  LET s == ToStream(k, p, b) IN
         /\ s \in AskRows /\ s.id = k.id /\ s.kind = k.kind /\ s.pc = p /\ s.strategy = k.strategy
         /\ s.spoke = k.spoke /\ s.provider = k.provider /\ s.override = b
BY DEF AskRows, ToStream

\* What a call remembers, and what it takes along to generate its answer.
LEMMA RowRemembers ==
  ASSUME NEW n \in Nat, NEW p \in AskPcs
  PROVE  LET s == ToAnswer(p, n) IN
         /\ s \in AskRows /\ s.id = n /\ s.kind = "ask" /\ s.pc = p /\ s.strategy = "none"
         /\ s.spoke = {}
BY IdleAskerRow DEF AskRows, ToAnswer

LEMMA RowGenerates ==
  ASSUME NEW n \in Nat, NEW b \in BOOLEAN, NEW p \in AskPcs
  PROVE  LET s == ToGenerate(p, n, b) IN
         /\ s \in AskRows /\ s.id = n /\ s.kind = "ask" /\ s.pc = p /\ s.strategy = "none"
         /\ s.spoke = {} /\ s.override = b /\ s.todo = <<>>
BY IdleAskerRow DEF AskRows, ToGenerate

LEMMA LeftRange == ASSUME NEW a PROVE RecordsLeft(a) \in 0..2
BY DEF RecordsLeft

-----------------------------------------------------------------------------
(* Asking: what a step keeps. *)

LEMMA TwoCharges == IsFiniteSet({1, 2}) /\ Cardinality({1, 2}) = 2
<1>1. IsFiniteSet({1}) /\ Cardinality({1}) = 1 BY FS_Singleton
<1>2. {1, 2} = {1} \cup {2} /\ 2 \notin {1} OBVIOUS
<1> QED BY <1>1, <1>2, FS_AddElement

LEMMA SpentFinite ==
  ASSUME underWay \subseteq 1..asks, asks \in Nat
  PROVE  IsFiniteSet(Spent) /\ Cardinality(Spent) \in Nat /\ Cardinality(Spent) <= 2 * Cardinality(underWay)
         /\ Cardinality(underWay) \in Nat
<1>1. IsFiniteSet(1..asks) BY FS_Interval
<1>2. IsFiniteSet(underWay) /\ Cardinality(underWay) \in Nat BY <1>1, FS_Subset, FS_CardinalityType
<1>3. IsFiniteSet({1, 2}) /\ Cardinality({1, 2}) = 2 BY TwoCharges
<1>4. /\ IsFiniteSet(underWay \X {1, 2})
      /\ Cardinality(underWay \X {1, 2}) = Cardinality(underWay) * Cardinality({1, 2})
  BY <1>2, <1>3, FS_Product
<1>5. Spent \subseteq underWay \X {1, 2} BY DEF Spent
<1>6. IsFiniteSet(Spent) /\ Cardinality(Spent) <= Cardinality(underWay \X {1, 2})
  BY <1>4, <1>5, FS_Subset
<1>7. Cardinality(Spent) \in Nat BY <1>6, FS_CardinalityType
<1>8. Cardinality(underWay \X {1, 2}) = 2 * Cardinality(underWay) BY <1>2, <1>3, <1>4
<1> QED BY <1>2, <1>6, <1>7, <1>8

\* No step takes a charge back that can no longer be made.
LEMMA SpentGrows ==
  ASSUME AskInv, NEW t \in Askers, NEW r, asker' = [asker EXCEPT ![t] = r],
         r.id \notin underWay \/ (r.id = asker[t].id /\ RecordsLeft(r) <= RecordsLeft(asker[t])),
         underWay \subseteq underWay', underWay' \subseteq 1..(asks'), asks' \in Nat
  PROVE  /\ Spent \subseteq Spent' /\ Cardinality(Spent) <= Cardinality(Spent')
         /\ Cardinality(Spent) \in Nat /\ Cardinality(Spent') \in Nat /\ IsFiniteSet(Spent')
<1>1. asker'[t] = r /\ \A u \in Askers \ {t} : asker'[u] = asker[u] BY DEF AskInv
<1>2. ASSUME NEW x \in Spent PROVE x \in Spent'
  <2>1. x \in underWay \X {1, 2} /\ \A u \in Askers : asker[u].id = x[1] => RecordsLeft(asker[u]) < x[2]
    BY DEF Spent
  <2>2. x \in underWay' \X {1, 2} BY <2>1
  <2>3. ASSUME NEW u \in Askers, asker'[u].id = x[1] PROVE RecordsLeft(asker'[u]) < x[2]
    <3>1. CASE u # t BY <1>1, <2>1, <2>3, <3>1
    <3>2. CASE u = t
      <4>1. r.id = x[1] /\ x[1] \in underWay /\ x[2] \in {1, 2} BY <1>1, <2>1, <2>3, <3>2
      <4>2. RecordsLeft(r) <= RecordsLeft(asker[t]) /\ RecordsLeft(asker[t]) < x[2] BY <2>1, <4>1
      <4>3. RecordsLeft(r) \in 0..2 /\ RecordsLeft(asker[t]) \in 0..2 BY LeftRange
      <4> HIDE DEF RecordsLeft
      <4>4. RecordsLeft(r) < x[2] BY <4>1, <4>2, <4>3
      <4> QED BY <1>1, <3>2, <4>4
    <3> QED BY <3>1, <3>2
  <2> QED BY <2>2, <2>3 DEF Spent
<1>3. IsFiniteSet(Spent) /\ Cardinality(Spent) \in Nat BY SpentFinite DEF AskInv
<1>4. IsFiniteSet(Spent') /\ Cardinality(Spent') \in Nat
  <2>1. IsFiniteSet(1..(asks')) BY FS_Interval
  <2>2. IsFiniteSet(underWay') BY <2>1, FS_Subset
  <2>3. IsFiniteSet({1, 2}) BY TwoCharges
  <2>4. IsFiniteSet(underWay' \X {1, 2}) BY <2>2, <2>3, FS_Product
  <2>5. Spent' \subseteq underWay' \X {1, 2} BY DEF Spent
  <2> QED BY <2>4, <2>5, FS_Subset, FS_CardinalityType
<1>5. Spent \subseteq Spent' BY <1>2
<1> QED BY <1>3, <1>4, <1>5, FS_Subset

LEMMA BelowBudgetNat == BelowBudget \in Nat /\ Budget \in Nat /\ Budget <= BelowBudget + 1
BY AskAssumption DEF BelowBudget

\* The limit on what is charged, when a call does not charge anything.
LEMMA CostMoves ==
  ASSUME AskInv, NEW t \in Askers, NEW r, r \in AskRows, asker' = [asker EXCEPT ![t] = r],
         r.id \notin underWay \/ (r.id = asker[t].id /\ RecordsLeft(r) <= RecordsLeft(asker[t])),
         r.pc = "costed" => r.read = cumulative,
         r.kind = "ask" /\ RecordsLeft(r) > 0 /\ r.override = FALSE =>
           \/ cumulative < Budget
           \/ /\ asker[t].kind = "ask" /\ RecordsLeft(asker[t]) > 0 /\ asker[t].override = FALSE
              /\ r.id = asker[t].id,
         UNCHANGED <<cumulative, overridden, underWay>>, asks' \in Nat, asks <= asks'
  PROVE  CostOK'
<1>1. asker'[t] = r /\ \A u \in Askers \ {t} : asker'[u] = asker[u] BY DEF AskInv
<1>2. underWay' \subseteq 1..(asks')
  <2>1. asks \in Nat /\ underWay \subseteq 1..asks /\ underWay' = underWay BY DEF AskInv
  <2> QED BY <2>1
<1>3. Cardinality(Spent) <= Cardinality(Spent') /\ Cardinality(Spent) \in Nat /\ Cardinality(Spent') \in Nat
  BY <1>2, SpentGrows
<1>4. Limit \in Nat /\ Limit' \in Nat /\ Limit <= Limit'
  <2>1. BelowBudget' = BelowBudget BY DEF BelowBudget
  <2>2. overridden \in Nat /\ overridden' = overridden BY DEF AskInv
  <2> QED BY <1>3, <2>1, <2>2, BelowBudgetNat DEF Limit
<1>5. cumulative <= Limit /\ cumulative \in Nat BY DEF AskInv, CostOK
<1>6. cumulative' <= Limit' BY <1>4, <1>5
<1>7. ASSUME NEW u \in Askers, asker'[u].pc = "costed" PROVE asker'[u].read <= Limit'
  <2>1. CASE u = t BY <1>1, <1>4, <1>5, <1>7, <2>1
  <2>2. CASE u # t
    <3>1. asker[u].read \in Nat BY DEF AskInv, AskRows
    <3>2. asker[u].read <= Limit BY <1>1, <1>7, <2>2 DEF AskInv, CostOK
    <3> QED BY <1>1, <1>4, <2>2, <3>1, <3>2
  <2> QED BY <2>1, <2>2
<1>8. ASSUME NEW u \in Askers, asker'[u].kind = "ask" /\ RecordsLeft(asker'[u]) > 0 /\ asker'[u].override = FALSE,
             cumulative' >= Budget \/ (asker'[u].pc = "costed" /\ asker'[u].read >= Budget)
      PROVE  asker'[u].id \in underWay'
  <2>1. CASE u # t BY <1>1, <1>8, <2>1 DEF AskInv, CostOK
  <2>2. CASE u = t
    <3>1. cumulative >= Budget BY <1>1, <1>8, <2>2
    <3>2. ~(cumulative < Budget) BY <1>5, <3>1, BelowBudgetNat
    <3>3. /\ asker[t].kind = "ask" /\ RecordsLeft(asker[t]) > 0 /\ asker[t].override = FALSE
          /\ r.id = asker[t].id
      BY <1>1, <1>8, <2>2, <3>2
    <3>4. asker[t].id \in underWay BY <3>1, <3>3 DEF AskInv, CostOK
    <3> QED BY <1>1, <2>2, <3>3, <3>4
  <2> QED BY <2>1, <2>2
<1> HIDE DEF Limit
<1> QED BY <1>6, <1>7, <1>8 DEF CostOK

\* The history, when a call adds nothing to it.
LEMMA HistoryMoves ==
  ASSUME AskInv, NEW t \in Askers, NEW r, asker' = [asker EXCEPT ![t] = r],
         \/ r.id = asker[t].id /\ asker[t].pc # "remembered"
         \/ r.id = 0 \/ r.id > asks,
         UNCHANGED session, asks' \in Nat, asks <= asks', answered \subseteq answered'
  PROVE  HistoryOK'
<1>1. asker'[t] = r /\ \A u \in Askers \ {t} : asker'[u] = asker[u] BY DEF AskInv
<1>2. asks \in Nat /\ session \in Seq((1..asks) \X {"user", "assistant"}) BY DEF AskInv, HistoryOK
<1>3. \A i \in 1..Len(session) : session[i] \in (1..asks) \X {"user", "assistant"}
  BY <1>2, ElementOfSeq
<1>4. session' \in Seq((1..(asks')) \X {"user", "assistant"})
  <2>1. \A i \in 1..Len(session) : session[i] \in (1..(asks')) \X {"user", "assistant"} BY <1>2, <1>3
  <2>2. session = [i \in 1..Len(session) |-> session[i]] /\ Len(session) \in Nat BY <1>2, LenProperties
  <2> QED BY <2>1, <2>2, IsASeq
<1>5. HistoryIsFaithful'
  <2>1. HistoryIsFaithful BY DEF AskInv, HistoryOK
  <2> QED BY <2>1 DEF HistoryIsFaithful
<1>6. ASSUME NEW u \in Askers, NEW i \in 1..Len(session), session[i][1] = asker'[u].id
      PROVE  asker'[u].pc = "remembered" /\ session[i][2] = "user"
  <2>1. session[i][1] \in 1..asks BY <1>3
  <2>2. CASE u # t BY <1>1, <1>6, <2>2 DEF AskInv, HistoryOK
  <2>3. CASE u = t
    <3>1. session[i][1] = r.id BY <1>1, <1>6, <2>3
    <3>2. r.id = asker[t].id /\ asker[t].pc # "remembered" BY <1>2, <2>1, <3>1
    <3> QED BY <3>1, <3>2 DEF AskInv, HistoryOK
  <2> QED BY <2>2, <2>3
<1> QED BY <1>4, <1>5, <1>6 DEF HistoryOK

\* The numbers of the calls.
LEMMA IdsMove ==
  ASSUME AskInv, NEW t \in Askers, NEW r, asker' = [asker EXCEPT ![t] = r],
         r.id \in {asker[t].id, 0}, asks' = asks
  PROVE  \A u, v \in Askers : asker'[u].id <= asks' /\ (asker'[u].id = asker'[v].id => u = v \/ asker'[u].id = 0)
<1>1. asker'[t] = r /\ \A u \in Askers \ {t} : asker'[u] = asker[u] BY DEF AskInv
<1>2. \A u \in Askers : asker'[u].id \in {asker[u].id, 0} BY <1>1
<1>3. 0 <= asks BY DEF AskInv
<1>4. \A u, v \in Askers : asker[u].id <= asks /\ (asker[u].id = asker[v].id => u = v \/ asker[u].id = 0)
  BY DEF AskInv
<1> QED BY <1>2, <1>3, <1>4

\* What a call comes to in a step that charges nothing and adds nothing to the history.
Follows(a, r) ==
  /\ AskerOK(r) /\ r.pc # "costed" /\ r.id \in {a.id, 0}
  /\ a.pc = "remembered" => r.id = 0
  /\ RecordsLeft(r) <= RecordsLeft(a)
  /\ r.kind = "ask" /\ RecordsLeft(r) > 0 => a.kind = "ask" /\ r.override = a.override

LEMMA FollowKeeps ==
  ASSUME AskInv, NEW t \in Askers, NEW r, Follows(asker[t], r), Becomes(t, r),
         UNCHANGED <<cumulative, session, asks, overridden, underWay>>, answered \subseteq answered'
  PROVE  AskInv'
<1>1. AskerOK(r) /\ r \in AskRows BY DEF Follows, AskerOK
<1>2. asker' = [asker EXCEPT ![t] = r] BY DEF Becomes
<1>3. asker' \in [Askers -> AskRows] /\ \A u \in Askers : AskerOK(asker'[u]) BY <1>1, <1>2 DEF AskInv
<1>4. asks \in Nat /\ asks' = asks /\ asks <= asks' BY DEF AskInv
<1>5. r.id = 0 => RecordsLeft(r) = 0
  BY <1>1 DEF AskerOK, RecordsLeft, Searching
<1>6. \A n \in underWay : n # 0 BY DEF AskInv
<1>7. CostOK'
  <2>1. r.id \notin underWay \/ (r.id = asker[t].id /\ RecordsLeft(r) <= RecordsLeft(asker[t]))
    BY <1>6 DEF Follows
  <2>2. RecordsLeft(r) \in 0..2 /\ RecordsLeft(asker[t]) \in 0..2 BY LeftRange
  <2>3. RecordsLeft(r) > 0 => RecordsLeft(asker[t]) > 0 /\ r.id = asker[t].id
    BY <1>5, <2>2 DEF Follows
  <2>4. r.kind = "ask" /\ RecordsLeft(r) > 0 /\ r.override = FALSE =>
           /\ asker[t].kind = "ask" /\ RecordsLeft(asker[t]) > 0 /\ asker[t].override = FALSE
           /\ r.id = asker[t].id
    BY <2>3 DEF Follows
  <2>5. r.pc # "costed" BY DEF Follows
  <2> HIDE DEF RecordsLeft, Follows
  <2> QED BY <1>1, <1>2, <1>4, <2>1, <2>4, <2>5, CostMoves
<1>8. HistoryOK'
  <2>1. (r.id = asker[t].id /\ asker[t].pc # "remembered") \/ r.id = 0 BY DEF Follows
  <2> QED BY <1>2, <1>4, <2>1, HistoryMoves
<1>9. \A u, v \in Askers : asker'[u].id <= asks' /\ (asker'[u].id = asker'[v].id => u = v \/ asker'[u].id = 0)
  <2>1. r.id \in {asker[t].id, 0} BY DEF Follows
  <2> QED BY <1>2, <1>4, <2>1, IdsMove
<1>10. cumulative' \in Nat /\ overridden' \in Nat /\ underWay' \subseteq 1..(asks') BY DEF AskInv
<1> QED BY <1>3, <1>4, <1>7, <1>8, <1>9, <1>10 DEF AskInv

-----------------------------------------------------------------------------
(* Asking: where a call may go on. *)

LEMMA RaisesFollows == ASSUME NEW a PROVE Follows(a, IdleAsker)
<1>1. RecordsLeft(a) \in 0..2 BY LeftRange
<1>2. AskerOK(IdleAsker) /\ RecordsLeft(IdleAsker) = 0 BY IdleAskerOK
<1> HIDE DEF RecordsLeft
<1> QED BY <1>1, <1>2, IdleAskerRow DEF Follows

LEMMA RemembersFollows ==
  ASSUME NEW a, AskerOK(a), a.pc \notin {"idle", "remembered"}
  PROVE  Follows(a, ToRemember(a))
<1> DEFINE r == ToAnswer("remember", a.id)
<1>1. a.id \in Nat /\ a.id # 0 BY DEF AskerOK, AskRows
<1>2. /\ r \in AskRows /\ r.id = a.id /\ r.kind = "ask" /\ r.pc = "remember" /\ r.strategy = "none"
      /\ r.spoke = {}
  <2>1. "remember" \in AskPcs BY DEF AskPcs
  <2> QED BY <1>1, <2>1, RowRemembers
<1>3. ToRemember(a) = r BY DEF ToRemember, ToAnswer
<1> HIDE DEF r
<1>4. AskerOK(r) /\ RecordsLeft(r) = 0 BY <1>1, <1>2 DEF AskerOK, RecordsLeft, Searching
<1>5. RecordsLeft(a) \in 0..2 BY LeftRange
<1> HIDE DEF RecordsLeft
<1> QED BY <1>2, <1>3, <1>4, <1>5 DEF Follows

\* Steps within the search.
LEMMA SearchFollows ==
  ASSUME NEW a, AskerOK(a), NEW r \in AskRows, Alike(r, a), a.pc \in Searching, r.pc \in Searching,
         r.strategy \in {a.strategy, "fused"}, r.spoke = a.spoke, a.strategy = "none" => r.strategy = "none",
         r.pc = "variant" => r.todo # <<>>
  PROVE  Follows(a, r)
<1>1. r.id # 0 /\ r.spoke = {} BY DEF AskerOK, Alike, Searching
<1>2. AskerOK(r) BY <1>1 DEF AskerOK, Alike, Searching
<1>3. RecordsLeft(r) <= RecordsLeft(a) BY DEF RecordsLeft, Searching
<1> QED BY <1>2, <1>3 DEF Follows, Alike, Searching

LEMMA GoesFollows ==
  ASSUME NEW a, AskerOK(a), a.pc \in Searching, NEW p \in Searching \ {"variant"}
  PROVE  Follows(a, [a EXCEPT !.pc = p])
<1> DEFINE r == [a EXCEPT !.pc = p]
<1>1. a \in AskRows /\ p \in AskPcs /\ p # "variant" BY DEF AskerOK, AskPcs
<1>2. r \in AskRows /\ Alike(r, a) /\ r.pc = p /\ r.strategy = a.strategy /\ r.spoke = a.spoke
  BY <1>1, RowGoes
<1> HIDE DEF r
<1>3. Follows(a, r) BY <1>2, SearchFollows
<1> QED BY <1>3 DEF r

LEMMA EmbeddedFollows ==
  ASSUME NEW a, AskerOK(a), a.pc \in Searching
  PROVE  Follows(a, Embedded(a))
<1>1. a \in AskRows /\ a.query \in AskTexts BY DEF AskerOK, AskRows
<1>2. "variant" \in AskPcs /\ "variants" \in AskPcs /\ "search" \in AskPcs
  BY DEF AskPcs, Searching
<1>3. CASE a.todo # <<>> /\ Embedded(a) = [a EXCEPT !.pc = "variant", !.text = a.query]
  <2> DEFINE r == ToText(a, "variant", a.query)
  <2>1. /\ r \in AskRows /\ Alike(r, a) /\ r.pc = "variant" /\ r.strategy = a.strategy /\ r.spoke = a.spoke
        /\ r.todo = a.todo
    BY <1>1, <1>2, RowGoesText
  <2>2. Embedded(a) = r BY <1>3 DEF ToText
  <2> HIDE DEF r
  <2>3. r.pc \in Searching BY <2>1 DEF Searching
  <2> QED BY <1>3, <2>1, <2>2, <2>3, SearchFollows
<1>4. CASE /\ a.strategy = "multi_query"
           /\ Embedded(a) = [a EXCEPT !.pc = "variants", !.text = a.query, !.strategy = "fused"]
  <2> DEFINE r == ToFused(a, "variants", a.query)
  <2>1. r \in AskRows /\ Alike(r, a) /\ r.pc = "variants" /\ r.strategy = "fused" /\ r.spoke = a.spoke
    BY <1>1, <1>2, RowFused
  <2>2. Embedded(a) = r BY <1>4 DEF ToFused
  <2> HIDE DEF r
  <2>3. r.id # 0 /\ r.kind = "ask" /\ r.spoke = {} BY <1>4, <2>1 DEF AskerOK, Alike, Searching
  <2>4. AskerOK(r) BY <2>1, <2>3 DEF AskerOK
  <2>5. RecordsLeft(r) = 2 /\ RecordsLeft(a) = 2 BY <1>4, <2>1 DEF RecordsLeft, Searching
  <2>6. Follows(a, r) BY <2>1, <2>3, <2>4, <2>5 DEF Follows, Alike, Searching
  <2> QED BY <2>2, <2>6
<1>5. CASE Embedded(a) = [a EXCEPT !.pc = "search"]
  <2>1. "search" \in Searching \ {"variant"} BY DEF Searching
  <2> QED BY <1>5, <2>1, GoesFollows
<1> QED BY <1>3, <1>4, <1>5 DEF Embedded

\* With the cost of a call recorded, or not to be recorded, it is charged once less.
LEMMA AfterCostFollows ==
  ASSUME NEW a, AskerOK(a), NEW w \in AskRows, Alike(w, a), w.strategy = a.strategy,
         a.pc \in {"rewrite", "variants", "cost", "costed", "generate"},
         w.spoke # {} => w.todo = <<>>,
         w.spoke = {} => a.pc # "generate" /\ a.spoke = {}
  PROVE  Follows(a, AfterCost(w)) /\ RecordsLeft(AfterCost(w)) < RecordsLeft(a)
<1>1. a.id # 0 /\ a.kind = "ask" /\ a.strategy # "multi_query" /\ a.pc # "remembered" BY DEF AskerOK
<1>2. "variant" \in AskPcs /\ "embed" \in AskPcs /\ 0 \in Nat BY DEF AskPcs, Searching
<1>3. RecordsLeft(a) \in {1, 2} BY DEF RecordsLeft, Searching
<1>4. ASSUME NEW p \in {"variant", "embed"}, w.spoke = {}, p = "variant" => w.todo # <<>>
      PROVE  LET r == FromRead(w, p, 0) IN
             Follows(a, r) /\ RecordsLeft(r) < RecordsLeft(a)
  <2> DEFINE r == FromRead(w, p, 0)
  <2>1. /\ r \in AskRows /\ Alike(r, w) /\ r.pc = p /\ r.strategy = w.strategy /\ r.spoke = w.spoke
        /\ r.todo = w.todo
    BY <1>2, RowForgets
  <2> HIDE DEF r
  <2>2. r.id = a.id /\ r.kind = "ask" /\ r.override = a.override /\ r.strategy # "multi_query" /\ r.spoke = {}
    BY <1>1, <1>4, <2>1 DEF Alike
  <2>3. AskerOK(r) BY <1>1, <1>4, <2>1, <2>2 DEF AskerOK
  <2>4. RecordsLeft(r) = 1 BY <2>1, <2>2 DEF RecordsLeft, Searching
  <2>5. RecordsLeft(a) = 2 BY <1>4 DEF RecordsLeft, Searching
  <2>6. Follows(a, r) BY <1>1, <2>1, <2>2, <2>3, <2>4, <2>5 DEF Follows
  <2> HIDE DEF RecordsLeft, Follows
  <2>7. RecordsLeft(r) < RecordsLeft(a) BY <2>4, <2>5
  <2> QED BY <2>6, <2>7 DEF r
<1>5. CASE w.todo # <<>>
  <2>1. w.spoke = {} BY <1>5
  <2>2. AfterCost(w) = FromRead(w, "variant", 0) BY <1>5 DEF AfterCost, FromRead
  <2> QED BY <1>4, <1>5, <2>1, <2>2
<1>6. CASE w.todo = <<>> /\ w.spoke = {}
  <2>1. AfterCost(w) = FromRead(w, "embed", 0) BY <1>6 DEF AfterCost, FromRead
  <2> QED BY <1>4, <1>6, <2>1
<1>7. CASE w.todo = <<>> /\ w.spoke # {}
  <2>1. AfterCost(w) = ToRemember(w) BY <1>7 DEF AfterCost
  <2>2. ToRemember(w) = ToRemember(a) BY DEF ToRemember, Alike
  <2>3. a.pc \notin {"idle", "remembered"} OBVIOUS
  <2>4. Follows(a, ToRemember(a)) BY <2>3, RemembersFollows
  <2>5. RecordsLeft(ToRemember(a)) = 0
    <3>1. a.id \in Nat BY DEF AskerOK, AskRows
    <3>2. "remember" \in AskPcs /\ ToRemember(a) = ToAnswer("remember", a.id)
      BY DEF AskPcs, ToRemember, ToAnswer
    <3>3. ToRemember(a).pc = "remember" BY <3>1, <3>2, RowRemembers
    <3> QED BY <3>3 DEF RecordsLeft, Searching
  <2> HIDE DEF RecordsLeft
  <2> QED BY <1>3, <2>1, <2>2, <2>4, <2>5
<1> QED BY <1>5, <1>6, <1>7

-----------------------------------------------------------------------------
(* Asking: the steps. *)

LEMMA TextsAreTexts == Rewritten \in AskTexts /\ SorryText \in AskTexts /\ Queries \subseteq AskTexts
BY DEF AskTexts

\* The providers of a chain: a call that is charged, one that cannot be, another try, or none left.
LEMMA TryKeeps ==
  ASSUME AskInv, NEW t \in Askers, NEW won \in AskRows, NEW lost, TryProvider(t, won, lost),
         asker[t].pc \in {"rewrite", "variants", "generate"}, Alike(won, asker[t]), won.pc = asker[t].pc,
         won.strategy = asker[t].strategy, won.spoke \subseteq {won.provider},
         won.spoke = {} <=> asker[t].pc # "generate", won.spoke # {} => won.todo = <<>>,
         Follows(asker[t], lost),
         UNCHANGED <<cumulative, session, asks, answered, overridden, underWay>>
  PROVE  AskInv'
<1> DEFINE a == asker[t]
<1>1. AskerOK(a) /\ a \in AskRows BY DEF AskInv, AskerOK
<1>2. a.id # 0 /\ a.kind = "ask" /\ a.strategy # "multi_query" /\ a.spoke = {} BY <1>1 DEF AskerOK
<1>3. "cost" \in AskPcs BY DEF AskPcs
<1> HIDE DEF a
<1>4. Follows(a, [won EXCEPT !.pc = "cost"])
  <2> DEFINE r == [won EXCEPT !.pc = "cost"]
  <2>1. /\ r \in AskRows /\ Alike(r, won) /\ r.pc = "cost" /\ r.strategy = won.strategy /\ r.spoke = won.spoke
        /\ r.provider = won.provider /\ r.todo = won.todo
    BY <1>3, RowGoes
  <2> HIDE DEF r
  <2>2. r.id = a.id /\ r.kind = "ask" /\ r.override = a.override BY <1>2, <2>1 DEF Alike, a
  <2>3. r.strategy # "multi_query" /\ r.spoke \subseteq {r.provider} /\ (r.spoke # {} => r.todo = <<>>)
    BY <1>2, <2>1 DEF a
  <2>4. AskerOK(r) BY <1>2, <2>1, <2>2, <2>3 DEF AskerOK
  <2>5. RecordsLeft(r) <= RecordsLeft(a)
    <3>1. CASE a.pc = "generate"
      <4>1. r.spoke # {} BY <2>1, <3>1 DEF a
      <4> QED BY <2>1, <3>1, <4>1 DEF RecordsLeft, Searching
    <3>2. CASE a.pc \in {"rewrite", "variants"} BY <2>1, <3>2 DEF RecordsLeft, Searching
    <3> QED BY <3>1, <3>2 DEF a
  <2>6. a.pc # "remembered" BY DEF a
  <2>7. Follows(a, r) BY <1>2, <2>1, <2>2, <2>4, <2>5, <2>6 DEF Follows
  <2> QED BY <2>7 DEF r
<1>5. Follows(a, AfterCost(won)) BY <1>1, <1>2, AfterCostFollows DEF a
<1>6. Follows(a, [a EXCEPT !.provider = @ + 1])
  <2> DEFINE n == a.provider + 1
             r == [a EXCEPT !.provider = n]
  <2>1. n \in Nat BY <1>1 DEF AskRows
  <2> HIDE DEF n
  <2>2. /\ r \in AskRows /\ Alike(r, a) /\ r.pc = a.pc /\ r.strategy = a.strategy /\ r.spoke = a.spoke
        /\ r.todo = a.todo
    BY <1>1, <2>1, RowProvider
  <2> HIDE DEF r
  <2>3. AskerOK(r) BY <1>1, <1>2, <2>2 DEF AskerOK, Alike
  <2>4. RecordsLeft(r) <= RecordsLeft(a) BY <2>2 DEF RecordsLeft
  <2>5. Follows(a, r) BY <1>2, <2>2, <2>3, <2>4 DEF Follows, Alike, a
  <2> QED BY <2>5 DEF r, n
<1>7. \/ Becomes(t, [won EXCEPT !.pc = "cost"]) \/ Becomes(t, AfterCost(won))
      \/ Becomes(t, [a EXCEPT !.provider = @ + 1]) \/ Becomes(t, lost)
  <2>1. PICK outcome \in CallProvider :
          Becomes(t, CASE outcome = "priced" -> [won EXCEPT !.pc = "cost"]
                       [] outcome = "unpriced" -> AfterCost(won)
                       [] outcome = "raises" /\ a.provider < Chain(a) -> [a EXCEPT !.provider = @ + 1]
                       [] OTHER -> lost)
    BY DEF TryProvider, a
  <2> QED BY <2>1 DEF Becomes
<1>8. answered \subseteq answered' OBVIOUS
<1> QED BY <1>4, <1>5, <1>6, <1>7, <1>8, FollowKeeps DEF a

LEMMA RewriteKeeps == ASSUME AskInv, NEW t \in Askers, Rewrite(t) PROVE AskInv'
<1> DEFINE a == asker[t]
           b == [a EXCEPT !.provider = 1]
<1>1. AskerOK(a) /\ a \in AskRows /\ a.query \in AskTexts /\ a.pc = "rewrite"
  BY DEF AskInv, AskerOK, AskRows, Rewrite, At
<1>2. a.id # 0 /\ a.kind = "ask" /\ a.strategy # "multi_query" /\ a.spoke = {} BY <1>1 DEF AskerOK
<1>3. PICK answer \in {Rewritten, b.query} :
        TryProvider(t, [b EXCEPT !.text = answer], [b EXCEPT !.pc = "embed", !.text = SorryText])
  BY DEF Rewrite
<1> HIDE DEF a
<1>4. /\ b \in AskRows /\ Alike(b, a) /\ b.pc = a.pc /\ b.strategy = a.strategy /\ b.spoke = a.spoke
  BY <1>1, RowProvider
<1> HIDE DEF b
<1>5. answer \in AskTexts BY <1>1, <1>3, <1>4, TextsAreTexts DEF Alike
<1> DEFINE w == [b EXCEPT !.text = answer]
           l == ToText(b, "embed", SorryText)
<1>6. w \in AskRows /\ Alike(w, b) /\ w.pc = b.pc /\ w.strategy = b.strategy /\ w.spoke = b.spoke
  BY <1>4, <1>5, RowText
<1>7. l \in AskRows /\ Alike(l, b) /\ l.pc = "embed" /\ l.strategy = b.strategy /\ l.spoke = b.spoke
  <2>1. "embed" \in AskPcs BY DEF AskPcs, Searching
  <2> QED BY <1>4, <2>1, RowGoesText, TextsAreTexts
<1>8. TryProvider(t, w, l) BY <1>3 DEF ToText
<1> HIDE DEF w, l
<1>9. Follows(a, l)
  <2>1. l.id # 0 /\ l.kind = "ask" /\ l.spoke = {} BY <1>2, <1>4, <1>7 DEF Alike
  <2>2. AskerOK(l) BY <1>7, <2>1 DEF AskerOK
  <2>3. RecordsLeft(l) <= RecordsLeft(a) BY <1>1, <1>2, <1>4, <1>7 DEF RecordsLeft, Searching
  <2> QED BY <1>1, <1>2, <1>4, <1>7, <2>2, <2>3 DEF Follows, Alike
<1>10. Alike(w, a) /\ w.pc = a.pc /\ w.strategy = a.strategy /\ w.spoke = {} BY <1>2, <1>4, <1>6 DEF Alike
<1>11. UNCHANGED <<cumulative, session, asks, answered, overridden, underWay>> BY DEF Rewrite
<1> QED BY <1>1, <1>6, <1>8, <1>9, <1>10, <1>11, TryKeeps DEF a

LEMMA MultiQueryKeeps == ASSUME AskInv, NEW t \in Askers, MultiQuery(t) PROVE AskInv'
<1> DEFINE a == asker[t]
           b == [a EXCEPT !.provider = 1]
           Take(more) == SubSeq(<<b.query>> \o more, 1,
                                IF Len(more) < Variants THEN 1 + Len(more) ELSE Variants)
<1>1. AskerOK(a) /\ a \in AskRows /\ a.query \in AskTexts /\ a.pc = "variants"
  BY DEF AskInv, AskerOK, AskRows, MultiQuery, At
<1>2. a.id # 0 /\ a.kind = "ask" /\ a.strategy # "multi_query" /\ a.spoke = {} BY <1>1 DEF AskerOK
<1>3. PICK more \in {<<>>, <<Rewritten>>} :
        TryProvider(t, [b EXCEPT !.todo = Take(more)], [b EXCEPT !.pc = "variant", !.todo = Take(<<SorryText>>)])
  BY DEF MultiQuery
<1> HIDE DEF a
<1>4. /\ b \in AskRows /\ Alike(b, a) /\ b.pc = a.pc /\ b.strategy = a.strategy /\ b.spoke = a.spoke
  BY <1>1, RowProvider
<1> HIDE DEF b
<1>5. ASSUME NEW m \in Seq(AskTexts) PROVE Take(m) \in Seq(AskTexts) /\ Take(m) # <<>>
  <2> DEFINE s == <<b.query>> \o m
             n == IF Len(m) < Variants THEN 1 + Len(m) ELSE Variants
  <2>1. <<b.query>> \in Seq(AskTexts) BY <1>1, <1>4 DEF Alike
  <2>2. s \in Seq(AskTexts) /\ Len(s) = Len(<<b.query>>) + Len(m) BY <2>1, <1>5, ConcatProperties
  <2>3. Len(<<b.query>>) = 1 /\ Len(m) \in Nat /\ Variants \in Nat \ {0} BY AskAssumption, <1>5, LenProperties
  <2>4. n \in 1..Len(s) BY <2>2, <2>3
  <2> HIDE DEF s, n
  <2>5. SubSeq(s, 1, n) \in Seq(AskTexts) /\ Len(SubSeq(s, 1, n)) = n
    <3>1. \A i \in 1..n : s[i] \in AskTexts
      <4>1. \A i \in 1..n : i \in 1..Len(s) BY <2>2, <2>3, <2>4
      <4> QED BY <2>2, <4>1, ElementOfSeq
    <3>2. n \in Int /\ 1 \in Int BY <2>2, <2>3, <2>4
    <3>3. 1 <= n BY <2>4
    <3> QED BY <3>1, <3>2, <3>3, SubSeqProperties
  <2>6. SubSeq(s, 1, n) # <<>>
    <3>1. Len(<<>>) = 0 /\ n # 0 BY <2>4
    <3> QED BY <2>5, <3>1, Zenon
  <2> QED BY <2>5, <2>6 DEF s, n
<1>6. /\ Take(more) \in Seq(AskTexts) /\ Take(<<SorryText>>) \in Seq(AskTexts)
      /\ Take(<<SorryText>>) # <<>>
  <2>1. <<>> \in Seq(AskTexts) /\ <<Rewritten>> \in Seq(AskTexts) /\ <<SorryText>> \in Seq(AskTexts)
    BY TextsAreTexts
  <2> HIDE DEF Take
  <2> QED BY <1>3, <1>5, <2>1
<1> HIDE DEF Take
<1> DEFINE w == [b EXCEPT !.todo = Take(more)]
           l == ToTodo(b, "variant", Take(<<SorryText>>))
<1>7. w \in AskRows /\ Alike(w, b) /\ w.pc = b.pc /\ w.strategy = b.strategy /\ w.spoke = b.spoke
  BY <1>4, <1>6, RowTodo
<1>8. /\ l \in AskRows /\ Alike(l, b) /\ l.pc = "variant" /\ l.strategy = b.strategy /\ l.spoke = b.spoke
      /\ l.todo # <<>>
  <2>1. "variant" \in AskPcs BY DEF AskPcs, Searching
  <2> QED BY <1>4, <1>6, <2>1, RowGoesTodo
<1>9. TryProvider(t, w, l) BY <1>3 DEF ToTodo
<1> HIDE DEF w, l
<1>10. Follows(a, l)
  <2>1. l.id # 0 /\ l.kind = "ask" /\ l.spoke = {} BY <1>2, <1>4, <1>8 DEF Alike
  <2>2. AskerOK(l) BY <1>8, <2>1 DEF AskerOK
  <2>3. RecordsLeft(l) <= RecordsLeft(a) BY <1>1, <1>2, <1>4, <1>8 DEF RecordsLeft, Searching
  <2> QED BY <1>1, <1>2, <1>4, <1>8, <2>2, <2>3 DEF Follows, Alike
<1>11. Alike(w, a) /\ w.pc = a.pc /\ w.strategy = a.strategy /\ w.spoke = {} BY <1>2, <1>4, <1>7 DEF Alike
<1>12. UNCHANGED <<cumulative, session, asks, answered, overridden, underWay>> BY DEF MultiQuery
<1> QED BY <1>1, <1>7, <1>9, <1>10, <1>11, <1>12, TryKeeps DEF a

LEMMA GenerateKeeps == ASSUME AskInv, NEW t \in Askers, GenerateAnswer(t) PROVE AskInv'
<1> DEFINE a == asker[t]
           w == [a EXCEPT !.spoke = {a.provider}]
<1>1. AskerOK(a) /\ a \in AskRows /\ a.pc = "generate" /\ a.provider \in Nat
  BY DEF AskInv, AskerOK, AskRows, GenerateAnswer, At
<1>2. TryProvider(t, w, ToRemember(a)) /\ UNCHANGED <<cumulative, session, asks, answered, overridden, underWay>>
  BY DEF GenerateAnswer
<1>3. a.todo = <<>> BY <1>1 DEF AskerOK
<1> HIDE DEF a
<1>4. /\ w \in AskRows /\ Alike(w, a) /\ w.pc = a.pc /\ w.strategy = a.strategy /\ w.spoke = {a.provider}
      /\ w.provider = a.provider /\ w.todo = a.todo
  <2>1. {a.provider} \in SUBSET Nat BY <1>1
  <2> QED BY <1>1, <2>1, RowSpoke
<1> HIDE DEF w
<1>5. Follows(a, ToRemember(a)) BY <1>1, RemembersFollows
<1> QED BY <1>1, <1>2, <1>3, <1>4, <1>5, TryKeeps DEF a

\* A call begins.
LEMMA StartKeeps ==
  ASSUME AskInv, NEW t \in Askers, NEW r, AskerOK(r), r.id = asks + 1, r.pc # "costed", Becomes(t, r),
         r.kind = "ask" /\ r.override = FALSE => cumulative < Budget,
         asks' = asks + 1, UNCHANGED <<cumulative, session, answered, overridden, underWay>>
  PROVE  AskInv'
<1>1. r \in AskRows /\ asker' = [asker EXCEPT ![t] = r] BY DEF AskerOK, Becomes
<1>2. asks \in Nat /\ underWay \subseteq 1..asks BY DEF AskInv
<1>3. r.id \notin underWay /\ asks' \in Nat /\ asks <= asks' /\ r.id > asks /\ r.id # 0 BY <1>2
<1>4. CostOK'
  <2>1. r.kind = "ask" /\ RecordsLeft(r) > 0 /\ r.override = FALSE =>
           \/ cumulative < Budget
           \/ /\ asker[t].kind = "ask" /\ RecordsLeft(asker[t]) > 0 /\ asker[t].override = FALSE
              /\ r.id = asker[t].id
    OBVIOUS
  <2> HIDE DEF RecordsLeft
  <2> QED BY <1>1, <1>3, <2>1, CostMoves
<1>5. HistoryOK' BY <1>1, <1>3, HistoryMoves
<1>6. asker' \in [Askers -> AskRows] /\ \A u \in Askers : AskerOK(asker'[u]) BY <1>1 DEF AskInv
<1>7. asker'[t] = r /\ \A u \in Askers \ {t} : asker'[u] = asker[u] BY <1>1 DEF AskInv
<1>8. \A u, v \in Askers : asker[u].id <= asks /\ (asker[u].id = asker[v].id => u = v \/ asker[u].id = 0)
  BY DEF AskInv
<1>9. \A u \in Askers : asker[u].id \in Nat BY DEF AskInv, AskRows
<1>10. ASSUME NEW u \in Askers, NEW v \in Askers
       PROVE  asker'[u].id <= asks' /\ (asker'[u].id = asker'[v].id => u = v \/ asker'[u].id = 0)
  <2>1. asker[u].id <= asks /\ asker[v].id <= asks /\ asker[u].id \in Nat /\ asker[v].id \in Nat BY <1>8, <1>9
  <2>2. CASE u = t /\ v # t BY <1>2, <1>7, <2>1, <2>2
  <2>3. CASE u # t /\ v = t BY <1>2, <1>7, <2>1, <2>3
  <2>4. CASE u # t /\ v # t BY <1>2, <1>7, <1>8, <2>1, <2>4
  <2>5. CASE u = t /\ v = t BY <1>2, <1>7, <2>5
  <2> QED BY <2>2, <2>3, <2>4, <2>5
<1>11. cumulative' \in Nat /\ overridden' \in Nat /\ underWay' \subseteq 1..(asks') BY <1>2 DEF AskInv
<1> QED BY <1>3, <1>4, <1>5, <1>6, <1>10, <1>11 DEF AskInv

LEMMA AskStarts == ASSUME AskInv, NEW t \in Askers, Ask(t) PROVE AskInv'
<1>1. PICK q \in Queries, s \in Strategies :
        Becomes(t, [IdleAsker EXCEPT
            !.pc = IF s = "hyde" \/ (s = "contextual" /\ session # <<>>) THEN "rewrite" ELSE "embed",
            !.id = asks + 1, !.strategy = s, !.query = q, !.text = q,
            !.override = IsOverBudget(cumulative)])
  BY DEF Ask
<1>2. PICK p \in {"rewrite", "embed"} :
        /\ p = IF s = "hyde" \/ (s = "contextual" /\ session # <<>>) THEN "rewrite" ELSE "embed"
        /\ p = "rewrite" => s # "multi_query"
  OBVIOUS
<1>3. PICK b \in BOOLEAN : b = IsOverBudget(cumulative) /\ (b = FALSE => cumulative < Budget)
  <2>1. cumulative \in Nat /\ Budget \in Nat BY BelowBudgetNat DEF AskInv
  <2>2. (cumulative >= Budget) \in BOOLEAN /\ (~(cumulative >= Budget) => cumulative < Budget) BY <2>1
  <2>3. IsOverBudget(cumulative) \in BOOLEAN /\ (~IsOverBudget(cumulative) => cumulative < Budget)
    BY <2>2, Zenon DEF IsOverBudget
  <2> HIDE DEF IsOverBudget
  <2> QED BY <2>3, Zenon
<1> DEFINE n == asks + 1
           r == [IdleAsker EXCEPT !.pc = p, !.id = n, !.strategy = s, !.query = q, !.text = q, !.override = b]
<1>4. Becomes(t, r) BY <1>1, <1>2, <1>3
<1>5. n \in Nat /\ n # 0 BY DEF AskInv
<1>6. s \in Strategies \cup {"fused"} /\ q \in AskTexts /\ p \in AskPcs /\ IdleAsker \in AskRows
  BY TextsAreTexts, IdleAskerRow DEF AskPcs, Searching
<1> HIDE DEF n
<1>7. /\ r \in AskRows /\ r.pc = p /\ r.id = n /\ r.kind = IdleAsker.kind /\ r.strategy = s /\ r.override = b
      /\ r.spoke = IdleAsker.spoke
  BY <1>5, <1>6 DEF AskRows
<1> HIDE DEF r
<1>8. AskerOK(r) BY <1>2, <1>5, <1>7, IdleAskerRow DEF AskerOK
<1>9. r.kind = "ask" /\ r.override = FALSE => cumulative < Budget BY <1>3, <1>7
<1>10. r.pc # "costed" /\ r.id = asks + 1 BY <1>2, <1>7 DEF n
<1>11. asks' = asks + 1 /\ UNCHANGED <<cumulative, session, answered, overridden, underWay>> BY DEF Ask
<1> QED BY <1>4, <1>8, <1>9, <1>10, <1>11, StartKeeps

LEMMA StreamStarts == ASSUME AskInv, NEW t \in Askers, AskStream(t) PROVE AskInv'
<1>1. PICK q \in Queries, k \in {"stream", "retrieve"} :
        Becomes(t, [IdleAsker EXCEPT !.pc = "embed", !.kind = k, !.id = asks + 1, !.query = q, !.text = q])
  BY DEF AskStream
<1> DEFINE n == asks + 1
           r == [IdleAsker EXCEPT !.pc = "embed", !.kind = k, !.id = n, !.query = q, !.text = q]
<1>2. Becomes(t, r) BY <1>1
<1>3. n \in Nat /\ n # 0 BY DEF AskInv
<1>4. q \in AskTexts /\ "embed" \in AskPcs /\ IdleAsker \in AskRows
  BY TextsAreTexts, IdleAskerRow DEF AskPcs, Searching
<1> HIDE DEF n
<1>5. /\ r \in AskRows /\ r.pc = "embed" /\ r.id = n /\ r.kind = k /\ r.strategy = IdleAsker.strategy
      /\ r.spoke = IdleAsker.spoke
  BY <1>3, <1>4 DEF AskRows
<1> HIDE DEF r
<1>6. AskerOK(r) BY <1>3, <1>5, IdleAskerRow DEF AskerOK
<1>7. r.kind # "ask" /\ r.pc # "costed" /\ r.id = asks + 1 BY <1>5 DEF n
<1>8. asks' = asks + 1 /\ UNCHANGED <<cumulative, session, answered, overridden, underWay>> BY DEF AskStream
<1> QED BY <1>2, <1>6, <1>7, <1>8, StartKeeps

\* The cost: what is read was within the limit, and so is what is written.
LEMMA ReadsKeeps == ASSUME AskInv, NEW t \in Askers, RecordReads(t) PROVE AskInv'
<1> DEFINE a == asker[t]
           r == ToRead(a, "costed", cumulative)
<1>1. AskerOK(a) /\ a \in AskRows /\ a.pc = "cost" BY DEF AskInv, AskerOK, RecordReads, At
<1>2. Becomes(t, r) /\ UNCHANGED <<cumulative, session, asks, answered, overridden, underWay>>
  BY DEF RecordReads, ToRead
<1>3. cumulative \in Nat /\ "costed" \in AskPcs BY DEF AskInv, AskPcs
<1> HIDE DEF a
<1>4. /\ r \in AskRows /\ Alike(r, a) /\ r.pc = "costed" /\ r.strategy = a.strategy /\ r.spoke = a.spoke
      /\ r.provider = a.provider /\ r.read = cumulative /\ r.todo = a.todo
  BY <1>1, <1>3, RowReads
<1> HIDE DEF r
<1>5. AskerOK(r) BY <1>1, <1>4 DEF AskerOK, Alike
<1>6. RecordsLeft(r) = RecordsLeft(a) /\ RecordsLeft(a) \in {1, 2} BY <1>1, <1>4 DEF RecordsLeft, Searching
<1>7. r.id = a.id /\ r.kind = a.kind /\ r.override = a.override /\ a.id # 0 /\ a.kind = "ask"
  BY <1>1, <1>4 DEF Alike, AskerOK
<1>8. asker' = [asker EXCEPT ![t] = r] /\ asks' \in Nat /\ asks' = asks /\ asks <= asks'
  BY <1>2 DEF Becomes, AskInv
<1> HIDE DEF RecordsLeft
<1>9. CostOK'
  <2>1. RecordsLeft(r) <= RecordsLeft(asker[t]) /\ RecordsLeft(asker[t]) > 0 BY <1>6 DEF a
  <2> QED BY <1>2, <1>4, <1>7, <1>8, <2>1, CostMoves DEF a
<1>10. HistoryOK' BY <1>1, <1>2, <1>7, <1>8, HistoryMoves DEF a
<1>11. \A u, v \in Askers : asker'[u].id <= asks' /\ (asker'[u].id = asker'[v].id => u = v \/ asker'[u].id = 0)
  BY <1>7, <1>8, IdsMove DEF a
<1>12. asker' \in [Askers -> AskRows] /\ \A u \in Askers : AskerOK(asker'[u]) BY <1>4, <1>5, <1>8 DEF AskInv
<1>13. cumulative' \in Nat /\ overridden' \in Nat /\ underWay' \subseteq 1..(asks') BY <1>2 DEF AskInv
<1> QED BY <1>8, <1>9, <1>10, <1>11, <1>12, <1>13 DEF AskInv

\* A charge by a call that was under way when the budget was reached is one
\* of its two; so is the one that reaches it.
LEMMA WritesKeeps == ASSUME AskInv, NEW t \in Askers, RecordWrites(t) PROVE AskInv'
<1> DEFINE a == asker[t]
           r == AfterCost(a)
           grown == underWay \cup ({asker[u].id : u \in Askers} \ {0})
<1>1. AskerOK(a) /\ a \in AskRows /\ a.pc = "costed" /\ a.read \in Nat
  BY DEF AskInv, AskerOK, AskRows, RecordWrites, At
<1>2. a.id # 0 /\ a.kind = "ask" /\ (a.spoke # {} => a.todo = <<>>) /\ a.id \in Nat
  BY <1>1 DEF AskerOK, AskRows
<1>3. /\ cumulative' = a.read + 1 /\ Becomes(t, r) /\ UNCHANGED <<session, asks, answered>>
      /\ overridden' = overridden + (IF a.override THEN 1 ELSE 0)
      /\ underWay' = IF cumulative < Budget /\ cumulative' >= Budget THEN grown ELSE underWay
  BY DEF RecordWrites
<1>4. Follows(a, r) /\ RecordsLeft(r) < RecordsLeft(a)
  <2>1. Alike(a, a) BY DEF Alike
  <2> QED BY <1>1, <1>2, <2>1, AfterCostFollows
<1>5. asker' = [asker EXCEPT ![t] = r] BY <1>3 DEF Becomes
<1>6. asks \in Nat /\ asks' = asks /\ asks' \in Nat /\ asks <= asks' BY <1>3 DEF AskInv
<1>7. underWay \subseteq underWay' /\ underWay' \subseteq 1..(asks')
  <2>1. \A u \in Askers : asker[u].id \in Nat /\ asker[u].id <= asks BY DEF AskInv, AskRows
  <2>2. underWay \subseteq 1..asks BY DEF AskInv
  <2>3. \A u \in Askers : asker[u].id # 0 => asker[u].id \in 1..asks BY <1>6, <2>1
  <2>4. grown \subseteq 1..asks /\ underWay \subseteq grown BY <2>2, <2>3
  <2> HIDE DEF grown
  <2> QED BY <1>3, <1>6, <2>2, <2>4
<1>8. \A n \in underWay : n # 0 BY DEF AskInv
<1>9. r.id \in {a.id, 0} /\ r.pc # "costed" /\ AskerOK(r) /\ r \in AskRows
  BY <1>4 DEF Follows, AskerOK
<1>10. RecordsLeft(r) \in 0..2 /\ RecordsLeft(a) \in 0..2 BY LeftRange
<1> HIDE DEF RecordsLeft
<1>11. /\ Spent \subseteq Spent' /\ Cardinality(Spent) <= Cardinality(Spent')
       /\ Cardinality(Spent) \in Nat /\ Cardinality(Spent') \in Nat /\ IsFiniteSet(Spent')
  <2>1. r.id \notin underWay \/ (r.id = asker[t].id /\ RecordsLeft(r) <= RecordsLeft(asker[t]))
    BY <1>4, <1>8, <1>9, <1>10
  <2> HIDE DEF a, r
  <2> QED BY <1>5, <1>6, <1>7, <2>1, SpentGrows
<1> HIDE DEF r, grown
<1>12. asker'[t] = r /\ \A u \in Askers \ {t} : asker'[u] = asker[u] BY <1>5 DEF AskInv
<1>13. ASSUME a.id \in underWay' PROVE <<a.id, RecordsLeft(a)>> \in Spent'
  <2>1. RecordsLeft(a) \in {1, 2} BY <1>4, <1>10
  <2>2. ASSUME NEW u \in Askers, asker'[u].id = a.id PROVE RecordsLeft(asker'[u]) < RecordsLeft(a)
    <3>1. u = t BY <1>2, <1>12, <2>2 DEF AskInv
    <3> QED BY <1>4, <1>12, <3>1
  <2> DEFINE x == <<a.id, RecordsLeft(a)>>
  <2>3. x \in underWay' \X {1, 2} /\ x[1] = a.id /\ x[2] = RecordsLeft(a) BY <1>13, <2>1
  <2> HIDE DEF x
  <2>4. \A u \in Askers : asker'[u].id = x[1] => RecordsLeft(asker'[u]) < x[2] BY <2>2, <2>3
  <2>5. x \in Spent' BY <2>3, <2>4 DEF Spent
  <2> QED BY <2>5 DEF x
<1>14. <<a.id, RecordsLeft(a)>> \notin Spent
  <2> DEFINE x == <<a.id, RecordsLeft(a)>>
  <2>1. x[1] = a.id /\ x[2] = RecordsLeft(a) OBVIOUS
  <2> HIDE DEF x
  <2>2. x \in Spent => RecordsLeft(a) < RecordsLeft(a) BY <2>1 DEF Spent, a
  <2>3. ~(RecordsLeft(a) < RecordsLeft(a)) BY <1>10
  <2> QED BY <2>2, <2>3 DEF x
<1>15. ASSUME a.id \in underWay' PROVE Cardinality(Spent) + 1 <= Cardinality(Spent')
  <2> DEFINE x == <<a.id, RecordsLeft(a)>>
  <2>1. x \in Spent' /\ x \notin Spent BY <1>13, <1>14, <1>15
  <2> HIDE DEF x
  <2>2. IsFiniteSet(Spent) BY SpentFinite DEF AskInv
  <2>3. IsFiniteSet(Spent \cup {x}) /\ Cardinality(Spent \cup {x}) = Cardinality(Spent) + 1
    BY <2>1, <2>2, FS_AddElement
  <2>4. Spent \cup {x} \subseteq Spent' BY <1>11, <2>1
  <2>5. Cardinality(Spent \cup {x}) <= Cardinality(Spent') BY <1>11, <2>4, FS_Subset
  <2> QED BY <2>3, <2>5
<1>16. BelowBudget' = BelowBudget BY DEF BelowBudget
<1>17. overridden \in Nat /\ cumulative \in Nat BY DEF AskInv
<1>18. cumulative <= Limit /\ a.read <= Limit BY <1>1 DEF AskInv, CostOK, a
<1>19. a.override = TRUE \/ a.override = FALSE BY <1>1 DEF AskRows
<1>20. overridden' = overridden + 1 \/ (a.override = FALSE /\ overridden' = overridden)
  <2>1. CASE a.override = TRUE BY <1>3, <2>1
  <2>2. CASE a.override = FALSE BY <1>3, <1>17, <2>2
  <2> QED BY <1>19, <2>1, <2>2
<1>21. overridden' \in Nat /\ cumulative' \in Nat BY <1>1, <1>3, <1>17, <1>20
<1>22. Limit \in Nat /\ Limit' \in Nat /\ Limit <= Limit' /\ (a.id \in underWay' => Limit + 1 <= Limit')
       /\ (overridden' = overridden + 1 => Limit + 1 <= Limit')
  <2>1. overridden <= overridden' BY <1>17, <1>20
  <2> QED BY <1>11, <1>15, <1>16, <1>17, <1>21, <2>1, BelowBudgetNat DEF Limit
<1>23. RecordsLeft(a) > 0 BY <1>4, <1>10
<1>24. a.override = FALSE /\ a.read >= Budget => a.id \in underWay
  BY <1>1, <1>2, <1>23 DEF AskInv, CostOK, a
<1>25. cumulative < Budget /\ cumulative' >= Budget => \A u \in Askers : asker[u].id # 0 => asker[u].id \in underWay'
  BY <1>3 DEF grown
<1>26. cumulative' <= Limit'
  <2>1. CASE a.id \in underWay' \/ overridden' = overridden + 1
    <3>1. Limit + 1 <= Limit' BY <1>22, <2>1
    <3> QED BY <1>1, <1>3, <1>18, <1>22, <3>1
  <2>2. CASE a.id \notin underWay' /\ overridden' # overridden + 1
    <3>1. a.override = FALSE /\ a.id \notin underWay BY <1>7, <1>20, <2>2
    <3>2. ~(a.read >= Budget) BY <1>24, <3>1
    <3>3. cumulative' <= Budget BY <1>1, <1>3, <3>2, BelowBudgetNat
    <3>4. ~(cumulative < Budget /\ cumulative' >= Budget) BY <1>2, <1>25, <2>2 DEF a
    <3>5. CASE cumulative < Budget
      <4>1. cumulative' < Budget BY <1>21, <3>4, <3>5, BelowBudgetNat
      <4>2. BelowBudget <= Limit' BY <1>11, <1>16, <1>21, BelowBudgetNat DEF Limit
      <4> QED BY <1>21, <1>22, <4>1, <4>2, BelowBudgetNat
    <3>6. CASE ~(cumulative < Budget) BY <1>17, <1>18, <1>21, <1>22, <3>3, <3>6, BelowBudgetNat
    <3> QED BY <3>5, <3>6
  <2> QED BY <2>1, <2>2
<1>27. ASSUME NEW u \in Askers, asker'[u].pc = "costed" PROVE asker'[u].read <= Limit'
  <2>1. u # t BY <1>9, <1>12, <1>27
  <2>2. asker[u].read \in Nat BY DEF AskInv, AskRows
  <2>3. asker[u].read <= Limit BY <1>12, <1>27, <2>1 DEF AskInv, CostOK
  <2>4. asker[u].read <= Limit' BY <1>22, <2>2, <2>3
  <2> QED BY <1>12, <2>1, <2>4
<1>28. ASSUME NEW u \in Askers, asker'[u].kind = "ask" /\ RecordsLeft(asker'[u]) > 0 /\ asker'[u].override = FALSE,
              cumulative' >= Budget \/ (asker'[u].pc = "costed" /\ asker'[u].read >= Budget)
       PROVE  asker'[u].id \in underWay'
  <2>1. RecordsLeft(r) > 0 /\ r.kind = "ask" => r.id = a.id /\ r.override = a.override
    <3>1. r.id = 0 => RecordsLeft(r) = 0 BY <1>9 DEF AskerOK, RecordsLeft, Searching
    <3>2. RecordsLeft(r) > 0 => r.id # 0 BY <1>10, <3>1
    <3>3. RecordsLeft(r) > 0 => r.id = a.id BY <1>9, <3>2
    <3> QED BY <1>4, <3>3 DEF Follows
  <2>2. /\ asker[u].kind = "ask" /\ RecordsLeft(asker[u]) > 0 /\ asker[u].override = FALSE
        /\ asker'[u].id = asker[u].id
        /\ asker'[u].pc = "costed" => asker[u].pc = "costed" /\ asker'[u].read = asker[u].read
    <3>1. CASE u = t BY <1>2, <1>9, <1>12, <1>23, <1>28, <2>1, <3>1 DEF a
    <3>2. CASE u # t BY <1>12, <1>28, <3>2
    <3> QED BY <3>1, <3>2
  <2>3. asker[u].id # 0 BY <2>2 DEF AskInv, AskerOK, RecordsLeft, Searching
  <2>4. CASE cumulative >= Budget \/ (asker[u].pc = "costed" /\ asker[u].read >= Budget)
    <3>1. asker[u].id \in underWay BY <2>2, <2>4 DEF AskInv, CostOK
    <3> QED BY <1>7, <2>2, <3>1
  <2>5. CASE cumulative < Budget /\ cumulative' >= Budget BY <1>25, <2>2, <2>3, <2>5
  <2>6. cumulative >= Budget \/ cumulative < Budget BY <1>17, BelowBudgetNat
  <2> QED BY <1>28, <2>2, <2>4, <2>5, <2>6
<1> HIDE DEF Limit
<1>29. CostOK' BY <1>26, <1>27, <1>28 DEF CostOK
<1>30. HistoryOK'
  <2>1. (r.id = asker[t].id /\ asker[t].pc # "remembered") \/ r.id = 0 BY <1>1, <1>9 DEF a
  <2> QED BY <1>3, <1>5, <1>6, <2>1, HistoryMoves
<1>31. \A u, v \in Askers : asker'[u].id <= asks' /\ (asker'[u].id = asker'[v].id => u = v \/ asker'[u].id = 0)
  <2>1. r.id \in {asker[t].id, 0} BY <1>9 DEF a
  <2> QED BY <1>5, <1>6, <2>1, IdsMove
<1>32. asker' \in [Askers -> AskRows] /\ \A u \in Askers : AskerOK(asker'[u]) BY <1>5, <1>9 DEF AskInv
<1> QED BY <1>6, <1>7, <1>21, <1>29, <1>30, <1>31, <1>32 DEF AskInv

\* Steps that move one call and nothing else that matters here.
LEMMA StepFollows ==
  ASSUME AskInv, NEW t \in Askers, NEW r, Follows(asker[t], r), Becomes(t, r),
         UNCHANGED <<cumulative, session, asks, answered, overridden, underWay>>
  PROVE  AskInv'
BY FollowKeeps

LEMMA GoesBecomes == ASSUME NEW t \in Askers, NEW p, Goes(t, p) PROVE Becomes(t, [asker[t] EXCEPT !.pc = p])
BY DEF Goes, Becomes

LEMMA SearchStepKeeps ==
  ASSUME AskInv, NEW t \in Askers, asker[t].pc \in Searching,
         NEW p \in Searching \ {"variant"}, Goes(t, p),
         UNCHANGED <<cumulative, session, asks, answered, overridden, underWay>>
  PROVE  AskInv'
<1>1. AskerOK(asker[t]) BY DEF AskInv
<1>2. Follows(asker[t], [asker[t] EXCEPT !.pc = p]) BY <1>1, GoesFollows
<1>3. Becomes(t, [asker[t] EXCEPT !.pc = p]) BY GoesBecomes
<1> QED BY <1>2, <1>3, StepFollows

LEMMA EmbeddedKeeps ==
  ASSUME AskInv, NEW t \in Askers, asker[t].pc \in Searching, Becomes(t, Embedded(asker[t])) \/ Raises(t),
         UNCHANGED <<cumulative, session, asks, answered, overridden, underWay>>
  PROVE  AskInv'
<1>1. AskerOK(asker[t]) BY DEF AskInv
<1>2. Follows(asker[t], Embedded(asker[t])) /\ Follows(asker[t], IdleAsker)
  BY <1>1, EmbeddedFollows, RaisesFollows
<1> QED BY <1>2, StepFollows DEF Raises

LEMMA VariantKeeps == ASSUME AskInv, NEW t \in Askers, NextVariant(t) PROVE AskInv'
<1> DEFINE a == asker[t]
           r == ToVariant(a, "embed", Head(a.todo), Tail(a.todo))
<1>1. AskerOK(a) /\ a \in AskRows /\ a.pc = "variant" /\ a.todo \in Seq(AskTexts) /\ a.todo # <<>>
  BY DEF AskInv, AskerOK, AskRows, NextVariant, At
<1>2. Becomes(t, r) /\ UNCHANGED <<cumulative, session, asks, answered, overridden, underWay>>
  BY DEF NextVariant, ToVariant
<1>3. Head(a.todo) \in AskTexts /\ Tail(a.todo) \in Seq(AskTexts) BY <1>1, HeadTailProperties
<1> HIDE DEF a
<1>4. r \in AskRows /\ Alike(r, a) /\ r.pc = "embed" /\ r.strategy = a.strategy /\ r.spoke = a.spoke
  <2> DEFINE x == Head(a.todo)
             q == Tail(a.todo)
  <2>1. "embed" \in AskPcs BY DEF AskPcs, Searching
  <2>2. x \in AskTexts /\ q \in Seq(AskTexts) BY <1>3
  <2>3. r = ToVariant(a, "embed", x, q) OBVIOUS
  <2> HIDE DEF x, q, r
  <2> QED BY <1>1, <2>1, <2>2, <2>3, RowVariant
<1> HIDE DEF r
<1>5. Follows(a, r)
  <2>1. a.pc \in Searching /\ r.pc \in Searching /\ r.pc # "variant" BY <1>1, <1>4 DEF Searching
  <2> QED BY <1>1, <1>4, <2>1, SearchFollows
<1> QED BY <1>2, <1>5, StepFollows DEF a

\* The cache decides only where a call goes on.
LEMMA CacheKeeps ==
  ASSUME AskInv, NEW t \in Askers,
         CacheGet(t) \/ CacheHit(t) \/ EmbedText(t) \/ CacheTouch(t) \/ CacheEvict(t)
  PROVE  AskInv'
<1>1. UNCHANGED <<cumulative, session, asks, answered, overridden, underWay>>
  BY DEF CacheGet, CacheHit, EmbedText, CacheTouch, CacheEvict
<1>2. asker[t].pc \in Searching BY DEF CacheGet, CacheHit, EmbedText, CacheTouch, CacheEvict, At, Searching
<1>3. \/ \E p \in {"hit", "miss", "touch", "evict"} : Goes(t, p)
      \/ Becomes(t, Embedded(asker[t])) \/ Raises(t)
  BY DEF CacheGet, CacheHit, EmbedText, CacheTouch, CacheEvict
<1>4. {"hit", "miss", "touch", "evict"} \subseteq Searching \ {"variant"} BY DEF Searching
<1>5. CASE \E p \in {"hit", "miss", "touch", "evict"} : Goes(t, p)
  <2>1. PICK p \in {"hit", "miss", "touch", "evict"} : Goes(t, p) BY <1>5
  <2> QED BY <1>1, <1>2, <1>4, <2>1, SearchStepKeeps
<1>6. CASE Becomes(t, Embedded(asker[t])) \/ Raises(t) BY <1>1, <1>2, <1>6, EmbeddedKeeps
<1> QED BY <1>3, <1>5, <1>6

LEMMA SearchKeeps == ASSUME AskInv, NEW t \in Askers, Search(t) PROVE AskInv'
<1> DEFINE a == asker[t]
<1>1. AskerOK(a) /\ a \in AskRows /\ a.pc = "search" BY DEF AskInv, AskerOK, Search, At
<1>2. a.id \in Nat /\ a.id # 0 /\ a.override \in BOOLEAN /\ a.spoke = {} BY <1>1 DEF AskerOK, AskRows
<1>3. UNCHANGED <<cumulative, session, asks, overridden, underWay>> /\ answered \subseteq answered'
  BY DEF Search
<1>4. RecordsLeft(a) \in {1, 2} BY <1>1 DEF RecordsLeft, Searching
<1>5. CASE Raises(t) BY <1>3, <1>5, RaisesFollows, FollowKeeps DEF Raises
<1>6. CASE a.kind = "ask" /\ Becomes(t, [IdleAsker EXCEPT !.pc = "generate", !.id = a.id, !.override = a.override])
  <2> DEFINE r == ToGenerate("generate", a.id, a.override)
  <2>1. Becomes(t, r) BY <1>6 DEF ToGenerate
  <2> HIDE DEF a
  <2>2. "generate" \in AskPcs BY DEF AskPcs
  <2>3. /\ r \in AskRows /\ r.id = a.id /\ r.kind = "ask" /\ r.pc = "generate" /\ r.strategy = "none"
        /\ r.spoke = {} /\ r.override = a.override /\ r.todo = <<>>
    BY <1>2, <2>2, RowGenerates
  <2> HIDE DEF r
  <2>4. AskerOK(r) BY <1>2, <2>3 DEF AskerOK
  <2>5. RecordsLeft(r) = 1 BY <2>3 DEF RecordsLeft, Searching
  <2>6. RecordsLeft(r) <= RecordsLeft(a)
    <3> HIDE DEF RecordsLeft
    <3> QED BY <1>4, <2>5
  <2>7. Follows(a, r) BY <1>1, <1>6, <2>3, <2>4, <2>6 DEF Follows
  <2> QED BY <1>3, <2>1, <2>7, FollowKeeps DEF a
<1>7. CASE a.kind = "stream" /\ Becomes(t, [a EXCEPT !.pc = "stream", !.override = IsOverBudget(cumulative)])
  <2>1. PICK b \in BOOLEAN : b = IsOverBudget(cumulative)
    <3>1. IsOverBudget(cumulative) \in BOOLEAN BY DEF IsOverBudget
    <3> QED BY <3>1, Zenon
  <2> DEFINE r == ToStream(a, "stream", b)
  <2>2. Becomes(t, r) BY <1>7, <2>1 DEF ToStream
  <2> HIDE DEF a
  <2>3. "stream" \in AskPcs BY DEF AskPcs
  <2>4. /\ r \in AskRows /\ r.id = a.id /\ r.kind = a.kind /\ r.pc = "stream" /\ r.strategy = a.strategy
        /\ r.spoke = a.spoke
    BY <1>1, <2>3, RowOverride
  <2> HIDE DEF r
  <2>5. AskerOK(r) BY <1>1, <1>2, <1>7, <2>4 DEF AskerOK
  <2>6. RecordsLeft(r) = 0 BY <2>4 DEF RecordsLeft, Searching
  <2>7. RecordsLeft(r) <= RecordsLeft(a)
    <3> HIDE DEF RecordsLeft
    <3> QED BY <1>4, <2>6
  <2>8. Follows(a, r) BY <1>1, <1>7, <2>4, <2>5, <2>7 DEF Follows
  <2> QED BY <1>3, <2>2, <2>8, FollowKeeps DEF a
<1> QED BY <1>5, <1>6, <1>7 DEF Search

LEMMA PieceKeeps == ASSUME AskInv, NEW t \in Askers, StreamPiece(t) PROVE AskInv'
<1> DEFINE a == asker[t]
<1>1. AskerOK(a) /\ a \in AskRows /\ a.pc = "stream" /\ a.provider \in Nat /\ a.spoke \in SUBSET Nat
  BY DEF AskInv, AskerOK, AskRows, StreamPiece, At
<1>2. UNCHANGED <<cumulative, session, asks, answered, overridden, underWay>> BY DEF StreamPiece
<1>3. RecordsLeft(a) = 0 BY <1>1 DEF RecordsLeft, Searching
<1>4. CASE Becomes(t, [a EXCEPT !.spoke = @ \cup {a.provider}])
  <2> DEFINE S == a.spoke \cup {a.provider}
             r == [a EXCEPT !.spoke = S]
  <2>1. S \in SUBSET Nat /\ S \subseteq {a.provider} BY <1>1 DEF AskerOK
  <2>2. Becomes(t, r) BY <1>4
  <2> HIDE DEF S, a
  <2>3. /\ r \in AskRows /\ Alike(r, a) /\ r.pc = a.pc /\ r.strategy = a.strategy /\ r.spoke = S
        /\ r.provider = a.provider
    BY <1>1, <2>1, RowSpoke
  <2> HIDE DEF r
  <2>4. AskerOK(r) BY <1>1, <2>1, <2>3 DEF AskerOK, Alike
  <2>5. RecordsLeft(r) = 0 BY <1>1, <2>3 DEF RecordsLeft, Searching
  <2>6. Follows(a, r) BY <1>1, <1>3, <2>3, <2>4, <2>5 DEF Follows, Alike
  <2> QED BY <1>2, <2>2, <2>6, StepFollows DEF a
<1>5. CASE Becomes(t, ToRemember(a))
  <2>1. Follows(a, ToRemember(a))
    <3> HIDE DEF a
    <3> QED BY <1>1, RemembersFollows
  <2> QED BY <1>2, <1>5, <2>1, StepFollows
<1>6. CASE MayFallBack(a) /\ Becomes(t, [a EXCEPT !.provider = @ + 1])
  <2> DEFINE n == a.provider + 1
             r == [a EXCEPT !.provider = n]
  <2>1. n \in Nat /\ a.spoke = {} BY <1>1, <1>6 DEF MayFallBack
  <2>2. Becomes(t, r) BY <1>6
  <2> HIDE DEF n, a
  <2>3. /\ r \in AskRows /\ Alike(r, a) /\ r.pc = a.pc /\ r.strategy = a.strategy /\ r.spoke = a.spoke
    BY <1>1, <2>1, RowProvider
  <2> HIDE DEF r
  <2>4. AskerOK(r) BY <1>1, <2>1, <2>3 DEF AskerOK, Alike
  <2>5. RecordsLeft(r) = 0 BY <1>1, <2>3 DEF RecordsLeft, Searching
  <2>6. Follows(a, r) BY <1>1, <1>3, <2>3, <2>4, <2>5 DEF Follows, Alike
  <2> QED BY <1>2, <2>2, <2>6, StepFollows DEF a
<1>7. CASE Raises(t) BY <1>2, <1>7, RaisesFollows, StepFollows DEF Raises
<1> QED BY <1>4, <1>5, <1>6, <1>7 DEF StreamPiece

-----------------------------------------------------------------------------
(* Asking: what is remembered. *)

\* One more message of a call: its question when there is nothing of it
\* yet, or its answer when its question is there.
LEMMA HistoryGrows ==
  ASSUME AskInv, NEW t \in Askers, asker[t].id # 0, NEW r, asker' = [asker EXCEPT ![t] = r], NEW role,
         \/ /\ role = "user" /\ asker[t].pc = "remember"
            /\ r.id = asker[t].id /\ r.pc = "remembered"
         \/ /\ role = "assistant" /\ r.id = 0 /\ asker[t].id \in answered',
         session' = Append(session, <<asker[t].id, role>>), asks' = asks, answered \subseteq answered'
  PROVE  HistoryOK'
<1> DEFINE n == Len(session)
           e == <<asker[t].id, role>>
<1>1. asker'[t] = r /\ \A u \in Askers \ {t} : asker'[u] = asker[u] BY DEF AskInv
<1>2. asks \in Nat /\ session \in Seq((1..asks) \X {"user", "assistant"}) BY DEF AskInv, HistoryOK
<1>3. \A i \in 1..n : session[i] \in (1..asks) \X {"user", "assistant"} BY <1>2, ElementOfSeq
<1>4. asker[t].id \in 1..asks /\ e \in (1..asks) \X {"user", "assistant"}
  <2>1. asker[t].id \in Nat /\ asker[t].id <= asks BY DEF AskInv, AskRows
  <2> QED BY <1>2, <2>1
<1>5. n \in Nat /\ Len(session') = n + 1 /\ session'[n + 1] = e /\ \A i \in 1..n : session'[i] = session[i]
  BY <1>2, <1>4, AppendProperties
<1>6. session' \in Seq((1..(asks')) \X {"user", "assistant"}) BY <1>2, <1>4, AppendProperties
<1>7. e[1] = asker[t].id /\ e[2] = role OBVIOUS
<1> HIDE DEF n, e
<1>8. \A i \in 1..n : session[i][1] = asker[t].id => asker[t].pc = "remembered" /\ session[i][2] = "user"
  BY DEF AskInv, HistoryOK, n
<1>9. HistoryIsFaithful'
  <2>1. \A i, j \in 1..n :
          /\ session[i][2] = "assistant" => session[i][1] \in answered
          /\ i < j /\ session[i][1] = session[j][1] => session[i][2] = "user" /\ session[j][2] = "assistant"
    BY DEF AskInv, HistoryOK, HistoryIsFaithful, n
  <2>2. ASSUME NEW i \in 1..(n + 1), session'[i][2] = "assistant" PROVE session'[i][1] \in answered'
    <3>1. CASE i \in 1..n BY <1>5, <2>1, <2>2, <3>1
    <3>2. CASE i = n + 1
      <4>1. session'[i][2] = role /\ session'[i][1] = asker[t].id BY <1>5, <1>7, <3>2
      <4> QED BY <2>2, <4>1
    <3> QED BY <1>5, <3>1, <3>2
  <2>3. ASSUME NEW i \in 1..(n + 1), NEW j \in 1..(n + 1), i < j, session'[i][1] = session'[j][1]
        PROVE  session'[i][2] = "user" /\ session'[j][2] = "assistant"
    <3>1. i \in 1..n BY <1>5, <2>3
    <3>2. CASE j \in 1..n BY <1>5, <2>1, <2>3, <3>1, <3>2
    <3>3. CASE j = n + 1
      <4>1. session[i][1] = asker[t].id /\ session'[j][2] = role BY <1>5, <1>7, <2>3, <3>1, <3>3
      <4>2. asker[t].pc = "remembered" /\ session[i][2] = "user" BY <1>8, <3>1, <4>1
      <4> QED BY <1>5, <3>1, <4>1, <4>2
    <3> QED BY <1>5, <3>2, <3>3
  <2> QED BY <1>5, <2>2, <2>3 DEF HistoryIsFaithful
<1>10. ASSUME NEW u \in Askers, NEW i \in 1..(n + 1), session'[i][1] = asker'[u].id
       PROVE  asker'[u].pc = "remembered" /\ session'[i][2] = "user"
  <2>1. CASE i \in 1..n
    <3>1. session'[i] = session[i] /\ session[i][1] \in 1..asks BY <1>3, <1>5, <2>1
    <3>2. CASE u # t
      <4>1. session[i][1] = asker[u].id /\ asker'[u] = asker[u] BY <1>1, <1>10, <3>1, <3>2
      <4> QED BY <2>1, <3>1, <4>1 DEF AskInv, HistoryOK, n
    <3>3. CASE u = t
      <4>1. session[i][1] = r.id BY <1>1, <1>10, <3>1, <3>3, Zenon
      <4>2. r.id \in 1..asks BY <3>1, <4>1
      <4>3. r.id # 0 BY <4>2
      <4>4. r.id = asker[t].id /\ asker[t].pc = "remember" BY <4>3
      <4> QED BY <1>8, <2>1, <4>1, <4>4
    <3> QED BY <3>2, <3>3
  <2>2. CASE i = n + 1
    <3>1. session'[i][1] = asker[t].id /\ session'[i][2] = role BY <1>5, <1>7, <2>2
    <3>2. CASE u # t
      <4>1. asker[u].id = asker[t].id BY <1>1, <1>10, <3>1, <3>2
      <4> QED BY <3>2, <4>1 DEF AskInv
    <3>3. CASE u = t
      <4>1. r.id = asker[t].id BY <1>1, <1>10, <3>1, <3>3
      <4> QED BY <1>1, <3>1, <3>3, <4>1
    <3> QED BY <3>2, <3>3
  <2> QED BY <1>5, <2>1, <2>2
<1> QED BY <1>5, <1>6, <1>9, <1>10 DEF HistoryOK

\* A message is stored: the question, or the answer at the end of the call.
LEMMA StoreKeeps ==
  ASSUME AskInv, NEW t \in Askers, asker[t].pc \in {"remember", "remembered"}, NEW r, NEW role,
         \/ /\ asker[t].pc = "remember" /\ r = [asker[t] EXCEPT !.pc = "remembered"]
            /\ role = "user" /\ UNCHANGED answered
         \/ /\ r = IdleAsker
            /\ role = "assistant" /\ answered' = answered \cup {asker[t].id},
         Becomes(t, r), session' = Append(session, <<asker[t].id, role>>),
         UNCHANGED <<cumulative, asks, overridden, underWay>>
  PROVE  AskInv'
<1> DEFINE a == asker[t]
<1>1. AskerOK(a) /\ a \in AskRows /\ a.pc \in {"remember", "remembered"} BY DEF AskInv
<1>2. a.id # 0 BY <1>1 DEF AskerOK
<1>3. asker' = [asker EXCEPT ![t] = r] BY DEF Becomes
<1>4. /\ r \in AskRows /\ AskerOK(r) /\ RecordsLeft(r) = 0 /\ r.pc # "costed" /\ r.id \in {a.id, 0}
      /\ (r.id = a.id /\ r.pc = "remembered") \/ (r.id = 0 /\ r = IdleAsker)
  <2>1. CASE r = IdleAsker BY <2>1, IdleAskerRow, IdleAskerOK
  <2>2. CASE a.pc = "remember" /\ r = [a EXCEPT !.pc = "remembered"]
    <3> HIDE DEF a
    <3>1. "remembered" \in AskPcs BY DEF AskPcs
    <3>2. r \in AskRows /\ Alike(r, a) /\ r.pc = "remembered" /\ r.strategy = a.strategy /\ r.spoke = a.spoke
      BY <1>1, <2>2, <3>1, RowGoes
    <3>3. AskerOK(r) /\ RecordsLeft(r) = 0
      BY <1>1, <1>2, <2>2, <3>2 DEF AskerOK, Alike, RecordsLeft, Searching
    <3> QED BY <3>2, <3>3 DEF Alike
  <2> QED BY <2>1, <2>2
<1>5. RecordsLeft(a) \in 0..2 /\ RecordsLeft(r) \in 0..2 BY LeftRange
<1>6. \A n \in underWay : n # 0 BY DEF AskInv
<1>7. asks \in Nat /\ asks' = asks /\ asks <= asks' BY DEF AskInv
<1>8. CostOK'
  <2>1. r.id \notin underWay \/ (r.id = a.id /\ RecordsLeft(r) <= RecordsLeft(a))
    <3> HIDE DEF RecordsLeft
    <3> QED BY <1>4, <1>5, <1>6
  <2>2. ~(RecordsLeft(r) > 0)
    <3> HIDE DEF RecordsLeft
    <3> QED BY <1>4
  <2> HIDE DEF RecordsLeft
  <2> QED BY <1>3, <1>4, <1>7, <2>1, <2>2, CostMoves
<1>9. answered \subseteq answered' OBVIOUS
<1>10. HistoryOK'
  <2>1. \/ /\ role = "user" /\ a.pc = "remember"
           /\ r.id = a.id /\ r.pc = "remembered"
        \/ /\ role = "assistant" /\ r.id = 0 /\ a.id \in answered'
    <3>1. CASE r = IdleAsker /\ role = "assistant" /\ answered' = answered \cup {a.id}
      BY <3>1, IdleAskerRow
    <3>2. CASE a.pc = "remember" /\ r = [a EXCEPT !.pc = "remembered"] /\ role = "user"
      <4> HIDE DEF a
      <4>1. r.id = a.id /\ r.pc = "remembered" BY <1>1, <3>2 DEF AskRows
      <4> QED BY <3>2, <4>1
    <3> QED BY <3>1, <3>2
  <2> QED BY <1>2, <1>3, <1>7, <1>9, <2>1, HistoryGrows
<1>11. \A u, v \in Askers : asker'[u].id <= asks' /\ (asker'[u].id = asker'[v].id => u = v \/ asker'[u].id = 0)
  BY <1>3, <1>4, <1>7, IdsMove
<1>12. asker' \in [Askers -> AskRows] /\ \A u \in Askers : AskerOK(asker'[u]) BY <1>3, <1>4 DEF AskInv
<1>13. cumulative' \in Nat /\ overridden' \in Nat /\ underWay' \subseteq 1..(asks') BY DEF AskInv
<1> QED BY <1>7, <1>8, <1>10, <1>11, <1>12, <1>13 DEF AskInv

LEMMA RememberKeeps == ASSUME AskInv, NEW t \in Askers, Remember(t) PROVE AskInv'
<1> DEFINE a == asker[t]
<1>1. a.pc \in {"remember", "remembered"} BY DEF Remember
<1>2. UNCHANGED <<cumulative, asks, overridden, underWay>> BY DEF Remember
<1>3. CASE a.pc = "remember" /\ session' = Append(session, <<a.id, "user">>) /\ Goes(t, "remembered")
           /\ UNCHANGED answered
  <2>1. Becomes(t, [a EXCEPT !.pc = "remembered"]) BY <1>3, GoesBecomes
  <2> QED BY <1>1, <1>2, <1>3, <2>1, StoreKeeps
<1>4. CASE session' = Append(session, <<a.id, "assistant">>) /\ Becomes(t, IdleAsker)
           /\ answered' = answered \cup {a.id}
  BY <1>1, <1>2, <1>4, StoreKeeps
<1>5. CASE a.pc = "remember" /\ Raises(t) /\ answered' = answered \cup {a.id} /\ UNCHANGED session
  BY <1>2, <1>5, RaisesFollows, FollowKeeps DEF Raises
<1> QED BY <1>1, <1>3, <1>4, <1>5 DEF Remember, RoleAfter, Raises

LEMMA ClearKeeps == ASSUME AskInv, ClearSession PROVE AskInv'
<1>1. UNCHANGED <<asker, cumulative, asks, answered, overridden, underWay>> /\ session' = <<>>
  BY DEF ClearSession
<1>2. session' \in Seq((1..(asks')) \X {"user", "assistant"}) /\ Len(session') = 0 BY <1>1
<1>3. HistoryOK' BY <1>2 DEF HistoryOK, HistoryIsFaithful
<1>4. CostOK' BY <1>1 DEF AskInv, CostOK, Limit, Spent
<1> QED BY <1>1, <1>3, <1>4 DEF AskInv

LEMMA AskStarted == AskInit => AskInv
<1> SUFFICES ASSUME AskInit PROVE AskInv OBVIOUS
<1>1. \A t \in Askers : asker[t] = IdleAsker BY DEF AskInit
<1>2. asker \in [Askers -> AskRows] /\ \A t \in Askers : AskerOK(asker[t]) /\ asker[t].id = 0 /\ asker[t].pc = "idle"
  BY <1>1, IdleAskerRow, IdleAskerOK DEF AskInit
<1>3. CostOK
  <2>1. IsFiniteSet(Spent) /\ Cardinality(Spent) \in Nat BY SpentFinite DEF AskInit
  <2>2. cumulative <= Limit BY <2>1, BelowBudgetNat DEF AskInit, Limit
  <2>3. ASSUME NEW t \in Askers PROVE ~(RecordsLeft(asker[t]) > 0)
    <3>1. RecordsLeft(asker[t]) = 0 BY <1>1, IdleAskerOK
    <3> HIDE DEF RecordsLeft
    <3> QED BY <3>1
  <2> QED BY <1>2, <2>2, <2>3 DEF CostOK
<1>4. HistoryOK BY DEF AskInit, HistoryOK, HistoryIsFaithful
<1> QED BY <1>2, <1>3, <1>4 DEF AskInit, AskInv

LEMMA AskSteps == AskInv /\ [AskNext]_askVars => AskInv'
<1> SUFFICES ASSUME AskInv, [AskNext]_askVars PROVE AskInv' OBVIOUS
<1>1. CASE ClearSession BY <1>1, ClearKeeps
<1>2. ASSUME NEW t \in Askers, Ask(t) \/ AskStream(t) PROVE AskInv' BY <1>2, AskStarts, StreamStarts
<1>3. ASSUME NEW t \in Askers, Rewrite(t) \/ MultiQuery(t) \/ GenerateAnswer(t) PROVE AskInv'
  BY <1>3, RewriteKeeps, MultiQueryKeeps, GenerateKeeps
<1>4. ASSUME NEW t \in Askers, RecordReads(t) \/ RecordWrites(t) PROVE AskInv' BY <1>4, ReadsKeeps, WritesKeeps
<1>5. ASSUME NEW t \in Askers,
             CacheGet(t) \/ CacheHit(t) \/ EmbedText(t) \/ CacheTouch(t) \/ CacheEvict(t)
      PROVE  AskInv'
  BY <1>5, CacheKeeps
<1>6. ASSUME NEW t \in Askers, NextVariant(t) \/ Search(t) \/ StreamPiece(t) \/ Remember(t) PROVE AskInv'
  BY <1>6, VariantKeeps, SearchKeeps, PieceKeeps, RememberKeeps
<1>7. CASE UNCHANGED askVars
  BY <1>7 DEF askVars, AskInv, CostOK, HistoryOK, HistoryIsFaithful, Limit, Spent
<1> QED BY <1>1, <1>2, <1>3, <1>4, <1>5, <1>6, <1>7 DEF AskNext

LEMMA AskInvIsSound == AskInv => AskIsSound
<1> SUFFICES ASSUME AskInv PROVE AskIsSound OBVIOUS
<1>1. OverspendBounded
  <2>1. underWay \subseteq 1..asks /\ asks \in Nat /\ cumulative \in Nat /\ overridden \in Nat BY DEF AskInv
  <2>2. Cardinality(Spent) \in Nat /\ Cardinality(Spent) <= 2 * Cardinality(underWay) BY <2>1, SpentFinite
  <2>3. Cardinality(underWay) \in Nat
    <3>1. IsFiniteSet(1..asks) BY <2>1, FS_Interval
    <3> QED BY <2>1, <3>1, FS_Subset, FS_CardinalityType
  <2>4. cumulative <= BelowBudget + overridden + Cardinality(Spent) BY DEF AskInv, CostOK, Limit
  <2> QED BY <2>1, <2>2, <2>3, <2>4, BelowBudgetNat DEF OverspendBounded
<1>2. OneVoice
  <2> SUFFICES ASSUME NEW t \in Askers PROVE Cardinality(asker[t].spoke) <= 1 BY DEF OneVoice
  <2>1. asker[t].spoke \subseteq {asker[t].provider} BY DEF AskInv, AskerOK
  <2>2. IsFiniteSet({asker[t].provider}) /\ Cardinality({asker[t].provider}) = 1 BY FS_Singleton
  <2>3. Cardinality(asker[t].spoke) <= Cardinality({asker[t].provider}) BY <2>1, <2>2, FS_Subset
  <2> QED BY <2>2, <2>3
<1> QED BY <1>1, <1>2 DEF AskIsSound, AskInv, HistoryOK

-----------------------------------------------------------------------------
(* The migrations: a runner has done what it has passed. *)

MigRows == [pc : {"idle", "check", "up", "batch", "record"}, mig : {1, 2}, label : {1, 2, 3, 4},
            batch : SUBSET OldNodes]

\* The nodes a runner is past, in the migration it is at.
Passed(m) == {n \in OldNodes : m.pc = "record" \/ (m.pc \in {"up", "batch"} /\ LabelOf[n] < m.label)}

\* U has been given a user id and K a key, and the first migration has n records.
RunnerOK(m, U, K, n) ==
  /\ m.mig = 2 => n > 0
  /\ Passed(m) \subseteq (IF m.mig = 1 THEN U ELSE K)
  /\ m.pc = "batch" => m.mig = 2 /\ {x \in OldNodes : LabelOf[x] = m.label} \subseteq K \cup m.batch

MigInv ==
  /\ hasUser \subseteq OldNodes /\ hasKey \subseteq OldNodes
  /\ record \in [{1, 2} -> Nat] /\ RecordedIsComplete
  /\ runner \in [MigRunners -> MigRows]
  /\ \A r \in MigRunners : RunnerOK(runner[r], hasUser, hasKey, record[1])

LEMMA IdleRunnerOK ==
  ASSUME NEW p \in {"idle", "check"}, NEW U, NEW K, NEW n
  PROVE  [IdleRunner EXCEPT !.pc = p] \in MigRows /\ RunnerOK([IdleRunner EXCEPT !.pc = p], U, K, n)
BY DEF IdleRunner, MigRows, RunnerOK, Passed

LEMMA StoppedRunnerOK == ASSUME NEW U, NEW K, NEW n PROVE IdleRunner \in MigRows /\ RunnerOK(IdleRunner, U, K, n)
BY DEF IdleRunner, MigRows, RunnerOK, Passed

\* Done with one label, a runner is past all of its nodes.
LEMMA LabelDoneOK ==
  ASSUME NEW m \in MigRows, m.pc \in {"up", "batch"}, NEW U, NEW K, NEW n,
         RunnerOK(m, U, K, n), NEW V, NEW L, U \subseteq V, K \subseteq L,
         {x \in OldNodes : LabelOf[x] = m.label} \subseteq (IF m.mig = 1 THEN V ELSE L)
  PROVE  LabelDone(m) \in MigRows /\ RunnerOK(LabelDone(m), V, L, n)
<1>1. \A x \in OldNodes : LabelOf[x] \in 1..4 BY MigrationAssumption DEF MigLabels
<1>2. m.label \in 1..4 /\ m.mig \in {1, 2} BY DEF MigRows
<1>3. Passed(m) \cup {x \in OldNodes : LabelOf[x] = m.label} \subseteq (IF m.mig = 1 THEN V ELSE L)
  BY DEF RunnerOK
<1>4. CASE m.label = 4
  <2> DEFINE s == [m EXCEPT !.pc = "record"]
  <2>1. s \in MigRows /\ s.mig = m.mig /\ s.pc = "record" BY DEF MigRows
  <2>2. LabelDone(m) = s BY <1>4 DEF LabelDone
  <2> HIDE DEF s
  <2>3. Passed(s) \subseteq Passed(m) \cup {x \in OldNodes : LabelOf[x] = m.label}
    BY <1>1, <1>4 DEF Passed
  <2> QED BY <1>3, <2>1, <2>2, <2>3 DEF RunnerOK
<1>5. CASE m.label # 4
  <2> DEFINE l == m.label + 1
             s == [m EXCEPT !.label = l, !.pc = "up"]
  <2>0. l \in {1, 2, 3, 4} BY <1>2, <1>5
  <2>2. LabelDone(m) = s BY <1>5 DEF LabelDone
  <2>3. l = m.label + 1 OBVIOUS
  <2> HIDE DEF l
  <2>4. s \in MigRows /\ s.mig = m.mig /\ s.pc = "up" /\ s.label = l BY <2>0 DEF MigRows
  <2>1. s \in MigRows /\ s.mig = m.mig /\ s.pc = "up" /\ s.label = m.label + 1 BY <2>3, <2>4
  <2> HIDE DEF s
  <2>5. Passed(s) \subseteq Passed(m) \cup {x \in OldNodes : LabelOf[x] = m.label}
    BY <1>1, <1>2, <2>1 DEF Passed
  <2> QED BY <1>3, <2>1, <2>2, <2>5 DEF RunnerOK
<1> QED BY <1>4, <1>5

\* The runners keep what they have done, as nothing is taken back.
LEMMA RunnersKeep ==
  ASSUME MigInv, NEW r \in MigRunners, NEW m \in MigRows, runner' = [runner EXCEPT ![r] = m],
         RunnerOK(m, hasUser', hasKey', record'[1]), hasUser \subseteq hasUser', hasKey \subseteq hasKey',
         record[1] > 0 => record'[1] > 0
  PROVE  /\ runner' \in [MigRunners -> MigRows]
         /\ \A s \in MigRunners : RunnerOK(runner'[s], hasUser', hasKey', record'[1])
<1>1. ASSUME NEW s \in MigRunners, s # r PROVE RunnerOK(runner[s], hasUser', hasKey', record'[1])
  <2>1. RunnerOK(runner[s], hasUser, hasKey, record[1]) BY DEF MigInv
  <2> QED BY <2>1 DEF RunnerOK, Passed
<1> QED BY <1>1 DEF MigInv

\* Where a runner goes when nothing it migrates has changed.
LEMMA RunnerGoes ==
  ASSUME MigInv, NEW r \in MigRunners, NEW m \in MigRows, runner' = [runner EXCEPT ![r] = m],
         RunnerOK(m, hasUser, hasKey, record[1]), UNCHANGED <<hasUser, hasKey, record>>
  PROVE  MigInv'
<1>1. /\ runner' \in [MigRunners -> MigRows]
      /\ \A s \in MigRunners : RunnerOK(runner'[s], hasUser', hasKey', record'[1])
  BY RunnersKeep
<1> QED BY <1>1 DEF MigInv, RecordedIsComplete

\* And when more nodes have been reached.
LEMMA RunnerReaches ==
  ASSUME MigInv, NEW r \in MigRunners, NEW m \in MigRows, runner' = [runner EXCEPT ![r] = m],
         RunnerOK(m, hasUser', hasKey', record[1]), hasUser \subseteq hasUser', hasKey \subseteq hasKey',
         hasUser' \subseteq OldNodes, hasKey' \subseteq OldNodes, UNCHANGED record
  PROVE  MigInv'
<1>1. /\ runner' \in [MigRunners -> MigRows]
      /\ \A s \in MigRunners : RunnerOK(runner'[s], hasUser', hasKey', record'[1])
  BY RunnersKeep
<1>2. RecordedIsComplete' BY DEF MigInv, RecordedIsComplete
<1> QED BY <1>1, <1>2 DEF MigInv

LEMMA CheckKeeps == ASSUME MigInv, NEW r \in MigRunners, CheckApplied(r) PROVE MigInv'
<1> DEFINE me == runner[r]
<1>1. me \in MigRows /\ RunnerOK(me, hasUser, hasKey, record[1]) /\ me.pc = "check"
  BY DEF MigInv, CheckApplied
<1>2. UNCHANGED <<hasUser, hasKey, record>> BY DEF CheckApplied
<1>3. \A x \in OldNodes : LabelOf[x] \in 1..4 BY MigrationAssumption DEF MigLabels
<1>4. CASE record[me.mig] > 0
  <2> DEFINE s == [me EXCEPT !.mig = 2]
  <2>1. CASE me.mig = 2
    <3>1. runner' = [runner EXCEPT ![r] = IdleRunner] BY <1>4, <2>1 DEF CheckApplied
    <3> QED BY <1>2, <3>1, StoppedRunnerOK, RunnerGoes
  <2>2. CASE me.mig # 2
    <3>1. runner' = [runner EXCEPT ![r] = s] BY <1>4, <2>2 DEF CheckApplied
    <3>2. record[1] > 0 BY <1>1, <1>4, <2>2 DEF MigRows
    <3> HIDE DEF me
    <3>3. s \in MigRows /\ s.mig = 2 /\ s.pc = "check" BY <1>1 DEF MigRows
    <3> HIDE DEF s
    <3>4. RunnerOK(s, hasUser, hasKey, record[1]) BY <3>2, <3>3 DEF RunnerOK, Passed
    <3> QED BY <1>2, <3>1, <3>3, <3>4, RunnerGoes DEF me
  <2> QED BY <2>1, <2>2
<1>5. CASE ~(record[me.mig] > 0)
  <2> DEFINE s == [me EXCEPT !.pc = "up", !.label = 1]
  <2>1. runner' = [runner EXCEPT ![r] = s] BY <1>5 DEF CheckApplied
  <2> HIDE DEF me
  <2>2. s \in MigRows /\ s.mig = me.mig /\ s.pc = "up" /\ s.label = 1 BY <1>1 DEF MigRows
  <2> HIDE DEF s
  <2>3. RunnerOK(s, hasUser, hasKey, record[1]) BY <1>1, <1>3, <2>2 DEF RunnerOK, Passed
  <2> QED BY <1>2, <2>1, <2>2, <2>3, RunnerGoes DEF me
<1> QED BY <1>4, <1>5

LEMMA BackfillKeeps == ASSUME MigInv, NEW r \in MigRunners, BackfillUserId(r) PROVE MigInv'
<1> DEFINE me == runner[r]
           U == {n \in OldNodes : LabelOf[n] = me.label}
<1>1. me \in MigRows /\ RunnerOK(me, hasUser, hasKey, record[1]) /\ me.pc = "up" /\ me.mig = 1
  BY DEF MigInv, BackfillUserId
<1>2. hasUser' = hasUser \cup U /\ UNCHANGED <<hasKey, record>> /\ runner' = [runner EXCEPT ![r] = LabelDone(me)]
  BY DEF BackfillUserId, MigInv
<1>3. hasUser' \subseteq OldNodes /\ hasKey' \subseteq OldNodes BY <1>2 DEF MigInv
<1>4. LabelDone(me) \in MigRows /\ RunnerOK(LabelDone(me), hasUser', hasKey', record[1])
  <2>1. U \subseteq hasUser' /\ hasUser \subseteq hasUser' /\ hasKey \subseteq hasKey' BY <1>2
  <2> HIDE DEF me
  <2> QED BY <1>1, <2>1, LabelDoneOK
<1> QED BY <1>2, <1>3, <1>4, RunnerReaches

LEMMA ReadUnkeyedKeeps == ASSUME MigInv, NEW r \in MigRunners, ReadUnkeyed(r) PROVE MigInv'
<1> DEFINE me == runner[r]
           B == {n \in OldNodes \ hasKey : LabelOf[n] = me.label}
           s == [me EXCEPT !.pc = "batch", !.batch = B]
<1>1. me \in MigRows /\ RunnerOK(me, hasUser, hasKey, record[1]) /\ me.pc = "up" /\ me.mig = 2
  BY DEF MigInv, ReadUnkeyed
<1>2. UNCHANGED <<hasUser, hasKey, record>> /\ runner' = [runner EXCEPT ![r] = s]
  BY DEF ReadUnkeyed, MigInv
<1>3. B \subseteq OldNodes /\ {n \in OldNodes : LabelOf[n] = me.label} \subseteq hasKey \cup B OBVIOUS
<1> HIDE DEF me, B
<1>4. s \in MigRows /\ s.mig = 2 /\ s.pc = "batch" /\ s.label = me.label /\ s.batch = B BY <1>1, <1>3 DEF MigRows
<1> HIDE DEF s
<1>5. RunnerOK(s, hasUser, hasKey, record[1]) BY <1>1, <1>3, <1>4 DEF RunnerOK, Passed
<1> QED BY <1>2, <1>4, <1>5, RunnerGoes

LEMMA WriteBatchKeeps == ASSUME MigInv, NEW r \in MigRunners, WriteBatch(r) PROVE MigInv'
<1> DEFINE me == runner[r]
<1>1. me \in MigRows /\ RunnerOK(me, hasUser, hasKey, record[1]) /\ me.pc = "batch" /\ me.mig = 2
  BY DEF MigInv, WriteBatch, RunnerOK
<1>2. UNCHANGED <<hasUser, record>> BY DEF WriteBatch
<1>3. ASSUME NEW n \in me.batch \ twin, hasKey' = hasKey \cup {n},
             runner' = [runner EXCEPT ![r].batch = @ \ {n}]
      PROVE  MigInv'
  <2> DEFINE B == me.batch \ {n}
             s == [me EXCEPT !.batch = B]
  <2>1. runner' = [runner EXCEPT ![r] = s] BY <1>3 DEF MigInv
  <2>2. n \in OldNodes /\ B \subseteq OldNodes /\ me.batch \subseteq B \cup {n} BY <1>1 DEF MigRows
  <2> HIDE DEF me, B
  <2>3. s \in MigRows /\ s.mig = me.mig /\ s.pc = me.pc /\ s.label = me.label /\ s.batch = B
    BY <1>1, <2>2 DEF MigRows
  <2> HIDE DEF s
  <2>4. RunnerOK(s, hasUser', hasKey', record[1]) BY <1>1, <1>2, <1>3, <2>2, <2>3 DEF RunnerOK, Passed
  <2>5. hasKey \subseteq hasKey' /\ hasKey' \subseteq OldNodes /\ hasUser' \subseteq OldNodes /\ hasUser \subseteq hasUser'
    BY <1>2, <1>3, <2>2 DEF MigInv
  <2> QED BY <1>2, <2>1, <2>3, <2>4, <2>5, RunnerReaches
<1>4. CASE runner' = [runner EXCEPT ![r] = IdleRunner] /\ UNCHANGED hasKey
  BY <1>2, <1>4, StoppedRunnerOK, RunnerGoes
<1>5. CASE me.batch = {} /\ runner' = [runner EXCEPT ![r] = LabelDone(@)] /\ UNCHANGED hasKey
  <2>1. runner' = [runner EXCEPT ![r] = LabelDone(me)] BY <1>5 DEF MigInv
  <2>2. {n \in OldNodes : LabelOf[n] = me.label} \subseteq hasKey BY <1>1, <1>5 DEF RunnerOK
  <2>3. LabelDone(me) \in MigRows /\ RunnerOK(LabelDone(me), hasUser, hasKey, record[1])
    <3> HIDE DEF me
    <3> QED BY <1>1, <2>2, LabelDoneOK
  <2> QED BY <1>2, <1>5, <2>1, <2>3, RunnerGoes
<1> QED BY <1>3, <1>4, <1>5 DEF WriteBatch

LEMMA RecordKeeps == ASSUME MigInv, NEW r \in MigRunners, RecordMigration(r) PROVE MigInv'
<1> DEFINE me == runner[r]
           s == [me EXCEPT !.mig = 2, !.pc = "check"]
           m == IF me.mig = 2 THEN IdleRunner ELSE s
<1>1. me \in MigRows /\ RunnerOK(me, hasUser, hasKey, record[1]) /\ me.pc = "record"
  BY DEF MigInv, RecordMigration
<1>2. /\ UNCHANGED <<hasUser, hasKey>> /\ record' = [record EXCEPT ![me.mig] = @ + 1]
      /\ runner' = [runner EXCEPT ![r] = m]
  BY DEF RecordMigration, MigInv
<1>3. me.mig \in {1, 2} BY <1>1 DEF MigRows
<1>4. /\ record' \in [{1, 2} -> Nat] /\ (record[1] > 0 => record'[1] > 0)
      /\ (me.mig = 1 => record'[1] > 0 /\ record'[2] = record[2])
      /\ (me.mig = 2 => record'[1] = record[1])
  BY <1>2, <1>3 DEF MigInv
<1>5. Passed(me) = OldNodes BY <1>1 DEF Passed
<1>6. OldNodes \subseteq (IF me.mig = 1 THEN hasUser ELSE hasKey) /\ (me.mig = 2 => record[1] > 0)
  BY <1>1, <1>5 DEF RunnerOK
<1>7. RecordedIsComplete' BY <1>2, <1>3, <1>4, <1>6 DEF MigInv, RecordedIsComplete
<1>8. m \in MigRows /\ RunnerOK(m, hasUser', hasKey', record'[1])
  <2>1. CASE me.mig = 2 BY <2>1, StoppedRunnerOK
  <2>2. CASE me.mig = 1
    <3>1. m = s BY <2>2
    <3> HIDE DEF me
    <3>2. s \in MigRows /\ s.pc = "check" /\ s.mig = 2 BY <1>1 DEF MigRows
    <3> HIDE DEF s
    <3>3. RunnerOK(s, hasUser', hasKey', record'[1]) BY <1>4, <2>2, <3>2 DEF RunnerOK, Passed
    <3> QED BY <3>1, <3>2, <3>3
  <2> QED BY <1>3, <2>1, <2>2
<1> HIDE DEF m
<1>9. /\ runner' \in [MigRunners -> MigRows]
      /\ \A x \in MigRunners : RunnerOK(runner'[x], hasUser', hasKey', record'[1])
  BY <1>2, <1>4, <1>8, RunnersKeep
<1> QED BY <1>2, <1>4, <1>7, <1>9 DEF MigInv

LEMMA MigStarted == MigInit => MigInv
BY StoppedRunnerOK DEF MigInit, MigInv, MigIds, RecordedIsComplete

LEMMA MigSteps == MigInv /\ [MigNext]_migVars => MigInv'
<1> SUFFICES ASSUME MigInv, [MigNext]_migVars PROVE MigInv' OBVIOUS
<1>1. ASSUME NEW n \in OldNodes, UpsertBesideOld(n) PROVE MigInv'
  BY <1>1 DEF UpsertBesideOld, MigInv, RecordedIsComplete
<1>2. ASSUME NEW r \in MigRunners, RunPending(r) PROVE MigInv'
  BY <1>2, IdleRunnerOK, RunnerGoes DEF RunPending
<1>3. ASSUME NEW r \in MigRunners, CheckApplied(r) \/ BackfillUserId(r) \/ ReadUnkeyed(r) PROVE MigInv'
  BY <1>3, CheckKeeps, BackfillKeeps, ReadUnkeyedKeeps
<1>4. ASSUME NEW r \in MigRunners, WriteBatch(r) \/ RecordMigration(r) PROVE MigInv'
  BY <1>4, WriteBatchKeeps, RecordKeeps
<1>5. ASSUME NEW r \in MigRunners, RunnerStops(r) PROVE MigInv'
  BY <1>5, StoppedRunnerOK, RunnerGoes DEF RunnerStops
<1>6. CASE UNCHANGED migVars BY <1>6 DEF migVars, MigInv, RecordedIsComplete
<1> QED BY <1>1, <1>2, <1>3, <1>4, <1>5, <1>6 DEF MigNext

-----------------------------------------------------------------------------
(* The graph: what a document is found by. *)

Todos == Links \cup UNION {ChunkEntities(t) : t \in Texts \cup {<<>>}}

WriterRows ==
  [pc : {"idle", "wipe", "entities", "old", "delete", "put", "sum", "write"}, doc : GDocs \cup {NoDoc},
   text : Texts \cup {<<>>}, kind : {"co", "rel"}, old : SUBSET Links, todo : SUBSET Todos, attempt : Nat,
   at : Links \cup {NoDoc}, unread : SUBSET GDocs, seen : [GDocs -> Nat]]

\* What the document of an upsert has been given, c, while only that upsert writes it.
Written(r, c) ==
  /\ r.pc = "entities" => c \cup r.todo = ChunkEntities(r.text)
  /\ r.pc \in {"old", "delete", "put", "sum", "write"} => c = ChunkEntities(r.text)

DocOK(d) ==
  /\ \A v, w \in GWriters : writer[v].doc = d /\ writer[w].doc = d => v = w
  /\ \A w \in GWriters : writer[w].doc = d => writer[w].text = lastText[d] /\ Written(writer[w], contains[d])
  /\ (\A w \in GWriters : writer[w].doc # d) /\ lastText[d] # <<>> => contains[d] = ChunkEntities(lastText[d])

GraphInv ==
  /\ writer \in [GWriters -> WriterRows] /\ \A w \in GWriters : writer[w].pc = "idle" <=> writer[w].doc = NoDoc
  /\ contains \in [GDocs -> SUBSET Todos] /\ lastText \in [GDocs -> Texts \cup {<<>>}]
  /\ marred \subseteq GDocs
  /\ \A d \in GDocs \ marred : DocOK(d)

Shares == [GDocs -> [Links -> Nat]]

\* Rows with fields changed.
NextTodo(k, p, T) == [k EXCEPT !.pc = p, !.todo = T]
NextOld(k, p, S) == [k EXCEPT !.pc = p, !.old = S]
NextKind(k, p, x) == [k EXCEPT !.pc = p, !.kind = x]
Upsert(d, t, n) == [IdleWriter EXCEPT !.pc = "wipe", !.doc = d, !.text = t, !.attempt = n]
FirstUpsert(d, t) == [IdleWriter EXCEPT !.pc = "wipe", !.doc = d, !.text = t]

WriterPcs == {"idle", "wipe", "entities", "old", "delete", "put", "sum", "write"}

LEMMA WriterRow ==
  ASSUME NEW k \in WriterRows, NEW p \in WriterPcs, NEW T \in SUBSET Todos
  PROVE  /\ NextTodo(k, p, T) \in WriterRows /\ NextTodo(k, p, T).pc = p /\ NextTodo(k, p, T).todo = T
         /\ NextTodo(k, p, T).doc = k.doc /\ NextTodo(k, p, T).text = k.text
         /\ NextTodo(k, p, T).kind = k.kind /\ NextTodo(k, p, T).old = k.old
         /\ NextTodo(k, p, T).unread = k.unread
BY DEF WriterRows, WriterPcs, NextTodo

LEMMA OldRow ==
  ASSUME NEW k \in WriterRows, NEW p \in WriterPcs, NEW S \in SUBSET Links
  PROVE  /\ NextOld(k, p, S) \in WriterRows /\ NextOld(k, p, S).pc = p
         /\ NextOld(k, p, S).doc = k.doc /\ NextOld(k, p, S).text = k.text
         /\ NextOld(k, p, S).kind = k.kind /\ NextOld(k, p, S).old = S
         /\ NextOld(k, p, S).unread = k.unread
BY DEF WriterRows, WriterPcs, NextOld

LEMMA KindRow ==
  ASSUME NEW k \in WriterRows, NEW p \in WriterPcs, NEW x \in {"co", "rel"}
  PROVE  /\ NextKind(k, p, x) \in WriterRows /\ NextKind(k, p, x).pc = p
         /\ NextKind(k, p, x).doc = k.doc /\ NextKind(k, p, x).text = k.text
         /\ NextKind(k, p, x).unread = k.unread
<1> HIDE DEF Links, Todos
<1>1. NextKind(k, p, x) = [[k EXCEPT !.pc = p] EXCEPT !.kind = x] BY DEF NextKind, WriterRows
<1>2. [k EXCEPT !.pc = p] \in WriterRows BY DEF WriterRows, WriterPcs
<1> QED BY <1>1, <1>2 DEF WriterRows

LEMMA CountedRow ==
  ASSUME NEW k \in WriterRows, NEW l \in Links, NEW d \in GDocs, NEW n \in Nat
  PROVE  /\ Counted(k, l, d, n) \in WriterRows /\ Counted(k, l, d, n).pc = "write"
         /\ Counted(k, l, d, n).doc = k.doc /\ Counted(k, l, d, n).text = k.text
         /\ Counted(k, l, d, n).at = l /\ Counted(k, l, d, n).todo = k.todo \ {l}
         /\ Counted(k, l, d, n).unread = k.unread \ {d}
         /\ Counted(k, l, d, n).seen[d] = n
         /\ \A c \in GDocs \ {d} : Counted(k, l, d, n).seen[c] = k.seen[c]
<1> HIDE DEF Links, Todos
<1> QED BY DEF WriterRows, Counted

LEMMA SummedRow ==
  ASSUME NEW k \in WriterRows
  PROVE  /\ Summed(k) \in WriterRows /\ Summed(k).pc = "sum" /\ Summed(k).doc = k.doc
         /\ Summed(k).text = k.text /\ Summed(k).todo = k.todo /\ Summed(k).at = NoDoc
         /\ Summed(k).unread = GDocs
<1> HIDE DEF Links, Todos
<1> QED BY DEF WriterRows, Summed, NoShares

LEMMA UpsertRow ==
  ASSUME NEW d \in GDocs, NEW t \in Texts \cup {<<>>}, NEW n \in Nat
  PROVE  /\ Upsert(d, t, n) \in WriterRows /\ Upsert(d, t, n).pc = "wipe" /\ Upsert(d, t, n).doc = d
         /\ Upsert(d, t, n).text = t
         /\ FirstUpsert(d, t) \in WriterRows /\ FirstUpsert(d, t).pc = "wipe" /\ FirstUpsert(d, t).doc = d
         /\ FirstUpsert(d, t).text = t
         /\ Upsert(d, t, n).unread = GDocs /\ FirstUpsert(d, t).unread = GDocs
BY DEF WriterRows, Upsert, FirstUpsert, IdleWriter, NoShares

LEMMA IdleWriterRow == IdleWriter \in WriterRows /\ IdleWriter.pc = "idle" /\ IdleWriter.doc = NoDoc
                       /\ IdleWriter.unread = GDocs
BY DEF WriterRows, IdleWriter, NoShares

LEMMA BusyWriter ==
  ASSUME GraphInv, NEW w \in GWriters, writer[w].pc # "idle"
  PROVE  /\ writer[w] \in WriterRows /\ writer[w].doc \in GDocs /\ writer[w].doc # NoDoc
         /\ writer[w].todo \subseteq Todos /\ writer[w].text \in Texts \cup {<<>>}
         /\ writer[w].old \subseteq Links /\ writer[w].attempt \in Nat
BY GraphAssumption DEF GraphInv, WriterRows

LEMMA TodoKinds ==
  ASSUME NEW t \in Texts \cup {<<>>}, NEW k
  PROVE  ChunkEntities(t) \subseteq Todos /\ Current(t, k) \subseteq Todos /\ Current(t, k) \subseteq Links
<1> HIDE DEF Links, ChunkEntities
<1> QED BY DEF Todos, Current

\* The documents that the step of an upsert is not about.
LEMMA OthersKeep ==
  ASSUME GraphInv, NEW w \in GWriters, NEW r, writer' = [writer EXCEPT ![w] = r],
         NEW d \in GDocs \ marred, writer[w].doc # d, r.doc # d,
         contains'[d] = contains[d], lastText'[d] = lastText[d]
  PROVE  DocOK(d)'
<1>1. writer'[w] = r /\ \A v \in GWriters \ {w} : writer'[v] = writer[v] BY DEF GraphInv
<1>2. DocOK(d) BY DEF GraphInv
<1> QED BY <1>1, <1>2 DEF DocOK

\* A step within an upsert.
LEMMA UpsertMoves ==
  ASSUME GraphInv, NEW w \in GWriters, writer[w].pc # "idle", NEW r \in WriterRows,
         writer' = [writer EXCEPT ![w] = r], r.pc # "idle",
         r.doc = writer[w].doc, r.text = writer[w].text,
         contains' \in [GDocs -> SUBSET Todos], UNCHANGED lastText,
         \A d \in GDocs \ {r.doc} : contains'[d] = contains[d],
         marred \subseteq marred', marred' \subseteq GDocs,
         Written(writer[w], contains[r.doc]) => Written(r, contains'[r.doc])
  PROVE  GraphInv'
<1> DEFINE d0 == writer[w].doc
<1>1. d0 \in GDocs /\ d0 # NoDoc BY BusyWriter
<1>2. writer' \in [GWriters -> WriterRows] /\ writer'[w] = r /\ \A v \in GWriters \ {w} : writer'[v] = writer[v]
  BY DEF GraphInv
<1>3. \A v \in GWriters : writer'[v].pc = "idle" <=> writer'[v].doc = NoDoc BY <1>1, <1>2 DEF GraphInv
<1>4. ASSUME NEW d \in GDocs \ marred' PROVE DocOK(d)'
  <2>1. CASE d # d0 BY <2>1, OthersKeep
  <2>2. CASE d = d0
    <3>1. DocOK(d) BY DEF GraphInv
    <3>2. \A v \in GWriters : writer'[v].doc = writer[v].doc BY <1>2
    <3>3. \A v \in GWriters : writer[v].doc = d => v = w BY <2>2, <3>1 DEF DocOK
    <3>4. writer'[w].text = lastText'[d] /\ Written(writer'[w], contains'[d])
      BY <1>2, <2>2, <3>1 DEF DocOK
    <3> QED BY <2>2, <3>1, <3>2, <3>3, <3>4 DEF DocOK
  <2> QED BY <2>1, <2>2
<1>5. lastText' \in [GDocs -> Texts \cup {<<>>}] BY DEF GraphInv
<1> QED BY <1>2, <1>3, <1>4, <1>5 DEF GraphInv

\* The end of an upsert: its document has been written, or has no text.
LEMMA UpsertEnds ==
  ASSUME GraphInv, NEW w \in GWriters, writer[w].pc # "idle",
         writer' = [writer EXCEPT ![w] = IdleWriter], UNCHANGED contains,
         marred \subseteq marred', marred' \subseteq GDocs,
         \/ writer[w].pc = "sum" /\ UNCHANGED lastText
         \/ lastText' = [lastText EXCEPT ![writer[w].doc] = <<>>]
  PROVE  GraphInv'
<1> DEFINE d0 == writer[w].doc
<1>1. d0 \in GDocs /\ d0 # NoDoc BY BusyWriter
<1>2. writer' \in [GWriters -> WriterRows] /\ writer'[w] = IdleWriter
      /\ \A v \in GWriters \ {w} : writer'[v] = writer[v]
  BY IdleWriterRow DEF GraphInv
<1>3. \A v \in GWriters : writer'[v].pc = "idle" <=> writer'[v].doc = NoDoc
  BY <1>2, IdleWriterRow DEF GraphInv
<1>4. lastText' \in [GDocs -> Texts \cup {<<>>}] /\ \A d \in GDocs \ {d0} : lastText'[d] = lastText[d]
  BY DEF GraphInv
<1>5. ASSUME NEW d \in GDocs \ marred' PROVE DocOK(d)'
  <2>1. d # NoDoc BY GraphAssumption
  <2>2. CASE d # d0
    <3>1. d \in GDocs \ marred /\ contains'[d] = contains[d] /\ lastText'[d] = lastText[d] BY <1>4, <2>2
    <3> QED BY <2>1, <2>2, <3>1, IdleWriterRow, OthersKeep
  <2>3. CASE d = d0
    <3>1. DocOK(d) BY DEF GraphInv
    <3>2. \A v \in GWriters : writer[v].doc = d => v = w BY <2>3, <3>1 DEF DocOK
    <3>3. \A v \in GWriters : writer'[v].doc # d BY <1>2, <2>1, <3>2, IdleWriterRow
    <3>4. writer[w].pc = "sum" => contains[d] = ChunkEntities(lastText[d])
      BY <2>3, <3>1 DEF DocOK, Written
    <3>5. lastText'[d] # <<>> => contains'[d] = ChunkEntities(lastText'[d])
      BY <1>1, <2>3, <3>4 DEF GraphInv
    <3> QED BY <3>3, <3>5 DEF DocOK
  <2> QED BY <2>2, <2>3
<1>6. contains' \in [GDocs -> SUBSET Todos] BY DEF GraphInv
<1> QED BY <1>2, <1>3, <1>4, <1>5, <1>6 DEF GraphInv

LEMMA UpsertStarts == ASSUME GraphInv, NEW w \in GWriters, UpsertDocument(w) PROVE GraphInv'
<1>1. PICK d \in GDocs, t \in Texts :
        /\ writer' = [writer EXCEPT ![w] = [IdleWriter EXCEPT !.pc = "wipe", !.doc = d, !.text = t]]
        /\ marred' = IF Busy(d) = {} THEN marred ELSE marred \cup {d}
        /\ lastText' = [lastText EXCEPT ![d] = t]
  BY Zenon DEF UpsertDocument
<1> DEFINE r == FirstUpsert(d, t)
<1>2. writer' = [writer EXCEPT ![w] = r] BY <1>1 DEF FirstUpsert
<1>3. r \in WriterRows /\ r.pc = "wipe" /\ r.doc = d /\ r.text = t BY UpsertRow
<1> HIDE DEF r
<1>4. UNCHANGED contains /\ writer[w].doc = NoDoc BY DEF UpsertDocument, GraphInv
<1>5. NoDoc \notin GDocs /\ d # NoDoc BY GraphAssumption
<1>6. writer' \in [GWriters -> WriterRows] /\ writer'[w] = r /\ \A v \in GWriters \ {w} : writer'[v] = writer[v]
  BY <1>2, <1>3 DEF GraphInv
<1>7. \A v \in GWriters : writer'[v].pc = "idle" <=> writer'[v].doc = NoDoc BY <1>3, <1>5, <1>6 DEF GraphInv
<1>8. lastText' \in [GDocs -> Texts \cup {<<>>}] /\ lastText'[d] = t
      /\ \A c \in GDocs \ {d} : lastText'[c] = lastText[c]
  BY <1>1 DEF GraphInv
<1>9. marred \subseteq marred' /\ marred' \subseteq GDocs BY <1>1 DEF GraphInv
<1>10. ASSUME NEW c \in GDocs \ marred' PROVE DocOK(c)'
  <2>1. CASE c # d
    <3>1. c \in GDocs \ marred /\ contains'[c] = contains[c] /\ lastText'[c] = lastText[c] /\ c # NoDoc
      BY <1>4, <1>5, <1>8, <1>9, <2>1
    <3> QED BY <1>2, <1>3, <1>4, <2>1, <3>1, OthersKeep
  <2>2. CASE c = d
    <3>1. Busy(d) = {} BY <1>1, <2>2
    <3>2. \A v \in GWriters : writer'[v].doc = d => v = w BY <1>6, <3>1 DEF Busy
    <3> QED BY <1>3, <1>6, <1>8, <2>2, <3>2 DEF DocOK, Written
  <2> QED BY <2>1, <2>2
<1> QED BY <1>4, <1>6, <1>7, <1>8, <1>9, <1>10 DEF GraphInv

\* A step within an upsert that changes no CONTAINS edge.
LEMMA UpsertGoes ==
  ASSUME GraphInv, NEW w \in GWriters, writer[w].pc # "idle", NEW r \in WriterRows,
         writer' = [writer EXCEPT ![w] = r], r.pc # "idle",
         r.doc = writer[w].doc, r.text = writer[w].text, UNCHANGED <<contains, lastText>>,
         marred \subseteq marred', marred' \subseteq GDocs,
         Written(writer[w], contains[r.doc]) => Written(r, contains[r.doc])
  PROVE  GraphInv'
<1>1. contains' \in [GDocs -> SUBSET Todos] /\ \A d \in GDocs \ {r.doc} : contains'[d] = contains[d]
  BY DEF GraphInv
<1> QED BY <1>1, UpsertMoves

LEMMA WipeKeeps == ASSUME GraphInv, NEW w \in GWriters, WipeContains(w) PROVE GraphInv'
<1> DEFINE me == writer[w]
           T == ChunkEntities(me.text)
           r == NextTodo(me, "entities", T)
<1>1. me.pc = "wipe" /\ me \in WriterRows /\ me.doc \in GDocs /\ me.text \in Texts \cup {<<>>}
  BY BusyWriter DEF WipeContains
<1>2. writer' = [writer EXCEPT ![w] = r] /\ contains' = [contains EXCEPT ![me.doc] = {}] /\ UNCHANGED <<lastText, marred>>
  BY DEF WipeContains, NextTodo, GraphInv
<1>3. r \in WriterRows /\ r.pc = "entities" /\ r.todo = T /\ r.doc = me.doc /\ r.text = me.text
  <2>1. T \in SUBSET Todos /\ "entities" \in WriterPcs BY <1>1, TodoKinds DEF WriterPcs
  <2> HIDE DEF me, T
  <2> QED BY <1>1, <2>1, WriterRow
<1>4. contains' \in [GDocs -> SUBSET Todos] /\ contains'[me.doc] = {}
      /\ \A d \in GDocs \ {me.doc} : contains'[d] = contains[d]
  BY <1>1, <1>2 DEF GraphInv
<1>5. Written(r, {}) BY <1>3 DEF Written
<1> HIDE DEF r
<1>6. marred \subseteq marred' /\ marred' \subseteq GDocs BY <1>2 DEF GraphInv
<1> QED BY <1>1, <1>2, <1>3, <1>4, <1>5, <1>6, UpsertMoves

LEMMA MergeKeeps == ASSUME GraphInv, NEW w \in GWriters, MergeEntity(w) PROVE GraphInv'
<1> DEFINE me == writer[w]
<1>1. me.pc = "entities" /\ me \in WriterRows /\ me.doc \in GDocs /\ me.todo \subseteq Todos
  BY BusyWriter DEF MergeEntity
<1>2. UNCHANGED <<lastText, marred>> /\ marred \subseteq marred' /\ marred' \subseteq GDocs
  BY DEF MergeEntity, GraphInv
<1>3. ASSUME NEW e \in me.todo, contains' = [contains EXCEPT ![me.doc] = @ \cup {e}],
             writer' = [writer EXCEPT ![w].todo = @ \ {e}]
      PROVE  GraphInv'
  <2> DEFINE T == me.todo \ {e}
             r == NextTodo(me, "entities", T)
  <2>1. T \in SUBSET Todos /\ "entities" \in WriterPcs /\ e \in Todos BY <1>1 DEF WriterPcs
  <2>2. r \in WriterRows /\ r.pc = "entities" /\ r.todo = T /\ r.doc = me.doc /\ r.text = me.text
    <3> HIDE DEF me, T
    <3> QED BY <1>1, <2>1, WriterRow
  <2>3. writer' = [writer EXCEPT ![w] = r]
    <3>1. r = [me EXCEPT !.todo = T]
      <4> HIDE DEF me, T
      <4> QED BY <1>1 DEF WriterRows, NextTodo
    <3> HIDE DEF r
    <3> QED BY <1>3, <3>1 DEF GraphInv
  <2>4. contains' \in [GDocs -> SUBSET Todos] /\ contains'[me.doc] = contains[me.doc] \cup {e}
        /\ \A d \in GDocs \ {me.doc} : contains'[d] = contains[d]
    BY <1>1, <1>3, <2>1 DEF GraphInv
  <2>5. contains[me.doc] \cup {e} \cup T = contains[me.doc] \cup me.todo OBVIOUS
  <2> HIDE DEF r
  <2>6. Written(me, contains[me.doc]) => Written(r, contains'[me.doc]) BY <1>1, <2>2, <2>4, <2>5 DEF Written
  <2> QED BY <1>1, <1>2, <2>2, <2>3, <2>4, <2>6, UpsertMoves
<1>4. CASE me.todo = {} /\ To(w, "old") /\ UNCHANGED contains
  <2> DEFINE r == NextTodo(me, "old", me.todo)
  <2>1. "old" \in WriterPcs BY DEF WriterPcs
  <2>2. r \in WriterRows /\ r.pc = "old" /\ r.doc = me.doc /\ r.text = me.text
    <3> HIDE DEF me
    <3> QED BY <1>1, <2>1, WriterRow
  <2>3. writer' = [writer EXCEPT ![w] = r]
    <3>1. r = [me EXCEPT !.pc = "old"]
      <4> HIDE DEF me
      <4> QED BY <1>1 DEF WriterRows, NextTodo
    <3> HIDE DEF r
    <3> QED BY <1>4, <3>1 DEF To
  <2> HIDE DEF r
  <2>4. Written(me, contains[me.doc]) => Written(r, contains[me.doc]) BY <1>1, <1>4, <2>2 DEF Written
  <2> QED BY <1>1, <1>2, <1>4, <2>2, <2>3, <2>4, UpsertGoes
<1> QED BY <1>3, <1>4 DEF MergeEntity

\* The steps that go on to the next shares or edges of the document.
LEMMA TodoKeeps ==
  ASSUME GraphInv, NEW w \in GWriters, writer[w].pc \in {"old", "delete", "put", "sum", "write"},
         NEW p \in {"old", "delete", "put", "sum", "write"}, NEW r \in WriterRows, r.pc = p,
         r.doc = writer[w].doc, r.text = writer[w].text,
         writer' = [writer EXCEPT ![w] = r], UNCHANGED <<contains, lastText, marred>>
  PROVE  GraphInv'
<1>1. writer[w].pc # "idle" /\ r.pc # "idle" OBVIOUS
<1>2. Written(writer[w], contains[r.doc]) => Written(r, contains[r.doc]) BY DEF Written
<1>3. marred \subseteq marred' /\ marred' \subseteq GDocs BY DEF GraphInv
<1> QED BY <1>1, <1>2, <1>3, UpsertGoes

LEMMA ReadPairsKeeps == ASSUME GraphInv, NEW w \in GWriters, ReadOldPairs(w) PROVE GraphInv'
<1> DEFINE me == writer[w]
           S == {l \in Links : l[1] = me.kind /\ share[me.doc][l] > 0}
           r == NextOld(me, "delete", S)
<1>1. me.pc = "old" /\ me \in WriterRows BY BusyWriter DEF ReadOldPairs
<1>2. UNCHANGED <<contains, lastText, marred>> /\ writer' = [writer EXCEPT ![w] = r]
  BY DEF ReadOldPairs, NextOld, GraphInv
<1>3. S \subseteq Links /\ "delete" \in WriterPcs BY DEF WriterPcs
<1>4. r \in WriterRows /\ r.pc = "delete" /\ r.doc = me.doc /\ r.text = me.text
  <2> HIDE DEF me, S
  <2> QED BY <1>1, <1>3, OldRow
<1> HIDE DEF r
<1> QED BY <1>1, <1>2, <1>4, TodoKeeps

LEMMA DeleteSharesKeeps == ASSUME GraphInv, NEW w \in GWriters, DeleteShares(w) PROVE GraphInv'
<1> DEFINE me == writer[w]
           T == Current(me.text, me.kind)
           r == NextTodo(me, "put", T)
<1>1. me.pc = "delete" /\ me \in WriterRows /\ me.text \in Texts \cup {<<>>} BY BusyWriter DEF DeleteShares
<1>2. UNCHANGED <<contains, lastText, marred>> /\ writer' = [writer EXCEPT ![w] = r]
  BY DEF DeleteShares, NextTodo, GraphInv
<1>3. T \in SUBSET Todos /\ "put" \in WriterPcs BY <1>1, TodoKinds DEF WriterPcs
<1>4. r \in WriterRows /\ r.pc = "put" /\ r.doc = me.doc /\ r.text = me.text
  <2> HIDE DEF me, T
  <2> QED BY <1>1, <1>3, WriterRow
<1> HIDE DEF r
<1> QED BY <1>1, <1>2, <1>4, TodoKeeps

\* One of the shares or edges of a stage is done with.
LEMMA OneDone ==
  ASSUME GraphInv, NEW w \in GWriters, writer[w].pc \in {"put", "sum"}, NEW l,
         writer' = [writer EXCEPT ![w].todo = @ \ {l}], UNCHANGED <<contains, lastText, marred>>
  PROVE  GraphInv'
<1> DEFINE me == writer[w]
           T == me.todo \ {l}
           r == NextTodo(me, me.pc, T)
<1>1. me.pc \in {"put", "sum"} /\ me \in WriterRows /\ me.todo \subseteq Todos BY BusyWriter
<1>2. T \in SUBSET Todos /\ me.pc \in WriterPcs BY <1>1 DEF WriterPcs
<1>3. r \in WriterRows /\ r.pc = me.pc /\ r.doc = me.doc /\ r.text = me.text
  <2> HIDE DEF me, T
  <2> QED BY <1>1, <1>2, WriterRow
<1>4. writer' = [writer EXCEPT ![w] = r]
  <2>1. r = [me EXCEPT !.todo = T]
    <3> HIDE DEF me, T
    <3> QED BY <1>1 DEF WriterRows, NextTodo
  <2> HIDE DEF r
  <2> QED BY <2>1 DEF GraphInv
<1> HIDE DEF r
<1> QED BY <1>1, <1>3, <1>4, TodoKeeps

LEMMA PutShareKeeps == ASSUME GraphInv, NEW w \in GWriters, PutShare(w) PROVE GraphInv'
<1> DEFINE me == writer[w]
           T == Recomputed(me)
           r == NextTodo(me, "sum", T)
<1>1. me.pc = "put" /\ me \in WriterRows /\ me.text \in Texts \cup {<<>>} /\ me.old \subseteq Links
  BY BusyWriter DEF PutShare
<1>2. UNCHANGED <<contains, lastText, marred>> BY DEF PutShare
<1>3. ASSUME NEW l \in me.todo, writer' = [writer EXCEPT ![w].todo = @ \ {l}] PROVE GraphInv'
  BY <1>1, <1>2, <1>3, OneDone
<1>4. CASE writer' = [writer EXCEPT ![w].pc = "sum", ![w].todo = T]
  <2>1. writer' = [writer EXCEPT ![w] = r] BY <1>4 DEF NextTodo, GraphInv
  <2>2. T \in SUBSET Todos /\ "sum" \in WriterPcs
    <3>1. Current(me.text, me.kind) \subseteq Todos BY <1>1, TodoKinds
    <3>2. me.old \subseteq Todos BY <1>1 DEF Todos
    <3> QED BY <3>1, <3>2 DEF Recomputed, WriterPcs
  <2>3. r \in WriterRows /\ r.pc = "sum" /\ r.doc = me.doc /\ r.text = me.text
    <3> HIDE DEF me, T
    <3> QED BY <1>1, <2>2, WriterRow
  <2> HIDE DEF r
  <2> QED BY <1>1, <1>2, <2>1, <2>3, TodoKeeps
<1> QED BY <1>3, <1>4 DEF PutShare

LEMMA ReadShareKeeps == ASSUME GraphInv, share \in Shares, NEW w \in GWriters, ReadShare(w) PROVE GraphInv'
<1> DEFINE me == writer[w]
<1>1. me.pc \in {"sum", "write"} /\ me \in WriterRows /\ me.unread \subseteq GDocs
  <2>1. me.pc \in {"sum", "write"} BY DEF ReadShare
  <2> QED BY <2>1, BusyWriter DEF WriterRows
<1>2. UNCHANGED <<contains, lastText, marred>> BY DEF ReadShare
<1>3. PICK l \in Links, d \in me.unread : writer' = [writer EXCEPT ![w] = Counted(me, l, d, share[d][l])]
  BY DEF ReadShare
<1> DEFINE n == share[d][l]
           r == Counted(me, l, d, n)
<1>4. d \in GDocs /\ n \in Nat
  <2> HIDE DEF Links
  <2> QED BY <1>1 DEF Shares
<1>5. r \in WriterRows /\ r.pc = "write" /\ r.doc = me.doc /\ r.text = me.text
  <2> HIDE DEF me, n
  <2> QED BY <1>1, <1>4, CountedRow
<1>6. writer' = [writer EXCEPT ![w] = r] BY <1>3
<1> HIDE DEF r
<1> QED BY <1>1, <1>2, <1>5, <1>6, TodoKeeps

LEMMA WriteEdgeKeeps == ASSUME GraphInv, NEW w \in GWriters, WriteEdge(w) PROVE GraphInv'
<1> DEFINE me == writer[w]
           r == Summed(me)
<1>1. me.pc = "write" /\ me \in WriterRows BY BusyWriter DEF WriteEdge
<1>2. UNCHANGED <<contains, lastText, marred>> /\ writer' = [writer EXCEPT ![w] = r] BY DEF WriteEdge
<1>3. r \in WriterRows /\ r.pc = "sum" /\ r.doc = me.doc /\ r.text = me.text
  <2> HIDE DEF me
  <2> QED BY <1>1, SummedRow
<1> HIDE DEF r
<1> QED BY <1>1, <1>2, <1>3, TodoKeeps

LEMMA SumsDoneKeeps == ASSUME GraphInv, NEW w \in GWriters, SumsDone(w) PROVE GraphInv'
<1> DEFINE me == writer[w]
           r == NextKind(me, "old", "rel")
<1>1. me.pc = "sum" /\ me \in WriterRows BY BusyWriter DEF SumsDone
<1>2. UNCHANGED <<contains, lastText, marred>> BY DEF SumsDone
<1>3. CASE writer' = [writer EXCEPT ![w] = r]
  <2>1. "old" \in WriterPcs BY DEF WriterPcs
  <2>2. r \in WriterRows /\ r.pc = "old" /\ r.doc = me.doc /\ r.text = me.text
    <3> HIDE DEF me
    <3> QED BY <1>1, <2>1, KindRow
  <2> HIDE DEF r
  <2> QED BY <1>1, <1>2, <1>3, <2>2, TodoKeeps
<1>4. CASE writer' = [writer EXCEPT ![w] = IdleWriter]
  <2>1. marred \subseteq marred' /\ marred' \subseteq GDocs BY <1>2 DEF GraphInv
  <2> QED BY <1>1, <1>2, <1>4, <2>1, UpsertEnds
<1> QED BY <1>3, <1>4 DEF SumsDone, NextKind

LEMMA StatementFailsKeeps == ASSUME GraphInv, NEW w \in GWriters, StatementFails(w) PROVE GraphInv'
<1> DEFINE me == writer[w]
           n == me.attempt + 1
           r == Upsert(me.doc, me.text, n)
<1>1. /\ me.pc # "idle" /\ me \in WriterRows /\ me.doc \in GDocs /\ me.text \in Texts \cup {<<>>} /\ n \in Nat
  BY BusyWriter DEF StatementFails
<1>2. UNCHANGED contains /\ marred \subseteq marred' /\ marred' \subseteq GDocs
  BY <1>1 DEF StatementFails, GraphInv
<1>3. CASE UNCHANGED lastText /\ writer' = [writer EXCEPT ![w] = r]
  <2>1. r \in WriterRows /\ r.pc = "wipe" /\ r.doc = me.doc /\ r.text = me.text
    <3> DEFINE d == me.doc
               t == me.text
    <3>1. d \in GDocs /\ t \in Texts \cup {<<>>} /\ n \in Nat BY <1>1
    <3>2. r = Upsert(d, t, n) /\ d = me.doc /\ t = me.text OBVIOUS
    <3> HIDE DEF r, n, d, t
    <3> QED BY <3>1, <3>2, UpsertRow
  <2> HIDE DEF r
  <2>2. Written(r, contains[r.doc]) BY <2>1 DEF Written
  <2> QED BY <1>1, <1>2, <1>3, <2>1, <2>2, UpsertGoes
<1>4. CASE writer' = [writer EXCEPT ![w] = IdleWriter] /\ lastText' = [lastText EXCEPT ![me.doc] = <<>>]
  BY <1>1, <1>2, <1>4, UpsertEnds
<1> QED BY <1>3, <1>4 DEF StatementFails, Upsert

LEMMA GraphStarted == GraphInit => GraphInv
BY IdleWriterRow, GraphAssumption DEF GraphInit, GraphInv, DocOK

LEMMA GraphSteps == GraphInv /\ share \in Shares /\ [GraphNext]_graphVars => GraphInv'
<1> SUFFICES ASSUME GraphInv, share \in Shares, [GraphNext]_graphVars PROVE GraphInv' OBVIOUS
<1>1. ASSUME NEW w \in GWriters, UpsertDocument(w) PROVE GraphInv' BY <1>1, UpsertStarts
<1>2. ASSUME NEW w \in GWriters, WipeContains(w) \/ MergeEntity(w) PROVE GraphInv'
  BY <1>2, WipeKeeps, MergeKeeps
<1>3. ASSUME NEW w \in GWriters, ReadOldPairs(w) \/ DeleteShares(w) PROVE GraphInv'
  BY <1>3, ReadPairsKeeps, DeleteSharesKeeps
<1>4. ASSUME NEW w \in GWriters, PutShare(w) \/ ReadShare(w) \/ WriteEdge(w) PROVE GraphInv'
  BY <1>4, PutShareKeeps, ReadShareKeeps, WriteEdgeKeeps
<1>7. ASSUME NEW w \in GWriters, SumsDone(w) \/ StatementFails(w) PROVE GraphInv'
  BY <1>7, SumsDoneKeeps, StatementFailsKeeps
<1>5. ASSUME NEW w \in GWriters, ExtractionRaises(w) PROVE GraphInv'
  BY <1>5 DEF ExtractionRaises, GraphInv, DocOK
<1>6. CASE UNCHANGED graphVars BY <1>6 DEF graphVars, GraphInv, DocOK
<1> QED BY <1>1, <1>2, <1>3, <1>4, <1>5, <1>6, <1>7 DEF GraphNext

LEMMA GraphInvFinds == GraphInv => FoundByItsText
<1> SUFFICES ASSUME GraphInv, AtRest, NEW d \in GDocs \ marred, lastText[d] # <<>>
             PROVE  /\ DocumentEntities(d) = ChunkEntities(lastText[d])
                    /\ \A e \in Ents : d \in FindDocumentsByEntities({e}) <=> e \in ChunkEntities(lastText[d])
  BY DEF FoundByItsText
<1>1. \A w \in GWriters : writer[w].doc # d BY GraphAssumption DEF GraphInv, AtRest
<1>2. contains[d] = ChunkEntities(lastText[d]) BY <1>1 DEF GraphInv, DocOK
<1>3. \A e : d \in FindDocumentsByEntities({e}) <=> e \in contains[d] BY DEF FindDocumentsByEntities
<1> QED BY <1>2, <1>3 DEF DocumentEntities

-----------------------------------------------------------------------------
(* Sums. *)

\* Numbers of some kind have a least one.
LEMMA LeastOne ==
  ASSUME NEW T \in SUBSET Nat, T # {}
  PROVE  \E i \in T : \A j \in T : i <= j
<1> DEFINE R == {ss \in Nat \X Nat : ss[1] < ss[2]}
<1>1. \E i \in T : \A j \in T : ~(<<j, i>> \in R)
  <2>1. IsWellFoundedOn(R, Nat) BY NatLessThanWellFounded, Zenon DEF OpToRel
  <2> HIDE DEF R
  <2> QED BY <2>1, WFMin
<1> PICK i \in T : \A j \in T : ~(<<j, i>> \in R) BY <1>1
<1>2. \A j \in Nat : (<<j, i>> \in R) <=> j < i OBVIOUS
<1> HIDE DEF R
<1>3. ASSUME NEW j \in T PROVE i <= j
  <2>1. j \in Nat /\ i \in Nat /\ ~(j < i) BY <1>2
  <2> QED BY <2>1
<1> QED BY <1>3

\* The recursion of SumFunction, for one set of indices and for all up to a size.
SumStep(f, s, g) == IF s = {} THEN 0 ELSE f[CHOOSE x \in s : TRUE] + g[s \ {CHOOSE x \in s : TRUE}]
UpTo(S, n) == {s \in SUBSET S : Cardinality(s) <= n}
SumsUpTo(S, f, n) == \E g : g = [s \in UpTo(S, n) |-> SumStep(f, s, g)]

LEMMA LessByOne ==
  ASSUME NEW S, IsFiniteSet(S), NEW s \in SUBSET S, s # {}
  PROVE  LET x == CHOOSE x \in s : TRUE
         IN  /\ x \in s /\ s \ {x} \in SUBSET S /\ Cardinality(s) \in Nat /\ Cardinality(s \ {x}) \in Nat
             /\ Cardinality(s) = Cardinality(s \ {x}) + 1
<1> DEFINE x == CHOOSE x \in s : TRUE
<1>1. x \in s OBVIOUS
<1> HIDE DEF x
<1>2. IsFiniteSet(s) /\ IsFiniteSet(s \ {x}) BY FS_Subset
<1>3. Cardinality(s \ {x}) = Cardinality(s) - 1 BY <1>1, <1>2, FS_RemoveElement
<1>4. Cardinality(s) \in Nat /\ Cardinality(s \ {x}) \in Nat BY <1>2, FS_CardinalityType
<1> QED BY <1>1, <1>3, <1>4 DEF x

LEMMA SumsNext ==
  ASSUME NEW S, IsFiniteSet(S), NEW f, NEW n \in Nat, SumsUpTo(S, f, n)
  PROVE  SumsUpTo(S, f, n + 1)
<1>1. PICK g : g = [s \in UpTo(S, n) |-> SumStep(f, s, g)] BY DEF SumsUpTo
<1> DEFINE h == [s \in UpTo(S, n + 1) |-> SumStep(f, s, g)]
<1>2. ASSUME NEW s \in UpTo(S, n + 1) PROVE SumStep(f, s, g) = SumStep(f, s, h)
  <2>1. CASE s = {} BY <2>1 DEF SumStep
  <2>2. CASE s # {}
    <3> DEFINE x == CHOOSE x \in s : TRUE
               t == s \ {x}
    <3>1. s \in SUBSET S /\ Cardinality(s) <= n + 1 BY DEF UpTo
    <3>2. t \in SUBSET S /\ Cardinality(t) \in Nat /\ Cardinality(s) = Cardinality(t) + 1
      BY <2>2, <3>1, LessByOne
    <3>3. Cardinality(t) <= n /\ Cardinality(t) <= n + 1 BY <3>1, <3>2
    <3>4. t \in UpTo(S, n) /\ t \in UpTo(S, n + 1) BY <3>2, <3>3 DEF UpTo
    <3> HIDE DEF t
    <3>5. g[t] = SumStep(f, t, g) BY <1>1, <3>4
    <3>6. h[t] = SumStep(f, t, g) BY <3>4
    <3> HIDE DEF h
    <3>7. SumStep(f, s, g) = f[x] + g[t] /\ SumStep(f, s, h) = f[x] + h[t] BY <2>2 DEF SumStep, t
    <3> QED BY <3>5, <3>6, <3>7
  <2> QED BY <2>1, <2>2
<1>3. h = [s \in UpTo(S, n + 1) |-> SumStep(f, s, h)]
  <2> HIDE DEF h
  <2>1. h = [s \in UpTo(S, n + 1) |-> SumStep(f, s, g)] BY DEF h
  <2> QED BY <1>2, <2>1
<1> QED BY <1>3 DEF SumsUpTo

LEMMA SumsAll == ASSUME NEW S, IsFiniteSet(S), NEW f, NEW n \in Nat PROVE SumsUpTo(S, f, n)
<1> DEFINE T == {m \in Nat : ~SumsUpTo(S, f, m)}
<1>1. SUFFICES T = {} OBVIOUS
<1>2. SUFFICES ASSUME T # {} PROVE FALSE OBVIOUS
<1>3. PICK m \in T : \A j \in T : m <= j
  <2> T \in SUBSET Nat OBVIOUS
  <2> HIDE DEF T
  <2> QED BY <1>2, LeastOne
<1>4. CASE m = 0
  <2> DEFINE g == [s \in UpTo(S, 0) |-> 0]
  <2>1. ASSUME NEW s \in UpTo(S, 0) PROVE s = {}
    <3>1. s \subseteq S /\ Cardinality(s) <= 0 BY DEF UpTo
    <3>2. IsFiniteSet(s) BY <3>1, FS_Subset
    <3>3. Cardinality(s) = 0 BY <3>1, <3>2, FS_CardinalityType
    <3> QED BY <3>2, <3>3, FS_EmptySet
  <2>2. \A s \in UpTo(S, 0) : SumStep(f, s, g) = 0 BY <2>1 DEF SumStep
  <2>3. g = [s \in UpTo(S, 0) |-> SumStep(f, s, g)]
    <3>1. g = [s \in UpTo(S, 0) |-> 0] OBVIOUS
    <3> HIDE DEF g
    <3> QED BY <2>2, <3>1
  <2> QED BY <1>4, <2>3 DEF SumsUpTo
<1>5. CASE m # 0
  <2>1. m - 1 \in Nat /\ m - 1 \notin T /\ (m - 1) + 1 = m BY <1>3, <1>5
  <2>2. SumsUpTo(S, f, m - 1) BY <2>1
  <2>3. SumsUpTo(S, f, (m - 1) + 1) BY <2>1, <2>2, SumsNext
  <2> QED BY <1>3, <2>1, <2>3
<1> QED BY <1>4, <1>5

\* A sum is that of one index and of the others.
LEMMA SumUnfolds ==
  ASSUME NEW S, IsFiniteSet(S), NEW f
  PROVE  \E g : /\ SumFunctionOnSet(f, S) = g[S]
                /\ \A s \in SUBSET S : g[s] = SumStep(f, s, g)
<1> DEFINE c == CHOOSE g : g = [s \in SUBSET S |-> SumStep(f, s, g)]
<1>1. SumFunctionOnSet(f, S) = c[S]
  BY DEF SumFunctionOnSet, FoldFunctionOnSet, MapThenFoldSet, SumStep
<1>2. UpTo(S, Cardinality(S)) = SUBSET S /\ Cardinality(S) \in Nat
  <2>1. \A s \in SUBSET S : Cardinality(s) <= Cardinality(S) BY FS_Subset
  <2> QED BY <2>1, FS_CardinalityType DEF UpTo
<1>3. \E g : g = [s \in SUBSET S |-> SumStep(f, s, g)]
  <2>1. SumsUpTo(S, f, Cardinality(S)) BY <1>2, SumsAll
  <2>2. PICK g : g = [s \in UpTo(S, Cardinality(S)) |-> SumStep(f, s, g)] BY <2>1 DEF SumsUpTo
  <2> QED BY <1>2, <2>2
<1>4. c = [s \in SUBSET S |-> SumStep(f, s, c)] BY <1>3, Zenon
<1> HIDE DEF c
<1>5. \A s \in SUBSET S : c[s] = SumStep(f, s, c) BY <1>4
<1> QED BY <1>1, <1>5

LEMMA SumOfNumbers ==
  ASSUME NEW S, IsFiniteSet(S), NEW f, \A x \in S : f[x] \in Nat
  PROVE  /\ SumFunctionOnSet(f, S) \in Nat
         /\ SumFunctionOnSet(f, S) > 0 <=> \E x \in S : f[x] > 0
<1>1. PICK g : /\ SumFunctionOnSet(f, S) = g[S]
               /\ \A s \in SUBSET S : g[s] = SumStep(f, s, g)
  BY SumUnfolds
<1> DEFINE OK(s) == g[s] \in Nat /\ (g[s] > 0 <=> \E x \in s : f[x] > 0)
           T == {n \in Nat : \E s \in SUBSET S : Cardinality(s) = n /\ ~OK(s)}
<1>2. T = {}
  <2> SUFFICES ASSUME T # {} PROVE FALSE OBVIOUS
  <2>1. PICK m \in T : \A j \in T : m <= j
    <3> HIDE DEF T
    <3> T \in SUBSET Nat BY DEF T
    <3> QED BY LeastOne
  <2>2. PICK s \in SUBSET S : Cardinality(s) = m /\ ~OK(s) BY <2>1
  <2>3. CASE s = {}
    <3>1. g[s] = 0 BY <1>1, <2>3 DEF SumStep
    <3> QED BY <2>2, <2>3, <3>1
  <2>4. CASE s # {}
    <3> DEFINE x == CHOOSE x \in s : TRUE
               t == s \ {x}
    <3>1. x \in s /\ t \in SUBSET S /\ Cardinality(t) \in Nat /\ Cardinality(s) = Cardinality(t) + 1
      BY <2>4, LessByOne
    <3>2. g[s] = f[x] + g[t] BY <1>1, <2>4 DEF SumStep
    <3> HIDE DEF x, t
    <3>3. Cardinality(t) \notin T
      <4>1. m \in Nat /\ m = Cardinality(t) + 1 BY <2>1, <2>2, <3>1
      <4> HIDE DEF T
      <4> QED BY <2>1, <3>1, <4>1
    <3>4. OK(t) BY <3>1, <3>3
    <3>5. f[x] \in Nat /\ s = t \cup {x} BY <3>1 DEF t
    <3>6. g[s] \in Nat /\ (g[s] > 0 <=> f[x] > 0 \/ g[t] > 0) BY <3>2, <3>4, <3>5
    <3> QED BY <2>2, <3>4, <3>5, <3>6
  <2> QED BY <2>3, <2>4
<1>3. OK(S)
  <2>1. Cardinality(S) \in Nat BY FS_CardinalityType
  <2> QED BY <1>2, <2>1
<1> QED BY <1>1, <1>3

-----------------------------------------------------------------------------
(* The graph: the weights. *)

LEMMA TriplesFinite ==
  ASSUME NEW A, NEW B, NEW C, IsFiniteSet(A), IsFiniteSet(B), IsFiniteSet(C)
  PROVE  IsFiniteSet(A \X B \X C)
<1> DEFINE h == [m \in A \X B \X C |-> <<m[1], <<m[2], m[3]>>>>]
<1>1. IsFiniteSet(A \X (B \X C)) BY FS_Product
<1>2. h \in Injection(A \X B \X C, A \X (B \X C)) BY DEF Injection, IsInjective
<1> QED BY <1>1, <1>2, FS_Injection

\* What a text contributes to an edge is a number, and it is about entities of that text.
LEMMA WeightsOfText ==
  ASSUME NEW t \in Texts \cup {<<>>}, NEW l \in Links
  PROVE  /\ Weight(t, l) \in Nat
         /\ Weight(t, l) > 0 => {l[2], l[3]} \subseteq ChunkEntities(t)
<1>1. t \in Seq([names : SUBSET Names, rels : SUBSET (Names \X Names)])
  <2> DEFINE C == [names : SUBSET Names, rels : SUBSET (Names \X Names)]
  <2>1. Texts \subseteq Seq(C) BY GraphAssumption
  <2> HIDE DEF C
  <2>2. <<>> \in Seq(C) BY EmptySeq
  <2> QED BY <2>1, <2>2 DEF C
<1>2. DOMAIN t = 1..Len(t) /\ Len(t) \in Nat BY <1>1
<1>3. IsFiniteSet(DOMAIN t) BY <1>2, FS_Interval
<1>4. IsFiniteSet((DOMAIN t) \X Names \X Names) BY <1>3, TriplesFinite, GraphAssumption
<1>5. IsFiniteSet(Mentions(t, l)) BY <1>4, FS_Subset DEF Mentions
<1>6. Weight(t, l) \in Nat BY <1>5, FS_CardinalityType DEF Weight
<1>7. ASSUME Weight(t, l) > 0 PROVE {l[2], l[3]} \subseteq ChunkEntities(t)
  <2>1. Mentions(t, l) # {}
    <3>1. Cardinality({}) = 0 BY FS_EmptySet
    <3> QED BY <1>7, <3>1 DEF Weight
  <2>2. PICK m \in (DOMAIN t) \X Names \X Names :
          /\ Canon[m[2]] = l[2] /\ Canon[m[3]] = l[3]
          /\ IF l[1] = "co" THEN {m[2], m[3]} \subseteq t[m[1]].names ELSE <<m[2], m[3]>> \in KnownRelations(t, m[1])
    BY <2>1 DEF Mentions
  <2> DEFINE names == UNION {t[i].names : i \in DOMAIN t}
  <2>3. m[1] \in DOMAIN t BY <2>2
  <2>4. {m[2], m[3]} \subseteq names
    <3>1. CASE l[1] = "co" BY <2>2, <2>3, <3>1
    <3>2. CASE l[1] # "co"
      <4>1. {m[2], m[3]} \subseteq KnownEntities(t, m[1]) BY <2>2, <3>2 DEF KnownRelations
      <4>2. KnownEntities(t, m[1]) \subseteq names BY <2>3 DEF KnownEntities
      <4> QED BY <4>1, <4>2
    <3> QED BY <3>1, <3>2
  <2>5. {Canon[m[2]], Canon[m[3]]} \subseteq {Canon[n] : n \in names} BY <2>4
  <2> QED BY <2>2, <2>5 DEF ChunkEntities
<1> QED BY <1>6, <1>7

LEMMA CurrentEnds ==
  ASSUME NEW t \in Texts \cup {<<>>}, NEW k, NEW l \in Current(t, k)
  PROVE  l \in Links /\ l[1] = k /\ {l[2], l[3]} \subseteq ChunkEntities(t) /\ Weight(t, l) \in Nat
<1>1. l \in Links /\ l[1] = k /\ Weight(t, l) > 0 BY DEF Current
<1> QED BY <1>1, WeightsOfText

\* The sum of the shares of a link.
Sums(l, shares) == SumFunction([d \in GDocs |-> shares[d][l]])

LEMMA SumsOfShares ==
  ASSUME NEW shares \in Shares, NEW l \in Links
  PROVE  Sums(l, shares) \in Nat /\ (Sums(l, shares) > 0 <=> \E d \in GDocs : shares[d][l] > 0)
<1> DEFINE f == [d \in GDocs |-> shares[d][l]]
<1>1. \A d \in GDocs : f[d] \in Nat /\ f[d] = shares[d][l]
  <2> HIDE DEF Links
  <2> QED BY DEF Shares
<1>2. DOMAIN f = GDocs OBVIOUS
<1> HIDE DEF f
<1>3. SumFunction(f) = SumFunctionOnSet(f, GDocs) BY <1>2 DEF SumFunction
<1>4. SumFunctionOnSet(f, GDocs) \in Nat /\ (SumFunctionOnSet(f, GDocs) > 0 <=> \E d \in GDocs : f[d] > 0)
  BY <1>1, SumOfNumbers, GraphAssumption
<1>5. Sums(l, shares) = SumFunctionOnSet(f, GDocs) BY <1>3 DEF Sums, f
<1> QED BY <1>1, <1>4, <1>5

LEMMA SameSums ==
  ASSUME NEW s, NEW t, NEW l, \A d \in GDocs : s[d][l] = t[d][l]
  PROVE  Sums(l, s) = Sums(l, t)
<1>1. [d \in GDocs |-> s[d][l]] = [d \in GDocs |-> t[d][l]] OBVIOUS
<1> QED BY <1>1, Zenon DEF Sums

\* An upsert has yet to recompute an edge.
Pending(r, l) == (r.pc = "put" /\ l \in Recomputed(r)) \/ (r.pc \in {"sum", "write"} /\ l \in r.todo)

\* An upsert is inside the statement that recomputes an edge, and what it has read is still so.
Counting(r, l) == r.pc = "write" /\ r.at = l
Fresh(r, l, shares) == Counting(r, l) /\ \A d \in GDocs \ r.unread : r.seen[d] = shares[d][l]

\* The entities of an upsert are there before its edges.
HasMerged(r, E) ==
  /\ r.pc = "entities" => ChunkEntities(r.text) \subseteq E \cup r.todo
  /\ r.pc \in {"old", "delete", "put", "sum", "write"} => ChunkEntities(r.text) \subseteq E

PutOK(r) == r.pc = "put" => r.todo \subseteq Current(r.text, r.kind)

\* A statement reads every share of its edge, and its edge is no longer to do.
SumOK(r) == IF r.pc = "write" THEN r.at \in Links \ r.todo ELSE r.unread = GDocs

\* What is about to be deleted is known to the upsert that deletes it.
KnowsOld(r, shares) ==
  r.pc = "delete" => \A l \in Links : l[1] = r.kind /\ shares[r.doc][l] > 0 => l \in r.old

\* Edges and shares lie between entities that are there.
Between(E) ==
  \A l \in Links : edge[l] > 0 \/ (\E d \in GDocs : share[d][l] > 0) => {l[2], l[3]} \subseteq E

\* An edge that does not add up is outdated, or somebody is to recompute it; and while only
\* statements that were not outpaced are about to write it, one of them has read what there is.
LinkOK(l) ==
  /\ \/ l \in outdated \/ edge[l] = Sums(l, share)
     \/ \E v \in GWriters : Pending(writer[v], l) \/ Counting(writer[v], l)
  /\ (\E u \in GWriters \ outpaced : Counting(writer[u], l)) =>
        \E v \in GWriters : Pending(writer[v], l) \/ (v \notin outpaced /\ Fresh(writer[v], l, share))

SharesInv ==
  /\ share \in Shares /\ edge \in [Links -> Nat] /\ Between(entities)
  /\ \A w \in GWriters : HasMerged(writer[w], entities) /\ PutOK(writer[w]) /\ SumOK(writer[w])
  /\ \A w \in GWriters : writer[w].doc \notin marred => KnowsOld(writer[w], share)
  /\ outpaced \subseteq {w \in GWriters : writer[w].pc = "write"}
  /\ marred = {} => \A l \in Links : LinkOK(l)

\* A step of one upsert, but for the edges it leaves.
LEMMA ShareFrame ==
  ASSUME GraphInv, SharesInv, NEW w \in GWriters, NEW r, writer' = [writer EXCEPT ![w] = r],
         share' \in Shares, edge' \in [Links -> Nat],
         \A l \in Links : edge'[l] > 0 \/ (\E d \in GDocs : share'[d][l] > 0) => {l[2], l[3]} \subseteq entities',
         entities \subseteq entities', marred \subseteq marred',
         HasMerged(r, entities'), PutOK(r), SumOK(r), r.doc \notin marred' => KnowsOld(r, share'),
         \A d \in GDocs : d # writer[w].doc => share'[d] = share[d],
         outpaced' \subseteq {v \in GWriters : writer'[v].pc = "write"},
         marred' = {} => \A l \in Links : LinkOK(l)'
  PROVE  SharesInv'
<1>1. writer'[w] = r /\ \A v \in GWriters \ {w} : writer'[v] = writer[v] BY DEF GraphInv
<1>2. Between(entities)' BY DEF Between
<1>3. ASSUME NEW v \in GWriters PROVE HasMerged(writer'[v], entities') /\ PutOK(writer'[v]) /\ SumOK(writer'[v])
  <2>1. CASE v = w BY <1>1, <2>1
  <2>2. CASE v # w
    <3>1. HasMerged(writer[v], entities) /\ PutOK(writer[v]) /\ SumOK(writer[v]) BY DEF SharesInv
    <3>2. HasMerged(writer[v], entities') BY <3>1 DEF HasMerged
    <3> QED BY <1>1, <2>2, <3>1, <3>2
  <2> QED BY <2>1, <2>2
<1>4. ASSUME NEW v \in GWriters, writer'[v].doc \notin marred' PROVE KnowsOld(writer'[v], share')
  <2>1. CASE v = w BY <1>1, <1>4, <2>1
  <2>2. CASE v # w
    <3>1. writer'[v] = writer[v] /\ writer[v].doc \notin marred BY <1>1, <1>4, <2>2
    <3>2. KnowsOld(writer[v], share) BY <3>1 DEF SharesInv
    <3>3. CASE writer[v].pc = "delete"
      <4>1. writer[v].doc \in GDocs BY <3>3, BusyWriter
      <4>2. writer[v].doc # writer[w].doc BY <2>2, <3>1, <4>1 DEF GraphInv, DocOK
      <4>3. share'[writer[v].doc] = share[writer[v].doc] BY <4>1, <4>2
      <4> QED BY <3>1, <3>2, <4>3 DEF KnowsOld
    <3>4. CASE writer[v].pc # "delete" BY <3>1, <3>4 DEF KnowsOld
    <3> QED BY <3>3, <3>4
  <2> QED BY <2>1, <2>2
<1>5. (\A v \in GWriters : HasMerged(writer[v], entities) /\ PutOK(writer[v]) /\ SumOK(writer[v]))'
  BY <1>3 DEF HasMerged, PutOK, SumOK
<1>6. (\A v \in GWriters : writer[v].doc \notin marred => KnowsOld(writer[v], share))' BY <1>4 DEF KnowsOld
<1> HIDE DEF Links, LinkOK
<1> QED BY <1>2, <1>5, <1>6 DEF SharesInv

\* What LinkOK says of the next state, spelled out.
LEMMA LinkNext ==
  ASSUME NEW l \in Links,
         \/ l \in outdated' \/ edge'[l] = Sums(l, share')
         \/ \E v \in GWriters : Pending(writer'[v], l) \/ Counting(writer'[v], l),
         (\E u \in GWriters \ outpaced' : Counting(writer'[u], l)) =>
            \E v \in GWriters : Pending(writer'[v], l) \/ (v \notin outpaced' /\ Fresh(writer'[v], l, share'))
  PROVE  LinkOK(l)'
BY DEF LinkOK, Sums, Pending, Recomputed, Counting, Fresh

\* An edge the step is not about: nothing of it changes, and the upsert does not turn to it.
LEMMA LinkStays ==
  ASSUME GraphInv, NEW w \in GWriters, NEW r, writer' = [writer EXCEPT ![w] = r], NEW l \in Links, LinkOK(l),
         edge'[l] = edge[l], \A d \in GDocs : share'[d][l] = share[d][l],
         Pending(writer[w], l) => Pending(r, l), ~Counting(writer[w], l), ~Counting(r, l),
         l \in outdated <=> l \in outdated',
         \A v \in GWriters : Counting(writer[v], l) => (v \in outpaced <=> v \in outpaced')
  PROVE  LinkOK(l)'
<1>1. writer'[w] = r /\ \A v \in GWriters \ {w} : writer'[v] = writer[v] BY DEF GraphInv
<1>2. Sums(l, share') = Sums(l, share) BY SameSums
<1>3. \A v \in GWriters : /\ Pending(writer[v], l) => Pending(writer'[v], l)
                          /\ Counting(writer[v], l) <=> Counting(writer'[v], l)
  BY <1>1
<1>4. ASSUME NEW v \in GWriters, v \notin outpaced, Fresh(writer[v], l, share)
      PROVE  v \notin outpaced' /\ Fresh(writer'[v], l, share')
  <2>1. Counting(writer[v], l) BY <1>4 DEF Fresh
  <2>2. v # w /\ writer'[v] = writer[v] BY <1>1, <2>1
  <2> QED BY <1>4, <2>1, <2>2 DEF Fresh
<1>5. \/ l \in outdated' \/ edge'[l] = Sums(l, share')
      \/ \E v \in GWriters : Pending(writer'[v], l) \/ Counting(writer'[v], l)
  BY <1>2, <1>3 DEF LinkOK
<1>6. ASSUME NEW u \in GWriters \ outpaced', Counting(writer'[u], l)
      PROVE  \E v \in GWriters : Pending(writer'[v], l) \/ (v \notin outpaced' /\ Fresh(writer'[v], l, share'))
  <2>1. u \in GWriters \ outpaced /\ Counting(writer[u], l) BY <1>3, <1>6
  <2>2. PICK v \in GWriters : Pending(writer[v], l) \/ (v \notin outpaced /\ Fresh(writer[v], l, share))
    BY <2>1 DEF LinkOK
  <2> QED BY <1>3, <1>4, <2>2
<1> QED BY <1>5, <1>6, LinkNext

\* An edge that the upsert is yet to recompute.
LEMMA LinkPending ==
  ASSUME GraphInv, NEW w \in GWriters, NEW r, writer' = [writer EXCEPT ![w] = r], NEW l \in Links, Pending(r, l)
  PROVE  LinkOK(l)'
<1>1. writer'[w] = r BY DEF GraphInv
<1> QED BY <1>1, LinkNext

\* A step outside the statements that recompute edges, with what it leaves to be recomputed.
LEMMA ShareStep ==
  ASSUME GraphInv, SharesInv, NEW w \in GWriters, NEW r, writer' = [writer EXCEPT ![w] = r],
         share' \in Shares, UNCHANGED <<edge, outdated>>,
         \A l \in Links : edge[l] > 0 \/ (\E d \in GDocs : share'[d][l] > 0) => {l[2], l[3]} \subseteq entities',
         entities \subseteq entities', marred \subseteq marred',
         HasMerged(r, entities'), PutOK(r), r.doc \notin marred' => KnowsOld(r, share'),
         \A d \in GDocs : d # writer[w].doc => share'[d] = share[d],
         r.pc # "write", r.unread = GDocs, writer[w].pc # "write" \/ marred' # {}, outpaced' = outpaced \ {w},
         marred' = {} => \A l \in Links :
           Pending(r, l) \/ ((\A d \in GDocs : share'[d][l] = share[d][l]) /\ ~Pending(writer[w], l))
  PROVE  SharesInv'
<1>1. writer'[w] = r /\ \A v \in GWriters \ {w} : writer'[v] = writer[v] BY DEF GraphInv
<1>2. outpaced' \subseteq {v \in GWriters : writer'[v].pc = "write"} BY <1>1 DEF SharesInv
<1>3. ASSUME marred' = {}, NEW l \in Links PROVE LinkOK(l)'
  <2>1. CASE Pending(r, l) BY <2>1, LinkPending
  <2>2. CASE (\A d \in GDocs : share'[d][l] = share[d][l]) /\ ~Pending(writer[w], l)
    <3>1. LinkOK(l) BY <1>3 DEF SharesInv
    <3>2. ~Counting(r, l) /\ ~Counting(writer[w], l) BY <1>3 DEF Counting
    <3>3. \A v \in GWriters : Counting(writer[v], l) => (v \in outpaced <=> v \in outpaced') BY <3>2
    <3>4. edge'[l] = edge[l] /\ (l \in outdated <=> l \in outdated') OBVIOUS
    <3> QED BY <2>2, <3>1, <3>2, <3>3, <3>4, LinkStays
  <2> QED BY <1>3, <2>1, <2>2
<1>4. edge' \in [Links -> Nat] BY DEF SharesInv
<1>5. \A l \in Links : edge'[l] > 0 \/ (\E d \in GDocs : share'[d][l] > 0) => {l[2], l[3]} \subseteq entities'
  OBVIOUS
<1>6. SumOK(r) BY DEF SumOK
<1> HIDE DEF Links, LinkOK
<1> QED BY <1>2, <1>3, <1>4, <1>5, <1>6, ShareFrame

\* A step that changes no share and no edge, and leaves nothing pending behind.
LEMMA QuietStep ==
  ASSUME GraphInv, SharesInv, NEW w \in GWriters, NEW r, writer' = [writer EXCEPT ![w] = r],
         UNCHANGED <<share, edge, outdated>>, entities \subseteq entities', marred \subseteq marred',
         HasMerged(r, entities'), PutOK(r), r.doc \notin marred' => KnowsOld(r, share),
         r.pc # "write", r.unread = GDocs, writer[w].pc # "write" \/ marred' # {}, outpaced' = outpaced \ {w},
         \A l \in Links : marred' # {} \/ ~Pending(writer[w], l) \/ Pending(r, l)
  PROVE  SharesInv'
<1>1. share' \in Shares BY DEF SharesInv
<1>2. \A l \in Links : edge[l] > 0 \/ (\E d \in GDocs : share'[d][l] > 0) => {l[2], l[3]} \subseteq entities'
  BY DEF SharesInv, Between
<1>3. \A d \in GDocs, l \in Links : share'[d] = share[d] /\ share'[d][l] = share[d][l] BY Zenon
<1>4. r.doc \notin marred' => KnowsOld(r, share') BY Zenon
<1> HIDE DEF Links
<1> QED BY <1>1, <1>2, <1>3, <1>4, ShareStep

\* Outside such a statement nobody is outpaced, and nothing has been read.
LEMMA NotOutpaced ==
  ASSUME SharesInv, NEW w \in GWriters, writer[w].pc # "write"
  PROVE  writer[w].unread = GDocs /\ (UNCHANGED outpaced => outpaced' = outpaced \ {w})
BY DEF SharesInv, SumOK

LEMMA UpsertShares == ASSUME GraphInv, SharesInv, NEW w \in GWriters, UpsertDocument(w) PROVE SharesInv'
<1>1. PICK d \in GDocs, t \in Texts :
        /\ writer' = [writer EXCEPT ![w] = [IdleWriter EXCEPT !.pc = "wipe", !.doc = d, !.text = t]]
        /\ marred' = IF Busy(d) = {} THEN marred ELSE marred \cup {d}
  BY Zenon DEF UpsertDocument
<1> DEFINE r == FirstUpsert(d, t)
<1>2. writer' = [writer EXCEPT ![w] = r] BY <1>1 DEF FirstUpsert
<1>3. r.pc = "wipe" /\ r.unread = GDocs BY UpsertRow
<1> HIDE DEF r
<1>4. UNCHANGED <<share, edge, entities, outpaced, outdated>> /\ writer[w].pc = "idle" BY DEF UpsertDocument
<1>8. outpaced' = outpaced \ {w} BY <1>4, NotOutpaced
<1>5. HasMerged(r, entities') /\ PutOK(r) /\ KnowsOld(r, share) BY <1>3 DEF HasMerged, PutOK, KnowsOld
<1>6. \A l \in Links : ~Pending(writer[w], l) BY <1>4 DEF Pending
<1>7. marred \subseteq marred' BY <1>1
<1> QED BY <1>2, <1>3, <1>4, <1>5, <1>6, <1>7, <1>8, QuietStep

LEMMA WipeShares == ASSUME GraphInv, SharesInv, NEW w \in GWriters, WipeContains(w) PROVE SharesInv'
<1> DEFINE me == writer[w]
           T == ChunkEntities(me.text)
           r == NextTodo(me, "entities", T)
<1>1. me.pc = "wipe" /\ me \in WriterRows /\ me.text \in Texts \cup {<<>>} BY BusyWriter DEF WipeContains
<1>2. writer' = [writer EXCEPT ![w] = r] /\ UNCHANGED <<share, edge, entities, marred, outdated>>
      /\ outpaced' = outpaced \ {w} /\ me.unread = GDocs
  BY <1>1, NotOutpaced DEF WipeContains, NextTodo, GraphInv
<1>3. r.pc = "entities" /\ r.todo = T /\ r.text = me.text /\ r.unread = me.unread
  <2>1. T \in SUBSET Todos /\ "entities" \in WriterPcs BY <1>1, TodoKinds DEF WriterPcs
  <2> HIDE DEF me, T
  <2> QED BY <1>1, <2>1, WriterRow
<1> HIDE DEF r
<1>4. HasMerged(r, entities') /\ PutOK(r) /\ KnowsOld(r, share) BY <1>3 DEF HasMerged, PutOK, KnowsOld
<1>5. \A l \in Links : ~Pending(me, l) BY <1>1 DEF Pending
<1> QED BY <1>1, <1>2, <1>3, <1>4, <1>5, QuietStep DEF me

LEMMA MergeShares == ASSUME GraphInv, SharesInv, NEW w \in GWriters, MergeEntity(w) PROVE SharesInv'
<1> DEFINE me == writer[w]
<1>1. me.pc = "entities" /\ me \in WriterRows /\ me.todo \subseteq Todos BY BusyWriter DEF MergeEntity
<1>2. UNCHANGED <<share, edge, marred, outdated>> /\ outpaced' = outpaced \ {w} /\ me.unread = GDocs
  BY <1>1, NotOutpaced DEF MergeEntity
<1>3. HasMerged(me, entities) BY DEF SharesInv
<1>4. \A l \in Links : ~Pending(me, l) BY <1>1 DEF Pending
<1>5. ASSUME NEW e \in me.todo, entities' = entities \cup {e}, writer' = [writer EXCEPT ![w].todo = @ \ {e}]
      PROVE  SharesInv'
  <2> DEFINE T == me.todo \ {e}
             r == NextTodo(me, "entities", T)
  <2>1. T \in SUBSET Todos /\ "entities" \in WriterPcs BY <1>1 DEF WriterPcs
  <2>2. r.pc = "entities" /\ r.todo = T /\ r.text = me.text /\ r.unread = me.unread
    <3> HIDE DEF me, T
    <3> QED BY <1>1, <2>1, WriterRow
  <2>3. writer' = [writer EXCEPT ![w] = r]
    <3>1. r = [me EXCEPT !.todo = T]
      <4> HIDE DEF me, T
      <4> QED BY <1>1 DEF WriterRows, NextTodo
    <3> HIDE DEF r
    <3> QED BY <1>5, <3>1 DEF GraphInv
  <2>4. entities \cup me.todo \subseteq entities' \cup T BY <1>5
  <2> HIDE DEF r
  <2>5. HasMerged(r, entities') /\ PutOK(r) /\ KnowsOld(r, share)
    BY <1>1, <1>3, <2>2, <2>4 DEF HasMerged, PutOK, KnowsOld
  <2>6. entities \subseteq entities' /\ marred \subseteq marred' BY <1>2, <1>5
  <2> QED BY <1>1, <1>2, <1>4, <2>2, <2>3, <2>5, <2>6, QuietStep DEF me
<1>6. CASE me.todo = {} /\ To(w, "old") /\ UNCHANGED entities
  <2> DEFINE r == NextTodo(me, "old", me.todo)
  <2>1. "old" \in WriterPcs BY DEF WriterPcs
  <2>2. r.pc = "old" /\ r.text = me.text /\ r.unread = me.unread
    <3> HIDE DEF me
    <3> QED BY <1>1, <2>1, WriterRow
  <2>3. writer' = [writer EXCEPT ![w] = r]
    <3>1. r = [me EXCEPT !.pc = "old"]
      <4> HIDE DEF me
      <4> QED BY <1>1 DEF WriterRows, NextTodo
    <3> HIDE DEF r
    <3> QED BY <1>6, <3>1 DEF To
  <2> HIDE DEF r
  <2>4. HasMerged(r, entities') /\ PutOK(r) /\ KnowsOld(r, share)
    BY <1>1, <1>3, <1>6, <2>2 DEF HasMerged, PutOK, KnowsOld
  <2>5. entities \subseteq entities' /\ marred \subseteq marred' BY <1>2, <1>6
  <2> QED BY <1>1, <1>2, <1>4, <2>2, <2>3, <2>4, <2>5, QuietStep DEF me
<1> QED BY <1>5, <1>6 DEF MergeEntity

LEMMA ReadPairsShares == ASSUME GraphInv, SharesInv, NEW w \in GWriters, ReadOldPairs(w) PROVE SharesInv'
<1> DEFINE me == writer[w]
           S == {l \in Links : l[1] = me.kind /\ share[me.doc][l] > 0}
           r == NextOld(me, "delete", S)
<1>1. me.pc = "old" /\ me \in WriterRows BY BusyWriter DEF ReadOldPairs
<1>2. writer' = [writer EXCEPT ![w] = r] /\ UNCHANGED <<share, edge, entities, marred, outdated>>
      /\ outpaced' = outpaced \ {w} /\ me.unread = GDocs
  BY <1>1, NotOutpaced DEF ReadOldPairs, NextOld, GraphInv
<1>3. S \subseteq Links /\ "delete" \in WriterPcs BY DEF WriterPcs
<1>4. r.pc = "delete" /\ r.doc = me.doc /\ r.text = me.text /\ r.kind = me.kind /\ r.old = S /\ r.unread = me.unread
  <2> HIDE DEF me, S
  <2> QED BY <1>1, <1>3, OldRow
<1> HIDE DEF r
<1>5. HasMerged(me, entities) BY DEF SharesInv
<1>6. HasMerged(r, entities') /\ PutOK(r) BY <1>1, <1>2, <1>4, <1>5 DEF HasMerged, PutOK
<1>7. KnowsOld(r, share) BY <1>4 DEF KnowsOld
<1>8. \A l \in Links : ~Pending(me, l) BY <1>1 DEF Pending
<1> QED BY <1>1, <1>2, <1>4, <1>6, <1>7, <1>8, QuietStep DEF me

LEMMA DeleteSharesShares == ASSUME GraphInv, SharesInv, NEW w \in GWriters, DeleteShares(w) PROVE SharesInv'
<1> DEFINE me == writer[w]
           T == Current(me.text, me.kind)
           r == NextTodo(me, "put", T)
           none == [l \in Links |-> IF l[1] = me.kind THEN 0 ELSE share[me.doc][l]]
<1>1. me.pc = "delete" /\ me \in WriterRows /\ me.doc \in GDocs /\ me.text \in Texts \cup {<<>>}
  BY BusyWriter DEF DeleteShares
<1>2. writer' = [writer EXCEPT ![w] = r] /\ share' = [share EXCEPT ![me.doc] = none]
      /\ UNCHANGED <<edge, entities, marred, outdated>> /\ outpaced' = outpaced \ {w} /\ me.unread = GDocs
  BY <1>1, NotOutpaced DEF DeleteShares, NextTodo, GraphInv
<1>3. /\ r.pc = "put" /\ r.doc = me.doc /\ r.text = me.text /\ r.kind = me.kind /\ r.old = me.old /\ r.todo = T
      /\ r.unread = me.unread
  <2>1. T \in SUBSET Todos /\ "put" \in WriterPcs BY <1>1, TodoKinds DEF WriterPcs
  <2> HIDE DEF me, T
  <2> QED BY <1>1, <2>1, WriterRow
<1>4. share \in Shares /\ share[me.doc] \in [Links -> Nat] BY <1>1 DEF SharesInv, Shares
<1> HIDE DEF r, Links, me
<1>5. none \in [Links -> Nat] /\ \A l \in Links : none[l] = (IF l[1] = me.kind THEN 0 ELSE share[me.doc][l])
  BY <1>4
<1> HIDE DEF none
<1>6. share' \in Shares /\ share'[me.doc] = none /\ \A d \in GDocs : d # me.doc => share'[d] = share[d]
  BY <1>1, <1>2, <1>4, <1>5 DEF Shares
<1>7. \A d \in GDocs, l \in Links : share'[d][l] > 0 => share[d][l] > 0 BY <1>5, <1>6
<1>8. Between(entities) BY DEF SharesInv
<1>9. \A l \in Links : edge[l] > 0 \/ (\E d \in GDocs : share'[d][l] > 0) => {l[2], l[3]} \subseteq entities'
  BY <1>2, <1>7, <1>8 DEF Between
<1>10. HasMerged(me, entities) BY DEF SharesInv, me
<1>11. HasMerged(r, entities') /\ PutOK(r) /\ KnowsOld(r, share')
  BY <1>1, <1>2, <1>3, <1>10 DEF HasMerged, PutOK, KnowsOld
<1>12. ASSUME marred' = {}, NEW l \in Links
       PROVE  Pending(r, l) \/ ((\A d \in GDocs : share'[d][l] = share[d][l]) /\ ~Pending(me, l))
  <2>1. KnowsOld(me, share) BY <1>2, <1>12 DEF SharesInv, me
  <2>2. CASE l[1] = me.kind /\ share[me.doc][l] > 0
    <3>1. l \in me.old BY <1>1, <2>1, <2>2 DEF KnowsOld
    <3> QED BY <1>3, <3>1 DEF Pending, Recomputed
  <2>3. CASE ~(l[1] = me.kind /\ share[me.doc][l] > 0)
    <3>1. share'[me.doc][l] = share[me.doc][l]
      <4>1. share[me.doc][l] \in Nat BY <1>4
      <4> QED BY <1>5, <1>6, <2>3, <4>1
    <3>2. \A d \in GDocs : share'[d][l] = share[d][l] BY <1>6, <3>1
    <3>3. ~Pending(me, l) BY <1>1 DEF Pending
    <3> QED BY <3>2, <3>3
  <2> QED BY <2>2, <2>3
<1>13. entities \subseteq entities' /\ marred \subseteq marred' BY <1>2
<1> QED BY <1>1, <1>2, <1>3, <1>6, <1>9, <1>11, <1>12, <1>13, ShareStep DEF me

LEMMA PutShareShares == ASSUME GraphInv, SharesInv, NEW w \in GWriters, PutShare(w) PROVE SharesInv'
<1> DEFINE me == writer[w]
<1>1. /\ me.pc = "put" /\ me \in WriterRows /\ me.doc \in GDocs /\ me.text \in Texts \cup {<<>>}
      /\ me.todo \subseteq Todos /\ me.old \subseteq Links
  BY BusyWriter DEF PutShare
<1>2. /\ UNCHANGED <<edge, entities, marred, outdated>> /\ entities \subseteq entities' /\ marred \subseteq marred'
      /\ outpaced' = outpaced \ {w} /\ me.unread = GDocs
  BY <1>1, NotOutpaced DEF PutShare
<1>3. HasMerged(me, entities) /\ PutOK(me) BY DEF SharesInv
<1>4. share \in Shares /\ share[me.doc] \in [Links -> Nat] BY <1>1 DEF SharesInv, Shares
<1>5. ASSUME NEW l \in me.todo, share' = [share EXCEPT ![me.doc][l] = Weight(me.text, l)],
             writer' = [writer EXCEPT ![w].todo = @ \ {l}]
      PROVE  SharesInv'
  <2> DEFINE T == me.todo \ {l}
             r == NextTodo(me, "put", T)
             n == Weight(me.text, l)
             row == [share[me.doc] EXCEPT ![l] = n]
  <2>1. T \in SUBSET Todos /\ "put" \in WriterPcs BY <1>1 DEF WriterPcs
  <2>2. r.pc = "put" /\ r.doc = me.doc /\ r.text = me.text /\ r.kind = me.kind /\ r.old = me.old /\ r.todo = T
        /\ r.unread = me.unread
    <3> HIDE DEF me, T
    <3> QED BY <1>1, <2>1, WriterRow
  <2>3. writer' = [writer EXCEPT ![w] = r]
    <3>1. r = [me EXCEPT !.todo = T]
      <4> HIDE DEF me, T
      <4> QED BY <1>1 DEF WriterRows, NextTodo
    <3> HIDE DEF r
    <3> QED BY <1>5, <3>1 DEF GraphInv
  <2>4. l \in Current(me.text, me.kind) BY <1>1, <1>3 DEF PutOK
  <2>5. l \in Links /\ l[1] = me.kind /\ {l[2], l[3]} \subseteq ChunkEntities(me.text) /\ n \in Nat
    BY <1>1, <2>4, CurrentEnds
  <2>6. share' = [share EXCEPT ![me.doc] = row] BY <1>4, <1>5 DEF Shares
  <2> HIDE DEF r, n, me, Links
  <2>7. row \in [Links -> Nat] /\ \A x \in Links : x # l => row[x] = share[me.doc][x] BY <1>4, <2>5
  <2> HIDE DEF row
  <2>8. share' \in Shares /\ share'[me.doc] = row /\ \A d \in GDocs : d # me.doc => share'[d] = share[d]
    BY <1>1, <1>4, <2>6, <2>7 DEF Shares
  <2>9. {l[2], l[3]} \subseteq entities BY <1>1, <1>3, <2>5 DEF HasMerged
  <2>10. \A d \in GDocs, x \in Links : x # l => share'[d][x] = share[d][x] BY <2>7, <2>8
  <2>11. Between(entities) BY DEF SharesInv
  <2>12. \A x \in Links : edge[x] > 0 \/ (\E d \in GDocs : share'[d][x] > 0) => {x[2], x[3]} \subseteq entities'
    <3> TAKE x \in Links
    <3>1. CASE x = l BY <1>2, <2>9, <3>1
    <3>2. CASE x # l BY <1>2, <2>10, <2>11, <3>2 DEF Between
    <3> QED BY <3>1, <3>2
  <2>13. HasMerged(r, entities') /\ PutOK(r) /\ KnowsOld(r, share')
    BY <1>1, <1>2, <1>3, <2>2 DEF HasMerged, PutOK, KnowsOld
  <2>14. ASSUME NEW x \in Links
         PROVE  Pending(r, x) \/ ((\A d \in GDocs : share'[d][x] = share[d][x]) /\ ~Pending(me, x))
    <3>1. CASE x \in Recomputed(me) BY <2>2, <3>1 DEF Pending, Recomputed
    <3>2. CASE x \notin Recomputed(me)
      <4>1. x # l BY <2>4, <3>2 DEF Recomputed
      <4>2. \A d \in GDocs : share'[d][x] = share[d][x] BY <2>10, <4>1
      <4>3. ~Pending(me, x) BY <1>1, <3>2 DEF Pending
      <4> QED BY <4>2, <4>3
    <3> QED BY <3>1, <3>2
  <2> QED BY <1>1, <1>2, <2>2, <2>3, <2>8, <2>12, <2>13, <2>14, ShareStep DEF me
<1>6. CASE writer' = [writer EXCEPT ![w].pc = "sum", ![w].todo = Recomputed(me)] /\ UNCHANGED share
  <2> DEFINE T == Recomputed(me)
             r == NextTodo(me, "sum", T)
  <2>1. writer' = [writer EXCEPT ![w] = r] BY <1>6 DEF NextTodo, GraphInv
  <2>2. T \in SUBSET Todos /\ "sum" \in WriterPcs
    <3>1. Current(me.text, me.kind) \subseteq Todos BY <1>1, TodoKinds
    <3>2. me.old \subseteq Todos BY <1>1 DEF Todos
    <3> QED BY <3>1, <3>2 DEF Recomputed, WriterPcs
  <2>3. r.pc = "sum" /\ r.text = me.text /\ r.todo = T /\ r.unread = me.unread
    <3> HIDE DEF me, T
    <3> QED BY <1>1, <2>2, WriterRow
  <2> HIDE DEF r, me
  <2>4. HasMerged(r, entities') /\ PutOK(r) /\ KnowsOld(r, share)
    BY <1>1, <1>2, <1>3, <2>3 DEF HasMerged, PutOK, KnowsOld
  <2>5. \A l \in Links : ~Pending(me, l) \/ Pending(r, l) BY <1>1, <2>3 DEF Pending
  <2> QED BY <1>1, <1>2, <1>6, <2>1, <2>3, <2>4, <2>5, QuietStep DEF me
<1> QED BY <1>5, <1>6 DEF PutShare

LEMMA ReadShareShares == ASSUME GraphInv, SharesInv, NEW w \in GWriters, ReadShare(w) PROVE SharesInv'
<1> DEFINE me == writer[w]
<1>1. me.pc \in {"sum", "write"} /\ me \in WriterRows /\ me.unread \subseteq GDocs
  <2>1. me.pc \in {"sum", "write"} BY DEF ReadShare
  <2> QED BY <2>1, BusyWriter DEF WriterRows
<1>2. UNCHANGED <<share, edge, entities, marred, outpaced, outdated>> BY DEF ReadShare
<1>3. PICK l \in Links, d \in me.unread :
        /\ (me.pc = "sum" /\ l \in me.todo) \/ (me.pc = "write" /\ l = me.at)
        /\ writer' = [writer EXCEPT ![w] = Counted(me, l, d, share[d][l])]
  BY DEF ReadShare
<1> DEFINE n == share[d][l]
           r == Counted(me, l, d, n)
<1>4. share \in Shares /\ edge \in [Links -> Nat] /\ Between(entities) BY DEF SharesInv
<1>5. d \in GDocs /\ n \in Nat
  <2> HIDE DEF Links
  <2> QED BY <1>1, <1>4 DEF Shares
<1>6. /\ r.pc = "write" /\ r.doc = me.doc /\ r.text = me.text /\ r.at = l /\ r.todo = me.todo \ {l}
      /\ r.unread = me.unread \ {d} /\ r.seen[d] = n /\ \A c \in GDocs \ {d} : r.seen[c] = me.seen[c]
  <2> HIDE DEF me, n
  <2> QED BY <1>1, <1>5, CountedRow
<1>7. writer' = [writer EXCEPT ![w] = r] BY <1>3
<1> HIDE DEF r, Links
<1>8. writer'[w] = r /\ \A v \in GWriters \ {w} : writer'[v] = writer[v] BY <1>7 DEF GraphInv
<1>9. HasMerged(me, entities) BY DEF SharesInv
<1>10. HasMerged(r, entities') /\ PutOK(r) /\ SumOK(r) /\ KnowsOld(r, share')
  BY <1>1, <1>2, <1>6, <1>9 DEF HasMerged, PutOK, SumOK, KnowsOld
<1>11. outpaced' \subseteq {v \in GWriters : writer'[v].pc = "write"} BY <1>2, <1>6, <1>8 DEF SharesInv
<1>12. ASSUME marred' = {}, NEW x \in Links PROVE LinkOK(x)'
  <2>1. LinkOK(x) BY <1>2, <1>12 DEF SharesInv
  <2>2. CASE x = l
    <3>1. Counting(writer'[w], x) BY <1>6, <1>8, <2>2 DEF Counting
    <3>2. ASSUME NEW u \in GWriters \ outpaced', Counting(writer'[u], x)
          PROVE  \E v \in GWriters : Pending(writer'[v], x) \/ (v \notin outpaced' /\ Fresh(writer'[v], x, share'))
      <4>1. CASE me.pc = "sum"
        <5>1. w \notin outpaced' BY <1>2, <4>1 DEF SharesInv
        <5>2. r.unread = me.unread \ {d} /\ me.unread = GDocs => Fresh(r, x, share)
          BY <1>5, <1>6, <2>2 DEF Fresh, Counting, n
        <5>3. me.unread = GDocs BY <4>1, NotOutpaced
        <5> QED BY <1>2, <1>6, <1>8, <5>1, <5>2, <5>3
      <4>2. CASE me.pc = "write" /\ l = me.at
        <5>1. \E v \in GWriters \ outpaced : Counting(writer[v], x)
          BY <1>2, <1>8, <2>2, <3>2, <4>2 DEF Counting
        <5>2. PICK v \in GWriters : Pending(writer[v], x) \/ (v \notin outpaced /\ Fresh(writer[v], x, share))
          BY <2>1, <5>1 DEF LinkOK
        <5>3. CASE v # w BY <1>2, <1>8, <5>2, <5>3
        <5>4. CASE v = w /\ Pending(me, x)
          <6>1. l \notin me.todo BY <4>2 DEF SharesInv, SumOK
          <6> QED BY <2>2, <4>2, <5>4, <6>1 DEF Pending
        <5>5. CASE v = w /\ w \notin outpaced /\ Fresh(me, x, share)
          <6>1. Fresh(r, x, share) BY <1>5, <1>6, <2>2, <5>5 DEF Fresh, Counting, n
          <6> QED BY <1>2, <1>8, <5>5, <6>1
        <5> QED BY <5>2, <5>3, <5>4, <5>5
      <4> QED BY <1>3, <4>1, <4>2
    <3> QED BY <3>1, <3>2, LinkNext
  <2>3. CASE x # l
    <3>1. Pending(me, x) => Pending(r, x) BY <1>1, <1>6, <2>3 DEF Pending
    <3>2. ~Counting(r, x) /\ ~Counting(me, x) BY <1>3, <1>6, <2>3 DEF Counting
    <3>3. edge'[x] = edge[x] /\ (\A c \in GDocs : share'[c][x] = share[c][x]) /\ (x \in outdated <=> x \in outdated')
          /\ \A v \in GWriters : v \in outpaced <=> v \in outpaced'
      BY <1>2, Zenon
    <3> QED BY <1>7, <2>1, <3>1, <3>2, <3>3, LinkStays DEF me
  <2> QED BY <2>2, <2>3
<1>13. share' \in Shares /\ edge' \in [Links -> Nat] /\ (\A c \in GDocs : share'[c] = share[c])
       /\ entities \subseteq entities' /\ marred \subseteq marred'
  BY <1>2, <1>4
<1>14. \A x \in Links : edge'[x] > 0 \/ (\E c \in GDocs : share'[c][x] > 0) => {x[2], x[3]} \subseteq entities'
  BY <1>2, <1>4, Zenon DEF Between
<1> HIDE DEF LinkOK
<1> QED BY <1>7, <1>10, <1>11, <1>12, <1>13, <1>14, ShareFrame DEF me

LEMMA WriteEdgeShares == ASSUME GraphInv, SharesInv, NEW w \in GWriters, WriteEdge(w) PROVE SharesInv'
<1> DEFINE me == writer[w]
           l == me.at
           n == SumFunction(me.seen)
           r == Summed(me)
<1>1. me.pc = "write" /\ me \in WriterRows /\ me.unread = {} BY BusyWriter DEF WriteEdge
<1>2. UNCHANGED <<share, entities, marred>> BY DEF WriteEdge
<1>3. /\ edge' = IF {l[2], l[3]} \subseteq entities THEN [edge EXCEPT ![l] = n] ELSE edge
      /\ writer' = [writer EXCEPT ![w] = r]
      /\ outpaced' = (outpaced \cup {v \in GWriters : writer[v].pc = "write" /\ writer[v].at = l}) \ {w}
      /\ outdated' = IF w \in outpaced THEN outdated \cup {l} ELSE outdated \ {l}
  BY DEF WriteEdge
<1>4. share \in Shares /\ edge \in [Links -> Nat] /\ Between(entities) BY DEF SharesInv
<1>5. l \in Links /\ l \notin me.todo BY <1>1 DEF SharesInv, SumOK
<1>6. r.pc = "sum" /\ r.doc = me.doc /\ r.text = me.text /\ r.todo = me.todo /\ r.at = NoDoc /\ r.unread = GDocs
  <2> HIDE DEF me
  <2> QED BY <1>1, SummedRow
<1>7. n \in Nat
  <2>1. me.seen \in [GDocs -> Nat] BY <1>1 DEF WriterRows
  <2>2. n = SumFunctionOnSet(me.seen, GDocs) BY <2>1 DEF SumFunction
  <2>3. \A d \in GDocs : me.seen[d] \in Nat BY <2>1
  <2> HIDE DEF n, me
  <2> QED BY <2>2, <2>3, SumOfNumbers, GraphAssumption
<1>8. Fresh(me, l, share) => n = Sums(l, share)
  <2>1. me.seen \in [GDocs -> Nat] BY <1>1 DEF WriterRows
  <2>2. Fresh(me, l, share) => me.seen = [d \in GDocs |-> share[d][l]] BY <1>1, <2>1 DEF Fresh
  <2> HIDE DEF l, me
  <2> QED BY <2>2 DEF Sums, n
<1> HIDE DEF r, n, Links
<1>9. writer'[w] = r /\ \A v \in GWriters \ {w} : writer'[v] = writer[v] BY <1>3 DEF GraphInv
<1>10. edge' \in [Links -> Nat] /\ \A x \in Links : x # l => edge'[x] = edge[x]
  <2> HIDE DEF l
  <2>1. CASE {l[2], l[3]} \subseteq entities BY <1>3, <1>4, <1>5, <1>7, <2>1
  <2>2. CASE ~({l[2], l[3]} \subseteq entities) BY <1>3, <1>4, <2>2
  <2> QED BY <2>1, <2>2
<1>11. {l[2], l[3]} \subseteq entities => edge'[l] = n
  <2> HIDE DEF l
  <2> QED BY <1>3, <1>4, <1>5
<1>12. ~({l[2], l[3]} \subseteq entities) => edge'[l] = edge[l] /\ edge[l] = 0 /\ Sums(l, share) = 0
  <2> HIDE DEF l
  <2> SUFFICES ASSUME ~({l[2], l[3]} \subseteq entities) PROVE edge'[l] = edge[l] /\ edge[l] = 0 /\ Sums(l, share) = 0
    OBVIOUS
  <2>1. ~(edge[l] > 0) /\ ~(\E d \in GDocs : share[d][l] > 0) BY <1>4, <1>5 DEF Between
  <2>2. Sums(l, share) \in Nat /\ ~(Sums(l, share) > 0) BY <1>4, <1>5, <2>1, SumsOfShares
  <2>3. edge[l] \in Nat BY <1>4, <1>5
  <2> QED BY <1>3, <2>1, <2>2, <2>3
<1>13. \A x \in Links : edge'[x] > 0 \/ (\E d \in GDocs : share'[d][x] > 0) => {x[2], x[3]} \subseteq entities'
  <2> HIDE DEF l
  <2> TAKE x \in Links
  <2>1. \A d \in GDocs : share'[d][x] = share[d][x] BY <1>2, Zenon
  <2>2. CASE x # l BY <1>2, <1>4, <1>10, <2>1, <2>2 DEF Between
  <2>3. CASE x = l /\ ~({l[2], l[3]} \subseteq entities) BY <1>2, <1>4, <1>12, <2>1, <2>3 DEF Between
  <2>4. CASE x = l /\ {l[2], l[3]} \subseteq entities BY <1>2, <2>4
  <2> QED BY <2>2, <2>3, <2>4
<1>14. HasMerged(me, entities) BY DEF SharesInv
<1>15. HasMerged(r, entities') /\ PutOK(r) /\ SumOK(r) /\ KnowsOld(r, share')
  BY <1>1, <1>2, <1>6, <1>14 DEF HasMerged, PutOK, SumOK, KnowsOld
<1>17. ASSUME marred' = {}, NEW x \in Links PROVE LinkOK(x)'
  <2>1. LinkOK(x) BY <1>2, <1>17 DEF SharesInv
  <2>2. CASE x = l
    <3>1. ASSUME x \notin outdated'
          PROVE  edge'[x] = Sums(x, share') \/ \E v \in GWriters : Pending(writer'[v], x) \/ Counting(writer'[v], x)
      <4>1. w \in GWriters \ outpaced BY <1>3, <2>2, <3>1
      <4>2. Counting(me, x) BY <1>1, <2>2 DEF Counting
      <4>3. PICK v \in GWriters : Pending(writer[v], x) \/ (v \notin outpaced /\ Fresh(writer[v], x, share))
        BY <2>1, <4>1, <4>2 DEF LinkOK
      <4>4. CASE v # w BY <1>9, <4>3, <4>4 DEF Fresh
      <4>5. CASE v = w
        <5>1. Fresh(me, x, share) BY <1>1, <1>5, <2>2, <4>3, <4>5 DEF Pending
        <5>2. Sums(x, share') = Sums(x, share) BY <1>2, Zenon
        <5>3. edge'[l] = Sums(l, share) BY <1>8, <1>11, <1>12, <2>2, <5>1
        <5> QED BY <2>2, <5>2, <5>3
      <4> QED BY <4>4, <4>5
    <3>2. \A u \in GWriters \ outpaced' : ~Counting(writer'[u], x)
      BY <1>3, <1>6, <1>9, <2>2 DEF Counting
    <3> QED BY <3>1, <3>2, LinkNext
  <2>3. CASE x # l
    <3>1. Pending(me, x) => Pending(r, x) BY <1>1, <1>6, <2>3 DEF Pending
    <3>2. ~Counting(r, x) /\ ~Counting(me, x) BY <1>6, <2>3 DEF Counting
    <3>3. edge'[x] = edge[x] /\ (x \in outdated <=> x \in outdated') BY <1>3, <1>10, <2>3
    <3>4. \A c \in GDocs : share'[c][x] = share[c][x] BY <1>2, Zenon
    <3>5. \A v \in GWriters : Counting(writer[v], x) => (v \in outpaced <=> v \in outpaced')
      BY <1>3, <2>3, <3>2 DEF Counting
    <3> QED BY <1>3, <2>1, <3>1, <3>2, <3>3, <3>4, <3>5, LinkStays DEF me
  <2> QED BY <2>2, <2>3
<1>18. share' \in Shares /\ (\A c \in GDocs : share'[c] = share[c])
       /\ entities \subseteq entities' /\ marred \subseteq marred'
  BY <1>2, <1>4
<1>19. outpaced' \subseteq {v \in GWriters : writer'[v].pc = "write"}
  BY <1>3, <1>9 DEF SharesInv
<1> HIDE DEF LinkOK
<1> QED BY <1>3, <1>10, <1>13, <1>15, <1>17, <1>18, <1>19, ShareFrame DEF me

LEMMA SumsDoneShares == ASSUME GraphInv, SharesInv, NEW w \in GWriters, SumsDone(w) PROVE SharesInv'
<1> DEFINE me == writer[w]
<1>1. me.pc = "sum" /\ me \in WriterRows BY BusyWriter DEF SumsDone
<1>2. /\ UNCHANGED <<share, edge, entities, marred, outdated>> /\ entities \subseteq entities' /\ marred \subseteq marred'
      /\ outpaced' = outpaced \ {w} /\ me.unread = GDocs /\ me.todo = {}
  BY <1>1, NotOutpaced DEF SumsDone
<1>3. HasMerged(me, entities) BY DEF SharesInv
<1>4. \A l \in Links : ~Pending(me, l) BY <1>1, <1>2 DEF Pending
<1>5. ASSUME NEW r, writer' = [writer EXCEPT ![w] = r], r.pc # "write", r.unread = GDocs,
             HasMerged(r, entities), PutOK(r), KnowsOld(r, share)
      PROVE  SharesInv'
  <2>1. HasMerged(r, entities') BY <1>2, <1>5
  <2> QED BY <1>1, <1>2, <1>4, <1>5, <2>1, QuietStep DEF me
<1>6. CASE writer' = [writer EXCEPT ![w] = NextKind(me, "old", "rel")]
  <2> DEFINE r == NextKind(me, "old", "rel")
  <2>1. "old" \in WriterPcs BY DEF WriterPcs
  <2>2. r.pc = "old" /\ r.text = me.text /\ r.unread = me.unread
    <3> HIDE DEF me
    <3> QED BY <1>1, <2>1, KindRow
  <2>3. writer' = [writer EXCEPT ![w] = r] BY <1>6
  <2> HIDE DEF r
  <2>4. HasMerged(r, entities) /\ PutOK(r) /\ KnowsOld(r, share)
    BY <1>1, <1>3, <2>2 DEF HasMerged, PutOK, KnowsOld
  <2> QED BY <1>2, <1>5, <2>2, <2>3, <2>4
<1>7. CASE writer' = [writer EXCEPT ![w] = IdleWriter]
  <2>1. HasMerged(IdleWriter, entities) /\ PutOK(IdleWriter) /\ KnowsOld(IdleWriter, share)
    BY IdleWriterRow DEF HasMerged, PutOK, KnowsOld
  <2> QED BY <1>5, <1>7, <2>1, IdleWriterRow
<1> QED BY <1>6, <1>7 DEF SumsDone, NextKind

LEMMA StatementFailsShares == ASSUME GraphInv, SharesInv, NEW w \in GWriters, StatementFails(w) PROVE SharesInv'
<1> DEFINE me == writer[w]
           n == me.attempt + 1
<1>1. /\ me.pc # "idle" /\ me \in WriterRows /\ me.doc \in GDocs /\ me.text \in Texts \cup {<<>>} /\ n \in Nat
  BY BusyWriter DEF StatementFails
<1>2. /\ UNCHANGED <<share, edge, entities, outdated>> /\ marred \subseteq marred' /\ outpaced' = outpaced \ {w}
      /\ me.pc \in {"put", "sum", "write"} => marred' # {}
  BY DEF StatementFails
<1>3. \A l \in Links : marred' # {} \/ ~Pending(me, l) BY <1>2 DEF Pending
<1>4. ASSUME NEW r, writer' = [writer EXCEPT ![w] = r], r.pc \in {"idle", "wipe"}, r.unread = GDocs PROVE SharesInv'
  <2>1. HasMerged(r, entities') /\ PutOK(r) /\ KnowsOld(r, share) BY <1>4 DEF HasMerged, PutOK, KnowsOld
  <2> QED BY <1>2, <1>3, <1>4, <2>1, QuietStep
<1>5. CASE writer' = [writer EXCEPT ![w] = Upsert(me.doc, me.text, n)]
  <2>1. Upsert(me.doc, me.text, n).pc = "wipe" /\ Upsert(me.doc, me.text, n).unread = GDocs
    <3> DEFINE d == me.doc
               t == me.text
    <3>1. d \in GDocs /\ t \in Texts \cup {<<>>} /\ n \in Nat BY <1>1
    <3> HIDE DEF n, d, t
    <3>2. Upsert(d, t, n).pc = "wipe" /\ Upsert(d, t, n).unread = GDocs BY <3>1, UpsertRow
    <3> QED BY <3>2 DEF d, t
  <2> QED BY <1>4, <1>5, <2>1
<1>6. CASE writer' = [writer EXCEPT ![w] = IdleWriter] BY <1>4, <1>6, IdleWriterRow
<1> QED BY <1>5, <1>6 DEF StatementFails, Upsert

LEMMA SharesStarted == GraphInit => SharesInv
<1> SUFFICES ASSUME GraphInit PROVE SharesInv OBVIOUS
<1>1. share \in Shares /\ \A d \in GDocs, l \in Links : share[d][l] = 0
  <2> HIDE DEF Links
  <2> QED BY DEF GraphInit, Shares
<1>2. edge \in [Links -> Nat] /\ \A l \in Links : edge[l] = 0
  <2> HIDE DEF Links
  <2> QED BY DEF GraphInit
<1>3. \A w \in GWriters : writer[w].pc = "idle" /\ writer[w].unread = GDocs BY IdleWriterRow DEF GraphInit
<1>4. ASSUME NEW l \in Links PROVE edge[l] = Sums(l, share)
  <2>1. Sums(l, share) \in Nat /\ (Sums(l, share) > 0 <=> \E d \in GDocs : share[d][l] > 0) BY <1>1, SumsOfShares
  <2>2. ~(\E d \in GDocs : share[d][l] > 0) BY <1>1
  <2> QED BY <1>2, <2>1, <2>2
<1>5. Between(entities) BY <1>1, <1>2 DEF Between
<1>6. \A w \in GWriters : /\ HasMerged(writer[w], entities) /\ PutOK(writer[w]) /\ SumOK(writer[w])
                         /\ KnowsOld(writer[w], share)
  BY <1>3 DEF HasMerged, PutOK, SumOK, KnowsOld
<1>7. outpaced = {} /\ \A l \in Links : LinkOK(l)
  <2>1. \A w \in GWriters : \A l : ~Counting(writer[w], l) BY <1>3 DEF Counting
  <2> QED BY <1>4, <2>1 DEF LinkOK, GraphInit
<1> HIDE DEF Links, LinkOK
<1> QED BY <1>1, <1>2, <1>5, <1>6, <1>7 DEF SharesInv

LEMMA SharesSteps == GraphInv /\ SharesInv /\ [GraphNext]_graphVars => SharesInv'
<1> SUFFICES ASSUME GraphInv, SharesInv, [GraphNext]_graphVars PROVE SharesInv' OBVIOUS
<1>1. ASSUME NEW w \in GWriters, UpsertDocument(w) PROVE SharesInv' BY <1>1, UpsertShares
<1>2. ASSUME NEW w \in GWriters, WipeContains(w) \/ MergeEntity(w) PROVE SharesInv'
  BY <1>2, WipeShares, MergeShares
<1>3. ASSUME NEW w \in GWriters, ReadOldPairs(w) \/ DeleteShares(w) PROVE SharesInv'
  BY <1>3, ReadPairsShares, DeleteSharesShares
<1>4. ASSUME NEW w \in GWriters, PutShare(w) \/ ReadShare(w) \/ WriteEdge(w) PROVE SharesInv'
  BY <1>4, PutShareShares, ReadShareShares, WriteEdgeShares
<1>8. ASSUME NEW w \in GWriters, SumsDone(w) \/ StatementFails(w) PROVE SharesInv'
  BY <1>8, SumsDoneShares, StatementFailsShares
<1>5. ASSUME UNCHANGED <<share, edge, entities, writer, marred, outpaced, outdated>> PROVE SharesInv'
  BY <1>5 DEF SharesInv, Between, HasMerged, PutOK, SumOK, KnowsOld, LinkOK, Pending, Recomputed, Counting, Fresh, Sums
<1>6. ASSUME NEW w \in GWriters, ExtractionRaises(w) PROVE SharesInv' BY <1>5, <1>6 DEF ExtractionRaises
<1>7. CASE UNCHANGED graphVars BY <1>5, <1>7 DEF graphVars
<1> QED BY <1>1, <1>2, <1>3, <1>4, <1>6, <1>7, <1>8 DEF GraphNext

-----------------------------------------------------------------------------
(* The graph: what its queries say of each other. *)

Across(r, x) == IF r[2] = x THEN r[3] ELSE r[2]

\* Where a walk is after one more road, from each place and with the roads it has taken.
OneFurther(X) ==
  UNION {{<<Across(r, x[1]), x[2] \cup {r}>> : r \in {r \in Roads \ x[2] : x[1] \in {r[2], r[3]}}} : x \in X}

WalkStep(a, g) ==
  [n \in 0..1 |-> IF n = 0 THEN {<<e, {}>> : e \in {a} \cap entities} ELSE OneFurther(g[n - 1])]

LEMMA WalkOfOne ==
  ASSUME NEW a
  PROVE  SearchRelatedEntities({a}, 1) = {x[1] : x \in OneFurther({<<e, {}>> : e \in {a} \cap entities})} \cap Ents
<1> DEFINE X == {<<e, {}>> : e \in {a} \cap entities}
           c == CHOOSE g : g = WalkStep(a, g)
<1>1. SearchRelatedEntities({a}, 1) = {x[1] : x \in UNION {c[n] : n \in 1..1}} \cap Ents
  BY DEF SearchRelatedEntities, WalkStep, OneFurther, Across
<1> HIDE DEF X
<1>2. \A g : g = WalkStep(a, g) <=> g = [n \in 0..1 |-> IF n = 0 THEN X ELSE OneFurther(g[n - 1])]
  BY DEF WalkStep, X
<1>3. \E g : g = WalkStep(a, g)
  <2> DEFINE h == [n \in 0..1 |-> IF n = 0 THEN X ELSE OneFurther(X)]
  <2>1. h[0] = X OBVIOUS
  <2>2. h = [n \in 0..1 |-> IF n = 0 THEN X ELSE OneFurther(h[n - 1])]
    <3>1. \A n \in 0..1 : n # 0 => h[n - 1] = X BY <2>1
    <3>2. h = [n \in 0..1 |-> IF n = 0 THEN X ELSE OneFurther(X)] OBVIOUS
    <3> HIDE DEF h
    <3> QED BY <3>1, <3>2
  <2> HIDE DEF h
  <2> QED BY <1>2, <2>2
<1>4. c = WalkStep(a, c) BY <1>3, Zenon
<1> HIDE DEF c
<1>5. c = [n \in 0..1 |-> IF n = 0 THEN X ELSE OneFurther(c[n - 1])] BY <1>2, <1>4
<1>6. c[0] = X BY <1>5
<1>7. c[1] = OneFurther(X)
  <2>1. c[1] = OneFurther(c[0]) BY <1>5
  <2> QED BY <1>6, <2>1
<1>8. UNION {c[n] : n \in 1..1} = c[1]
  <2>1. \A n : n \in 1..1 <=> n = 1 OBVIOUS
  <2> QED BY <2>1
<1> QED BY <1>1, <1>7, <1>8 DEF X

LEMMA Neighbours ==
  ASSUME NEW a, NEW b \in Ents
  PROVE  b \in SearchRelatedEntities({a}, 1) <=>
           a \in entities /\ \E r \in Roads : a \in {r[2], r[3]} /\ b = Across(r, a)
<1> DEFINE X == {<<e, {}>> : e \in {a} \cap entities}
<1>1. b \in SearchRelatedEntities({a}, 1) <=> \E x \in OneFurther(X) : b = x[1]
  <2>1. SearchRelatedEntities({a}, 1) = {x[1] : x \in OneFurther(X)} \cap Ents BY WalkOfOne
  <2> HIDE DEF X
  <2> QED BY <2>1
<1>2. \A y : y \in OneFurther(X) <=>
         \E x \in X : \E r \in Roads \ x[2] : x[1] \in {r[2], r[3]} /\ y = <<Across(r, x[1]), x[2] \cup {r}>>
  <2> HIDE DEF X
  <2> DEFINE From(x) == {<<Across(r, x[1]), x[2] \cup {r}>> : r \in {r \in Roads \ x[2] : x[1] \in {r[2], r[3]}}}
  <2>1. OneFurther(X) = UNION {From(x) : x \in X} BY DEF OneFurther
  <2>2. \A x, y : y \in From(x) <=>
           \E r \in Roads \ x[2] : x[1] \in {r[2], r[3]} /\ y = <<Across(r, x[1]), x[2] \cup {r}>>
    BY Zenon
  <2> HIDE DEF From
  <2>3. \A y : y \in OneFurther(X) <=> \E x \in X : y \in From(x) BY <2>1
  <2> QED BY <2>2, <2>3
<1>3. \A x : x \in X <=> a \in entities /\ x = <<a, {}>> OBVIOUS
<1> HIDE DEF X
<1>4. ASSUME NEW y \in OneFurther(X), b = y[1]
      PROVE  a \in entities /\ \E r \in Roads : a \in {r[2], r[3]} /\ b = Across(r, a)
  <2>0. PICK x \in X : \E r \in Roads \ x[2] : x[1] \in {r[2], r[3]} /\ y = <<Across(r, x[1]), x[2] \cup {r}>>
    BY <1>2
  <2>1. PICK r \in Roads \ x[2] : x[1] \in {r[2], r[3]} /\ y = <<Across(r, x[1]), x[2] \cup {r}>> BY <2>0
  <2>2. a \in entities /\ x[1] = a BY <1>3
  <2>3. y[1] = Across(r, a) BY <2>1, <2>2
  <2> QED BY <1>4, <2>1, <2>2, <2>3
<1>5. ASSUME a \in entities, NEW r \in Roads, a \in {r[2], r[3]}, b = Across(r, a)
      PROVE  \E x \in OneFurther(X) : b = x[1]
  <2> DEFINE x == <<a, {}>>
             y == <<Across(r, a), {r}>>
  <2>1. x \in X /\ x[1] = a /\ x[2] = {} BY <1>3, <1>5
  <2>2. y = <<Across(r, x[1]), x[2] \cup {r}>> BY <2>1
  <2>3. y[1] = b BY <1>5
  <2> HIDE DEF x, y
  <2>4. r \in Roads \ x[2] /\ x[1] \in {r[2], r[3]} BY <1>5, <2>1
  <2>5. y \in OneFurther(X) BY <1>2, <2>1, <2>2, <2>4
  <2> QED BY <2>3, <2>5
<1> QED BY <1>1, <1>4, <1>5

LEMMA GraphAddsUp == GraphInv /\ SharesInv => EdgesAddUp
<1> SUFFICES ASSUME GraphInv, SharesInv, AtRest, marred = {}
             PROVE  /\ \A l \in Links \ outdated : edge[l] = Total(l)
                    /\ \A a, b \in Ents :
                          a # b /\ (\A l \in outdated : {l[2], l[3]} # {a, b}) =>
                          (b \in SearchRelatedEntities({a}, 1) <=> FindLineage(a, b) # {})
                    /\ \A e \in Ents : \A l \in FindRelations(e) \ outdated :
                          \E x \in FindLineage(l[2], l[3]) : x[2] = l
  BY DEF EdgesAddUp
<1>1. share \in Shares /\ edge \in [Links -> Nat] /\ Between(entities) BY DEF SharesInv
<1>2. ASSUME NEW l \in Links \ outdated PROVE edge[l] = Sums(l, share) /\ edge[l] = Total(l)
  <2>1. \A w \in GWriters : ~Pending(writer[w], l) /\ ~Counting(writer[w], l) BY DEF AtRest, Pending, Counting
  <2>2. edge[l] = Sums(l, share) BY <2>1 DEF SharesInv, LinkOK
  <2> QED BY <2>2 DEF Total, Sums
<1>3. ASSUME NEW l \in Links \ outdated PROVE edge[l] > 0 <=> \E d \in GDocs : share[d][l] > 0
  BY <1>1, <1>2, SumsOfShares
<1>4. \A l \in Links : l = <<l[1], l[2], l[3]>> /\ l[2] \in Ents /\ l[3] \in Ents /\ l[2] # l[3] BY DEF Links
<1>5. ASSUME NEW a, NEW b
      PROVE  \A x : x \in FindLineage(a, b) <=>
               x \in GDocs \X Links /\ {x[2][2], x[2][3]} = {a, b} /\ share[x[1]][x[2]] > 0
  BY Zenon DEF FindLineage
<1> HIDE DEF Links, FindLineage
<1>6. ASSUME NEW l \in Links \ outdated, edge[l] > 0, NEW a, NEW b, {l[2], l[3]} = {a, b}
      PROVE  \E x \in FindLineage(a, b) : x[2] = l
  <2>1. PICK d \in GDocs : share[d][l] > 0 BY <1>3, <1>6
  <2> DEFINE x == <<d, l>>
  <2>2. x \in GDocs \X Links /\ x[1] = d /\ x[2] = l OBVIOUS
  <2> HIDE DEF x
  <2>3. x \in FindLineage(a, b) BY <1>5, <1>6, <2>1, <2>2
  <2> QED BY <2>2, <2>3
<1>7. ASSUME NEW a \in Ents, NEW b \in Ents, a # b, \A l \in outdated : {l[2], l[3]} # {a, b}, b \in SearchRelatedEntities({a}, 1)
      PROVE  FindLineage(a, b) # {}
  <2>1. PICK r \in Roads : a \in {r[2], r[3]} /\ b = Across(r, a) BY <1>7, Neighbours
  <2>2. CASE \E l \in Links : edge[l] > 0 /\ r = <<l, l[2], l[3]>>
    <3>1. PICK l \in Links : edge[l] > 0 /\ r = <<l, l[2], l[3]>> BY <2>2
    <3>2. r[2] = l[2] /\ r[3] = l[3] BY <3>1
    <3>3. {l[2], l[3]} = {a, b} BY <2>1, <3>2 DEF Across
    <3>4. l \in Links \ outdated BY <1>7, <3>1, <3>3
    <3> QED BY <1>6, <3>1, <3>3, <3>4
  <2>3. CASE \E d \in GDocs : \E e \in contains[d] : r = <<d, d, e>>
    <3>0. PICK d \in GDocs : \E e \in contains[d] : r = <<d, d, e>> BY <2>3
    <3>1. PICK e \in contains[d] : r = <<d, d, e>> BY <3>0
    <3>2. r[2] = d /\ r[3] = e BY <3>1
    <3>3. Ents \subseteq Names BY GraphAssumption DEF Ents
    <3>4. a # d /\ b # d BY <3>3, GraphAssumption
    <3> QED BY <2>1, <3>2, <3>4 DEF Across
  <2> QED BY <2>1, <2>2, <2>3 DEF Roads
<1>8. ASSUME NEW a \in Ents, NEW b \in Ents, a # b, \A l \in outdated : {l[2], l[3]} # {a, b},
             FindLineage(a, b) # {}
      PROVE  b \in SearchRelatedEntities({a}, 1)
  <2>1. PICK x \in FindLineage(a, b) : TRUE BY <1>8
  <2>2. x \in GDocs \X Links /\ {x[2][2], x[2][3]} = {a, b} /\ share[x[1]][x[2]] > 0 BY <1>5
  <2> DEFINE l == x[2]
             r == <<l, l[2], l[3]>>
  <2>3. l \in Links \ outdated /\ x[1] \in GDocs BY <1>8, <2>2
  <2>4. edge[l] > 0 BY <1>3, <2>2, <2>3
  <2>5. {l[2], l[3]} \subseteq entities BY <1>1, <2>3, <2>4 DEF Between
  <2>6. r \in Roads BY <2>3, <2>4 DEF Roads
  <2>7. r[2] = l[2] /\ r[3] = l[3] OBVIOUS
  <2> HIDE DEF r, l
  <2>8. {l[2], l[3]} = {a, b} BY <2>2 DEF l
  <2>9. a \in entities /\ a \in {r[2], r[3]} /\ b = Across(r, a) BY <1>8, <2>5, <2>7, <2>8 DEF Across
  <2> QED BY <2>6, <2>9, Neighbours
<1>9. ASSUME NEW e \in Ents, NEW l \in FindRelations(e) \ outdated PROVE \E x \in FindLineage(l[2], l[3]) : x[2] = l
  <2>1. l \in Links \ outdated /\ edge[l] > 0 BY DEF FindRelations
  <2> QED BY <1>6, <2>1
<1> QED BY <1>2, <1>7, <1>8, <1>9

\* EdgesAddUp: when no upsert is under way and none was cut or ran beside
\* another of its document, the weight of every edge is the sum of what the
\* documents contribute, and search_related_entities and find_relations
\* agree with find_lineage, but for the edges whose last recomputation was
\* outpaced.  The statement that recomputes an edge reads the shares one by
\* one, as the database commits them, and the edge is set in another step.
THEOREM GraphEdgesAddUp == GraphSpec => []EdgesAddUp
<1>1. GraphInit => GraphInv /\ SharesInv BY GraphStarted, SharesStarted
<1>2. GraphInv /\ SharesInv /\ [GraphNext]_graphVars => (GraphInv /\ SharesInv)'
  BY GraphSteps, SharesSteps DEF SharesInv
<1>3. GraphInv /\ SharesInv => EdgesAddUp BY GraphAddsUp
<1> QED BY <1>1, <1>2, <1>3, PTL DEF GraphSpec

-----------------------------------------------------------------------------
(* What a question relies on: the graph, its migrations, and asking. *)

\* RagIsSound: upserts of ragleap-graph side by side, failing and repeated,
\* leave a document found by exactly the entities of its last text; a
\* migration that is recorded has reached every old node, whatever runners
\* died or met a duplicate; and the questions of any number of threads keep
\* the budget, one voice in a stream, and a history that is the conversation.
THEOREM RagSound == GraphSpec /\ MigSpec /\ AskSpec => []RagIsSound
<1>1. GraphInit => GraphInv /\ SharesInv BY GraphStarted, SharesStarted
<1>2. GraphInv /\ SharesInv /\ [GraphNext]_graphVars => (GraphInv /\ SharesInv)'
  BY GraphSteps, SharesSteps DEF SharesInv
<1>3. MigInit => MigInv BY MigStarted
<1>4. MigInv /\ [MigNext]_migVars => MigInv' BY MigSteps
<1>5. AskInit => AskInv BY AskStarted
<1>6. AskInv /\ [AskNext]_askVars => AskInv' BY AskSteps
<1>7. GraphInv /\ MigInv /\ AskInv => RagIsSound BY GraphInvFinds, AskInvIsSound DEF MigInv, RagIsSound
<1> QED BY <1>1, <1>2, <1>3, <1>4, <1>5, <1>6, <1>7, PTL DEF GraphSpec, MigSpec, AskSpec

-----------------------------------------------------------------------------
(* Voice models: the order of the dependencies. *)

Calls == [model : VoiceModels, at : Nat \ {0}]

\* Whatever a model of the list depends on is in the list.
IsClosed(list) == \A x \in Range(list) : \A k \in DOMAIN DependsOn[x] : DependsOn[x][k] \in Range(list)

\* What a call has passed is done.
CallOK(c, list) ==
  \A k \in DOMAIN DependsOn[c.model] : k < c.at => DependsOn[c.model][k] \in Range(list)

VisitOK(m, v) ==
  /\ v.st \in {"visit", "done", "cycle"}
  /\ v.st # "cycle" => v.order \in Seq(VoiceModels) /\ IsClosed(v.order)
  /\ v.st = "visit" => /\ v.trail \in Seq(Calls) /\ Len(v.trail) > 0 /\ v.trail[1].model = m
                       /\ \A i \in DOMAIN v.trail : CallOK(v.trail[i], v.order)
  /\ v.st = "done" => m \in Range(v.order)

LEMMA VisitIs ==
  ASSUME NEW st, NEW trail, NEW order
  PROVE  Visit(st, trail, order).st = st /\ Visit(st, trail, order).trail = trail
         /\ Visit(st, trail, order).order = order
BY DEF Visit

LEMMA AppendRange ==
  ASSUME NEW S, NEW s \in Seq(S), NEW x \in S
  PROVE  Append(s, x) \in Seq(S) /\ Range(Append(s, x)) = Range(s) \cup {x}
<1>1. Append(s, x) \in Seq(S) /\ Len(Append(s, x)) = Len(s) + 1 /\ Append(s, x)[Len(s) + 1] = x
      /\ \A i \in 1..Len(s) : Append(s, x)[i] = s[i]
  OBVIOUS
<1>2. DOMAIN s = 1..Len(s) /\ DOMAIN Append(s, x) = 1..(Len(s) + 1) /\ Len(s) \in Nat BY <1>1
<1> DEFINE t == Append(s, x)
<1> HIDE DEF t
<1>3. ASSUME NEW i \in DOMAIN t PROVE t[i] \in Range(s) \cup {x}
  <2>1. i = Len(s) + 1 \/ i \in DOMAIN s BY <1>2 DEF t
  <2> QED BY <2>1, <1>1, <1>2 DEF t, Range
<1>4. ASSUME NEW y \in Range(s) \cup {x} PROVE y \in Range(t)
  <2>1. CASE y = x BY <2>1, <1>1, <1>2 DEF t, Range
  <2>2. CASE y \in Range(s)
    <3>1. PICK i \in DOMAIN s : s[i] = y BY <2>2 DEF Range
    <3>2. i \in DOMAIN t /\ t[i] = y BY <3>1, <1>1, <1>2 DEF t
    <3> QED BY <3>2 DEF Range
  <2> QED BY <2>1, <2>2
<1>5. Range(t) = Range(s) \cup {x} BY <1>3, <1>4 DEF Range
<1> QED BY <1>1, <1>5 DEF t

LEMMA FirstVisitOK ==
  ASSUME NEW m \in VoiceModels
  PROVE  VisitOK(m, FirstVisit(m))
<1> DEFINE c == [model |-> m, at |-> 1]
           v == FirstVisit(m)
<1>1. v.st = "visit" /\ v.trail = <<c>> /\ v.order = <<>> BY VisitIs DEF FirstVisit
<1>2. c \in Calls /\ c.model = m /\ c.at = 1 BY DEF Calls
<1> HIDE DEF c, v
<1>3. <<c>> \in Seq(Calls) /\ Len(<<c>>) = 1 /\ <<c>>[1] = c /\ DOMAIN <<c>> = {1} BY <1>2
<1>4. IsClosed(v.order) /\ v.order \in Seq(VoiceModels) BY <1>1 DEF IsClosed, Range
<1>5. CallOK(c, v.order)
  <2>1. DependsOn[m] \in Seq(VoiceModels) BY VoiceAssumption
  <2>2. \A k \in DOMAIN DependsOn[m] : ~(k < 1) BY <2>1
  <2> QED BY <2>2, <1>2 DEF CallOK
<1>6. VisitOK(m, v)
  <2>1. v.trail \in Seq(Calls) /\ Len(v.trail) > 0 /\ v.trail[1].model = m BY <1>1, <1>2, <1>3
  <2>2. \A i \in DOMAIN v.trail : CallOK(v.trail[i], v.order) BY <1>1, <1>3, <1>5
  <2> QED BY <1>1, <1>4, <2>1, <2>2 DEF VisitOK
<1> QED BY <1>6 DEF v

\* The trail with its last call at the next dependency.
CallOn(trail, n) == [trail EXCEPT ![n].at = @ + 1]

LEMMA PassedIs ==
  ASSUME NEW trail \in Seq(Calls), NEW n \in DOMAIN trail
  PROVE  /\ CallOn(trail, n) \in Seq(Calls) /\ Len(CallOn(trail, n)) = Len(trail)
         /\ CallOn(trail, n)[n].model = trail[n].model /\ CallOn(trail, n)[n].at = trail[n].at + 1
         /\ \A i \in DOMAIN trail : i # n => CallOn(trail, n)[i] = trail[i]
<1> DEFINE c == [trail[n] EXCEPT !.at = @ + 1]
<1>1. trail[n] \in Calls BY SMT
<1>2. c \in Calls /\ c.model = trail[n].model /\ c.at = trail[n].at + 1 BY <1>1 DEF Calls
<1>3. CallOn(trail, n) = [trail EXCEPT ![n] = c] BY DEF CallOn
<1> HIDE DEF c
<1> QED BY <1>2, <1>3

LEMMA NextVisitOK ==
  ASSUME NEW m \in VoiceModels, NEW v, VisitOK(m, v)
  PROVE  VisitOK(m, NextVisit(v))
<1> DEFINE n == Len(v.trail)
           c == v.trail[n]
           d == DependsOn[c.model][c.at]
           w == NextVisit(v)
<1>1. CASE v.st # "visit" BY <1>1 DEF NextVisit
<1>2. CASE v.st = "visit"
  <2>1. /\ v.order \in Seq(VoiceModels) /\ IsClosed(v.order) /\ v.trail \in Seq(Calls) /\ n \in Nat /\ n > 0
        /\ v.trail[1].model = m /\ \A i \in DOMAIN v.trail : CallOK(v.trail[i], v.order)
    BY <1>2 DEF VisitOK
  <2>2. DOMAIN v.trail = 1..n /\ n \in DOMAIN v.trail /\ 1 \in DOMAIN v.trail BY <2>1
  <2>3. c \in Calls BY <2>1, <2>2
  <2>4. c.model \in VoiceModels /\ c.at \in Nat \ {0} BY <2>3 DEF Calls
  <2>5. DependsOn[c.model] \in Seq(VoiceModels) BY <2>4, VoiceAssumption
  <2>6. w = IF c.at > Len(DependsOn[c.model])
            THEN Visit(IF n = 1 THEN "done" ELSE "visit", SubSeq(v.trail, 1, n - 1), Append(v.order, c.model))
            ELSE IF d \in Range(v.order)
            THEN Visit("visit", CallOn(v.trail, n), v.order)
            ELSE IF OnTrail(v, d)
            THEN Visit("cycle", <<>>, <<>>)
            ELSE Visit("visit", Append(v.trail, [model |-> d, at |-> 1]), v.order)
    BY <1>2 DEF NextVisit, CallOn
  <2> HIDE DEF w
  <2>7. ASSUME c.at > Len(DependsOn[c.model]) PROVE VisitOK(m, w)
    <3> DEFINE order == Append(v.order, c.model)
               trail == SubSeq(v.trail, 1, n - 1)
               st == IF n = 1 THEN "done" ELSE "visit"
    <3>0. w = Visit(st, trail, order) BY <2>6, <2>7
    <3> HIDE DEF st, trail, order
    <3>1. w.st = st /\ w.trail = trail /\ w.order = order BY <3>0, VisitIs
    <3>2. order \in Seq(VoiceModels) /\ Range(order) = Range(v.order) \cup {c.model}
      BY <2>1, <2>4, AppendRange DEF order
    <3>3. \A k \in DOMAIN DependsOn[c.model] : DependsOn[c.model][k] \in Range(v.order)
      <4>1. CallOK(c, v.order) BY <2>1, <2>2
      <4>2. \A k \in DOMAIN DependsOn[c.model] : k < c.at BY <2>4, <2>5, <2>7
      <4> QED BY <4>1, <4>2 DEF CallOK
    <3>4. IsClosed(order) BY <3>2, <3>3, <2>1 DEF IsClosed
    <3>5. CASE n = 1
      <4>1. w.st = "done" /\ m \in Range(order) BY <3>1, <3>2, <3>5, <2>1, <2>2 DEF st
      <4> QED BY <4>1, <3>1, <3>2, <3>4 DEF VisitOK
    <3>6. CASE n # 1
      <4>1. w.st = "visit" BY <3>1, <3>6 DEF st
      <4>2. trail \in Seq(Calls) /\ Len(trail) = n - 1 /\ \A i \in 1..(n - 1) : trail[i] = v.trail[i]
        BY <2>1, <2>2 DEF trail
      <4>3. Len(trail) > 0 /\ trail[1].model = m
        <5>0. \A k \in Nat : k > 0 /\ k # 1 => k - 1 > 0 /\ 1 \in 1..(k - 1) OBVIOUS
        <5>00. n \in Nat /\ n > 0 BY <2>1
        <5>1. n - 1 > 0 /\ 1 \in 1..(n - 1)
          <6> HIDE DEF n
          <6> QED BY <3>6, <5>0, <5>00
        <5>2. trail[1] = v.trail[1] BY <4>2, <5>1
        <5> QED BY <4>2, <5>1, <5>2, <2>1
      <4>4. ASSUME NEW i \in DOMAIN trail PROVE CallOK(trail[i], order)
        <5>1. i \in DOMAIN v.trail /\ trail[i] = v.trail[i] BY <4>2, <2>2, <2>1
        <5>2. CallOK(v.trail[i], v.order) BY <5>1, <2>1
        <5> QED BY <5>1, <5>2, <3>2 DEF CallOK
      <4> QED BY <4>1, <4>2, <4>3, <4>4, <3>1, <3>2, <3>4 DEF VisitOK
    <3> QED BY <3>5, <3>6
  <2>8. ASSUME ~(c.at > Len(DependsOn[c.model])) /\ d \in Range(v.order) PROVE VisitOK(m, w)
    <3> DEFINE trail == CallOn(v.trail, n)
    <3>1. w.st = "visit" /\ w.trail = trail /\ w.order = v.order BY <2>6, <2>8, VisitIs
    <3>2. /\ trail \in Seq(Calls) /\ Len(trail) = n
          /\ trail[n].model = c.model /\ trail[n].at = c.at + 1
          /\ \A i \in DOMAIN v.trail : i # n => trail[i] = v.trail[i]
      BY <2>1, <2>2, PassedIs
    <3> HIDE DEF trail
    <3>3. CallOK(trail[n], v.order)
      <4>1. CallOK(c, v.order) BY <2>1, <2>2
      <4> SUFFICES ASSUME NEW k \in DOMAIN DependsOn[c.model], k < c.at + 1
                   PROVE  DependsOn[c.model][k] \in Range(v.order)
        BY <3>2 DEF CallOK
      <4>2. k < c.at \/ k = c.at BY <2>4, <2>5
      <4> QED BY <4>1, <4>2, <2>8 DEF CallOK
    <3>4. \A i \in DOMAIN trail : CallOK(trail[i], v.order)
      <4> SUFFICES ASSUME NEW i \in DOMAIN trail PROVE CallOK(trail[i], v.order) OBVIOUS
      <4>1. i \in DOMAIN v.trail BY <3>2, <2>2
      <4>2. CASE i = n BY <4>2, <3>3
      <4>3. CASE i # n BY <4>1, <4>3, <3>2, <2>1
      <4> QED BY <4>2, <4>3
    <3>5. trail[1].model = m
      <4>1. CASE n = 1 BY <4>1, <3>2, <2>1
      <4>2. CASE n # 1 BY <4>2, <3>2, <2>1, <2>2
      <4> QED BY <4>1, <4>2
    <3> QED BY <3>1, <3>2, <3>4, <3>5, <2>1 DEF VisitOK
  <2>9. ASSUME ~(c.at > Len(DependsOn[c.model])) /\ d \notin Range(v.order) /\ OnTrail(v, d) PROVE VisitOK(m, w)
    <3>1. w.st = "cycle" BY <2>6, <2>9, VisitIs
    <3> QED BY <3>1 DEF VisitOK
  <2>10. ASSUME ~(c.at > Len(DependsOn[c.model])) /\ d \notin Range(v.order) /\ ~OnTrail(v, d) PROVE VisitOK(m, w)
    <3> DEFINE e == [model |-> d, at |-> 1]
               trail == Append(v.trail, e)
    <3>0. w = Visit("visit", trail, v.order) BY <2>6, <2>10
    <3>1. w.st = "visit" /\ w.trail = trail /\ w.order = v.order
      <4> HIDE DEF trail
      <4> QED BY <3>0, VisitIs
    <3>11. c.at \in DOMAIN DependsOn[c.model] BY <2>10, <2>4, <2>5
    <3>12. d \in VoiceModels BY <3>11, <2>5
    <3>13. e \in Calls /\ e.model = d /\ e.at = 1 BY <3>12 DEF Calls
    <3> HIDE DEF e, d
    <3>14. trail \in Seq(Calls) /\ Len(trail) = n + 1 /\ trail[n + 1] = e /\ \A i \in 1..n : trail[i] = v.trail[i]
      BY <3>13, <2>1
    <3> HIDE DEF trail
    <3>15. CallOK(e, v.order)
      <4>1. DependsOn[d] \in Seq(VoiceModels) BY <3>12, VoiceAssumption
      <4>2. \A k \in DOMAIN DependsOn[d] : ~(k < 1) BY <4>1
      <4> QED BY <4>2, <3>13 DEF CallOK
    <3>16. \A i \in DOMAIN trail : CallOK(trail[i], v.order)
      <4> SUFFICES ASSUME NEW i \in DOMAIN trail PROVE CallOK(trail[i], v.order) OBVIOUS
      <4>1. i = n + 1 \/ i \in 1..n BY <3>14, <2>1
      <4> QED BY <4>1, <3>14, <3>15, <2>1, <2>2
    <3>17. Len(trail) > 0 /\ trail[1].model = m BY <3>14, <2>1
    <3> QED BY <3>1, <3>14, <3>16, <3>17, <2>1 DEF VisitOK
  <2> QED BY <2>7, <2>8, <2>9, <2>10 DEF w
<1> QED BY <1>1, <1>2

\* The recursion of DependencyOrder, up to a number of steps.
VisitStep(m, n, f) == IF n = 0 THEN FirstVisit(m) ELSE NextVisit(f[n - 1])
VisitsUpTo(m, n) == \E f : f = [i \in 0..n |-> VisitStep(m, i, f)]

LEMMA VisitsNext ==
  ASSUME NEW m, NEW n \in Nat, VisitsUpTo(m, n)
  PROVE  VisitsUpTo(m, n + 1)
<1>1. PICK f : f = [i \in 0..n |-> VisitStep(m, i, f)] BY DEF VisitsUpTo
<1> DEFINE g == [i \in 0..(n + 1) |-> VisitStep(m, i, f)]
<1>2. ASSUME NEW i \in 0..(n + 1) PROVE VisitStep(m, i, f) = VisitStep(m, i, g)
  <2>1. CASE i = 0 BY <2>1 DEF VisitStep
  <2>2. CASE i # 0
    <3>1. i - 1 \in 0..n /\ i - 1 \in 0..(n + 1) BY <2>2
    <3>2. f[i - 1] = VisitStep(m, i - 1, f) BY <1>1, <3>1
    <3>3. g[i - 1] = VisitStep(m, i - 1, f) BY <3>1
    <3> HIDE DEF g
    <3> QED BY <2>2, <3>2, <3>3 DEF VisitStep
  <2> QED BY <2>1, <2>2
<1>3. g = [i \in 0..(n + 1) |-> VisitStep(m, i, g)]
  <2>1. g = [i \in 0..(n + 1) |-> VisitStep(m, i, f)] OBVIOUS
  <2> HIDE DEF g
  <2> QED BY <1>2, <2>1
<1> QED BY <1>3 DEF VisitsUpTo

LEMMA VisitsAll == ASSUME NEW m, NEW n \in Nat PROVE VisitsUpTo(m, n)
<1> DEFINE T == {k \in Nat : ~VisitsUpTo(m, k)}
<1>1. SUFFICES T = {} OBVIOUS
<1>2. SUFFICES ASSUME T # {} PROVE FALSE OBVIOUS
<1>3. PICK k \in T : \A j \in T : k <= j
  <2> T \in SUBSET Nat OBVIOUS
  <2> HIDE DEF T
  <2> QED BY <1>2, LeastOne
<1>4. CASE k = 0
  <2> DEFINE f == [i \in 0..0 |-> FirstVisit(m)]
  <2>1. \A i \in 0..0 : VisitStep(m, i, f) = FirstVisit(m) BY DEF VisitStep
  <2>2. f = [i \in 0..0 |-> VisitStep(m, i, f)]
    <3>1. f = [i \in 0..0 |-> FirstVisit(m)] OBVIOUS
    <3> HIDE DEF f
    <3> QED BY <2>1, <3>1
  <2> QED BY <1>3, <1>4, <2>2 DEF VisitsUpTo
<1>5. CASE k # 0
  <2>1. k - 1 \in Nat /\ k - 1 \notin T /\ (k - 1) + 1 = k BY <1>3, <1>5
  <2>2. VisitsUpTo(m, k - 1) BY <2>1
  <2>3. VisitsUpTo(m, (k - 1) + 1) BY <2>1, <2>2, VisitsNext
  <2> QED BY <1>3, <2>1, <2>3
<1> QED BY <1>4, <1>5

\* The order that is found is closed and has what was asked for.
LEMMA OrderOK == ASSUME NEW m \in VoiceModels PROVE VisitOK(m, DependencyOrder(m))
<1> DEFINE f == CHOOSE f : f = [i \in 0..MaxVisits |-> VisitStep(m, i, f)]
<1>1. DependencyOrder(m) = f[MaxVisits] BY DEF DependencyOrder, VisitStep
<1>2. \E g : g = [i \in 0..MaxVisits |-> VisitStep(m, i, g)]
  <2>1. MaxVisits \in Nat BY VoiceAssumption
  <2> QED BY <2>1, VisitsAll DEF VisitsUpTo
<1>3. f = [i \in 0..MaxVisits |-> VisitStep(m, i, f)] BY <1>2, Zenon
<1> HIDE DEF f
<1>4. \A i \in 0..MaxVisits : f[i] = VisitStep(m, i, f) BY <1>3
<1> DEFINE T == {k \in 0..MaxVisits : ~VisitOK(m, f[k])}
<1>5. T = {}
  <2> SUFFICES ASSUME T # {} PROVE FALSE OBVIOUS
  <2>1. PICK k \in T : \A j \in T : k <= j
    <3> T \in SUBSET Nat OBVIOUS
    <3> HIDE DEF T
    <3> QED BY LeastOne
  <2>2. k \in 0..MaxVisits /\ ~VisitOK(m, f[k]) /\ f[k] = VisitStep(m, k, f) BY <2>1, <1>4
  <2>3. CASE k = 0 BY <2>2, <2>3, FirstVisitOK DEF VisitStep
  <2>4. CASE k # 0
    <3>1. k \in Nat /\ k - 1 \in 0..MaxVisits BY <2>2, <2>4, VoiceAssumption
    <3>2. VisitOK(m, f[k - 1])
      <4>1. k - 1 \notin T
        <5> HIDE DEF T
        <5> QED BY <2>1, <3>1
      <4> QED BY <3>1, <4>1
    <3>3. VisitOK(m, NextVisit(f[k - 1])) BY <3>2, NextVisitOK
    <3> QED BY <2>2, <2>4, <3>3 DEF VisitStep
  <2> QED BY <2>3, <2>4
<1>6. MaxVisits \in 0..MaxVisits BY VoiceAssumption
<1> QED BY <1>1, <1>5, <1>6

\* A closed list with a model has all that the model needs.
LEMMA PlanHasNeeded ==
  ASSUME NEW m \in VoiceModels, Planned(m)
  PROVE  /\ DependencyOrder(m).order \in Seq(VoiceModels)
         /\ Needed(m) \subseteq Range(DependencyOrder(m).order)
         /\ Len(DependencyOrder(m).order) > 0
<1> DEFINE order == DependencyOrder(m).order
<1>1. VisitOK(m, DependencyOrder(m)) BY OrderOK
<1>2. order \in Seq(VoiceModels) /\ IsClosed(order) /\ m \in Range(order)
  BY <1>1 DEF VisitOK, Planned
<1> HIDE DEF order
<1>3. Range(order) \in SUBSET VoiceModels BY <1>2 DEF Range
<1>4. \A x \in Range(order) : \A i \in DOMAIN DependsOn[x] : DependsOn[x][i] \in Range(order)
  BY <1>2 DEF IsClosed
<1>5. Needed(m) \subseteq Range(order) BY <1>2, <1>3, <1>4 DEF Needed
<1>6. Len(order) > 0
  <2>1. PICK i \in DOMAIN order : order[i] = m BY <1>2 DEF Range
  <2> QED BY <1>2, <2>1
<1> QED BY <1>2, <1>5, <1>6 DEF order

-----------------------------------------------------------------------------
(* Voice models: the pulls. *)

PullSteps == {"idle", "check", "open", "download", "install", "ready", "failed"}
PullRecords == [pc : PullSteps, want : VoiceModels \cup {"none"}, plan : Seq(VoiceModels), at : Nat, file : Nat,
                host : AllowedHosts \cup OtherHosts, hops : Nat, token : BOOLEAN, left : BOOLEAN]

\* What a command plans has all it needs, and what it has passed is whole.
PlanOK(held, r) ==
  r.pc \notin {"idle", "failed"} =>
    /\ r.want \in VoiceModels /\ Needed(r.want) \subseteq Range(r.plan) /\ r.at \in DOMAIN r.plan
    /\ \A i \in DOMAIN r.plan : i < r.at \/ r.pc = "ready" => held[r.plan[i]] = "whole"

\* A download that has left the token host has given the token up.
PullOK(held, r) == r \in PullRecords /\ PlanOK(held, r) /\ (r.left => ~r.token)

PullsOK(held, P) == P \in [Pullers -> PullRecords] /\ \A p \in Pullers : PullOK(held, P[p])

Caches == [VoiceModels -> {"absent", "whole", "damaged"}]

PullInv ==
  /\ installed \in Caches
  /\ PullsOK(installed, pull)
  /\ tokenSeenBy \subseteq {TokenHost} /\ tokenAfterExit = FALSE

\* What is whole stays so while a command runs.
WholeStays(held, next) == next \in Caches /\ \A m \in VoiceModels : held[m] = "whole" => next[m] = "whole"

LEMMA PullsKept ==
  ASSUME NEW held, NEW next, WholeStays(held, next), NEW P, PullsOK(held, P),
         NEW p \in Pullers, NEW r, PullOK(next, r)
  PROVE  PullsOK(next, [P EXCEPT ![p] = r])
<1> DEFINE Q == [P EXCEPT ![p] = r]
<1>1. P \in [Pullers -> PullRecords] /\ r \in PullRecords BY DEF PullsOK, PullOK
<1>2. Q \in [Pullers -> PullRecords] /\ Q[p] = r /\ \A q \in Pullers : q # p => Q[q] = P[q] BY <1>1
<1> HIDE DEF Q
<1>3. ASSUME NEW q \in Pullers PROVE PullOK(next, Q[q])
  <2>1. CASE q = p BY <2>1, <1>2
  <2>2. CASE q # p
    <3> DEFINE x == P[q]
    <3>1. PullOK(held, x) /\ Q[q] = x BY <1>2, <2>2 DEF PullsOK
    <3> HIDE DEF x
    <3>2. x \in PullRecords /\ PlanOK(held, x) /\ (x.left => ~x.token) BY <3>1 DEF PullOK
    <3>3. x.plan \in Seq(VoiceModels) BY <3>2 DEF PullRecords
    <3>4. \A i \in DOMAIN x.plan : x.plan[i] \in VoiceModels BY <3>3
    <3>5. PlanOK(next, x) BY <3>2, <3>4 DEF PlanOK, WholeStays
    <3> QED BY <3>1, <3>2, <3>5 DEF PullOK
  <2> QED BY <2>1, <2>2
<1> QED BY <1>2, <1>3 DEF PullsOK, Q

LEMMA NoPullIs ==
  /\ NoPull.pc = "idle" /\ NoPull.want = "none" /\ NoPull.plan = <<>> /\ NoPull.at = 1 /\ NoPull.file = 1
  /\ NoPull.host = TokenHost /\ NoPull.hops = 0 /\ NoPull.token = TRUE /\ NoPull.left = FALSE
  /\ NoPull \in PullRecords
<1>1. <<>> \in Seq(VoiceModels) /\ TokenHost \in AllowedHosts BY VoiceAssumption
<1> QED BY <1>1 DEF NoPull, PullRecords, PullSteps

LEMMA IdleOK == ASSUME NEW held PROVE PullOK(held, NoPull)
BY NoPullIs, Zenon DEF PullOK, PlanOK

FailedPull == [NoPull EXCEPT !.pc = "failed"]

LEMMA FailedOK == ASSUME NEW held PROVE PullOK(held, FailedPull)
<1>1. FailedPull.pc = "failed" /\ FailedPull.left = FALSE /\ FailedPull \in PullRecords
  BY NoPullIs DEF FailedPull, PullRecords, PullSteps
<1> QED BY <1>1, Zenon DEF PullOK, PlanOK

PlannedPull(m, order) == [NoPull EXCEPT !.pc = "check", !.want = m, !.plan = order]

LEMMA PlannedOK ==
  ASSUME NEW held, NEW m \in VoiceModels, Planned(m)
  PROVE  PullOK(held, PlannedPull(m, DependencyOrder(m).order))
<1> DEFINE order == DependencyOrder(m).order
           r == PlannedPull(m, order)
<1>1. order \in Seq(VoiceModels) /\ Needed(m) \subseteq Range(order) /\ Len(order) > 0 BY PlanHasNeeded
<1> HIDE DEF order
<1>2. /\ r.pc = "check" /\ r.want = m /\ r.plan = order /\ r.at = 1 /\ r.token = TRUE /\ r.left = FALSE
      /\ r \in PullRecords
  BY <1>1, NoPullIs DEF PlannedPull, PullRecords, PullSteps
<1> HIDE DEF r
<1>3. 1 \in DOMAIN order /\ \A i \in DOMAIN order : ~(i < 1) BY <1>1
<1>4. PlanOK(held, r) BY <1>1, <1>2, <1>3 DEF PlanOK
<1> QED BY <1>2, <1>4 DEF PullOK, r, order

\* The next model of the plan, or the command is done.
Readied(r) == [r EXCEPT !.pc = "ready"]
AtNext(r) == [r EXCEPT !.pc = "check", !.at = r.at + 1]

LEMMA ReadiedIs ==
  ASSUME NEW r \in PullRecords
  PROVE  /\ Readied(r) \in PullRecords /\ Readied(r).pc = "ready" /\ Readied(r).want = r.want
         /\ Readied(r).plan = r.plan /\ Readied(r).at = r.at
         /\ Readied(r).token = r.token /\ Readied(r).left = r.left
BY DEF Readied, PullRecords, PullSteps

LEMMA AtNextIs ==
  ASSUME NEW r \in PullRecords
  PROVE  /\ AtNext(r) \in PullRecords /\ AtNext(r).pc = "check" /\ AtNext(r).want = r.want
         /\ AtNext(r).plan = r.plan /\ AtNext(r).at = r.at + 1
         /\ AtNext(r).token = r.token /\ AtNext(r).left = r.left
<1> DEFINE k == r.at + 1
<1>1. k \in Nat BY DEF PullRecords
<1>2. AtNext(r) = [r EXCEPT !.pc = "check", !.at = k]
  <2>1. r = [pc |-> r.pc, want |-> r.want, plan |-> r.plan, at |-> r.at, file |-> r.file, host |-> r.host,
             hops |-> r.hops, token |-> r.token, left |-> r.left]
    BY DEF PullRecords
  <2> QED BY <2>1 DEF AtNext
<1> HIDE DEF k
<1>3. /\ AtNext(r) \in PullRecords /\ AtNext(r).pc = "check" /\ AtNext(r).want = r.want
      /\ AtNext(r).plan = r.plan /\ AtNext(r).at = k
      /\ AtNext(r).token = r.token /\ AtNext(r).left = r.left
  BY <1>1, <1>2 DEF PullRecords, PullSteps
<1> QED BY <1>3 DEF k

LEMMA NextOK ==
  ASSUME NEW held, NEW r, PullOK(held, r), r.pc \notin {"idle", "failed"}, r.pc # "ready",
         held[r.plan[r.at]] = "whole"
  PROVE  PullOK(held, IF r.at = Len(r.plan) THEN Readied(r) ELSE AtNext(r))
<1>1. r \in PullRecords /\ (r.left => ~r.token) /\ PlanOK(held, r) BY DEF PullOK
<1>2. r.plan \in Seq(VoiceModels) /\ r.at \in Nat BY <1>1 DEF PullRecords
<1>3. /\ r.want \in VoiceModels /\ Needed(r.want) \subseteq Range(r.plan) /\ r.at \in DOMAIN r.plan
      /\ \A i \in DOMAIN r.plan : i < r.at => held[r.plan[i]] = "whole"
  BY <1>1 DEF PlanOK
<1>4. \A i \in DOMAIN r.plan : i <= r.at => held[r.plan[i]] = "whole"
  <2>1. \A i \in DOMAIN r.plan : i <= r.at => i < r.at \/ i = r.at BY <1>2
  <2> QED BY <2>1, <1>3
<1>5. CASE r.at = Len(r.plan)
  <2> DEFINE w == Readied(r)
  <2>1. /\ w \in PullRecords /\ w.pc = "ready" /\ w.want = r.want /\ w.plan = r.plan /\ w.at = r.at
        /\ w.token = r.token /\ w.left = r.left
    BY <1>1, ReadiedIs
  <2>2. \A i \in DOMAIN r.plan : i <= r.at BY <1>2, <1>5
  <2> HIDE DEF w
  <2>3. PlanOK(held, w) BY <2>1, <2>2, <1>3, <1>4 DEF PlanOK
  <2>4. PullOK(held, w) BY <1>1, <2>1, <2>3, Zenon DEF PullOK
  <2> QED BY <1>5, <2>4 DEF w
<1>6. CASE r.at # Len(r.plan)
  <2> DEFINE w == AtNext(r)
  <2>1. /\ w \in PullRecords /\ w.pc = "check" /\ w.want = r.want /\ w.plan = r.plan /\ w.at = r.at + 1
        /\ w.token = r.token /\ w.left = r.left
    BY <1>1, AtNextIs
  <2> HIDE DEF w
  <2>2. r.at + 1 \in DOMAIN r.plan /\ \A i \in DOMAIN r.plan : i < r.at + 1 => i <= r.at
    BY <1>2, <1>3, <1>6
  <2>3. PlanOK(held, w) BY <2>1, <2>2, <1>3, <1>4 DEF PlanOK
  <2>4. PullOK(held, w) BY <1>1, <2>1, <2>3, Zenon DEF PullOK
  <2> QED BY <1>6, <2>4 DEF w
<1> QED BY <1>5, <1>6

\* The other steps of a command keep its plan.
PlanKept(r, w) ==
  /\ w \in PullRecords /\ w.pc \notin {"idle", "failed", "ready"} /\ w.want = r.want /\ w.plan = r.plan
  /\ w.at = r.at

LEMMA KeptOK ==
  ASSUME NEW held, NEW r, PullOK(held, r), r.pc \notin {"idle", "failed"}, NEW w, PlanKept(r, w),
         w.left => ~w.token
  PROVE  PullOK(held, w)
<1>1. PlanOK(held, r) BY DEF PullOK
<1>2. PlanOK(held, w) BY <1>1 DEF PlanOK, PlanKept
<1> QED BY <1>2 DEF PullOK, PlanKept

StagedPull(r) == [r EXCEPT !.pc = "open", !.file = 1]
DownloadingPull(r) == [r EXCEPT !.pc = "download"]
RedirectedPull(r, h) ==
  [r EXCEPT !.host = h, !.hops = r.hops + 1, !.token = KeepsToken(r), !.left = r.left \/ r.host # TokenHost]
DownloadedPull(r) ==
  [r EXCEPT !.pc = IF r.file = LockFiles THEN "install" ELSE "open",
            !.file = IF @ = LockFiles THEN @ ELSE @ + 1,
            !.host = TokenHost, !.hops = 0, !.token = TRUE, !.left = FALSE]

LEMMA StagedKeeps ==
  ASSUME NEW r \in PullRecords
  PROVE  PlanKept(r, StagedPull(r)) /\ StagedPull(r).left = r.left /\ StagedPull(r).token = r.token
BY DEF StagedPull, PlanKept, PullRecords, PullSteps

LEMMA DownloadingKeeps ==
  ASSUME NEW r \in PullRecords
  PROVE  PlanKept(r, DownloadingPull(r)) /\ DownloadingPull(r).left = r.left /\ DownloadingPull(r).token = r.token
BY DEF DownloadingPull, PlanKept, PullRecords, PullSteps

LEMMA RedirectedKeeps ==
  ASSUME NEW r \in PullRecords, r.pc = "open", NEW h \in AllowedHosts \cup OtherHosts
  PROVE  /\ PlanKept(r, RedirectedPull(r, h))
         /\ RedirectedPull(r, h).left = (r.left \/ r.host # TokenHost)
         /\ RedirectedPull(r, h).token = KeepsToken(r)
<1> DEFINE k == r.hops + 1
           b == KeepsToken(r)
           c == r.left \/ r.host # TokenHost
<1>1. k \in Nat BY DEF PullRecords
<1>2. b \in BOOLEAN /\ c \in BOOLEAN BY Zenon DEF KeepsToken, PullRecords
<1>3. RedirectedPull(r, h) = [r EXCEPT !.host = h, !.hops = k, !.token = b, !.left = c]
  <2>1. r = [pc |-> r.pc, want |-> r.want, plan |-> r.plan, at |-> r.at, file |-> r.file, host |-> r.host,
             hops |-> r.hops, token |-> r.token, left |-> r.left]
    BY DEF PullRecords
  <2> QED BY <2>1 DEF RedirectedPull
<1> HIDE DEF k, b, c
<1>4. PlanKept(r, RedirectedPull(r, h)) /\ RedirectedPull(r, h).left = c /\ RedirectedPull(r, h).token = b
  BY <1>1, <1>2, <1>3 DEF PlanKept, PullRecords, PullSteps
<1> QED BY <1>4 DEF b, c

LEMMA DownloadedKeeps ==
  ASSUME NEW r \in PullRecords
  PROVE  PlanKept(r, DownloadedPull(r)) /\ DownloadedPull(r).left = FALSE
<1> DEFINE s == IF r.file = LockFiles THEN "install" ELSE "open"
           k == IF r.file = LockFiles THEN r.file ELSE r.file + 1
<1>1. k \in Nat BY DEF PullRecords
<1>2. s \in {"install", "open"} OBVIOUS
<1>3. DownloadedPull(r) = [r EXCEPT !.pc = s, !.file = k, !.host = TokenHost, !.hops = 0, !.token = TRUE,
                                    !.left = FALSE]
  <2>1. r = [pc |-> r.pc, want |-> r.want, plan |-> r.plan, at |-> r.at, file |-> r.file, host |-> r.host,
             hops |-> r.hops, token |-> r.token, left |-> r.left]
    BY DEF PullRecords
  <2> QED BY <2>1 DEF DownloadedPull
<1>4. TokenHost \in AllowedHosts BY VoiceAssumption
<1> HIDE DEF s, k
<1> DEFINE w == DownloadedPull(r)
<1>5. w.pc = s /\ w.want = r.want /\ w.plan = r.plan /\ w.at = r.at /\ w.left = FALSE
  BY <1>3 DEF PullRecords
<1>6. s \in PullSteps /\ s \notin {"idle", "failed", "ready"} BY <1>2 DEF PullSteps
<1>7. w \in PullRecords
  <2> TokenHost \in AllowedHosts \cup OtherHosts /\ 0 \in Nat BY <1>4
  <2> HIDE DEF PullSteps
  <2> QED BY <1>1, <1>3, <1>6 DEF PullRecords
<1> HIDE DEF w
<1>8. PlanKept(r, w) BY <1>5, <1>6, <1>7 DEF PlanKept
<1> QED BY <1>5, <1>8 DEF w

LEMMA PullInitHolds == PullInit => PullInv
<1> SUFFICES ASSUME PullInit PROVE PullInv OBVIOUS
<1>1. installed \in Caches BY DEF PullInit, Caches
<1>2. PullsOK(installed, pull)
  <2>1. pull = [p \in Pullers |-> NoPull] BY DEF PullInit
  <2> QED BY <2>1, NoPullIs, IdleOK DEF PullsOK
<1> QED BY <1>1, <1>2 DEF PullInit, PullInv

\* The step of one command: what it holds afterwards is sound, and nothing whole is lost.
LEMMA PullStep ==
  ASSUME PullInv, NEW p \in Pullers, NEW r, pull' = [pull EXCEPT ![p] = r], WholeStays(installed, installed'),
         PullOK(installed', r), tokenSeenBy' \subseteq {TokenHost}, tokenAfterExit' = FALSE
  PROVE  PullInv'
<1>1. PullsOK(installed', [pull EXCEPT ![p] = r]) BY PullsKept DEF PullInv
<1>2. installed' \in Caches BY DEF WholeStays
<1> QED BY <1>1, <1>2, Zenon DEF PullInv

LEMMA SameCache == ASSUME PullInv, UNCHANGED installed PROVE WholeStays(installed, installed')
BY DEF WholeStays, PullInv

LEMMA PullOf ==
  ASSUME PullInv, NEW p \in Pullers
  PROVE  /\ pull[p] \in PullRecords /\ PullOK(installed, pull[p]) /\ pull \in [Pullers -> PullRecords]
         /\ (pull[p].left => ~pull[p].token)
         /\ pull[p].pc \notin {"idle", "failed"} => Model(p) \in VoiceModels
<1>1. pull[p] \in PullRecords /\ PullOK(installed, pull[p]) /\ pull \in [Pullers -> PullRecords]
      /\ (pull[p].left => ~pull[p].token)
  BY DEF PullInv, PullsOK, PullOK
<1>2. ASSUME pull[p].pc \notin {"idle", "failed"} PROVE Model(p) \in VoiceModels
  <2>1. pull[p].at \in DOMAIN pull[p].plan BY <1>1, <1>2 DEF PullOK, PlanOK
  <2>2. pull[p].plan \in Seq(VoiceModels) BY <1>1 DEF PullRecords
  <2> QED BY <2>1, <2>2 DEF Model
<1> QED BY <1>1, <1>2

LEMMA TokenKept == PullInv => tokenSeenBy \subseteq {TokenHost} /\ tokenAfterExit = FALSE
BY DEF PullInv

\* Aborting, and the steps that keep the cache and the token.
LEMMA PullAborts ==
  ASSUME PullInv, NEW p \in Pullers, pull' = Aborted(p), UNCHANGED <<installed, tokenSeenBy, tokenAfterExit>>
  PROVE  PullInv'
<1>1. pull' = [pull EXCEPT ![p] = FailedPull] BY DEF Aborted, FailedPull
<1> QED BY <1>1, FailedOK, SameCache, TokenKept, PullStep

LEMMA StartPullKeeps == ASSUME PullInv, NEW p \in Pullers, StartPull(p) PROVE PullInv'
<1>1. PICK m \in VoiceModels :
        pull' = IF Planned(m)
                THEN [pull EXCEPT ![p] = PlannedPull(m, DependencyOrder(m).order)]
                ELSE Aborted(p)
  BY DEF StartPull, PlannedPull
<1>2. UNCHANGED <<installed, tokenSeenBy, tokenAfterExit>> BY DEF StartPull
<1>3. CASE Planned(m)
  <2> DEFINE r == PlannedPull(m, DependencyOrder(m).order)
  <2>1. PullOK(installed', r) BY <1>3, PlannedOK
  <2>2. pull' = [pull EXCEPT ![p] = r] BY <1>1, <1>3
  <2> HIDE DEF r
  <2> QED BY <2>1, <2>2, <1>2, SameCache, TokenKept, PullStep
<1>4. CASE ~Planned(m) BY <1>1, <1>2, <1>4, PullAborts
<1> QED BY <1>3, <1>4

LEMMA RefuseKeeps == ASSUME PullInv, NEW p \in Pullers, Refuse(p) PROVE PullInv'
BY PullAborts DEF Refuse

LEMMA NextModelIs ==
  ASSUME PullInv, NEW p \in Pullers, NextModel(p)
  PROVE  pull' = [pull EXCEPT ![p] = IF pull[p].at = Len(pull[p].plan) THEN Readied(pull[p]) ELSE AtNext(pull[p])]
BY DEF NextModel, Readied, AtNext

LEMMA AlreadyPresentKeeps == ASSUME PullInv, NEW p \in Pullers, AlreadyPresent(p) PROVE PullInv'
<1> DEFINE r == pull[p]
           w == IF r.at = Len(r.plan) THEN Readied(r) ELSE AtNext(r)
<1>1. r.pc = "check" /\ installed[r.plan[r.at]] = "whole" /\ NextModel(p)
      /\ UNCHANGED <<installed, tokenSeenBy, tokenAfterExit>>
  BY DEF AlreadyPresent, VerifyDir, Model
<1>2. pull' = [pull EXCEPT ![p] = w] BY <1>1, NextModelIs
<1>3. PullOK(installed, r) BY PullOf
<1> HIDE DEF r
<1>4. PullOK(installed, w) BY <1>1, <1>3, NextOK
<1> HIDE DEF w
<1>5. PullOK(installed', w) BY <1>1, <1>4
<1> QED BY <1>1, <1>2, <1>5, SameCache, TokenKept, PullStep

LEMMA StageKeeps == ASSUME PullInv, NEW p \in Pullers, Stage(p) PROVE PullInv'
<1> DEFINE r == pull[p]
           w == StagedPull(r)
<1>1. r.pc = "check" /\ UNCHANGED <<installed, tokenSeenBy, tokenAfterExit>> BY DEF Stage
<1>2. pull' = [pull EXCEPT ![p] = w] BY DEF Stage, StagedPull
<1>3. PullOK(installed, r) /\ r \in PullRecords /\ (r.left => ~r.token) BY PullOf
<1> HIDE DEF r
<1>4. PlanKept(r, w) /\ w.left = r.left /\ w.token = r.token BY <1>3, StagedKeeps
<1> HIDE DEF w
<1>5. PullOK(installed, w) BY <1>1, <1>3, <1>4, KeptOK
<1>6. PullOK(installed', w) BY <1>1, <1>5
<1> QED BY <1>1, <1>2, <1>6, SameCache, TokenKept, PullStep

LEMMA HopKeeps == ASSUME PullInv, NEW p \in Pullers, Hop(p) PROVE PullInv'
<1> DEFINE r == pull[p]
           sends == KeepsToken(r) /\ r.host = TokenHost
<1>1. r.pc = "open" /\ UNCHANGED installed BY DEF Hop
<1>2. PullOK(installed, r) /\ r \in PullRecords /\ (r.left => ~r.token) BY PullOf
<1>3. \/ pull' = Aborted(p) /\ UNCHANGED <<tokenSeenBy, tokenAfterExit>>
      \/ /\ tokenSeenBy' = IF sends THEN tokenSeenBy \cup {r.host} ELSE tokenSeenBy
         /\ tokenAfterExit' = (tokenAfterExit \/ (sends /\ r.left))
         /\ \/ pull' = [pull EXCEPT ![p] = DownloadingPull(r)]
            \/ \E h \in AllowedHosts \cup OtherHosts : pull' = [pull EXCEPT ![p] = RedirectedPull(r, h)]
  <2>1. [pull EXCEPT ![p].pc = "download"] = [pull EXCEPT ![p] = DownloadingPull(r)]
    BY PullOf DEF DownloadingPull
  <2> QED BY <2>1 DEF Hop, RedirectedPull
<1>4. CASE pull' = Aborted(p) /\ UNCHANGED <<tokenSeenBy, tokenAfterExit>> BY <1>1, <1>4, PullAborts
<1>5. ASSUME tokenSeenBy' = IF sends THEN tokenSeenBy \cup {r.host} ELSE tokenSeenBy,
             tokenAfterExit' = (tokenAfterExit \/ (sends /\ r.left))
      PROVE  tokenSeenBy' \subseteq {TokenHost} /\ tokenAfterExit' = FALSE
  <2>1. ~(sends /\ r.left) BY <1>2, Zenon DEF KeepsToken
  <2>2. sends => r.host = TokenHost OBVIOUS
  <2> HIDE DEF sends, r
  <2>3. tokenSeenBy' \subseteq {TokenHost} BY <1>5, <2>2, TokenKept
  <2>4. tokenAfterExit' = FALSE BY <1>5, <2>1, TokenKept
  <2> QED BY <2>3, <2>4
<1> HIDE DEF r, sends
<1>6. ASSUME tokenSeenBy' \subseteq {TokenHost}, tokenAfterExit' = FALSE,
             pull' = [pull EXCEPT ![p] = DownloadingPull(r)]
      PROVE  PullInv'
  <2> DEFINE w == DownloadingPull(r)
  <2>1. PlanKept(r, w) /\ w.left = r.left /\ w.token = r.token BY <1>2, DownloadingKeeps
  <2>2. pull' = [pull EXCEPT ![p] = w] BY <1>6
  <2> HIDE DEF w
  <2>3. PullOK(installed, w) BY <1>1, <1>2, <2>1, KeptOK
  <2>4. PullOK(installed', w) BY <1>1, <2>3
  <2> QED BY <1>1, <1>6, <2>2, <2>4, SameCache, PullStep
<1>7. ASSUME tokenSeenBy' \subseteq {TokenHost}, tokenAfterExit' = FALSE, NEW h \in AllowedHosts \cup OtherHosts,
             pull' = [pull EXCEPT ![p] = RedirectedPull(r, h)]
      PROVE  PullInv'
  <2> DEFINE w == RedirectedPull(r, h)
  <2>1. PlanKept(r, w) /\ w.left = (r.left \/ r.host # TokenHost) /\ w.token = KeepsToken(r)
    BY <1>1, <1>2, RedirectedKeeps
  <2>2. pull' = [pull EXCEPT ![p] = w] BY <1>7
  <2> HIDE DEF w
  <2>3. w.left => ~w.token BY <1>2, <2>1, Zenon DEF KeepsToken
  <2>4. PullOK(installed, w) BY <1>1, <1>2, <2>1, <2>3, KeptOK
  <2>5. PullOK(installed', w) BY <1>1, <2>4
  <2> QED BY <1>1, <1>7, <2>2, <2>5, SameCache, PullStep
<1> QED BY <1>3, <1>4, <1>5, <1>6, <1>7

LEMMA DownloadFileKeeps == ASSUME PullInv, NEW p \in Pullers, DownloadFile(p) PROVE PullInv'
<1> DEFINE r == pull[p]
           w == DownloadedPull(r)
<1>1. r.pc = "download" /\ UNCHANGED <<installed, tokenSeenBy, tokenAfterExit>>
      /\ (pull' = Aborted(p) \/ pull' = [pull EXCEPT ![p] = w])
  BY PullOf DEF DownloadFile, DownloadedPull, CacheAfterFile
<1>2. CASE pull' = Aborted(p) BY <1>1, <1>2, PullAborts
<1>3. CASE pull' = [pull EXCEPT ![p] = w]
  <2>1. PullOK(installed, r) /\ r \in PullRecords BY PullOf
  <2> HIDE DEF r
  <2>2. PlanKept(r, w) /\ w.left = FALSE BY <2>1, DownloadedKeeps
  <2> HIDE DEF w
  <2>3. PullOK(installed, w) BY <1>1, <2>1, <2>2, KeptOK
  <2>4. PullOK(installed', w) BY <1>1, <2>3
  <2> QED BY <1>1, <1>3, <2>4, SameCache, TokenKept, PullStep
<1> QED BY <1>1, <1>2, <1>3

LEMMA InstallKeeps == ASSUME PullInv, NEW p \in Pullers, Install(p) PROVE PullInv'
<1> DEFINE r == pull[p]
           w == IF r.at = Len(r.plan) THEN Readied(r) ELSE AtNext(r)
<1>1. r.pc = "install" /\ UNCHANGED <<tokenSeenBy, tokenAfterExit>> BY DEF Install
<1>2. CASE installed[Model(p)] = "absent"
  <2>1. installed' = [installed EXCEPT ![Model(p)] = "whole"] /\ NextModel(p) BY <1>2 DEF Install
  <2>2. pull' = [pull EXCEPT ![p] = w] BY <2>1, NextModelIs
  <2>3. PullOK(installed, r) /\ Model(p) \in VoiceModels /\ r \in PullRecords BY <1>1, PullOf
  <2>4. installed \in Caches BY DEF PullInv
  <2>5. WholeStays(installed, installed') /\ installed'[Model(p)] = "whole"
    BY <2>1, <2>3, <2>4 DEF WholeStays, Caches
  <2>6. installed'[r.plan[r.at]] = "whole" BY <2>5 DEF Model
  <2> HIDE DEF r
  <2>7. PullOK(installed', r)
    <3>1. PlanOK(installed, r) /\ r.plan \in Seq(VoiceModels) BY <2>3 DEF PullOK, PullRecords
    <3>2. \A i \in DOMAIN r.plan : r.plan[i] \in VoiceModels BY <3>1
    <3>3. PlanOK(installed', r) BY <3>1, <3>2, <2>5 DEF PlanOK, WholeStays
    <3> QED BY <3>3, <2>3 DEF PullOK
  <2>8. PullOK(installed', w) BY <1>1, <2>6, <2>7, NextOK
  <2> HIDE DEF w
  <2> QED BY <1>1, <2>2, <2>5, <2>8, TokenKept, PullStep
<1>3. CASE installed[Model(p)] # "absent"
  <2>1. pull' = Aborted(p) /\ UNCHANGED installed BY <1>3 DEF Install
  <2> QED BY <1>1, <2>1, PullAborts
<1> QED BY <1>2, <1>3

LEMMA KilledKeeps == ASSUME PullInv, NEW p \in Pullers, Killed(p) PROVE PullInv'
BY IdleOK, SameCache, TokenKept, PullStep DEF Killed

LEMMA CacheChangesKeeps == ASSUME PullInv, CacheChanges PROVE PullInv'
<1>1. PICK m \in VoiceModels, d \in {"damaged", "absent"} : installed' = [installed EXCEPT ![m] = d]
  BY DEF CacheChanges
<1>2. installed' \in Caches BY <1>1 DEF PullInv, Caches
<1>3. pull' = [p \in Pullers |-> NoPull] /\ UNCHANGED <<tokenSeenBy, tokenAfterExit>> BY DEF CacheChanges
<1>4. PullsOK(installed', pull') BY <1>3, NoPullIs, IdleOK DEF PullsOK
<1> QED BY <1>2, <1>3, <1>4, TokenKept, Zenon DEF PullInv

LEMMA PullInvStep == PullInv /\ [PullNext]_pullVars => PullInv'
<1> SUFFICES ASSUME PullInv, [PullNext]_pullVars PROVE PullInv' OBVIOUS
<1>1. CASE CacheChanges BY <1>1, CacheChangesKeeps
<1>2. ASSUME NEW p \in Pullers,
             \/ StartPull(p) \/ Refuse(p) \/ AlreadyPresent(p) \/ Stage(p) \/ Hop(p)
             \/ DownloadFile(p) \/ Install(p) \/ Killed(p)
      PROVE  PullInv'
  BY <1>2, StartPullKeeps, RefuseKeeps, AlreadyPresentKeeps, StageKeeps, HopKeeps, DownloadFileKeeps,
     InstallKeeps, KilledKeeps
<1>3. CASE UNCHANGED pullVars
  <2>1. UNCHANGED <<installed, pull, tokenSeenBy, tokenAfterExit>> BY <1>3 DEF pullVars
  <2>2. PullsOK(installed', pull') BY <2>1 DEF PullInv
  <2> QED BY <2>1, <2>2 DEF PullInv
<1> QED BY <1>1, <1>2, <1>3 DEF PullNext

LEMMA PullInvSound == PullInv => PullIsSound
<1> SUFFICES ASSUME PullInv PROVE PullIsSound OBVIOUS
<1>1. NothingPartial BY DEF PullInv, Caches, NothingPartial
<1>2. TokenStaysHome BY DEF PullInv, TokenStaysHome
<1>3. ReadyIsWhole
  <2> SUFFICES ASSUME NEW p \in Pullers, pull[p].pc = "ready", NEW m \in Needed(pull[p].want)
               PROVE  installed[m] = "whole"
    BY DEF ReadyIsWhole
  <2>1. PlanOK(installed, pull[p]) BY PullOf DEF PullOK
  <2>2. Needed(pull[p].want) \subseteq Range(pull[p].plan)
        /\ \A i \in DOMAIN pull[p].plan : installed[pull[p].plan[i]] = "whole"
    BY <2>1 DEF PlanOK
  <2> QED BY <2>2 DEF Range
<1> QED BY <1>1, <1>2, <1>3 DEF PullIsSound

(***************************************************************************)
(* However many pulls run at once and wherever they are killed, the cache  *)
(* holds whole models or none, a pull that says a model is ready has it    *)
(* and all it depends on whole, and the access token stays with its host   *)
(* (pull_model, open_url and dependency_order of ragleap_voice).           *)
(***************************************************************************)
THEOREM PullSound == PullSpec => []PullIsSound
<1>1. PullSpec => []PullInv BY PullInitHolds, PullInvStep, PTL DEF PullSpec
<1> QED BY <1>1, PullInvSound, PTL
=============================================================================
