---------------------------- MODULE MemoryStore -----------------------------
(***************************************************************************)
(* ragleap-memory's SQLiteStore and ragleap-security's AuditLog.  Every    *)
(* operation works inside a scope; every change is one transaction that    *)
(* appends to the audit log before it commits.  Callers are processes that *)
(* share the database file and the log, and may be killed at any step.     *)
(*                                                                         *)
(* One tenant, whose scopes are the subjects and NoSubject, the tenant     *)
(* itself: the other parts of a scope are filtered in the same way.        *)
(*                                                                         *)
(* The database is SQLite in WAL mode.  What a transaction wrote or        *)
(* deleted stays readable in the -wal file beside the database until a     *)
(* checkpoint has copied and truncated it, and the text of a deleted row   *)
(* stays in the full-text index until optimize has rewritten that.  Both   *)
(* wait at most busy_timeout for whoever reads or writes the file.         *)
(***************************************************************************)
EXTENDS Naturals, Sequences, FiniteSets

CONSTANTS
    Callers,
    Memories,               \* identifiers (uuid4: each is given once)
    NoMemory,
    Subjects, NoSubject,
    MaxAudit, MaxKills      \* bounds

VARIABLES
    memories,       \* the table: for each identifier its row, or NoMemory
    stored,         \* identifiers some transaction committed
    indexed,        \* those whose text the tables and the index hold
    traces,         \* those whose text is in the database file or its -wal file
    promised,       \* those an erase() that returned has removed
    lingering,      \* those of them whose checkpoint was cut short, with no full
                    \* checkpoint since (history)
    dbTx,           \* the write transaction: who holds it and the table it will commit
    auditLog, torn, \* the records of the log; is its last line cut off?
    logHolder,      \* who holds the log's lock
    caller, ttlPassed, kills

memVars == <<memories, stored, indexed, traces, promised, lingering, dbTx, auditLog, torn, logHolder, caller,
             ttlPassed, kills>>

Scopes == Subjects \cup {NoSubject}
Nobody == "nobody"
NoTx == [by |-> Nobody, table |-> <<>>]
Resting == [pc |-> "idle", event |-> "none", new |-> NoMemory, gone |-> {}, last |-> 0]

MemoryRows == [scope : Scopes, expires : BOOLEAN, supersededBy : Memories \cup {NoMemory},
               derivedFrom : SUBSET Memories, replaces : Memories \cup {NoMemory}]

ASSUME MemoryAssumption ==
    /\ NoMemory \notin Memories /\ NoMemory \notin MemoryRows
    /\ Nobody \notin Callers

MemInit ==
    /\ memories = [m \in Memories |-> NoMemory]
    /\ stored = {} /\ indexed = {} /\ traces = {} /\ promised = {} /\ lingering = {}
    /\ dbTx = NoTx
    /\ auditLog = <<>> /\ torn = FALSE /\ logHolder = Nobody
    /\ caller = [c \in Callers |-> Resting]
    /\ ttlPassed = FALSE /\ kills = 0

----------------------------------------------------------------------------
(* The rows. *)

Covers(s, t) == s = NoSubject \/ s = t

\* _scope_clause: the rows of a table a scope can see.
Visible(table, s) == {m \in Memories : table[m] # NoMemory /\ Covers(s, table[m].scope)}

Expired(row) == row.expires /\ ttlPassed

\* What search() returns at most: neither superseded nor expired.
Found(s) == {m \in Visible(memories, s) : memories[m].supersededBy = NoMemory /\ ~Expired(memories[m])}

Row(s, expires, derived, old) ==
    [scope |-> s, expires |-> expires, supersededBy |-> NoMemory, derivedFrom |-> derived, replaces |-> old]

\* A new identifier has never been given before, not by a transaction that was rolled back either.
Unused == {m \in Memories : /\ m \notin stored
                            /\ \A c \in Callers : caller[c].new # m
                            /\ \A i \in DOMAIN auditLog : auditLog[i].new # m}

\* BEGIN IMMEDIATE and the statements of an operation; its audit record comes next.
Begin(c, event, table, new, gone) ==
    /\ caller[c].pc = "idle" /\ dbTx = NoTx /\ Len(auditLog) < MaxAudit
    /\ dbTx' = [by |-> c, table |-> table]
    /\ caller' = [caller EXCEPT ![c] =
                                    [Resting EXCEPT !.pc = "audit", !.event = event, !.new = new, !.gone = gone]]
    /\ UNCHANGED <<memories, stored, indexed, traces, promised, lingering, auditLog, torn,
                   logHolder, ttlPassed, kills>>

\* As the code would be if add() took the identifiers as they come.
DerivableAll(s) == {m \in Memories : memories[m] # NoMemory}

\* What an entry may say it is derived from.
Derivable(s) == Visible(memories, s)

Add(c) ==
    \E s \in Scopes, m \in Unused, expires \in BOOLEAN :
        \E derived \in {{}} \cup {{d} : d \in Derivable(s)} :
            Begin(c, "add", [memories EXCEPT ![m] = Row(s, expires, derived, NoMemory)], m, {})

\* As the code would be if an entry could be superseded again.
MaySupersedeAgain(m) == TRUE

MaySupersede(m) == memories[m].supersededBy = NoMemory

\* The replacement is stored in the old entry's scope, whoever replaces it.
Supersede(c) ==
    \E s \in Scopes, m \in Unused, expires \in BOOLEAN :
        \E old \in Visible(memories, s) :
            /\ MaySupersede(old)
            /\ Begin(c, "supersede",
                     [memories EXCEPT ![m] = Row(memories[old].scope, expires, {old}, old),
                                      ![old].supersededBy = m], m, {old})

WithoutMemories(gone) == [m \in Memories |-> IF m \in gone THEN NoMemory ELSE memories[m]]

Forget(c) == \E s \in Scopes : \E ids \in SUBSET Visible(memories, s) :
    ids # {} /\ Begin(c, "forget", WithoutMemories(ids), NoMemory, ids)

SweepExpired(c) == \E s \in Scopes :
    LET gone == {m \in Visible(memories, s) : Expired(memories[m])}
    IN  Begin(c, "sweep", WithoutMemories(gone), NoMemory, gone)

Erase(c) == \E s \in Scopes :
    LET gone == Visible(memories, s)
    IN  Begin(c, "erase", WithoutMemories(gone), NoMemory, gone)

\* A record of somebody else's, who uses the same log.
Note(c) ==
    /\ caller[c].pc = "idle" /\ Len(auditLog) < MaxAudit
    /\ caller' = [caller EXCEPT ![c] = [Resting EXCEPT !.pc = "audit", !.event = "note"]]
    /\ UNCHANGED <<memories, stored, indexed, traces, promised, lingering, dbTx, auditLog,
                   torn, logHolder, ttlPassed, kills>>

----------------------------------------------------------------------------
(* The audit log. *)

RolledBack(c) == IF dbTx.by = c THEN NoTx ELSE dbTx

\* As the code would be if append() took no lock.
LogIsFreeAlways == TRUE

\* The thread lock and the flock of the .lock file.
LogIsFree == logHolder = Nobody

\* _last(): the number and hash of the last record, or a refusal when it is incomplete, which
\* rolls the transaction back.
ReadLast(c) ==
    /\ caller[c].pc = "audit" /\ LogIsFree
    /\ IF torn THEN /\ caller' = [caller EXCEPT ![c] = Resting]
                    /\ dbTx' = RolledBack(c)
                    /\ UNCHANGED logHolder
               ELSE /\ caller' = [caller EXCEPT ![c].pc = "append", ![c].last = Len(auditLog)]
                    /\ logHolder' = c
                    /\ UNCHANGED dbTx
    /\ UNCHANGED <<memories, stored, indexed, traces, promised, lingering, auditLog, torn, ttlPassed, kills>>

\* The record, written and synced.
Append_(c) ==
    /\ caller[c].pc = "append"
    /\ auditLog' = Append(auditLog, [seq |-> caller[c].last + 1, prev |-> caller[c].last,
                                     event |-> caller[c].event, new |-> caller[c].new, gone |-> caller[c].gone])
    /\ logHolder' = Nobody
    /\ caller' = [caller EXCEPT ![c].pc = IF dbTx.by = c THEN "commit" ELSE "idle"]
    /\ UNCHANGED <<memories, stored, indexed, traces, promised, lingering, dbTx, torn, ttlPassed, kills>>

\* COMMIT; the statements and the triggers have put new text into the file and left old text in
\* its index.  erase() goes on with compact(), outside this transaction.
Commit(c) ==
    /\ caller[c].pc = "commit"
    /\ memories' = dbTx.table
    /\ stored' = IF caller[c].new = NoMemory THEN stored ELSE stored \cup {caller[c].new}
    /\ indexed' = IF caller[c].new = NoMemory THEN indexed ELSE indexed \cup {caller[c].new}
    /\ traces' = IF caller[c].new = NoMemory THEN traces ELSE traces \cup {caller[c].new}
    /\ dbTx' = NoTx
    /\ caller' = [caller EXCEPT ![c] = IF @.event = "erase" THEN [@ EXCEPT !.pc = "optimize"] ELSE Resting]
    /\ UNCHANGED <<promised, lingering, auditLog, torn, logHolder, ttlPassed, kills>>

\* compact() called by itself, as after a forget().
CallCompact(c) ==
    /\ caller[c].pc = "idle"
    /\ caller' = [caller EXCEPT ![c] = [Resting EXCEPT !.pc = "optimize"]]
    /\ UNCHANGED <<memories, stored, indexed, traces, promised, lingering, dbTx, auditLog,
                   torn, logHolder, ttlPassed, kills>>

\* As the code would be if the index were rewritten for what the caller added only.
OptimizedNothing == indexed

\* The index, rewritten, holds the text of the rows alone.
Optimized == {m \in indexed : memories[m] # NoMemory}

\* optimize is a write transaction of its own: it raises out of erase() when another connection
\* holds the write lock for too long.
Optimize(c) ==
    /\ caller[c].pc = "optimize"
    /\ \/ /\ dbTx = NoTx
          /\ indexed' = Optimized
          /\ caller' = [caller EXCEPT ![c].pc = "checkpoint"]
       \/ /\ dbTx # NoTx
          /\ caller' = [caller EXCEPT ![c] = Resting]
          /\ UNCHANGED indexed
    /\ UNCHANGED <<memories, stored, traces, promised, lingering, dbTx, auditLog, torn,
                   logHolder, ttlPassed, kills>>

\* wal_checkpoint(TRUNCATE), and erase() returns: with nobody beside it for long enough the files
\* hold what the tables and the index do.  Beside a reader or a writer, of any process, it gives up
\* after the timeout and says so in a result nobody reads: the -wal file stays as it was.
Checkpoint(c) ==
    /\ caller[c].pc = "checkpoint"
    /\ \/ /\ dbTx = NoTx
          /\ traces' = indexed
          /\ lingering' = {}
       \/ /\ lingering' = lingering \cup caller[c].gone
          /\ UNCHANGED traces
    /\ promised' = promised \cup caller[c].gone
    /\ caller' = [caller EXCEPT ![c] = Resting]
    /\ UNCHANGED <<memories, stored, indexed, dbTx, auditLog, torn, logHolder, ttlPassed, kills>>

\* A process is killed: its transaction is rolled back, its locks are released, and a record it
\* was writing may be cut off.
Kill(c) ==
    /\ caller[c].pc # "idle" /\ kills < MaxKills
    /\ kills' = kills + 1
    /\ dbTx' = RolledBack(c)
    /\ logHolder' = IF logHolder = c THEN Nobody ELSE logHolder
    /\ torn' \in IF caller[c].pc = "append" THEN {FALSE, TRUE} ELSE {torn}
    /\ caller' = [caller EXCEPT ![c] = Resting]
    /\ UNCHANGED <<memories, stored, indexed, traces, promised, lingering, auditLog, ttlPassed>>

TtlPasses ==
    /\ ~ttlPassed /\ ttlPassed' = TRUE
    /\ UNCHANGED <<memories, stored, indexed, traces, promised, lingering, dbTx, auditLog,
                   torn, logHolder, caller, kills>>

MemNext ==
    \/ TtlPasses
    \/ \E c \in Callers :
        \/ Add(c) \/ Supersede(c) \/ Forget(c) \/ SweepExpired(c) \/ Erase(c) \/ Note(c)
        \/ ReadLast(c) \/ Append_(c) \/ Commit(c) \/ CallCompact(c) \/ Optimize(c)
        \/ Checkpoint(c) \/ Kill(c)

MemSpec == MemInit /\ [][MemNext]_memVars

----------------------------------------------------------------------------
MemTypeOK ==
    /\ stored \subseteq Memories /\ indexed \subseteq traces /\ traces \subseteq stored
    /\ lingering \subseteq promised /\ promised \subseteq stored
    /\ dbTx.by \in Callers \cup {Nobody} /\ logHolder \in Callers \cup {Nobody}
    /\ Len(auditLog) <= MaxAudit + Cardinality(Callers)

Present == {m \in Memories : memories[m] # NoMemory}
Records == {auditLog[i] : i \in DOMAIN auditLog}

\* verify(), on whole records: their numbers, and the link of each to the one before it.  (A last
\* line that was cut off it reports; ReadLast refuses to write after it.)
Verify(log) == \A i \in DOMAIN log : log[i].seq = i /\ log[i].prev = i - 1

\* What is in the table was logged, what was in it and is not was logged too, and the log passes
\* verify().
AuditCovers ==
    /\ \A m \in Present : \E r \in Records : r.event \in {"add", "supersede"} /\ r.new = m
    /\ \A m \in stored \ Present : \E r \in Records : r.event \in {"forget", "sweep", "erase"} /\ m \in r.gone
    /\ Verify(auditLog)

\* The text an erase() removed is in none of the files once it has returned, unless its checkpoint
\* was cut short; then it is gone with the next checkpoint that is not, whoever runs it.
ErasedIsGone == (promised \ lingering) \cap traces = {}

\* An entry has one replacement at most, whoever could read the one can read the other, and a
\* search never shows what was replaced.
OneReplacement ==
    /\ \A m, n \in Present :
            memories[m].replaces = memories[n].replaces => m = n \/ memories[m].replaces = NoMemory
    /\ \A s \in Scopes, n \in Present : LET old == memories[n].replaces IN
        old \in Present => /\ old \in Visible(memories, s) <=> n \in Visible(memories, s)
                           /\ old \notin Found(s)

\* Whoever can read an entry can read what it was derived from.
Traceable == \A s \in Scopes : \A m \in Visible(memories, s) :
    memories[m].derivedFrom \cap Present \subseteq Visible(memories, s)

(***************************************************************************)
(* What the store promises to its callers, whatever they do at once and    *)
(* wherever they are killed.                                               *)
(***************************************************************************)
MemoryIsSound == AuditCovers /\ ErasedIsGone /\ OneReplacement /\ Traceable
============================================================================
