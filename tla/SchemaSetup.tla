---------------------------- MODULE SchemaSetup -----------------------------
(***************************************************************************)
(* create_required_schema of the MySQL, PostgreSQL and MongoDB connectors: *)
(* RagLeap's three tables in a database of the user.  Setups may run at    *)
(* the same time, be cut short, and be repeated; insert_document may come  *)
(* at any moment.  Tables are numbered in the order they are created in,   *)
(* which is the order of their foreign keys: documents, chunks, embeddings.*)
(***************************************************************************)
EXTENDS Naturals

CONSTANTS
    SetupThreads,
    Dialects,                   \* the databases to check, records as below
    MaxSetupFaults, MaxSetups   \* bounds

Tables == 1..3
Documents == 1
Embeddings == 3

\* once  - the tables that exist are listed once, at the start;
\* whole - a table and its indexes are created in one commit;
\* fk    - a table references the one before it;
\* open  - inserting into a table that does not exist creates it.
Dialect(once, whole, fk, open) == [once |-> once, whole |-> whole, fk |-> fk, open |-> open]

MySQL      == Dialect(TRUE, TRUE, TRUE, FALSE)
PostgreSQL == Dialect(FALSE, TRUE, TRUE, FALSE)
MongoDB    == Dialect(TRUE, FALSE, FALSE, TRUE)

AllDialects == {MySQL, PostgreSQL, MongoDB}

ASSUME SetupAssumption == Dialects \subseteq AllDialects

VARIABLES
    dialect,
    pgvector,       \* the vector extension can be created or is there
    tables, indexed,
    setup,          \* per thread: its create_required_schema
    setupFaults, setups

setupVars == <<dialect, pgvector, tables, indexed, setup, setupFaults, setups>>

NoSetup == [pc |-> "idle", at |-> 1, known |-> {}, errors |-> {}, calm |-> TRUE]

SetupInit ==
    /\ dialect \in Dialects
    /\ pgvector \in (IF dialect = PostgreSQL THEN BOOLEAN ELSE {FALSE})
    /\ tables = {} /\ indexed = {}
    /\ setup = [t \in SetupThreads |-> NoSetup]
    /\ setupFaults = 0 /\ setups = 0

----------------------------------------------------------------------------
Running(t) == setup[t].pc \in {"look", "create", "index"}
Others(t) == {u \in SetupThreads \ {t} : Running(u)}

\* A setup is calm while nothing else runs and nothing has failed under it.
Upset(s) == [s EXCEPT !.calm = FALSE]

StartSetup(t) ==
    /\ ~Running(t) /\ setups < MaxSetups
    /\ setups' = setups + 1
    /\ setup' = [u \in SetupThreads |->
         CASE u = t -> [NoSetup EXCEPT !.pc = "look", !.known = tables, !.calm = Others(t) = {}]
           [] u \in Others(t) -> Upset(setup[u])
           [] OTHER -> setup[u]]
    /\ UNCHANGED <<dialect, pgvector, tables, indexed, setupFaults>>

After(s) == [s EXCEPT !.at = @ + 1, !.pc = IF s.at = Embeddings THEN "done" ELSE "look"]

\* As the code would be if an error on a table that turned out to exist were forgotten
\* together with the tables after it.
FailedQuietly(s) == [s EXCEPT !.pc = "done"]

\* An exception is noted and the next table's turn comes.
Failed(s) == After([s EXCEPT !.errors = @ \cup {s.at}])

\* As the code would be without the list of existing tables.
ExistsNever(s) == FALSE

Exists(s) == s.at \in IF dialect.once THEN s.known ELSE tables

LookUp(t) ==
    /\ setup[t].pc = "look"
    /\ setup' = [setup EXCEPT ![t] = IF Exists(@) THEN After(@) ELSE [@ EXCEPT !.pc = "create"]]
    /\ UNCHANGED <<dialect, pgvector, tables, indexed, setupFaults, setups>>

\* What the database refuses: a table that exists, a reference to a missing table, and an
\* HNSW index over the 3072 dimensions of a plain vector column (the limit is 2000).
Refused(at) ==
    \/ at \in tables
    \/ dialect.fk /\ at > Documents /\ at - 1 \notin tables
    \/ pgvector /\ at = Embeddings

CreateTable(t) ==
    LET at == setup[t].at IN
    /\ setup[t].pc = "create"
    /\ \/ /\ Refused(at)
          /\ setup' = [setup EXCEPT ![t] = Failed(@)]
          /\ UNCHANGED <<tables, indexed>>
       \/ /\ ~Refused(at)
          /\ tables' = tables \cup {at}
          /\ indexed' = IF dialect.whole THEN indexed \cup {at} ELSE indexed
          /\ setup' = [setup EXCEPT ![t] = IF dialect.whole THEN After(@) ELSE [@ EXCEPT !.pc = "index"]]
    /\ UNCHANGED <<dialect, pgvector, setupFaults, setups>>

CreateIndex(t) ==
    /\ setup[t].pc = "index"
    /\ indexed' = indexed \cup {setup[t].at}
    /\ setup' = [setup EXCEPT ![t] = After(@)]
    /\ UNCHANGED <<dialect, pgvector, tables, setupFaults, setups>>

\* A statement fails; or the connection or the process is lost, and the report with it.
SetupFault(t) ==
    /\ setupFaults < MaxSetupFaults
    /\ setupFaults' = setupFaults + 1
    /\ \/ setup[t].pc \in {"create", "index"} /\ setup' = [setup EXCEPT ![t] = Upset(Failed(@))]
       \/ Running(t) /\ setup' = [setup EXCEPT ![t] = NoSetup]
    /\ UNCHANGED <<dialect, pgvector, tables, indexed, setups>>

\* insert_document.  MongoDB makes the collection it is given; in MySQL the statement names a
\* column the table lacks, and changes nothing in any case.
InsertDocument ==
    /\ dialect.open /\ Documents \notin tables
    /\ tables' = tables \cup {Documents}
    /\ setup' = [t \in SetupThreads |-> IF Running(t) THEN Upset(setup[t]) ELSE setup[t]]
    /\ UNCHANGED <<dialect, pgvector, indexed, setupFaults, setups>>

SetupNext ==
    \/ InsertDocument
    \/ \E t \in SetupThreads :
        StartSetup(t) \/ LookUp(t) \/ CreateTable(t) \/ CreateIndex(t) \/ SetupFault(t)

SetupSpec == SetupInit /\ [][SetupNext]_setupVars

----------------------------------------------------------------------------
\* check_required_schema: all_ready.
AllReady == tables = Tables

Succeeded(t) == setup[t].pc = "done" /\ setup[t].errors = {}

SetupTypeOK ==
    /\ tables \subseteq Tables /\ indexed \subseteq tables
    /\ \A t \in SetupThreads : setup[t].at \in 1..4 /\ setup[t].errors \subseteq Tables

(***************************************************************************)
(* Whatever ran at the same time or failed before: a setup that reports    *)
(* success leaves all tables ready, and in the SQL databases no table      *)
(* stands without the table it references or without its indexes.  (A      *)
(* MongoDB collection may: one made by insert_document, or by a setup      *)
(* whose create_index failed, is skipped as ready ever after.)             *)
(***************************************************************************)
SetupIsHonest ==
    /\ \A t \in SetupThreads : Succeeded(t) => AllReady
    /\ dialect.whole => indexed = tables /\ \A n \in tables : n > Documents => n - 1 \in tables

(***************************************************************************)
(* A setup that has the database to itself succeeds whatever earlier ones  *)
(* left behind -- but for PostgreSQL with pgvector, where the embeddings   *)
(* table is refused every time.                                            *)
(***************************************************************************)
SetupRepairs ==
    \A t \in SetupThreads :
        setup[t].pc = "done" /\ setup[t].calm => setup[t].errors = IF pgvector THEN {Embeddings} ELSE {}

(***************************************************************************)
(* A setup tells the truth about the schema it leaves, and an undisturbed  *)
(* one repairs what earlier ones left.                                     *)
(***************************************************************************)
SetupIsSound == SetupIsHonest /\ SetupRepairs
============================================================================
