----------------------------- MODULE Connectors -----------------------------
(***************************************************************************)
(* sync_data_source over the connectors' fetch_data: the pages a connector *)
(* asks for while the records behind it change, and what of them ends in   *)
(* synced_context_data, one row for each user.                             *)
(*                                                                         *)
(* A record is a number that grows with its creation, and the remote list  *)
(* is newest first, the order in which additions and removals move the     *)
(* records a connector has yet to read.  Sources that list in another      *)
(* order (CSV, Sheets, HubSpot, Airtable, a SQL query) differ in what      *)
(* "oldest" says below: of a user's records the one listed last is kept.   *)
(* A connector is the way it pages:                                        *)
(*   "query"  - one query, answered as of one moment;                      *)
(*   "first"  - one page, whatever there is more;                          *)
(*   "cursor" - page after page, each after the last record of the one     *)
(*              before;                                                    *)
(*   "offset" - page after page, skipping as many records as were read.    *)
(***************************************************************************)
EXTENDS Naturals, Sequences, SequencesExt, Selection

CONSTANTS
    Pagings,                    \* the ways of paging to check
    PageSize,
    Owner,                      \* the user each record names, NoUser for none
    NoUser, NoRecord,
    Keys, NoKey,                \* values of ADDON_ENCRYPTION_KEY, and none
    MaxSyncs, MaxKeyChanges     \* bounds

Records == DOMAIN Owner
Users == {Owner[r] : r \in Records} \ {NoUser}

MySQLSource      == "query"
PostgreSQLSource == "query"
MongoDBSource    == "query"
BigQuery         == "query"
Snowflake        == "query"
Salesforce       == "query"
GoogleSheets     == "query"
RestAPI          == "query"
CSV              == "query"
HubSpot          == "first"
Shopify          == "first"
Gmail            == "first"
Slack            == "first"
Notion           == "first"
Stripe           == "cursor"
Airtable         == "cursor"
Razorpay         == "offset"
WooCommerce      == "offset"

AllPagings == {MySQLSource, PostgreSQLSource, MongoDBSource, BigQuery, Snowflake, Salesforce,
               GoogleSheets, RestAPI, CSV, HubSpot, Shopify, Gmail, Slack, Notion, Stripe,
               Airtable, Razorpay, WooCommerce}

ASSUME ConnectorAssumption ==
    /\ Pagings \subseteq AllPagings /\ PageSize \in Nat \ {0}
    /\ DOMAIN Owner \in SUBSET Nat /\ 0 \notin DOMAIN Owner /\ NoKey \notin Keys

VARIABLES
    paging,
    remote, created,    \* the records behind the source, and all there ever were
    secret, envKey,     \* the key the credential is stored under, and the server's
    fetch,              \* fetch_data, as it goes through the pages
    context, outcome,   \* synced_context_data and last_sync_status
    syncs, keyChanges

connVars == <<paging, remote, created, secret, envKey, fetch, context, outcome, syncs,
              keyChanges>>

NoFetch == [pc |-> "idle", at |-> 0, got |-> <<>>, there |-> {}, removed |-> FALSE]

\* create_data_source encrypts under the key of the moment, if there is one.
ConnInit ==
    /\ paging \in Pagings
    /\ remote = <<>> /\ created = 0
    /\ envKey \in Keys \cup {NoKey} /\ secret = envKey
    /\ fetch = NoFetch
    /\ context = [u \in Users |-> NoRecord] /\ outcome = "never"
    /\ syncs = 0 /\ keyChanges = 0

----------------------------------------------------------------------------
(* The other side. *)

RecordAdded ==
    /\ created + 1 \in Records
    /\ created' = created + 1
    /\ remote' = <<created + 1>> \o remote
    /\ UNCHANGED <<paging, secret, envKey, fetch, context, outcome, syncs, keyChanges>>

RecordRemoved ==
    /\ \E r \in Range(remote) :
        /\ remote' = Only(remote, Records \ {r})
        /\ fetch' = [fetch EXCEPT !.there = @ \ {r}, !.removed = @ \/ fetch.pc # "idle"]
    /\ UNCHANGED <<paging, created, secret, envKey, context, outcome, syncs, keyChanges>>

\* The server is started again with another key, or with none.
KeyChanges ==
    /\ keyChanges < MaxKeyChanges /\ fetch.pc = "idle"
    /\ keyChanges' = keyChanges + 1
    /\ envKey' \in (Keys \cup {NoKey}) \ {envKey}
    /\ UNCHANGED <<paging, remote, created, secret, fetch, context, outcome, syncs>>

----------------------------------------------------------------------------
(* sync_data_source. *)

\* get_data_source: decrypt_value gives back what was stored when the server has no key, the
\* secret under the same key, and "[DECRYPTION_FAILED]" under another -- and for a value that
\* was stored before there was a key.
DecryptValue == IF envKey = NoKey THEN IF secret = NoKey THEN "secret" ELSE "ciphertext"
                ELSE IF secret = envKey THEN "secret" ELSE "[DECRYPTION_FAILED]"

SyncDataSource ==
    /\ fetch.pc = "idle" /\ syncs < MaxSyncs
    /\ syncs' = syncs + 1
    /\ fetch' = [NoFetch EXCEPT !.pc = "page", !.there = Range(remote)]
    /\ UNCHANGED <<paging, remote, created, secret, envKey, context, outcome, keyChanges>>

Take(s, n) == SubSeq(s, 1, IF n < Len(s) THEN n ELSE Len(s))

PageAt(at) ==
    CASE paging = "query"  -> remote
      [] paging = "first"  -> Take(remote, PageSize)
      [] paging = "cursor" -> Take(Only(remote, {r \in Records : at = 0 \/ r < at}), PageSize)
      [] paging = "offset" -> Take(SubSeq(remote, at + 1, Len(remote)), PageSize)

\* As the code would be if it skipped to the record after the next page's first.
NextAtOneOff(at, page) == IF paging = "cursor" THEN Last(page) ELSE at + PageSize + 1

NextAt(at, page) == IF paging = "cursor" THEN Last(page) ELSE at + PageSize

\* A page that is not full is the last.  A cursor names no next page when nothing is left.
LastPage(page) ==
    CASE paging \in {"query", "first"} -> TRUE
      [] paging = "cursor" -> page = <<>> \/ \A r \in Range(remote) : r >= Last(page)
      [] paging = "offset" -> Len(page) < PageSize

FetchPage ==
    LET page == PageAt(fetch.at) IN
    /\ fetch.pc = "page" /\ DecryptValue = "secret"
    /\ fetch' = [fetch EXCEPT !.got = @ \o page,
                              !.pc = IF LastPage(page) THEN "store" ELSE "page",
                              !.at = IF LastPage(page) THEN @ ELSE NextAt(@, page)]
    /\ UNCHANGED <<paging, remote, created, secret, envKey, context, outcome, syncs, keyChanges>>

\* Any page may fail, and with a wrong credential the first one does: fetch_data raises, the
\* transaction is rolled back and the status says so.
PageFails ==
    /\ fetch.pc = "page"
    /\ fetch' = NoFetch
    /\ outcome' = "failed"
    /\ UNCHANGED <<paging, remote, created, secret, envKey, context, syncs, keyChanges>>

RecordsOf(u, got) == Only(got, {r \in Records : Owner[r] = u})

\* As the code would be if a user's first record stayed (ON CONFLICT DO NOTHING).
StoredForFirst(u, got) == Head(RecordsOf(u, got))

\* The rows are upserted in the order of the records: the last one listed stays.
StoredFor(u, got) == Last(RecordsOf(u, got))

StoreRecords ==
    /\ fetch.pc = "store"
    /\ context' = [u \in Users |-> IF RecordsOf(u, fetch.got) = <<>> THEN context[u]
                                   ELSE StoredFor(u, fetch.got)]
    /\ outcome' = "success"
    /\ fetch' = [fetch EXCEPT !.pc = "idle"]
    /\ UNCHANGED <<paging, remote, created, secret, envKey, syncs, keyChanges>>

ConnNext ==
    \/ RecordAdded \/ RecordRemoved \/ KeyChanges
    \/ SyncDataSource \/ FetchPage \/ PageFails \/ StoreRecords

ConnSpec == ConnInit /\ [][ConnNext]_connVars

----------------------------------------------------------------------------
ConnTypeOK ==
    /\ Range(remote) \subseteq Records /\ fetch.there \subseteq Range(remote)
    /\ \A u \in Users : context[u] \in Records \cup {NoRecord}
    /\ outcome \in {"never", "success", "failed"}

\* A record was removed while pages were counted by offset.
Shifted == paging = "offset" /\ fetch.removed

(***************************************************************************)
(* A fetch that has come to its end holds every record that was there      *)
(* from its start on, whatever was added meanwhile: pages that shift under *)
(* the connector repeat records and lose none.  It does not where only one *)
(* page is read, nor, with pages counted by offset, when a record was      *)
(* removed under it: then the record that moved up is passed over.         *)
(***************************************************************************)
FetchIsWhole ==
    fetch.pc = "store" /\ paging # "first" /\ ~Shifted
        => fetch.there \subseteq Range(fetch.got)

(***************************************************************************)
(* After a successful sync a user's row is the last listed of the records  *)
(* the fetch found of that user, also when additions make pages overlap:   *)
(* each record overwrites the one before.  In a list that is newest first  *)
(* that is the oldest, not the newest.                                     *)
(***************************************************************************)
OldestIsStored ==
    fetch.pc = "idle" /\ outcome = "success" /\ ~Shifted =>
        \A r \in Range(fetch.got) :
            Owner[r] # NoUser => context[Owner[r]] \in Range(fetch.got) /\ context[Owner[r]] <= r

(***************************************************************************)
(* A fetch is whole unless the list moved under it, and what is stored of  *)
(* it is the record of each user that is listed last.                      *)
(***************************************************************************)
ConnectorsAreSound == FetchIsWhole /\ OldestIsStored
============================================================================
