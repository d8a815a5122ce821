------------------------------ MODULE RagAsk --------------------------------
(***************************************************************************)
(* RagLeap.ask, ask_stream and retrieve, called from several threads of    *)
(* one RagLeap instance: conversation history, budget override, query      *)
(* rewriting, the embedding cache, retrieval, the provider chain, the cost *)
(* tracker and the session's memory, in the order the code uses them.      *)
(*                                                                         *)
(* A text is a query, a rewritten query, or the message generate_answer    *)
(* returns when every provider failed.  Cost is counted in units: a        *)
(* provider call that is answered costs one.                               *)
(***************************************************************************)
EXTENDS Integers, Sequences, FiniteSets

CONSTANTS
    Askers, Queries,
    Rewritten, SorryText,       \* the two other texts
    ChainSize,                  \* primary and fallbacks of another provider
    Budget,                     \* budget_usd_per_month
    CacheSize,
    Variants,                   \* multi_query_n
    MaxAsks                     \* bound

\* With no variant at all a multi_query would search for nothing.
ASSUME AskAssumption ==
    Budget \in Nat /\ ChainSize \in Nat /\ Variants \in Nat \ {0} /\ MaxAsks \in Nat

AskTexts == Queries \cup {Rewritten, SorryText}

VARIABLES
    asker,          \* per thread: its call
    cache,          \* QueryEmbeddingCache._store, least recently used first
    cumulative,     \* CostTracker.cumulative_cost_usd
    session,        \* the session's messages, <<call, role>>
    asks,           \* calls so far
    answered,       \* calls whose answer reached its caller
    overridden,     \* history: what the budget fallback has cost
    underWay        \* history: the calls under way when the budget was reached; a lost
                    \* update may let it be reached again

askVars == <<asker, cache, cumulative, session, asks, answered, overridden, underWay>>

IdleAsker == [pc |-> "idle", id |-> 0, kind |-> "ask", strategy |-> "none", query |-> SorryText,
              override |-> FALSE, text |-> SorryText, todo |-> <<>>,
              provider |-> 1, spoke |-> {}, read |-> 0]

AskInit ==
    /\ asker = [t \in Askers |-> IdleAsker]
    /\ cache = <<>> /\ cumulative = 0 /\ session = <<>> /\ asks = 0 /\ answered = {}
    /\ overridden = 0 /\ underWay = {}

----------------------------------------------------------------------------
At(t, pc) == asker[t].pc = pc
Becomes(t, r) == asker' = [asker EXCEPT ![t] = r]
Goes(t, pc) == asker' = [asker EXCEPT ![t].pc = pc]
Raises(t) == Becomes(t, IdleAsker)

\* _chain: only the budget fallback when it overrides.
Chain(a) == IF a.override THEN 1 ELSE ChainSize

\* As the code would be if the budget itself could still be spent again.
IsOverBudgetLate(spent) == spent > Budget

IsOverBudget(spent) == spent >= Budget

Strategies == {"none", "contextual", "hyde", "multi_query"}

\* ask reads the history and the budget first; the other two embed first.
Ask(t) ==
    /\ At(t, "idle") /\ asks < MaxAsks
    /\ asks' = asks + 1
    /\ \E q \in Queries, s \in Strategies :
        Becomes(t, [IdleAsker EXCEPT
            !.pc = IF s = "hyde" \/ (s = "contextual" /\ session # <<>>) THEN "rewrite" ELSE "embed",
            !.id = asks + 1, !.strategy = s, !.query = q, !.text = q,
            !.override = IsOverBudget(cumulative)])
    /\ UNCHANGED <<cache, cumulative, session, answered, overridden, underWay>>

AskStream(t) ==
    /\ At(t, "idle") /\ asks < MaxAsks
    /\ asks' = asks + 1
    /\ \E q \in Queries, k \in {"stream", "retrieve"} :
        Becomes(t, [IdleAsker EXCEPT !.pc = "embed", !.kind = k, !.id = asks + 1,
                                     !.query = q, !.text = q])
    /\ UNCHANGED <<cache, cumulative, session, answered, overridden, underWay>>

\* What a call of one provider comes to: a text whose usage the pricing
\* table has a rate for, one it cannot price, or an exception.
CallProvider == {"priced", "unpriced", "raises"}

\* With its answer a call needs nothing else any more.
ToRemember(a) == [IdleAsker EXCEPT !.pc = "remember", !.id = a.id]

\* Where a call goes on when its cost is recorded.
AfterCost(a) ==
    CASE a.todo # <<>> -> [a EXCEPT !.read = 0, !.pc = "variant"]
      [] a.todo = <<>> /\ a.spoke = {} -> [a EXCEPT !.read = 0, !.pc = "embed"]
      [] OTHER -> ToRemember(a)

(***************************************************************************)
(* generate_answer: the providers of the chain in turn.  It does not       *)
(* raise: when all of them failed, its answer is a message saying so, with *)
(* no usage.                                                               *)
(***************************************************************************)
TryProvider(t, won, lost) ==
    LET a == asker[t] IN
    \E outcome \in CallProvider :
        Becomes(t, CASE outcome = "priced" -> [won EXCEPT !.pc = "cost"]
                     [] outcome = "unpriced" -> AfterCost(won)
                     [] outcome = "raises" /\ a.provider < Chain(a) -> [a EXCEPT !.provider = @ + 1]
                     [] OTHER -> lost)

\* contextual_rewrite and hyde_document take the answer for the text to
\* search with; only an empty one falls back to the query.
Rewrite(t) ==
    LET a == [asker[t] EXCEPT !.provider = 1] IN
    /\ At(t, "rewrite")
    /\ \E answer \in {Rewritten, a.query} :
        TryProvider(t, [a EXCEPT !.text = answer],
                       [a EXCEPT !.pc = "embed", !.text = SorryText])
    /\ UNCHANGED <<cache, cumulative, session, asks, answered, overridden, underWay>>

\* multi_query_variants: the query first, then the lines of the answer.
MultiQuery(t) ==
    LET a == [asker[t] EXCEPT !.provider = 1]
        Take(more) == SubSeq(<<a.query>> \o more, 1,
                             IF Len(more) < Variants THEN 1 + Len(more) ELSE Variants)
    IN
    /\ At(t, "variants")
    /\ \E more \in {<<>>, <<Rewritten>>} :
        TryProvider(t, [a EXCEPT !.todo = Take(more)],
                       [a EXCEPT !.pc = "variant", !.todo = Take(<<SorryText>>)])
    /\ UNCHANGED <<cache, cumulative, session, asks, answered, overridden, underWay>>

\* CostTracker.record: a read and a write, under no lock.
RecordReads(t) ==
    /\ At(t, "cost")
    /\ Becomes(t, [asker[t] EXCEPT !.pc = "costed", !.read = cumulative])
    /\ UNCHANGED <<cache, cumulative, session, asks, answered, overridden, underWay>>

RecordWrites(t) ==
    LET a == asker[t] IN
    /\ At(t, "costed")
    /\ cumulative' = a.read + 1
    /\ Becomes(t, AfterCost(a))
    /\ overridden' = overridden + (IF a.override THEN 1 ELSE 0)
    /\ underWay' = IF cumulative < Budget /\ cumulative' >= Budget
                   THEN underWay \cup ({asker[u].id : u \in Askers} \ {0}) ELSE underWay
    /\ UNCHANGED <<cache, session, asks, answered>>

----------------------------------------------------------------------------
Without(c, x) == SelectSeq(c, LAMBDA y : y # x)
Cached(x) == \E i \in 1..Len(cache) : cache[i] = x

\* After an embedding, or without one: the next variant, the variants of
\* the query, or the search.
Embedded(a) ==
    CASE a.todo # <<>> -> [a EXCEPT !.pc = "variant", !.text = a.query]
      [] a.todo = <<>> /\ a.strategy = "multi_query" ->
            [a EXCEPT !.pc = "variants", !.text = a.query, !.strategy = "fused"]
      [] OTHER -> [a EXCEPT !.pc = "search"]

NextVariant(t) ==
    /\ At(t, "variant")
    /\ Becomes(t, [asker[t] EXCEPT !.pc = "embed", !.text = Head(asker[t].todo), !.todo = Tail(@)])
    /\ UNCHANGED <<cache, cumulative, session, asks, answered, overridden, underWay>>

\* _embed_query_cached: the key is looked for, and then moved to the end of
\* a dictionary another thread may have taken it from.
CacheGet(t) ==
    /\ At(t, "embed")
    /\ Goes(t, IF Cached(asker[t].text) THEN "hit" ELSE "miss")
    /\ UNCHANGED <<cache, cumulative, session, asks, answered, overridden, underWay>>

CacheHit(t) ==
    LET x == asker[t].text IN
    /\ At(t, "hit")
    /\ IF Cached(x)
       THEN cache' = Append(Without(cache, x), x) /\ Becomes(t, Embedded(asker[t]))
       ELSE Raises(t) /\ UNCHANGED cache
    /\ UNCHANGED <<cumulative, session, asks, answered, overridden, underWay>>

\* What embed_text returns: a vector, or None after an error.
Embeds == {TRUE, FALSE}

\* With None the call is answered with an
\* apology, or, for a variant, goes on without it.
EmbedText(t) ==
    LET a == asker[t] IN
    /\ At(t, "miss")
    /\ \E ok \in Embeds :
       \/ /\ ok
          /\ cache' = IF Cached(a.text) THEN cache ELSE Append(cache, a.text)
          /\ Goes(t, "touch")
       \/ /\ ~ok
          /\ IF a.strategy = "fused" THEN Becomes(t, Embedded(a)) ELSE Raises(t)
          /\ UNCHANGED cache
    /\ UNCHANGED <<cumulative, session, asks, answered, overridden, underWay>>

CacheTouch(t) ==
    LET x == asker[t].text IN
    /\ At(t, "touch")
    /\ IF Cached(x)
       THEN cache' = Append(Without(cache, x), x) /\ Goes(t, "evict")
       ELSE Raises(t) /\ UNCHANGED cache
    /\ UNCHANGED <<cumulative, session, asks, answered, overridden, underWay>>

CacheEvict(t) ==
    /\ At(t, "evict")
    /\ cache' = IF Len(cache) > CacheSize THEN Tail(cache) ELSE cache
    /\ Becomes(t, Embedded(asker[t]))
    /\ UNCHANGED <<cumulative, session, asks, answered, overridden, underWay>>

\* Search, fusion and reranking; a failing backend raises.  Streams read
\* the budget only here; the answer is made from the original query.
Search(t) ==
    LET a == asker[t] IN
    /\ At(t, "search")
    /\ \/ Raises(t) /\ UNCHANGED answered
       \/ /\ a.kind = "retrieve" /\ Raises(t) /\ answered' = answered \cup {a.id}
       \/ /\ a.kind = "ask" /\ UNCHANGED answered
          /\ Becomes(t, [IdleAsker EXCEPT !.pc = "generate", !.id = a.id, !.override = a.override])
       \/ /\ a.kind = "stream" /\ UNCHANGED answered
          /\ Becomes(t, [a EXCEPT !.pc = "stream", !.override = IsOverBudget(cumulative)])
    /\ UNCHANGED <<cache, cumulative, session, asks, overridden, underWay>>

GenerateAnswer(t) ==
    LET a == asker[t] IN
    /\ At(t, "generate")
    /\ TryProvider(t, [a EXCEPT !.spoke = {a.provider}], ToRemember(a))
    /\ UNCHANGED <<cache, cumulative, session, asks, answered, overridden, underWay>>

\* As the code would be if an interrupted provider were followed by the
\* next one whatever it had already said.
MayFallBackAlways(a) == a.provider < Chain(a)

MayFallBack(a) == a.provider < Chain(a) /\ a.spoke = {}

\* generate_answer_stream: a piece, the end, or a failure.  The caller may
\* also close the generator at a piece, and then nothing is remembered.
StreamPiece(t) ==
    LET a == asker[t] IN
    /\ At(t, "stream")
    /\ \/ Becomes(t, [a EXCEPT !.spoke = @ \cup {a.provider}])
       \/ Becomes(t, ToRemember(a))
       \/ MayFallBack(a) /\ Becomes(t, [a EXCEPT !.provider = @ + 1])
       \/ a.spoke # {} /\ Raises(t)
    /\ UNCHANGED <<cache, cumulative, session, asks, answered, overridden, underWay>>

----------------------------------------------------------------------------
\* As the code would be if the answer were stored first.
RoleAfterSwapped(pc) == IF pc = "remember" THEN "assistant" ELSE "user"

RoleAfter(pc) == IF pc = "remember" THEN "user" ELSE "assistant"

\* add_message, twice, in two transactions; a call without a session stores
\* nothing.
Remember(t) ==
    LET a == asker[t] IN
    /\ asker[t].pc \in {"remember", "remembered"}
    /\ \/ /\ session' = Append(session, <<a.id, RoleAfter(a.pc)>>)
          /\ IF a.pc = "remember" THEN Goes(t, "remembered") /\ UNCHANGED answered
                                  ELSE Raises(t) /\ answered' = answered \cup {a.id}
       \/ /\ a.pc = "remember"
          /\ Raises(t) /\ answered' = answered \cup {a.id} /\ UNCHANGED session
    /\ UNCHANGED <<cache, cumulative, asks, overridden, underWay>>

ClearSession ==
    /\ session # <<>> /\ session' = <<>>
    /\ UNCHANGED <<asker, cache, cumulative, asks, answered, overridden, underWay>>

\* aask and aask_stream run ask and ask_stream in worker threads: any number of them interleave.
AskNext ==
    \/ ClearSession
    \/ \E t \in Askers :
        \/ Ask(t) \/ AskStream(t) \/ Rewrite(t) \/ MultiQuery(t) \/ RecordReads(t)
        \/ RecordWrites(t) \/ NextVariant(t) \/ CacheGet(t) \/ CacheHit(t) \/ EmbedText(t)
        \/ CacheTouch(t) \/ CacheEvict(t) \/ Search(t) \/ GenerateAnswer(t) \/ StreamPiece(t)
        \/ Remember(t)

AskSpec == AskInit /\ [][AskNext]_askVars

----------------------------------------------------------------------------
AskTypeOK ==
    /\ \A t \in Askers : asker[t].text \in AskTexts /\ asker[t].provider \in 1..ChainSize
    /\ \A i \in 1..Len(cache) : cache[i] \in AskTexts
    /\ cumulative \in Nat /\ asks \in 0..MaxAsks

\* The most that is not over the budget yet; a budget of nothing is over it from the start.
BelowBudget == IF Budget = 0 THEN 0 ELSE Budget - 1

(***************************************************************************)
(* What is recorded beyond the cost of the budget fallback passes the      *)
(* budget by no more than the calls can add that were under way when it    *)
(* was reached, two provider calls each.  Later calls are overridden       *)
(* (is_over_budget, read once, before the rewrite), and updates lost by    *)
(* record's unlocked += only lower it.                                     *)
(***************************************************************************)
OverspendBounded == cumulative <= BelowBudget + 2 * Cardinality(underWay) + overridden

(***************************************************************************)
(* What a stream's caller has been given comes from one provider: a chain  *)
(* that fails over never goes on in the middle of another one's answer     *)
(* (the yielded flag of generate_answer_stream).                           *)
(***************************************************************************)
OneVoice == \A t \in Askers : Cardinality(asker[t].spoke) <= 1

(***************************************************************************)
(* A session's history holds each message of a call once, the question     *)
(* never after its answer, and an answer for calls only that were          *)
(* answered, whatever other calls and clear_session did between the two    *)
(* transactions.                                                           *)
(***************************************************************************)
HistoryIsFaithful ==
    \A i, j \in 1..Len(session) :
        /\ session[i][2] = "assistant" => session[i][1] \in answered
        /\ i < j /\ session[i][1] = session[j][1] => session[i][2] = "user" /\ session[j][2] = "assistant"

(***************************************************************************)
(* The limits and the record of ask and ask_stream, with calls side by     *)
(* side: the budget is overspent by calls under way only, one provider     *)
(* speaks in a stream, and the history is the conversation.                *)
(***************************************************************************)
AskIsSound == OverspendBounded /\ OneVoice /\ HistoryIsFaithful
============================================================================
