----------------------------- MODULE TokenSearch ------------------------------
(***************************************************************************)
(* The token search: two providers are asked for a query, their tokens     *)
(* ranked, the answer kept in memory under the query alone, and the tokens *)
(* recorded in token_registry, where selections are counted.  A session    *)
(* reads the rows, and writes at its commit the columns that differ from   *)
(* what it read; a row that another session inserted since makes the       *)
(* commit fail.  The rows of one answer are read in one step.              *)
(*                                                                         *)
(* A token is a record with id (its address), chain, source, liquidity,    *)
(* volume, cap, verified, logo ("" or a url), dex and, for each query, how *)
(* its symbol and its name match it.                                       *)
(***************************************************************************)
EXTENDS Integers, FiniteSets, Sequences, FiniteSetsExt, SequencesExt

CONSTANTS
    Searchable,     \* the tokens the providers know
    Searches,       \* what is searched: [query, chain, limit]
    Callers,
    MaxSelections,  \* a bound
    Unknown

Queries == {x.query : x \in Searches}
Key(t) == <<t.chain, t.id>>
Keys == {Key(t) : t \in Searchable}

VARIABLES
    searched,   \* [Queries -> the cached answer: items and sources, or Unknown]
    metadata,   \* [Keys -> the cached token, or Unknown]
    registry,   \* the rows of token_registry, by the key of their token
    history,    \* search_history: <<key, whether it was in the registry>>
    call,       \* [Callers -> a request]
    learned     \* what committed upserts said of tokens: <<key, fact>> (ghost)

searchVars == <<searched, metadata, registry, history, call, learned>>

NoCall == [pc |-> "idle", ask |-> Unknown, key |-> Unknown, tokens |-> <<>>, loaded |-> <<>>]

SearchInit ==
    /\ searched = [q \in Queries |-> Unknown]
    /\ metadata = [k \in Keys |-> Unknown]
    /\ registry = <<>>
    /\ history = <<>>
    /\ call = [c \in Callers |-> NoCall]
    /\ learned = {}

(******************************** Ranking **********************************)
SymbolPoints == [exact |-> 650, starts |-> 200, within |-> 80, none |-> 0]
NamePoints == [exact |-> 300, within |-> 100, none |-> 0]
LogScore(v, weight) == IF v <= 0 THEN 0 ELSE weight * Max({n \in 0..9 : 10 ^ n <= v + 1})
Points(held, n) == IF held THEN n ELSE 0

VerifiedPoints(t) ==
    IF ~ t.verified THEN 0
    ELSE IF t.liquidity >= 500 THEN 1000
    ELSE IF t.source = "coingecko" THEN 200 ELSE 400

RankScore(t, q) ==
    SymbolPoints[t.symbol[q]] + NamePoints[t.name[q]] + VerifiedPoints(t)
    + Points(t.source = "dexscreener" /\ t.liquidity >= 500, 250)
    + LogScore(t.liquidity, 120) + LogScore(t.volume, 80) + LogScore(t.cap, 60)
    + Points(t.volume > 10000, 50) + Points(t.liquidity > 50000, 75)
    - Points(0 < t.liquidity /\ t.liquidity < 500, 200)
    - Points(t.liquidity = 0 /\ t.volume = 0, 100)
    + Points(t.dex = "trusted", 40)

\* The better of two listings takes over what the other knows; its score stays.
Merged(better, other) ==
    [better EXCEPT !.liquidity = Max({@, other.liquidity}), !.volume = Max({@, other.volume}),
                   !.cap = Max({@, other.cap}), !.verified = @ \/ other.verified,
                   !.logo = IF @ = "" THEN other.logo ELSE @]

Into(kept, t) ==
    LET same == {i \in DOMAIN kept : Key(kept[i]) = Key(t)}
    IN  IF same = {} THEN Append(kept, t)
        ELSE LET i == CHOOSE x \in same : TRUE
             IN  IF t.score > kept[i].score THEN [kept EXCEPT ![i] = Merged(t, @)] ELSE kept

TopOf(seq, n) == SubSeq(seq, 1, Min({n, Len(seq)}))
Score(t, q) == t @@ [score |-> RankScore(t, q)]

RankTokens(seq, q, limit) ==
    LET kept == FoldLeft(Into, <<>>, [i \in DOMAIN seq |-> Score(seq[i], q)])
    IN  TopOf(SortSeq(kept, LAMBDA a, b : a.score > b.score), limit)

(****************************** The providers ******************************)
SearchProviders == <<"dexscreener", "coingecko">>
Matches(t, q) == t.symbol[q] # "none" \/ t.name[q] # "none"

Busier(a, b) ==
    \/ a.liquidity > b.liquidity
    \/ a.liquidity = b.liquidity /\ (a.volume > b.volume \/ (a.volume = b.volume /\ a.cap > b.cap))

ProviderSearch(source, q, limit) ==
    TopOf(SetToSortSeq({t \in Searchable : t.source = source /\ Matches(t, q)}, Busier), limit)

\* DexScreener's pairs of an address, those on another chain if need be.
GetToken(chain, id) ==
    LET all == {t \in Searchable : t.source = "dexscreener" /\ t.id = id}
        here == {t \in all : t.chain = chain}
        of == IF here = {} THEN all ELSE here
    IN  IF of = {} THEN Unknown ELSE CHOOSE t \in of : \A u \in of \ {t} : ~ Busier(u, t)

(********************************* A search ********************************)
\* A query in memory is answered from there, less the tokens of other chains.
Search(c, x) ==
    /\ call[c].pc = "idle" /\ searched[x.query] = Unknown
    /\ call' = [call EXCEPT ![c] = [NoCall EXCEPT !.pc = "search", !.ask = x]]
    /\ UNCHANGED <<searched, metadata, registry, history, learned>>

Answer(x, silent) ==
    LET found == [p \in Range(SearchProviders) |-> IF p \in silent THEN <<>> ELSE ProviderSearch(p, x.query, 2 * x.limit)]
        ranked == RankTokens(FlattenSeq([i \in 1..2 |-> found[SearchProviders[i]]]), x.query, 2 * x.limit)
    IN  [items |-> TopOf(SelectSeq(ranked, LAMBDA t : x.chain = "" \/ t.chain = x.chain), x.limit),
         sources |-> {p \in Range(SearchProviders) : found[p] # <<>>}]

\* The silent providers failed or timed out.  An empty answer is kept too.
Answered(c, silent) ==
    /\ call[c].pc = "search"
    /\ LET x == call[c].ask
           answer == Answer(x, silent)
       IN  /\ searched' = [searched EXCEPT ![x.query] = answer]
           /\ call' = [call EXCEPT ![c] = IF answer.items = <<>> THEN NoCall
                                          ELSE [@ EXCEPT !.pc = "load", !.tokens = answer.items]]
    /\ UNCHANGED <<metadata, registry, history, learned>>

(*************************** A token's details *****************************)
GetTokenDetail(c, k) ==
    /\ call[c].pc = "idle" /\ metadata[k] = Unknown
    /\ call' = [call EXCEPT ![c] = [NoCall EXCEPT !.pc = "detail", !.key = k]]
    /\ UNCHANGED <<searched, metadata, registry, history, learned>>

OfRegistry(k) ==
    [id |-> k[2], chain |-> k[1], source |-> "", liquidity |-> 0, volume |-> 0, cap |-> 0,
     verified |-> registry[k].verified, logo |-> registry[k].logo, dex |-> registry[k].dex]

\* The provider's token, or what the registry knows of it; otherwise a 404.
Resolved(c, silent) ==
    /\ call[c].pc = "detail"
    /\ LET k == call[c].key
           found == IF "dexscreener" \in silent THEN Unknown ELSE GetToken(k[1], k[2])
           token == IF found = Unknown /\ k \in DOMAIN registry THEN OfRegistry(k) ELSE found
       IN  IF token = Unknown
           THEN call' = [call EXCEPT ![c] = NoCall] /\ UNCHANGED metadata
           ELSE /\ metadata' = [metadata EXCEPT ![Key(token)] = token]
                /\ call' = [call EXCEPT ![c].pc = "load", ![c].tokens = <<token>>]
    /\ UNCHANGED <<searched, registry, history, learned>>

(******************************* The registry ******************************)
KeysOf(c) == {Key(t) : t \in Range(call[c].tokens)}

LoadRows(c) ==
    /\ call[c].pc = "load"
    /\ call' = [call EXCEPT ![c].pc = "commit", ![c].loaded = [k \in KeysOf(c) \cap DOMAIN registry |-> registry[k]]]
    /\ UNCHANGED <<searched, metadata, registry, history, learned>>

NoRow == [logo |-> "", verified |-> FALSE, dex |-> "", count |-> 0]

\* What the session holds of the row after the upsert.
Upserted(old, t) ==
    [old EXCEPT !.logo = IF t.logo = "" THEN @ ELSE t.logo, !.verified = t.verified \/ @,
                !.dex = IF t.dex = "" THEN @ ELSE t.dex]

\* A slip: the whole row is written.
MutantFlushed(old, new, current) == new

Flushed(old, new, current) ==
    [f \in DOMAIN current |-> IF new[f] # old[f] THEN new[f] ELSE current[f]]

Clashing(c) == (KeysOf(c) \ DOMAIN call[c].loaded) \cap DOMAIN registry # {}

Facts(t) == {f \in {"verified", "logo"} : IF f = "verified" THEN t.verified ELSE t.logo # ""}
TokenOf(c, k) == CHOOSE t \in Range(call[c].tokens) : Key(t) = k

UpsertRegistry(c) ==
    /\ call[c].pc = "commit" /\ ~ Clashing(c)
    /\ LET old == call[c].loaded
       IN  registry' = [k \in DOMAIN registry \cup KeysOf(c) |->
                IF k \notin KeysOf(c) THEN registry[k]
                ELSE IF k \in DOMAIN old
                     THEN Flushed(old[k], Upserted(old[k], TokenOf(c, k)), registry[k])
                     ELSE Upserted(NoRow, TokenOf(c, k))]
    /\ learned' = learned \cup UNION {{k} \X Facts(TokenOf(c, k)) : k \in KeysOf(c)}
    /\ call' = [call EXCEPT ![c] = NoCall]
    /\ UNCHANGED <<searched, metadata, history>>

\* Logged and rolled back, with everything the answer would have recorded: a
\* row inserted in between, a deadlock or a failure of the database.
UpsertFails(c) ==
    /\ call[c].pc = "commit"
    /\ call' = [call EXCEPT ![c] = NoCall]
    /\ UNCHANGED <<searched, metadata, registry, history, learned>>

\* A selection: its address counts only if it is spelt as in the registry.
RecordSearch(k, spelt) ==
    /\ Len(history) < MaxSelections
    /\ history' = Append(history, <<k, spelt /\ k \in DOMAIN registry>>)
    /\ registry' = IF spelt /\ k \in DOMAIN registry THEN [registry EXCEPT ![k].count = @ + 1] ELSE registry
    /\ UNCHANGED <<searched, metadata, call, learned>>

Expire ==
    /\ \/ \E q \in Queries : searched[q] # Unknown /\ searched' = [searched EXCEPT ![q] = Unknown] /\ UNCHANGED metadata
       \/ \E k \in Keys : metadata[k] # Unknown /\ metadata' = [metadata EXCEPT ![k] = Unknown] /\ UNCHANGED searched
    /\ UNCHANGED <<registry, history, call, learned>>

RestartSearch ==
    /\ searched' = [q \in Queries |-> Unknown]
    /\ metadata' = [k \in Keys |-> Unknown]
    /\ call' = [c \in Callers |-> NoCall]
    /\ UNCHANGED <<registry, history, learned>>

SearchNext ==
    \/ \E c \in Callers :
          \/ \E x \in Searches : Search(c, x)
          \/ \E k \in Keys : GetTokenDetail(c, k)
          \/ \E silent \in SUBSET Range(SearchProviders) : Answered(c, silent) \/ Resolved(c, silent)
          \/ LoadRows(c) \/ UpsertRegistry(c) \/ UpsertFails(c)
    \/ \E k \in Keys, spelt \in BOOLEAN : RecordSearch(k, spelt)
    \/ Expire \/ RestartSearch

SearchSpec == SearchInit /\ [][SearchNext]_searchVars

(******************************** Properties *******************************)
(* Searches and details of the same token overlap, each writing a row it     *)
(* read before: no selection's count is lost, and what a committed answer    *)
(* knew of the token (that it is verified, its logo) is not blanked by one   *)
(* that did not know it.                                                     *)
RegistryForgetsNothing ==
    \A k \in DOMAIN registry :
        /\ registry[k].count = Cardinality({i \in DOMAIN history : history[i] = <<k, TRUE>>})
        /\ <<k, "verified">> \in learned => registry[k].verified
        /\ <<k, "logo">> \in learned => registry[k].logo # ""
=============================================================================
