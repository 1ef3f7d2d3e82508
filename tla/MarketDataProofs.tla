-------------------------- MODULE MarketDataProofs --------------------------
(***************************************************************************)
(* Proofs about the sources of market data, for any instance: the exchange *)
(* feeds, the registry of the token search, the token discovery and the    *)
(* on-chain ETL.  The four share no state; each part has its own invariant. *)
(***************************************************************************)
EXTENDS ExchangeFeed, TokenSearch, Discovery, OnchainSync, FiniteSetTheorems, SequenceTheorems, WellFoundedInduction, TLAPS

(********************************** Feeds **********************************)
(* The listening client is right about its subscriptions, and what a        *)
(* Gate.io stream was asked for is lost in failing sends only.              *)

\* Only an awaited send has products under way, and resending sends nothing
\* but what is subscribed; the exchange never has more than was sent.
GateInv ==
    /\ Gate!RemoteIsSubscribed
    /\ Gate!OnlyFailuresLose
    /\ pc \in Gate!Places
    /\ pc \notin Gate!Awaiting => sending = {}
    /\ pc = "resending" => sending = subscribed /\ remote = {}
    /\ pc = "first" => remote = subscribed
    /\ pc = "flushing" => remote = subscribed

\* A connection starts by asking for everything; what is added while a send is
\* awaited is queued as well.
CoinbaseInv ==
    /\ Coinbase!SubscribedIsServed
    /\ wanted = subscribed
    /\ pending \subseteq subscribed
    /\ pc \in {"waiting", "listening", "resending", "flushing"}
    /\ pc \in Coinbase!Awaiting => subscribed = remote \cup sending \cup pending

FeedInv ==
    /\ provider \in {"gate", "coinbase"}
    /\ provider = "gate" => GateInv
    /\ provider = "coinbase" => CoinbaseInv

LEMMA GateInit == Gate!Init => GateInv
BY DEF Gate!Init, GateInv, Gate!RemoteIsSubscribed, Gate!OnlyFailuresLose, Gate!Places, Gate!Awaiting

LEMMA CoinbaseInit == Coinbase!Init => CoinbaseInv
BY DEF Coinbase!Init, CoinbaseInv, Coinbase!SubscribedIsServed, Coinbase!Awaiting

LEMMA GateStep ==
    ASSUME GateInv, Gate!Next PROVE GateInv'
<1> USE DEF GateInv, Gate!RemoteIsSubscribed, Gate!OnlyFailuresLose, Gate!Places, Gate!Awaiting
<1>1. ASSUME NEW P \in SUBSET Products, Gate!AddProducts(P) PROVE GateInv'
  BY <1>1 DEF Gate!AddProducts
<1>2. CASE Gate!Connect
  BY <1>2 DEF Gate!Connect, Gate!TakePending
<1>3. CASE Gate!Sent
  BY <1>3 DEF Gate!Sent, Gate!TakePending
<1>4. CASE Gate!SendFails
  BY <1>4 DEF Gate!SendFails
<1>5. CASE Gate!Message
  BY <1>5 DEF Gate!Message, Gate!TakePending
<1>6. CASE Gate!Disconnect
  BY <1>6 DEF Gate!Disconnect
<1> QED
  BY <1>1, <1>2, <1>3, <1>4, <1>5, <1>6 DEF Gate!Next

LEMMA CoinbaseStep ==
    ASSUME CoinbaseInv, Coinbase!Next PROVE CoinbaseInv'
<1> USE DEF CoinbaseInv, Coinbase!SubscribedIsServed, Coinbase!Awaiting
<1>1. ASSUME NEW P \in SUBSET Products, Coinbase!AddProducts(P) PROVE CoinbaseInv'
  BY <1>1 DEF Coinbase!AddProducts
<1>2. CASE Coinbase!Connect
  BY <1>2 DEF Coinbase!Connect
<1>3. CASE Coinbase!Sent
  BY <1>3 DEF Coinbase!Sent
<1>4. CASE Coinbase!SendFails
  BY <1>4 DEF Coinbase!SendFails
<1>5. CASE Coinbase!Message
  BY <1>5 DEF Coinbase!Message
<1>6. CASE Coinbase!Disconnect
  BY <1>6 DEF Coinbase!Disconnect
<1> QED
  BY <1>1, <1>2, <1>3, <1>4, <1>5, <1>6 DEF Coinbase!Next

LEMMA FeedInvariance == FeedSpec => []FeedInv
<1>1. FeedInit => FeedInv
  BY GateInit, CoinbaseInit DEF FeedInit, FeedInv
<1>2. FeedInv /\ [FeedNext]_feedVars => FeedInv'
  <2> SUFFICES ASSUME FeedInv, [FeedNext]_feedVars PROVE FeedInv'
    OBVIOUS
  <2>1. CASE provider = "gate" /\ Gate!Next /\ UNCHANGED provider
    BY <2>1, GateStep DEF FeedInv
  <2>2. CASE provider = "coinbase" /\ Coinbase!Next /\ UNCHANGED provider
    BY <2>2, CoinbaseStep DEF FeedInv
  <2>3. CASE UNCHANGED feedVars
    BY <2>3 DEF feedVars, FeedInv, GateInv, CoinbaseInv, Gate!RemoteIsSubscribed, Gate!OnlyFailuresLose,
                Gate!Places, Gate!Awaiting, Coinbase!SubscribedIsServed, Coinbase!Awaiting
  <2> QED
    BY <2>1, <2>2, <2>3 DEF FeedNext
<1> QED
  BY <1>1, <1>2, PTL DEF FeedSpec

\* Whichever provider is configured, the listening client's view is right.
THEOREM ListenersView == FeedSpec => []ListenerIsRight
<1>1. FeedInv => ListenerIsRight
  BY DEF FeedInv, GateInv, CoinbaseInv, ListenerIsRight
<1> QED
  BY <1>1, FeedInvariance, PTL

\* No product is forgotten, but for what a failing Gate.io send took with it.
THEOREM LossNeedsFailure == FeedSpec => []OnlyFailuresLose
<1>1. FeedInv => OnlyFailuresLose
  BY DEF FeedInv, GateInv, CoinbaseInv, OnlyFailuresLose
<1> QED
  BY <1>1, FeedInvariance, PTL

(****************************** Token search *******************************)
(* Sessions write rows they read before: what each holds is never ahead of   *)
(* the table, so the columns it writes take nothing away.                    *)

\* A row of token_registry.
IsRow(row) == DOMAIN row = {"logo", "verified", "dex", "count"} /\ row.verified \in BOOLEAN

\* What the one row knows the other knows too.
Knows(row, old) ==
    /\ old.verified => row.verified
    /\ old.logo # "" => row.logo # ""

\* The row tells what the token told.
Tells(row, t) ==
    /\ t.verified => row.verified
    /\ t.logo # "" => row.logo # ""

\* Rows stay, and what a session has read of one still holds of it.
RowsInv ==
    /\ \A k \in DOMAIN registry : IsRow(registry[k])
    /\ DOMAIN call = Callers
    /\ \A c \in Callers : \A k \in DOMAIN call[c].loaded :
          /\ k \in DOMAIN registry /\ IsRow(call[c].loaded[k])
          /\ Knows(registry[k], call[c].loaded[k])
    /\ \A c \in Callers : DOMAIN call[c] = {"pc", "ask", "key", "tokens", "loaded"}

\* Only what is in the table is counted.
Counts(k) == {i \in DOMAIN history : history[i] = <<k, TRUE>>}
CountsInv ==
    /\ history \in Seq(Keys \X BOOLEAN)
    /\ \A k : Counts(k) # {} => k \in DOMAIN registry
    /\ \A k \in DOMAIN registry : registry[k].count = Cardinality(Counts(k))

\* Only what is in the table was learned of, and the row tells it.
LearnedInv ==
    /\ \A k : \A f : <<k, f>> \in learned => k \in DOMAIN registry
    /\ \A k \in DOMAIN registry :
          /\ <<k, "verified">> \in learned => registry[k].verified
          /\ <<k, "logo">> \in learned => registry[k].logo # ""

SearchInv == RowsInv /\ CountsInv /\ LearnedInv

\* Writing the columns that differ from what was read never takes away.
LEMMA FlushAdds ==
    ASSUME NEW old, IsRow(old), NEW t, NEW current, IsRow(current), Knows(current, old)
    PROVE  /\ IsRow(Flushed(old, Upserted(old, t), current))
           /\ Flushed(old, Upserted(old, t), current).count = current.count
           /\ Knows(Flushed(old, Upserted(old, t), current), current)
           /\ Tells(Flushed(old, Upserted(old, t), current), t)
<1> DEFINE new == Upserted(old, t)
           row == Flushed(old, new, current)
<1>1. DOMAIN new = {"logo", "verified", "dex", "count"} /\ new.verified = (t.verified \/ old.verified)
      /\ new.logo = (IF t.logo = "" THEN old.logo ELSE t.logo) /\ new.count = old.count
  BY DEF IsRow, Upserted
<1>2. DOMAIN row = {"logo", "verified", "dex", "count"}
      /\ row.verified = (IF new.verified # old.verified THEN new.verified ELSE current.verified)
      /\ row.logo = (IF new.logo # old.logo THEN new.logo ELSE current.logo)
      /\ row.count = (IF new.count # old.count THEN new.count ELSE current.count)
  BY DEF IsRow, Flushed
<1> HIDE DEF new, row
<1>3. row.verified \in BOOLEAN /\ (current.verified => row.verified) /\ (t.verified => row.verified)
  <2>1. new.verified \in BOOLEAN
    BY <1>1
  <2>2. CASE new.verified # old.verified
    BY <1>1, <1>2, <2>1, <2>2 DEF IsRow, Knows
  <2>3. CASE new.verified = old.verified
    BY <1>1, <1>2, <2>1, <2>3 DEF IsRow, Knows
  <2> QED
    BY <2>2, <2>3
<1>4. (current.logo # "" => row.logo # "") /\ (t.logo # "" => row.logo # "")
  BY <1>1, <1>2 DEF IsRow, Knows
<1>5. row.count = current.count
  BY <1>1, <1>2
<1> QED
  BY <1>2, <1>3, <1>4, <1>5 DEF IsRow, Knows, Tells, new, row

\* A new row tells what its token told, and has no count.
LEMMA InsertAdds ==
    ASSUME NEW t
    PROVE  /\ IsRow(Upserted(NoRow, t)) /\ Upserted(NoRow, t).count = 0
           /\ Tells(Upserted(NoRow, t), t)
BY DEF IsRow, Upserted, NoRow, Tells

\* Where a sequence has an element.
At(h, e) == {i \in DOMAIN h : h[i] = e}

LEMMA Occurrences ==
    ASSUME NEW S, NEW h \in Seq(S), NEW e
    PROVE  IsFiniteSet(At(h, e)) /\ Cardinality(At(h, e)) \in Nat
<1>1. Len(h) \in Nat /\ At(h, e) \subseteq 1 .. Len(h)
  BY LenProperties DEF At
<1>2. IsFiniteSet(1 .. Len(h))
  BY <1>1, FS_Interval
<1> QED
  BY <1>1, <1>2, FS_Subset, FS_CardinalityType

\* One more selection is one more index.
LEMMA OneMore ==
    ASSUME NEW S, NEW h \in Seq(S), NEW x \in S, NEW e
    PROVE  /\ x = e => Cardinality(At(Append(h, x), e)) = Cardinality(At(h, e)) + 1
           /\ x # e => At(Append(h, x), e) = At(h, e)
<1> DEFINE at(g) == At(g, e)
<1> USE DEF At
<1>1. Len(h) \in Nat /\ DOMAIN h = 1 .. Len(h)
      /\ DOMAIN Append(h, x) = 1 .. (Len(h) + 1) /\ Append(h, x)[Len(h) + 1] = x
      /\ \A i \in 1 .. Len(h) : Append(h, x)[i] = h[i]
  BY AppendProperties, LenProperties
<1>2. IsFiniteSet(at(h)) /\ Cardinality(at(h)) \in Nat
  BY Occurrences
<1>3. ASSUME x = e PROVE at(Append(h, x)) = at(h) \cup {Len(h) + 1} /\ Len(h) + 1 \notin at(h)
  BY <1>1, <1>3
<1>4. ASSUME x # e PROVE at(Append(h, x)) = at(h)
  BY <1>1, <1>4
<1>5. ASSUME x = e PROVE Cardinality(at(Append(h, x))) = Cardinality(at(h)) + 1
  <2>1. Len(h) + 1 \notin at(h) /\ at(Append(h, x)) = at(h) \cup {Len(h) + 1}
    BY <1>3, <1>5
  <2> HIDE DEF at, At
  <2>2. Cardinality(at(h) \cup {Len(h) + 1}) = Cardinality(at(h)) + 1
    BY <1>2, <2>1, FS_AddElement
  <2> QED
    BY <2>1, <2>2
<1> QED
  BY <1>4, <1>5

LEMMA SearchInitInv == SearchInit => SearchInv
<1> SUFFICES ASSUME SearchInit PROVE SearchInv
  OBVIOUS
<1>1. registry = <<>> /\ DOMAIN registry = {} /\ history = <<>> /\ DOMAIN history = {} /\ learned = {}
  BY DEF SearchInit
<1>2. RowsInv
  <2>1. \A c \in Callers : call[c] = NoCall /\ DOMAIN NoCall.loaded = {}
    BY DEF SearchInit, NoCall
  <2> QED
    BY <1>1, <2>1 DEF RowsInv, SearchInit, NoCall
<1>3. CountsInv
  BY <1>1, EmptySeq DEF CountsInv, Counts
<1> QED
  BY <1>1, <1>2, <1>3 DEF SearchInv, LearnedInv

\* A step that leaves the table and what is told of it alone keeps the
\* invariant if no session comes to hold more than before.
LEMMA QuietStep ==
    ASSUME SearchInv, UNCHANGED <<registry, history, learned>>, DOMAIN call' = Callers,
           \A c \in Callers : /\ call'[c].loaded \in {<<>>, call[c].loaded}
                              /\ DOMAIN call'[c] = {"pc", "ask", "key", "tokens", "loaded"}
    PROVE  SearchInv'
<1>1. RowsInv'
  <2>1. DOMAIN <<>> = {}
    OBVIOUS
  <2> QED
    BY <2>1 DEF SearchInv, RowsInv
<1>2. CountsInv'
  BY DEF SearchInv, CountsInv, Counts
<1>3. LearnedInv'
  BY DEF SearchInv, LearnedInv
<1> QED
  BY <1>1, <1>2, <1>3 DEF SearchInv

LEMMA LoadStep ==
    ASSUME SearchInv, NEW c \in Callers, LoadRows(c) PROVE SearchInv'
<1>1. /\ call' = [call EXCEPT ![c].pc = "commit",
                              ![c].loaded = [k \in KeysOf(c) \cap DOMAIN registry |-> registry[k]]]
      /\ UNCHANGED <<registry, history, learned>>
  BY DEF LoadRows
<1>2. /\ DOMAIN call' = Callers
      /\ call'[c].loaded = [k \in KeysOf(c) \cap DOMAIN registry |-> registry[k]]
      /\ \A d \in Callers : DOMAIN call'[d] = {"pc", "ask", "key", "tokens", "loaded"}
      /\ \A d \in Callers \ {c} : call'[d] = call[d]
  BY <1>1 DEF SearchInv, RowsInv
<1>3. \A k \in DOMAIN call'[c].loaded : k \in DOMAIN registry /\ call'[c].loaded[k] = registry[k]
  BY <1>2
<1>4. RowsInv'
  <2>1. ASSUME NEW d \in Callers, NEW k \in DOMAIN call'[d].loaded
        PROVE  k \in DOMAIN registry /\ IsRow(call'[d].loaded[k]) /\ Knows(registry[k], call'[d].loaded[k])
    <3>1. CASE d = c
      BY <1>2, <1>3, <2>1, <3>1 DEF SearchInv, RowsInv, Knows
    <3>2. CASE d # c
      BY <1>2, <2>1, <3>2 DEF SearchInv, RowsInv
    <3> QED
      BY <3>1, <3>2
  <2> QED
    BY <1>1, <1>2, <2>1 DEF SearchInv, RowsInv
<1>5. CountsInv'
  BY <1>1 DEF SearchInv, CountsInv, Counts
<1>6. LearnedInv'
  BY <1>1 DEF SearchInv, LearnedInv
<1> QED
  BY <1>4, <1>5, <1>6 DEF SearchInv

LEMMA UpsertStep ==
    ASSUME SearchInv, NEW c \in Callers, UpsertRegistry(c) PROVE SearchInv'
<1> DEFINE old == call[c].loaded
           new(k) == registry'[k]
<1>1. /\ DOMAIN registry' = DOMAIN registry \cup KeysOf(c)
      /\ \A k \in DOMAIN registry \ KeysOf(c) : registry'[k] = registry[k]
      /\ \A k \in KeysOf(c) \cap DOMAIN old :
            registry'[k] = Flushed(old[k], Upserted(old[k], TokenOf(c, k)), registry[k])
      /\ \A k \in KeysOf(c) \ DOMAIN old : registry'[k] = Upserted(NoRow, TokenOf(c, k))
  BY DEF UpsertRegistry
<1>2. /\ (KeysOf(c) \ DOMAIN old) \cap DOMAIN registry = {}
      /\ learned' = learned \cup UNION {{k} \X Facts(TokenOf(c, k)) : k \in KeysOf(c)}
      /\ call' = [call EXCEPT ![c] = NoCall]
      /\ history' = history
  BY DEF UpsertRegistry, Clashing
<1>3. \A k \in DOMAIN old : k \in DOMAIN registry /\ IsRow(old[k]) /\ IsRow(registry[k]) /\ Knows(registry[k], old[k])
  BY DEF SearchInv, RowsInv
<1>4. ASSUME NEW k \in KeysOf(c)
      PROVE  /\ IsRow(registry'[k])
             /\ Tells(registry'[k], TokenOf(c, k))
             /\ k \in DOMAIN registry => Knows(registry'[k], registry[k]) /\ registry'[k].count = registry[k].count
             /\ k \notin DOMAIN registry => registry'[k].count = 0
  <2>1. CASE k \in DOMAIN old
    <3> DEFINE t == TokenOf(c, k)
    <3>1. /\ registry'[k] = Flushed(old[k], Upserted(old[k], t), registry[k])
          /\ IsRow(old[k]) /\ IsRow(registry[k]) /\ Knows(registry[k], old[k]) /\ k \in DOMAIN registry
      BY <1>1, <1>3, <2>1
    <3> HIDE DEF old, t
    <3> QED
      BY <3>1, FlushAdds DEF t
  <2>2. CASE k \notin DOMAIN old
    <3> DEFINE t == TokenOf(c, k)
    <3>1. registry'[k] = Upserted(NoRow, t) /\ k \notin DOMAIN registry
      BY <1>1, <1>2, <2>2
    <3> HIDE DEF old, t
    <3> QED
      BY <3>1, InsertAdds DEF t
  <2> QED
    BY <2>1, <2>2
<1>5. \A k \in DOMAIN registry : Knows(registry'[k], registry[k]) /\ registry'[k].count = registry[k].count
  BY <1>1, <1>4 DEF Knows
<1>6. \A k \in DOMAIN registry' : IsRow(registry'[k])
  <2>1. \A k \in DOMAIN registry : IsRow(registry[k])
    BY DEF SearchInv, RowsInv
  <2> QED
    BY <1>1, <1>4, <2>1
<1> HIDE DEF old
<1>7. RowsInv'
  <2>1. DOMAIN call' = Callers /\ call'[c] = NoCall /\ \A d \in Callers \ {c} : call'[d] = call[d]
    BY <1>2 DEF SearchInv, RowsInv
  <2>2. DOMAIN NoCall.loaded = {} /\ DOMAIN NoCall = {"pc", "ask", "key", "tokens", "loaded"}
    BY DEF NoCall
  <2>3. ASSUME NEW d \in Callers, NEW k \in DOMAIN call'[d].loaded
        PROVE  k \in DOMAIN registry' /\ IsRow(call'[d].loaded[k]) /\ Knows(registry'[k], call'[d].loaded[k])
    <3>1. d # c /\ call'[d] = call[d] /\ k \in DOMAIN call[d].loaded
      BY <2>1, <2>2, <2>3
    <3>2. k \in DOMAIN registry /\ IsRow(call[d].loaded[k]) /\ Knows(registry[k], call[d].loaded[k])
      BY <3>1 DEF SearchInv, RowsInv
    <3>3. Knows(registry'[k], registry[k])
      BY <1>5, <3>2
    <3> QED
      BY <1>1, <3>1, <3>2, <3>3 DEF Knows
  <2>4. \A d \in Callers : DOMAIN call'[d] = {"pc", "ask", "key", "tokens", "loaded"}
    BY <2>1, <2>2 DEF SearchInv, RowsInv
  <2> QED
    BY <1>6, <2>1, <2>3, <2>4 DEF RowsInv, IsRow, Knows
<1>8. CountsInv'
  <2>1. \A k : Counts(k)' = Counts(k)
    BY <1>2 DEF Counts
  <2>2. \A k \in DOMAIN registry' \ DOMAIN registry : Counts(k) = {}
    BY DEF SearchInv, CountsInv, Counts
  <2>3. \A k \in DOMAIN registry' \ DOMAIN registry : registry'[k].count = 0
    BY <1>1, <1>4
  <2>4. Cardinality({}) = 0
    BY FS_EmptySet
  <2> QED
    BY <1>1, <1>2, <1>5, <2>1, <2>2, <2>3, <2>4 DEF SearchInv, CountsInv
<1>9. LearnedInv'
  <2>1. ASSUME NEW k, NEW f, <<k, f>> \in learned', <<k, f>> \notin learned
        PROVE  k \in KeysOf(c) /\ f \in Facts(TokenOf(c, k))
    BY <1>2, <2>1
  <2>2. \A k : \A f : <<k, f>> \in learned => k \in DOMAIN registry
    BY DEF SearchInv, LearnedInv
  <2>3. \A k : \A f : <<k, f>> \in learned' => k \in DOMAIN registry'
    BY <1>1, <2>1, <2>2
  <2>4. ASSUME NEW k, <<k, "verified">> \in learned' PROVE registry'[k].verified
    <3>1. CASE <<k, "verified">> \in learned
      BY <1>5, <2>2, <3>1 DEF SearchInv, LearnedInv, Knows
    <3>2. CASE <<k, "verified">> \notin learned
      BY <1>4, <2>1, <2>4, <3>2 DEF Facts, Tells
    <3> QED
      BY <3>1, <3>2
  <2>5. ASSUME NEW k, <<k, "logo">> \in learned' PROVE registry'[k].logo # ""
    <3>1. CASE <<k, "logo">> \in learned
      BY <1>5, <2>2, <3>1 DEF SearchInv, LearnedInv, Knows
    <3>2. CASE <<k, "logo">> \notin learned
      BY <1>4, <2>1, <2>5, <3>2 DEF Facts, Tells
    <3> QED
      BY <3>1, <3>2
  <2> QED
    BY <2>3, <2>4, <2>5 DEF LearnedInv
<1> QED
  BY <1>7, <1>8, <1>9 DEF SearchInv

LEMMA RecordStep ==
    ASSUME SearchInv, NEW k \in Keys, NEW spelt \in BOOLEAN, RecordSearch(k, spelt) PROVE SearchInv'
<1> DEFINE known == spelt /\ k \in DOMAIN registry
<1>1. /\ history' = Append(history, <<k, known>>)
      /\ registry' = IF known THEN [registry EXCEPT ![k].count = @ + 1] ELSE registry
      /\ UNCHANGED <<call, learned>>
  BY DEF RecordSearch
<1>2. known \in BOOLEAN /\ (known => k \in DOMAIN registry)
  OBVIOUS
<1> HIDE DEF known
<1>3. history \in Seq(Keys \X BOOLEAN) /\ <<k, known>> \in Keys \X BOOLEAN
  BY <1>2 DEF SearchInv, CountsInv
<1>4. \A x \in DOMAIN registry : IsRow(registry[x])
  BY DEF SearchInv, RowsInv
<1>5. \A x : Counts(x) = At(history, <<x, TRUE>>) /\ Counts(x)' = At(history', <<x, TRUE>>)
  BY DEF Counts, At
<1>6. \A x \in DOMAIN registry : registry[x].count \in Nat
  <2>1. \A x \in DOMAIN registry : registry[x].count = Cardinality(At(history, <<x, TRUE>>))
    BY <1>5 DEF SearchInv, CountsInv
  <2> QED
    BY <1>3, <2>1, Occurrences
<1>7. /\ DOMAIN registry' = DOMAIN registry
      /\ \A x \in DOMAIN registry : /\ registry'[x].verified = registry[x].verified
                                    /\ registry'[x].logo = registry[x].logo
                                    /\ DOMAIN registry'[x] = DOMAIN registry[x]
                                    /\ registry'[x].count = registry[x].count + (IF known /\ x = k THEN 1 ELSE 0)
  <2>1. CASE known
    <3>1. registry' = [registry EXCEPT ![k].count = @ + 1]
      BY <1>1, <2>1
    <3>2. k \in DOMAIN registry /\ IsRow(registry[k])
      BY <1>2, <1>4, <2>1
    <3>3. \A x \in DOMAIN registry \ {k} : registry'[x] = registry[x]
      BY <3>1
    <3>4. registry'[k] = [registry[k] EXCEPT !.count = @ + 1]
      BY <3>1, <3>2
    <3>5. DOMAIN registry' = DOMAIN registry
      BY <3>1
    <3> QED
      BY <3>2, <3>3, <3>4, <3>5, <1>6, <2>1 DEF IsRow
  <2>2. CASE ~ known
    <3>1. registry' = registry
      BY <1>1, <2>2
    <3> QED
      BY <3>1, <1>6, <2>2
  <2> QED
    BY <2>1, <2>2
<1>8. \A x : /\ <<x, TRUE>> = <<k, known>> => Cardinality(Counts(x)') = Cardinality(Counts(x)) + 1
             /\ <<x, TRUE>> # <<k, known>> => Counts(x)' = Counts(x)
  BY <1>1, <1>3, <1>5, OneMore
<1>9. CountsInv'
  <2>1. history' \in Seq(Keys \X BOOLEAN)
    BY <1>1, <1>3, AppendProperties
  <2>2. ASSUME NEW x, Counts(x)' # {} PROVE x \in DOMAIN registry'
    <3>1. CASE <<x, TRUE>> = <<k, known>>
      BY <1>2, <1>7, <3>1
    <3>2. CASE <<x, TRUE>> # <<k, known>>
      BY <1>7, <1>8, <2>2, <3>2 DEF SearchInv, CountsInv
    <3> QED
      BY <3>1, <3>2
  <2>3. ASSUME NEW x \in DOMAIN registry PROVE registry'[x].count = Cardinality(Counts(x)')
    <3>1. registry[x].count = Cardinality(Counts(x)) /\ Cardinality(Counts(x)) \in Nat
      BY <1>3, <1>5, Occurrences DEF SearchInv, CountsInv
    <3>2. CASE <<x, TRUE>> = <<k, known>>
      <4>1. x = k /\ known
        BY <1>2, <3>2
      <4> QED
        BY <1>7, <1>8, <3>1, <3>2, <4>1
    <3>3. CASE <<x, TRUE>> # <<k, known>>
      <4>1. ~ (known /\ x = k)
        BY <1>2, <3>3
      <4>2. Counts(x)' = Counts(x)
        BY <1>8, <3>3
      <4> QED
        BY <1>7, <3>1, <4>1, <4>2
    <3> QED
      BY <3>2, <3>3
  <2> QED
    BY <1>7, <2>1, <2>2, <2>3 DEF CountsInv
<1>10. RowsInv'
  <2>1. \A x \in DOMAIN registry : IsRow(registry'[x])
    BY <1>4, <1>7 DEF IsRow
  <2>2. \A x \in DOMAIN registry : \A old : Knows(registry[x], old) => Knows(registry'[x], old)
    BY <1>7 DEF Knows
  <2> QED
    BY <1>1, <1>7, <2>1, <2>2 DEF SearchInv, RowsInv
<1>11. LearnedInv'
  BY <1>1, <1>7 DEF SearchInv, LearnedInv
<1> QED
  BY <1>9, <1>10, <1>11 DEF SearchInv

LEMMA SearchStep ==
    ASSUME SearchInv, SearchNext PROVE SearchInv'
<1>1. \A c \in Callers : DOMAIN call[c] = {"pc", "ask", "key", "tokens", "loaded"} /\ DOMAIN call = Callers
  BY DEF SearchInv, RowsInv
<1>2. ASSUME NEW c \in Callers, NEW x \in Searches, Search(c, x) PROVE SearchInv'
  <2>1. /\ UNCHANGED <<registry, history, learned>>
        /\ call' = [call EXCEPT ![c] = [NoCall EXCEPT !.pc = "search", !.ask = x]]
    BY <1>2 DEF Search
  <2> QED
    BY <1>1, <2>1, QuietStep DEF NoCall
<1>3. ASSUME NEW c \in Callers, NEW k \in Keys, GetTokenDetail(c, k) PROVE SearchInv'
  <2>1. /\ UNCHANGED <<registry, history, learned>>
        /\ call' = [call EXCEPT ![c] = [NoCall EXCEPT !.pc = "detail", !.key = k]]
    BY <1>3 DEF GetTokenDetail
  <2> QED
    BY <1>1, <2>1, QuietStep DEF NoCall
<1>4. ASSUME NEW c \in Callers, NEW silent, Answered(c, silent) PROVE SearchInv'
  <2>1. UNCHANGED <<registry, history, learned>>
    BY <1>4 DEF Answered
  <2>2. \E v : \/ call' = [call EXCEPT ![c] = NoCall]
               \/ call' = [call EXCEPT ![c] = [@ EXCEPT !.pc = "load", !.tokens = v]]
    BY <1>4 DEF Answered
  <2> QED
    <3>1. PICK v : \/ call' = [call EXCEPT ![c] = NoCall]
                   \/ call' = [call EXCEPT ![c] = [@ EXCEPT !.pc = "load", !.tokens = v]]
      BY <2>2
    <3>2. CASE call' = [call EXCEPT ![c] = NoCall]
      BY <1>1, <2>1, <3>2, QuietStep DEF NoCall
    <3>3. CASE call' = [call EXCEPT ![c] = [@ EXCEPT !.pc = "load", !.tokens = v]]
      <4>1. call'[c] = [call[c] EXCEPT !.pc = "load", !.tokens = v] /\ \A d \in Callers \ {c} : call'[d] = call[d]
        BY <1>1, <3>3
      <4>2. call'[c].loaded = call[c].loaded /\ DOMAIN call'[c] = DOMAIN call[c] /\ DOMAIN call' = Callers
        BY <1>1, <3>3, <4>1
      <4> QED
        BY <1>1, <2>1, <4>1, <4>2, QuietStep
    <3> QED
      BY <3>1, <3>2, <3>3
<1>5. ASSUME NEW c \in Callers, NEW silent, Resolved(c, silent) PROVE SearchInv'
  <2>1. UNCHANGED <<registry, history, learned>>
    BY <1>5 DEF Resolved
  <2>2. \E v : \/ call' = [call EXCEPT ![c] = NoCall]
               \/ call' = [call EXCEPT ![c].pc = "load", ![c].tokens = v]
    BY <1>5 DEF Resolved
  <2> QED
    BY <1>1, <2>1, <2>2, QuietStep DEF NoCall
<1>6. ASSUME NEW c \in Callers, UpsertFails(c) PROVE SearchInv'
  <2>1. UNCHANGED <<registry, history, learned>> /\ call' = [call EXCEPT ![c] = NoCall]
    BY <1>6 DEF UpsertFails
  <2> QED
    BY <1>1, <2>1, QuietStep DEF NoCall
<1>7. CASE Expire
  <2>1. UNCHANGED <<registry, history, learned, call>>
    BY <1>7 DEF Expire
  <2> QED
    BY <1>1, <2>1, QuietStep DEF SearchInv, RowsInv
<1>8. CASE RestartSearch
  <2>1. UNCHANGED <<registry, history, learned>> /\ call' = [c \in Callers |-> NoCall]
    BY <1>8 DEF RestartSearch
  <2> QED
    BY <2>1, QuietStep DEF NoCall
<1> QED
  BY <1>2, <1>3, <1>4, <1>5, <1>6, <1>7, <1>8, LoadStep, UpsertStep, RecordStep DEF SearchNext

\* However searches, details and selections overlap, fail or are cut off by a
\* restart, the registry counts every selection and blanks nothing it knew.
THEOREM RegistryKeepsAll == SearchSpec => []RegistryForgetsNothing
<1>1. SearchInv /\ [SearchNext]_searchVars => SearchInv'
  <2> SUFFICES ASSUME SearchInv, [SearchNext]_searchVars PROVE SearchInv'
    OBVIOUS
  <2>1. CASE UNCHANGED searchVars
    BY <2>1, QuietStep DEF searchVars, SearchInv, RowsInv
  <2> QED
    BY <2>1, SearchStep
<1>2. SearchInv => RegistryForgetsNothing
  BY DEF SearchInv, CountsInv, Counts, LearnedInv, RegistryForgetsNothing
<1> QED
  BY SearchInitInv, <1>1, <1>2, PTL DEF SearchSpec

(****************************** On-chain sync ******************************)
(* A run of the job carries what is left to try in the queue of its session, *)
(* whatever happens to the token at hand.                                    *)

Session(r) == {"pc", "queue", "broken"} \subseteq DOMAIN r /\ r.queue \in Seq(Tokens) /\ r.broken \in BOOLEAN

SessionsInv == DOMAIN s = Procs /\ \A p \in Procs : Session(s[p])

\* A session that a failed alert has broken stands for a failure to come, and
\* only the job posts alerts.
FailuresInv ==
    /\ failed \in Nat /\ causes \in Nat
    /\ ~ s["admin"].broken
    /\ failed + (IF s["job"].broken THEN 1 ELSE 0) <= causes

TriedInv ==
    IF s["job"].pc = "idle" THEN tried \in {{}, Tokens}
    ELSE tried \cup Range(s["job"].queue) = Tokens

SyncInv == SessionsInv /\ FailuresInv /\ TriedInv

LEMMA FreshSession ==
    /\ Session(NewSession) /\ ~ NewSession.broken
    /\ NewSession.pc = "idle" /\ NewSession.queue = <<>>
BY EmptySeq DEF NewSession, Session

LEMMA QueueRange ==
    ASSUME NEW S, NEW q \in Seq(S)
    PROVE  /\ Range(q) \subseteq S
           /\ q = <<>> => Range(q) = {}
           /\ q # <<>> => /\ Head(q) \in S /\ Tail(q) \in Seq(S)
                          /\ Range(q) = {Head(q)} \cup Range(Tail(q))
<1>1. Range(q) \subseteq S
  BY ElementOfSeq, LenProperties DEF Range
<1>2. q = <<>> => Range(q) = {}
  BY DEF Range
<1>3. ASSUME q # <<>> PROVE Head(q) \in S /\ Tail(q) \in Seq(S) /\ Range(q) = {Head(q)} \cup Range(Tail(q))
  <2>1. /\ Head(q) = q[1] /\ Head(q) \in S /\ Tail(q) \in Seq(S) /\ Len(q) \in Nat \ {0}
        /\ Len(Tail(q)) = Len(q) - 1 /\ DOMAIN q = 1 .. Len(q) /\ DOMAIN Tail(q) = 1 .. (Len(q) - 1)
        /\ \A i \in 1 .. Len(Tail(q)) : Tail(q)[i] = q[i + 1]
    BY <1>3, HeadTailProperties, LenProperties, ElementOfSeq, EmptySeq
  <2>2. ASSUME NEW i \in DOMAIN q PROVE q[i] \in {Head(q)} \cup Range(Tail(q))
    <3>1. CASE i = 1
      BY <2>1, <3>1
    <3>2. CASE i # 1
      <4>1. i - 1 \in DOMAIN Tail(q) /\ Tail(q)[i - 1] = q[i]
        BY <2>1, <2>2, <3>2
      <4> QED
        BY <4>1 DEF Range
    <3> QED
      BY <3>1, <3>2
  <2>3. ASSUME NEW i \in DOMAIN Tail(q) PROVE Tail(q)[i] \in Range(q)
    <3>1. i + 1 \in DOMAIN q /\ q[i + 1] = Tail(q)[i]
      BY <2>1
    <3> QED
      BY <3>1 DEF Range
  <2>4. Head(q) \in Range(q)
    BY <2>1 DEF Range
  <2> QED
    BY <2>1, <2>2, <2>3, <2>4 DEF Range
<1> QED
  BY <1>1, <1>2, <1>3

LEMMA OnchainInitInv == OnchainInit => SyncInv
<1> SUFFICES ASSUME OnchainInit PROVE SyncInv
  OBVIOUS
<1>1. s = [p \in Procs |-> NewSession] /\ tried = {} /\ failed = 0 /\ causes = 0
  BY DEF OnchainInit
<1>2. s["job"] = NewSession /\ s["admin"] = NewSession /\ DOMAIN s = Procs
  BY <1>1 DEF Procs
<1> QED
  BY <1>1, <1>2, FreshSession DEF SyncInv, SessionsInv, FailuresInv, TriedInv, Procs

\* A step inside a sync changes neither what is left nor what has failed.
LEMMA InsideStep ==
    ASSUME SyncInv, UNCHANGED <<tried, failed, causes>>, DOMAIN s' = Procs,
           \A p \in Procs : /\ Session(s'[p])
                            /\ s'[p].broken = s[p].broken
                            /\ s'[p].queue = s[p].queue
                            /\ p = "job" => (s'[p].pc = "idle" <=> s[p].pc = "idle")
    PROVE  SyncInv'
<1>1. "job" \in Procs /\ "admin" \in Procs
  BY DEF Procs
<1>2. s'["job"].queue = s["job"].queue /\ (s'["job"].pc = "idle" <=> s["job"].pc = "idle")
      /\ s'["job"].broken = s["job"].broken /\ s'["admin"].broken = s["admin"].broken
  BY <1>1
<1>3. SessionsInv'
  <2>1. \A p \in Procs : Session(s'[p])
    OBVIOUS
  <2> QED
    BY <2>1 DEF SessionsInv, Session
<1>4. FailuresInv'
  BY <1>2 DEF SyncInv, FailuresInv
<1>5. TriedInv'
  BY <1>2 DEF SyncInv, TriedInv
<1> QED
  BY <1>3, <1>4, <1>5 DEF SyncInv

\* A sync that fails leaves the rest of the queue to be tried, and what broke
\* the session is accounted for.
LEMMA FailedStep ==
    ASSUME SyncInv, NEW p \in Procs, Failed(p), s[p].pc # "idle",
           causes' = causes + 1 \/ (causes' = causes /\ s[p].broken)
    PROVE  SyncInv'
<1> DEFINE new == [NewSession EXCEPT !.pc = IF p = "job" THEN "next" ELSE "idle", !.queue = s[p].queue]
<1>1. s' = [s EXCEPT ![p] = new] /\ failed' = failed + 1 /\ tried' = tried
  BY DEF Failed
<1>2. Session(s[p]) /\ DOMAIN s = Procs
  BY DEF SyncInv, SessionsInv
<1>3. Session(new) /\ ~ new.broken /\ new.queue = s[p].queue /\ new.pc = IF p = "job" THEN "next" ELSE "idle"
  BY <1>2 DEF NewSession, Session
<1> HIDE DEF new
<1>4. s'[p] = new /\ DOMAIN s' = Procs /\ \A q \in Procs \ {p} : s'[q] = s[q]
  BY <1>1, <1>2
<1>5. \A q \in Procs : Session(s'[q])
  BY <1>3, <1>4 DEF SyncInv, SessionsInv
<1>6. SessionsInv'
  BY <1>4, <1>5 DEF SessionsInv, Session
<1>7. CASE p = "job"
  <2>1. /\ s'["job"].pc = "next" /\ s'["job"].queue = s["job"].queue /\ ~ s'["job"].broken
        /\ s'["admin"] = s["admin"]
    BY <1>3, <1>4, <1>7 DEF Procs
  <2>2. TriedInv'
    BY <1>1, <1>7, <2>1 DEF SyncInv, TriedInv
  <2>3. FailuresInv'
    BY <1>1, <1>7, <2>1 DEF SyncInv, FailuresInv
  <2> QED
    BY <1>6, <2>2, <2>3 DEF SyncInv
<1>8. CASE p = "admin"
  <2>1. ~ s'["admin"].broken /\ s'["job"] = s["job"]
    BY <1>3, <1>4, <1>8 DEF Procs
  <2>2. TriedInv'
    BY <1>1, <2>1 DEF SyncInv, TriedInv
  <2>3. FailuresInv'
    BY <1>1, <1>8, <2>1 DEF SyncInv, FailuresInv
  <2> QED
    BY <1>6, <2>2, <2>3 DEF SyncInv
<1> QED
  BY <1>7, <1>8 DEF Procs

\* What the open session p does within its sync, its queue untouched.
LEMMA InsideAt ==
    ASSUME SyncInv, NEW p \in Procs, UNCHANGED <<tried, failed, causes>>,
           DOMAIN s' = Procs, \A q \in Procs \ {p} : s'[q] = s[q],
           s[p].pc # "idle", s'[p].pc # "idle",
           DOMAIN s'[p] = DOMAIN s[p], s'[p].queue = s[p].queue, s'[p].broken = s[p].broken
    PROVE  SyncInv'
<1>1. \A q \in Procs : Session(s[q])
  BY DEF SyncInv, SessionsInv
<1>2. Session(s'[p])
  BY <1>1 DEF Session
<1>3. \A q \in Procs : /\ Session(s'[q])
                       /\ s'[q].broken = s[q].broken
                       /\ s'[q].queue = s[q].queue
                       /\ q = "job" => (s'[q].pc = "idle" <=> s[q].pc = "idle")
  BY <1>1, <1>2
<1> QED
  BY <1>3, InsideStep

LEMMA SyncingStep ==
    ASSUME SyncInv, NEW p \in Procs,
           \/ Ohlcv(p) \/ Load(p) \/ Clear(p) \/ Pull(p) \/ PullFails(p) \/ Liquidity(p)
           \/ ScoreRead(p) \/ ScoreWrite(p) \/ Analyse(p)
    PROVE  SyncInv'
<1> DEFINE Inside == /\ DOMAIN s' = Procs /\ \A q \in Procs \ {p} : s'[q] = s[q]
                     /\ s[p].pc # "idle" /\ s'[p].pc # "idle"
                     /\ DOMAIN s'[p] = DOMAIN s[p] /\ s'[p].queue = s[p].queue /\ s'[p].broken = s[p].broken
<1>1. {"pc", "queue", "broken"} \subseteq DOMAIN s[p] /\ DOMAIN s = Procs
  BY DEF SyncInv, SessionsInv, Session
<1>2. UNCHANGED <<tried, failed, causes>>
  BY DEF Ohlcv, Load, Clear, Pull, PullFails, Liquidity, ScoreRead, ScoreWrite, Analyse, ghosts
<1>3. CASE Ohlcv(p)
  <2>1. Inside
    <3> DEFINE t == s[p].token
               new(up) == {c \in IF HasPool(t) /\ up THEN Candles(t, s[p].hours) ELSE {} :
                              Slot(c) \notin {Slot(d) : d \in candles[t]}}
               keys(up) == {<<"candle", t, Slot(c)>> : c \in new(up)}
    <3>1. \E up \in BOOLEAN : s' = [s EXCEPT ![p].pc = "load", ![p].candles = new(up), ![p].locks = keys(up),
                                          ![p].todo = Collectors(candles[t] \cup new(up) = {})]
      BY <1>3 DEF Ohlcv
    <3>2. s[p].pc = "ohlcv"
      BY <1>3 DEF Ohlcv
    <3> HIDE DEF t, new, keys
    <3> QED
      BY <1>1, <3>1, <3>2
  <2> QED
    BY <1>2, <2>1, InsideAt
<1>4. CASE Load(p)
  <2>1. Inside
    <3> DEFINE cp == cps[s[p].token][Source(p)]
    <3>1. CASE s[p].todo = <<>>
      BY <1>1, <1>4, <3>1 DEF Load
    <3>2. CASE s[p].todo # <<>>
      <4>1. s[p].pc = "load"
            /\ s' = [s EXCEPT ![p].pc = "clear", ![p].since = cp.at, ![p].cursor = cp.cursor,
                              ![p].loaded = Set(@, Source(p), cp), ![p].page = 1,
                              ![p].cp = Set(@, Source(p), [cp EXCEPT !.status = "running"])]
        BY <1>4, <3>2 DEF Load
      <4> HIDE DEF cp
      <4> QED
        BY <1>1, <4>1
    <3> QED
      BY <3>1, <3>2
  <2> QED
    BY <1>2, <2>1, InsideAt
<1>5. CASE Clear(p)
  <2>1. Inside
    BY <1>1, <1>5 DEF Clear
  <2> QED
    BY <1>2, <2>1, InsideAt
<1>6. CASE Pull(p)
  <2>1. Inside
    <3>1. CASE PageOf(p) = {}
      BY <1>1, <1>6, <3>1 DEF Pull, SourceDone
    <3>2. CASE PageOf(p) # {}
      <4> DEFINE page == PageOf(p)
                 new == {r \in page : RowLocks({r}) \cap RowLocks(Visible(p)) = {}}
                 wanted_ == IF new = {} THEN {} ELSE RowLocks(new) \cup {CpLock(p)}
                 next_ == IF Source(p) = "dune" /\ Cardinality(page) >= DunePage
                          THEN s[p].cursor + Cardinality(page) ELSE 0
                 cp == [s[p].cp[Source(p)] EXCEPT !.at = Max({r.at : r \in page}), !.status = "idle",
                                                  !.cursor = IF next_ = 0 THEN @ ELSE next_]
                 last == next_ = 0 \/ s[p].page = MaxPages
      <4>1. s[p].pc = "pull"
            /\ s' = [s EXCEPT ![p].add = @ \cup new, ![p].locks = @ \cup wanted_,
                              ![p].cp[Source(p)] = cp, ![p].cursor = next_, ![p].page = @ + 1,
                              ![p].pc = IF last THEN "load" ELSE "pull",
                              ![p].todo = IF last THEN Tail(@) ELSE @]
        BY <1>6, <3>2 DEF Pull
      <4> HIDE DEF page, new, wanted_, next_, cp, last
      <4> QED
        BY <1>1, <4>1
    <3> QED
      BY <3>1, <3>2
  <2> QED
    BY <1>2, <2>1, InsideAt
<1>7. CASE PullFails(p)
  <2>1. Inside
    BY <1>1, <1>7 DEF PullFails, SourceDone
  <2> QED
    BY <1>2, <2>1, InsideAt
<1>8. CASE Liquidity(p)
  <2>1. Inside
    BY <1>1, <1>8 DEF Liquidity
  <2> QED
    BY <1>2, <2>1, InsideAt
<1>9. CASE ScoreRead(p)
  <2>1. Inside
    <3>1. CASE s[p].toScore = {}
      BY <1>1, <1>9, <3>1 DEF ScoreRead
    <3>2. CASE s[p].toScore # {}
      <4>1. PICK w \in s[p].toScore :
              s' \in {[s EXCEPT ![p].toScore = @ \ {w}],
                      [s EXCEPT ![p].pc = "upsert", ![p].wallet = w, ![p].toScore = @ \ {w},
                                ![p].stat = WalletStat(RowsOf(p, w))]}
        BY <1>9, <3>2 DEF ScoreRead
      <4>2. s[p].pc = "score"
        BY <1>9 DEF ScoreRead
      <4> QED
        BY <1>1, <4>1, <4>2
    <3> QED
      BY <3>1, <3>2
  <2> QED
    BY <1>2, <2>1, InsideAt
<1>10. CASE ScoreWrite(p)
  <2>1. Inside
    BY <1>1, <1>10 DEF ScoreWrite
  <2> QED
    BY <1>2, <2>1, InsideAt
<1>11. CASE Analyse(p)
  <2>1. Inside
    BY <1>1, <1>11 DEF Analyse
  <2> QED
    BY <1>2, <2>1, InsideAt
<1> QED
  BY <1>3, <1>4, <1>5, <1>6, <1>7, <1>8, <1>9, <1>10, <1>11

LEMMA AnnouncingStep ==
    ASSUME SyncInv, Announce \/ Alert PROVE SyncInv'
<1>1. {"pc", "queue", "broken"} \subseteq DOMAIN s["job"] /\ DOMAIN s = Procs /\ "job" \in Procs
  BY DEF SyncInv, SessionsInv, Session, Procs
<1>2. UNCHANGED <<tried, failed, causes>>
  BY DEF Announce, Alert, ghosts
<1> DEFINE Inside == /\ DOMAIN s' = Procs /\ \A q \in Procs \ {"job"} : s'[q] = s[q]
                     /\ s["job"].pc # "idle" /\ s'["job"].pc # "idle"
                     /\ DOMAIN s'["job"] = DOMAIN s["job"] /\ s'["job"].queue = s["job"].queue
                     /\ s'["job"].broken = s["job"].broken
<1>3. Inside
  <2>1. CASE Announce
    BY <1>1, <2>1 DEF Announce
  <2>2. CASE Alert /\ s["job"].alerts = <<>>
    BY <1>1, <2>2 DEF Alert
  <2>3. CASE Alert /\ s["job"].alerts # <<>>
    BY <1>1, <2>3 DEF Alert
  <2> QED
    BY <2>1, <2>2, <2>3
<1> QED
  BY <1>1, <1>2, <1>3, InsideAt

LEMMA CommitStep ==
    ASSUME SyncInv, NEW p \in Procs, Commit(p) PROVE SyncInv'
<1>1. {"pc", "queue", "broken"} \subseteq DOMAIN s[p] /\ DOMAIN s = Procs
  BY DEF SyncInv, SessionsInv, Session
<1>2. UNCHANGED <<tried, failed, causes>> /\ s[p].pc = "commit"
  BY DEF Commit
<1>3. CASE p = "job"
  <2>1. s' = [s EXCEPT ![p] = [@ EXCEPT !.pc = IF s[p].signals = <<>> THEN "next" ELSE "announce",
                               !.locks = {}, !.add = {}, !.drop = {}, !.candles = {}, !.stats = <<>>,
                               !.smart = {}, !.cp = <<>>, !.loaded = <<>>, !.stat = None, !.wallet = None]]
    BY <1>3 DEF Commit
  <2> QED
    BY <1>1, <1>2, <2>1, InsideAt
<1>4. CASE p = "admin"
  <2>1. s' = [s EXCEPT ![p] = NewSession]
    BY <1>4 DEF Commit
  <2>2. s'["job"] = s["job"] /\ s'["admin"] = NewSession /\ DOMAIN s' = Procs
    BY <1>1, <1>4, <2>1 DEF Procs
  <2>3. SessionsInv'
    <3>1. Session(s["job"]) /\ Session(NewSession)
      BY FreshSession DEF SyncInv, SessionsInv, Procs
    <3>2. \A q \in Procs : Session(s'[q])
      BY <2>2, <3>1 DEF Procs
    <3> QED
      BY <2>2, <3>2 DEF SessionsInv, Session
  <2>4. FailuresInv'
    BY <1>2, <2>2, FreshSession DEF SyncInv, FailuresInv
  <2>5. TriedInv'
    BY <1>2, <2>2 DEF SyncInv, TriedInv
  <2> QED
    BY <2>3, <2>4, <2>5 DEF SyncInv
<1> QED
  BY <1>3, <1>4 DEF Procs

\* The next token is taken from the queue, or the run ends, having tried all.
LEMMA NextTokenStep ==
    ASSUME SyncInv, NextToken PROVE SyncInv'
<1>1. /\ Session(s["job"]) /\ Session(s["admin"]) /\ DOMAIN s = Procs /\ s["job"].pc = "next"
      /\ s["job"].queue \in Seq(Tokens) /\ s["job"].broken \in BOOLEAN
      /\ UNCHANGED <<failed, causes>>
  BY DEF SyncInv, SessionsInv, Session, Procs, NextToken
<1>2. tried \cup Range(s["job"].queue) = Tokens
  BY <1>1 DEF SyncInv, TriedInv
<1>3. CASE s["job"].queue = <<>>
  <2>1. s' = [s EXCEPT !["job"] = NewSession] /\ tried' = tried
    BY <1>3 DEF NextToken
  <2>2. s'["job"] = NewSession /\ s'["admin"] = s["admin"] /\ DOMAIN s' = Procs
    BY <1>1, <2>1 DEF Procs
  <2>3. tried' = Tokens
    BY <1>1, <1>2, <1>3, <2>1, QueueRange
  <2>4. SessionsInv'
    <3>1. \A q \in Procs : Session(s'[q])
      BY <1>1, <2>2, FreshSession DEF Procs
    <3> QED
      BY <2>2, <3>1 DEF SessionsInv, Session
  <2>5. FailuresInv'
    BY <1>1, <2>2, FreshSession DEF SyncInv, FailuresInv
  <2>6. TriedInv'
    BY <2>2, <2>3, FreshSession DEF TriedInv
  <2> QED
    BY <2>4, <2>5, <2>6 DEF SyncInv
<1>4. CASE s["job"].queue # <<>>
  <2> DEFINE q == s["job"].queue
  <2>1. Start("job", Head(q), Tail(q), 4) /\ tried' = tried \cup {Head(q)}
    BY <1>4 DEF NextToken
  <2>2. /\ DOMAIN s' = Procs
        /\ s'["job"].pc = "ohlcv" /\ s'["job"].queue = Tail(q) /\ s'["job"].broken = s["job"].broken
        /\ {"pc", "queue", "broken"} \subseteq DOMAIN s'["job"]
        /\ s'["admin"].queue = s["admin"].queue /\ s'["admin"].broken = s["admin"].broken
        /\ DOMAIN s'["admin"] = DOMAIN s["admin"]
    BY <1>1, <2>1 DEF Start, NewSession, Procs, Session
  <2>3. Head(q) \in Tokens /\ Tail(q) \in Seq(Tokens) /\ Range(q) = {Head(q)} \cup Range(Tail(q))
    BY <1>1, <1>4, QueueRange
  <2>4. SessionsInv'
    <3>1. Session(s'["job"]) /\ Session(s'["admin"])
      BY <1>1, <2>2, <2>3 DEF Session
    <3>2. \A x \in Procs : Session(s'[x])
      BY <3>1 DEF Procs
    <3> QED
      BY <2>2, <3>2 DEF SessionsInv, Session
  <2>5. FailuresInv'
    BY <1>1, <2>2 DEF SyncInv, FailuresInv
  <2>6. TriedInv'
    BY <1>2, <2>1, <2>2, <2>3 DEF TriedInv
  <2> QED
    BY <2>4, <2>5, <2>6 DEF SyncInv
<1> QED
  BY <1>3, <1>4

LEMMA OpenStep ==
    ASSUME SyncInv,
           RunJob \/ Restart \/ AlertFails \/ \E t \in Tokens, hours \in {1, 4} : RequestSync(t, hours)
    PROVE  SyncInv'
<1>1. /\ Session(s["job"]) /\ Session(s["admin"]) /\ DOMAIN s = Procs
      /\ "job" \in Procs /\ "admin" \in Procs /\ s["job"].broken \in BOOLEAN
  BY DEF SyncInv, SessionsInv, Session, Procs
<1>2. ASSUME DOMAIN s' = Procs, Session(s'["job"]), Session(s'["admin"]) PROVE SessionsInv'
  <2>1. \A q \in Procs : Session(s'[q])
    BY <1>2 DEF Procs
  <2> QED
    BY <1>2, <2>1 DEF SessionsInv, Session
<1> DEFINE new == [NewSession EXCEPT !.pc = "next", !.queue = Tracked]
<1>3. Session(new) /\ ~ new.broken /\ new.pc = "next" /\ new.queue = Tracked
  BY TrackedAssumption DEF NewSession, Session
<1> HIDE DEF new
<1>4. CASE RunJob
  <2>1. s' = [s EXCEPT !["job"] = new] /\ tried' = {} /\ UNCHANGED <<failed, causes>>
    BY <1>4 DEF RunJob, new
  <2>2. s'["job"] = new /\ s'["admin"] = s["admin"] /\ DOMAIN s' = Procs
    BY <1>1, <2>1
  <2>3. FailuresInv'
    BY <1>1, <1>3, <2>1, <2>2 DEF SyncInv, FailuresInv
  <2>4. TriedInv'
    BY <1>3, <2>1, <2>2 DEF TriedInv, Tokens
  <2> QED
    BY <1>1, <1>2, <1>3, <2>2, <2>3, <2>4 DEF SyncInv
<1>5. CASE Restart
  <2>1. /\ s' = [p \in Procs |-> IF p = "job" /\ s[p].pc # "idle" THEN new ELSE NewSession]
        /\ tried' = {} /\ UNCHANGED <<failed, causes>>
    BY <1>5 DEF Restart, new
  <2>2. s'["job"] \in {new, NewSession} /\ s'["admin"] = NewSession /\ DOMAIN s' = Procs
    BY <1>1, <2>1
  <2>3. FailuresInv'
    BY <1>1, <1>3, <2>1, <2>2, FreshSession DEF SyncInv, FailuresInv
  <2>4. TriedInv'
    <3>1. CASE s'["job"] = new
      BY <1>3, <2>1, <3>1 DEF TriedInv, Tokens
    <3>2. CASE s'["job"] = NewSession
      BY <2>1, <3>2, FreshSession DEF TriedInv
    <3> QED
      BY <2>2, <3>1, <3>2
  <2> QED
    BY <1>2, <1>3, <2>2, <2>3, <2>4, FreshSession DEF SyncInv
<1>6. CASE AlertFails
  <2>1. /\ s["job"].pc = "alert" /\ s' = [s EXCEPT !["job"].pc = "next", !["job"].broken = TRUE]
        /\ causes' = causes + 1 /\ UNCHANGED <<tried, failed>>
    BY <1>6 DEF AlertFails
  <2>2. /\ s'["job"].pc = "next" /\ s'["job"].broken /\ s'["job"].queue = s["job"].queue
        /\ DOMAIN s'["job"] = DOMAIN s["job"] /\ s'["job"].broken \in BOOLEAN
        /\ s'["admin"] = s["admin"] /\ DOMAIN s' = Procs
    BY <1>1, <2>1 DEF Session
  <2>3. FailuresInv'
    BY <1>1, <2>1, <2>2 DEF SyncInv, FailuresInv
  <2>4. TriedInv'
    BY <2>1, <2>2 DEF SyncInv, TriedInv
  <2>5. Session(s'["job"])
    BY <1>1, <2>2 DEF Session
  <2> QED
    BY <1>1, <1>2, <2>2, <2>3, <2>4, <2>5 DEF SyncInv
<1>7. ASSUME NEW t \in Tokens, NEW hours \in {1, 4}, RequestSync(t, hours) PROVE SyncInv'
  <2>1. Start("admin", t, <<>>, hours) /\ UNCHANGED <<tried, failed, causes>>
    BY <1>7 DEF RequestSync, ghosts
  <2>2. /\ DOMAIN s' = Procs
        /\ s'["admin"].queue = <<>> /\ s'["admin"].broken = s["admin"].broken
        /\ {"pc", "queue", "broken"} \subseteq DOMAIN s'["admin"]
        /\ s'["job"].queue = s["job"].queue /\ s'["job"].broken = s["job"].broken
        /\ s'["job"].pc = s["job"].pc /\ DOMAIN s'["job"] = DOMAIN s["job"]
    BY <1>1, <2>1 DEF Start, NewSession, Procs, Session
  <2>3. Session(s'["admin"]) /\ Session(s'["job"])
    BY <1>1, <2>2, EmptySeq DEF Session
  <2>4. FailuresInv'
    BY <2>1, <2>2 DEF SyncInv, FailuresInv
  <2>5. TriedInv'
    BY <2>1, <2>2 DEF SyncInv, TriedInv
  <2> QED
    BY <1>2, <2>2, <2>3, <2>4, <2>5 DEF SyncInv
<1> QED
  BY <1>4, <1>5, <1>6, <1>7

LEMMA FailingStep ==
    ASSUME SyncInv, NEW p \in Procs, Fault(p) \/ Refused(p) \/ CommitClashes(p) \/ Deadlock(p)
    PROVE  SyncInv'
<1>1. CASE Fault(p)
  BY <1>1, FailedStep DEF Fault, Syncing
<1>2. CASE Refused(p)
  BY <1>2, FailedStep DEF Refused
<1>3. CASE CommitClashes(p)
  BY <1>3, FailedStep DEF CommitClashes
<1>4. CASE Deadlock(p)
  <2>1. PICK r : r \in Procs \ {p}
    BY DEF Procs
  <2>2. Wants(p) \cap s[r].locks # {} /\ Failed(p) /\ causes' = causes + 1
    BY <1>4, <2>1 DEF Deadlock
  <2>3. s[p].pc # "idle"
    BY <2>2 DEF Wants
  <2> QED
    BY <2>2, <2>3, FailedStep
<1> QED
  BY <1>1, <1>2, <1>3, <1>4

LEMMA SyncKept ==
    ASSUME SyncInv, [OnchainNext]_vars PROVE SyncInv'
<1>1. "job" \in Procs /\ "admin" \in Procs
  BY DEF Procs
<1>2. CASE UNCHANGED vars \/ Tick
  <2>1. UNCHANGED <<s, tried, failed, causes>>
    BY <1>2 DEF vars, ghosts, Tick
  <2> QED
    BY <2>1 DEF SyncInv, SessionsInv, Session, FailuresInv, TriedInv
<1>3. ASSUME NEW p \in Procs, SyncStep(p) PROVE SyncInv'
  BY <1>3, SyncingStep, CommitStep, FailingStep DEF SyncStep
<1>4. ASSUME NEW p \in Procs, Fault(p) \/ PullFails(p) PROVE SyncInv'
  BY <1>4, SyncingStep, FailingStep
<1> QED
  BY <1>1, <1>2, <1>3, <1>4, OpenStep, NextTokenStep, AnnouncingStep DEF OnchainNext, JobStep

\* A fault costs one sync, and a run of the job that ends has tried every
\* token: however faults, deadlocks, restarts and an admin's sync fall.
THEOREM JobTriesEveryToken == OnchainSpec => []EveryTokenIsTried
<1>1. SyncInv => EveryTokenIsTried
  BY DEF SyncInv, FailuresInv, TriedInv, EveryTokenIsTried
<1> QED
  BY OnchainInitInv, SyncKept, <1>1, PTL DEF OnchainSpec

(**************************** Trades and checkpoints ***********************)
(* A checkpoint is ahead of the stored trades in no session: what a sync      *)
(* loaded was right when it loaded it, and what it would write is right of    *)
(* the rows committed since and of those it adds itself.                      *)

\* Among the subsets of a finite set that have a property one is minimal.
LEMMA MinimalSubset ==
    ASSUME NEW S, IsFiniteSet(S), NEW Bad \in SUBSET SUBSET S, Bad # {}
    PROVE  \E T \in Bad : \A U \in Bad : U \subseteq T => U = T
<1>1. FiniteSubsetsOf(S) = SUBSET S
  BY FS_FiniteSubsetsOfFinite
<1>2. IsWellFoundedOn(StrictSubsetOrdering(S), SUBSET S)
  BY <1>1, FS_StrictSubsetOrderingWellFounded
<1>3. PICK T \in Bad : \A U \in Bad : ~ (<<U, T>> \in StrictSubsetOrdering(S))
  BY <1>2, WFMin
<1> QED
  BY <1>3 DEF StrictSubsetOrdering

LEMMA MaxIsIn ==
    ASSUME NEW S, IsFiniteSet(S), S # {}, \A x \in S : x \in Nat PROVE Max(S) \in S
<1> DEFINE HasMax(T) == \E x \in T : \A y \in T : x >= y
           Bad == {T \in SUBSET S : T # {} /\ ~ HasMax(T)}
<1>1. ASSUME Bad # {} PROVE \E T \in Bad : \A U \in Bad : U \subseteq T => U = T
  <2>1. Bad \in SUBSET SUBSET S
    OBVIOUS
  <2> HIDE DEF Bad
  <2> QED
    BY <1>1, <2>1, MinimalSubset
<1>2. ASSUME NEW T \in Bad, \A U \in Bad : U \subseteq T => U = T PROVE FALSE
  <2>1. PICK x \in T : TRUE
    BY <1>2
  <2>2. T \ {x} \notin Bad /\ T \ {x} \in SUBSET S
    BY <1>2, <2>1
  <2>3. CASE T \ {x} = {}
    BY <1>2, <2>1, <2>3
  <2>4. CASE T \ {x} # {}
    <3>1. PICK z \in T \ {x} : \A y \in T \ {x} : z >= y
      BY <2>2, <2>4
    <3>2. x \in Nat /\ z \in Nat /\ \A y \in T : y \in Nat
      BY <1>2, <2>1, <3>1
    <3>3. CASE z >= x
      BY <1>2, <3>1, <3>2, <3>3
    <3>4. CASE x >= z
      <4>1. \A y \in T : x >= y
        BY <3>1, <3>2, <3>4
      <4> QED
        BY <1>2, <2>1, <4>1
    <3> QED
      BY <3>2, <3>3, <3>4
  <2> QED
    BY <2>3, <2>4
<1>3. HasMax(S)
  <2>1. S \in SUBSET S
    OBVIOUS
  <2> QED
    BY <1>1, <1>2, <2>1
<1> QED
  BY <1>3 DEF Max

\* Of natural numbers one is least.
LEMMA LeastNat ==
    ASSUME NEW S \in SUBSET Nat, S # {} PROVE \E m \in S : \A k \in S : m <= k
<1>1. PICK R : R = {ss \in Nat \X Nat : ss[1] < ss[2]}
  OBVIOUS
<1>2. IsWellFoundedOn(R, Nat)
  BY <1>1, NatLessThanWellFounded DEF OpToRel
<1>3. PICK x \in S : \A y \in S : ~ (<<y, x>> \in R)
  BY <1>2, WFMin
<1>4. \A y \in S : x <= y
  <2>1. ASSUME NEW y \in S, y < x PROVE FALSE
    <3>1. <<y, x>> \in R
      BY <1>1, <2>1
    <3> QED
      BY <1>3, <3>1
  <2> QED
    BY <2>1
<1> QED
  BY <1>4

LEMMA MinIsIn ==
    ASSUME NEW S \in SUBSET Nat, S # {} PROVE Min(S) \in S
BY LeastNat DEF Min

(*************************** Lists in an order *****************************)
(* What a sort computes is a list in order of the whole set, for every strict *)
(* partial order on a finite set.                                             *)

IsStrict(S, R) ==
    /\ \A x \in S : <<x, x>> \notin R
    /\ \A x, y, z \in S : <<x, y>> \in R /\ <<y, z>> \in R => <<x, z>> \in R

InOrderOf(S, R, list) ==
    \A i, j \in 1 .. Cardinality(S) : i < j => list[i] # list[j] /\ <<list[j], list[i]>> \notin R

\* In a finite set some element need not come after any other.
LEMMA FirstElement ==
    ASSUME NEW S, IsFiniteSet(S), S # {}, NEW R, IsStrict(S, R)
    PROVE  First(S, R) \in S /\ \A y \in S : <<y, First(S, R)>> \notin R
<1> DEFINE HasFirst(T) == \E x \in T : \A y \in T : <<y, x>> \notin R
           Bad == {T \in SUBSET S : T # {} /\ ~ HasFirst(T)}
<1>1. ASSUME Bad # {} PROVE \E T \in Bad : \A U \in Bad : U \subseteq T => U = T
  <2>1. Bad \in SUBSET SUBSET S
    OBVIOUS
  <2> HIDE DEF Bad
  <2> QED
    BY <1>1, <2>1, MinimalSubset
<1>2. ASSUME NEW T \in Bad, \A U \in Bad : U \subseteq T => U = T PROVE FALSE
  <2>1. PICK x \in T : TRUE
    BY <1>2
  <2>2. T \ {x} \notin Bad /\ T \ {x} \in SUBSET S
    BY <1>2, <2>1
  <2>3. CASE T \ {x} = {}
    <3>1. \A y \in T : <<y, x>> \notin R
      BY <1>2, <2>1, <2>3 DEF IsStrict
    <3> QED
      BY <1>2, <2>1, <3>1
  <2>4. CASE T \ {x} # {}
    <3>1. PICK z \in T \ {x} : \A y \in T \ {x} : <<y, z>> \notin R
      BY <2>2, <2>4
    <3>2. x \in S /\ z \in S /\ \A y \in T : y \in S
      BY <1>2, <2>1, <3>1
    <3>3. CASE <<x, z>> \notin R
      BY <1>2, <3>1, <3>3
    <3>4. CASE <<x, z>> \in R
      <4>1. \A y \in T : <<y, x>> \notin R
        BY <3>1, <3>2, <3>4 DEF IsStrict
      <4> QED
        BY <1>2, <2>1, <4>1
    <3> QED
      BY <3>3, <3>4
  <2> QED
    BY <2>3, <2>4
<1>3. HasFirst(S)
  <2>1. S \in SUBSET S
    OBVIOUS
  <2> QED
    BY <1>1, <1>2, <2>1
<1> QED
  BY <1>3 DEF First

\* The recursion of Sorted, on the subsets of S.
Sorts(g, S, R) ==
    g = [T \in SUBSET S |->
            IF T = {} THEN <<>> ELSE <<First(T, R)>> \o g[T \ {First(T, R)}]]

\* What such a function makes of a subset is a list of it in order.
Lists(list, T, R) ==
    list \in [1 .. Cardinality(T) -> T] /\ InOrderOf(T, R, list)

LEMMA StrictSubset ==
    ASSUME NEW S, NEW R, IsStrict(S, R), NEW T \in SUBSET S PROVE IsStrict(T, R)
BY DEF IsStrict

\* One that comes first, followed by a list of the others.
LEMMA ListsGrow ==
    ASSUME NEW T, IsFiniteSet(T), NEW x \in T, NEW R, \A y \in T : <<y, x>> \notin R,
           NEW front, Lists(front, T \ {x}, R)
    PROVE  Lists(<<x>> \o front, T, R)
<1>1. PICK U, n : U = T \ {x} /\ n = Cardinality(U)
  <2>1. \E n : n = Cardinality(T \ {x})
    OBVIOUS
  <2> QED
    BY <2>1
<1>2. n \in Nat /\ Cardinality(T) = n + 1
  <2>1. Cardinality(T \ {x}) = Cardinality(T) - 1 /\ IsFiniteSet(T \ {x})
    BY FS_RemoveElement
  <2>2. Cardinality(T \ {x}) \in Nat /\ Cardinality(T) \in Nat
    BY <2>1, FS_CardinalityType
  <2> QED
    BY <1>1, <2>1, <2>2
<1>3. front \in [1 .. n -> U] /\ InOrderOf(U, R, front)
  BY <1>1 DEF Lists
<1>4. front \in Seq(T) /\ Len(front) = n
  <2>1. front \in [1 .. n -> T]
    BY <1>1, <1>3
  <2> QED
    BY <1>2, <2>1
<1>5. PICK list : list = <<x>> \o front
  OBVIOUS
<1>6. list \in [1 .. (n + 1) -> T] /\ list[1] = x /\ \A i \in 1 .. (n + 1) : i # 1 => list[i] = front[i - 1]
  <2>1. <<x>> \in Seq(T) /\ Len(<<x>>) = 1 /\ <<x>>[1] = x
    OBVIOUS
  <2>2. /\ list \in Seq(T) /\ Len(list) = 1 + n
        /\ \A i \in 1 .. 1 + n : list[i] = IF i <= 1 THEN <<x>>[i] ELSE front[i - 1]
    BY <1>4, <1>5, <2>1, ConcatProperties
  <2>3. list \in [1 .. (1 + n) -> T] /\ 1 + n = n + 1
    BY <1>2, <2>2, LenProperties
  <2>4. \A i \in 1 .. (n + 1) : i = 1 \/ ~ (i <= 1)
    BY <1>2
  <2> QED
    BY <1>2, <2>1, <2>2, <2>3, <2>4
<1>7. ASSUME NEW i \in 1 .. (n + 1), NEW j \in 1 .. (n + 1), i < j
      PROVE  list[i] # list[j] /\ <<list[j], list[i]>> \notin R
  <2>1. j # 1 /\ j - 1 \in 1 .. n /\ list[j] = front[j - 1] /\ front[j - 1] \in U
    BY <1>2, <1>3, <1>6, <1>7
  <2>2. CASE i = 1
    BY <1>1, <1>6, <2>1, <2>2
  <2>3. CASE i # 1
    <3>1. i - 1 \in 1 .. n /\ i - 1 < j - 1 /\ list[i] = front[i - 1]
      BY <1>2, <1>6, <1>7, <2>3
    <3> QED
      BY <1>1, <1>3, <2>1, <3>1 DEF InOrderOf
  <2> QED
    BY <2>2, <2>3
<1>8. InOrderOf(T, R, list)
  BY <1>2, <1>7 DEF InOrderOf
<1> QED
  BY <1>2, <1>5, <1>6, <1>8 DEF Lists

LEMMA SortsLists ==
    ASSUME NEW S, IsFiniteSet(S), NEW R, IsStrict(S, R), NEW g, Sorts(g, S, R), NEW T \in SUBSET S
    PROVE  Lists(g[T], T, R)
<1> DEFINE Bad == {U \in SUBSET S : ~ Lists(g[U], U, R)}
<1>1. ASSUME Bad # {} PROVE \E U \in Bad : \A V \in Bad : V \subseteq U => V = U
  <2>1. Bad \in SUBSET SUBSET S
    OBVIOUS
  <2> HIDE DEF Bad
  <2> QED
    BY <1>1, <2>1, MinimalSubset
<1>2. ASSUME NEW U \in Bad, \A V \in Bad : V \subseteq U => V = U PROVE FALSE
  <2>1. U \in SUBSET S /\ IsFiniteSet(U) /\ IsStrict(U, R)
    BY <1>2, FS_Subset, StrictSubset
  <2>2. g[U] = IF U = {} THEN <<>> ELSE <<First(U, R)>> \o g[U \ {First(U, R)}]
    BY <2>1 DEF Sorts
  <2>3. CASE U = {}
    <3>1. Cardinality(U) = 0 /\ 1 .. 0 = {}
      BY <2>3, FS_EmptySet
    <3>2. Lists(<<>>, U, R)
      BY <3>1 DEF Lists, InOrderOf
    <3> QED
      BY <1>2, <2>2, <2>3, <3>2
  <2>4. CASE U # {}
    <3>1. PICK x : x = First(U, R)
      OBVIOUS
    <3>2. x \in U /\ \A y \in U : <<y, x>> \notin R
      BY <2>1, <2>4, <3>1, FirstElement
    <3>3. Lists(g[U \ {x}], U \ {x}, R)
      BY <1>2, <2>1, <3>2
    <3>4. Lists(<<x>> \o g[U \ {x}], U, R)
      BY <2>1, <3>2, <3>3, ListsGrow
    <3> QED
      BY <1>2, <2>2, <2>4, <3>1, <3>4
  <2> QED
    BY <2>3, <2>4
<1> QED
  BY <1>1, <1>2

\* The recursion makes one thing of a set.
LEMMA OneSort ==
    ASSUME NEW S, IsFiniteSet(S), NEW R, IsStrict(S, R), NEW Q, S \subseteq Q,
           NEW g, Sorts(g, S, R), NEW h, Sorts(h, Q, R)
    PROVE  \A T \in SUBSET S : g[T] = h[T]
<1> DEFINE Bad == {T \in SUBSET S : g[T] # h[T]}
<1> SUFFICES ASSUME Bad # {} PROVE FALSE
  OBVIOUS
<1>1. PICK T \in Bad : \A U \in Bad : U \subseteq T => U = T
  <2>1. Bad \in SUBSET SUBSET S
    OBVIOUS
  <2> HIDE DEF Bad
  <2> QED
    BY <2>1, MinimalSubset
<1>2. /\ g[T] = IF T = {} THEN <<>> ELSE <<First(T, R)>> \o g[T \ {First(T, R)}]
      /\ h[T] = IF T = {} THEN <<>> ELSE <<First(T, R)>> \o h[T \ {First(T, R)}]
  <2>1. T \in SUBSET S /\ T \in SUBSET Q
    BY <1>1
  <2>2. g[T] = IF T = {} THEN <<>> ELSE <<First(T, R)>> \o g[T \ {First(T, R)}]
    BY <2>1 DEF Sorts
  <2>3. h[T] = IF T = {} THEN <<>> ELSE <<First(T, R)>> \o h[T \ {First(T, R)}]
    BY <2>1 DEF Sorts
  <2> QED
    BY <2>2, <2>3
<1>3. T # {} => First(T, R) \in T
  BY <1>1, FS_Subset, StrictSubset, FirstElement
<1>4. T # {} => g[T \ {First(T, R)}] = h[T \ {First(T, R)}]
  BY <1>1, <1>3
<1> QED
  BY <1>1, <1>2, <1>4

LEMMA SortExists ==
    ASSUME NEW S, IsFiniteSet(S), NEW R, IsStrict(S, R) PROVE \E g : Sorts(g, S, R)
<1> DEFINE Bad == {T \in SUBSET S : ~ \E g : Sorts(g, T, R)}
<1> SUFFICES ASSUME Bad # {} PROVE FALSE
  <2>1. S \in SUBSET S
    OBVIOUS
  <2> QED
    BY <2>1
<1>1. PICK U \in Bad : \A V \in Bad : V \subseteq U => V = U
  <2>1. Bad \in SUBSET SUBSET S
    OBVIOUS
  <2> HIDE DEF Bad
  <2> QED
    BY <2>1, MinimalSubset
<1> DEFINE Some(V) == CHOOSE g : Sorts(g, V, R)
           Rest(V) == V \ {First(V, R)}
           h == [T \in SUBSET U |-> IF T = {} THEN <<>> ELSE <<First(T, R)>> \o Some(Rest(T))[Rest(T)]]
<1>2. ASSUME NEW V \in SUBSET U
      PROVE  /\ IsFiniteSet(V) /\ IsStrict(V, R)
             /\ V # U => Sorts(Some(V), V, R)
             /\ V # {} => Rest(V) \in SUBSET V /\ Rest(V) # V /\ Rest(V) \in SUBSET U /\ Rest(V) # U
  <2>1. V \in SUBSET S /\ IsFiniteSet(V) /\ IsStrict(V, R)
    BY <1>1, FS_Subset, StrictSubset
  <2>2. V # U => \E g : Sorts(g, V, R)
    BY <1>1, <2>1
  <2>3. V # {} => First(V, R) \in V
    BY <2>1, FirstElement
  <2> QED
    BY <2>1, <2>2, <2>3
<1>3. ASSUME NEW V \in SUBSET U, V # U PROVE h[V] = Some(V)[V]
  <2>1. Sorts(Some(V), V, R) /\ IsFiniteSet(V)
    BY <1>2, <1>3
  <2>2. Some(V)[V] = IF V = {} THEN <<>> ELSE <<First(V, R)>> \o Some(V)[Rest(V)]
    <3> HIDE DEF Some
    <3> QED
      BY <2>1 DEF Sorts
  <2>3. h[V] = IF V = {} THEN <<>> ELSE <<First(V, R)>> \o Some(Rest(V))[Rest(V)]
    OBVIOUS
  <2>4. ASSUME V # {} PROVE Some(Rest(V))[Rest(V)] = Some(V)[Rest(V)]
    <3>1. PICK W : W = Rest(V)
      OBVIOUS
    <3>2. W \in SUBSET U /\ W # U /\ W \subseteq V /\ W \in SUBSET W
      BY <1>2, <2>4, <3>1
    <3>3. Sorts(Some(W), W, R) /\ IsFiniteSet(W) /\ IsStrict(W, R)
      BY <1>2, <3>2
    <3> HIDE DEF Some, h, Rest
    <3>4. Some(W)[W] = Some(V)[W]
      BY <2>1, <3>2, <3>3, OneSort
    <3> QED
      BY <3>1, <3>4
  <2> HIDE DEF Some, h, Rest
  <2> QED
    BY <2>2, <2>3, <2>4
<1>4. \A T \in SUBSET U : h[T] = IF T = {} THEN <<>> ELSE <<First(T, R)>> \o h[Rest(T)]
  <2> SUFFICES ASSUME NEW T \in SUBSET U
               PROVE  h[T] = IF T = {} THEN <<>> ELSE <<First(T, R)>> \o h[Rest(T)]
    OBVIOUS
  <2>1. h[T] = IF T = {} THEN <<>> ELSE <<First(T, R)>> \o Some(Rest(T))[Rest(T)]
    <3> HIDE DEF Some, Rest
    <3> QED
      OBVIOUS
  <2>2. T # {} => Rest(T) \in SUBSET U /\ Rest(T) # U
    BY <1>2
  <2> HIDE DEF h, Some, Rest
  <2> QED
    BY <1>3, <2>1, <2>2
<1>5. h = [T \in SUBSET U |-> IF T = {} THEN <<>> ELSE <<First(T, R)>> \o h[Rest(T)]]
  <2>1. h = [T \in SUBSET U |-> h[T]]
    OBVIOUS
  <2> HIDE DEF h, Rest
  <2> QED
    BY <1>4, <2>1
<1>6. Sorts(h, U, R)
  <2> HIDE DEF h
  <2> QED
    BY <1>5 DEF Sorts
<1> QED
  BY <1>1, <1>6

\* A sorted list has every element once, none after one it must precede.
LEMMA SortedList ==
    ASSUME NEW S, IsFiniteSet(S), NEW R, IsStrict(S, R)
    PROVE  /\ Cardinality(S) \in Nat
           /\ Sorted(S, R) \in [1 .. Cardinality(S) -> S]
           /\ InOrderOf(S, R, Sorted(S, R))
           /\ \A x \in S : \E i \in 1 .. Cardinality(S) : Sorted(S, R)[i] = x
<1>1. Cardinality(S) \in Nat
  BY FS_CardinalityType
<1>2. Sorted(S, R) \in [1 .. Cardinality(S) -> S] /\ InOrderOf(S, R, Sorted(S, R))
  <2>1. PICK g : g = CHOOSE sort : Sorts(sort, S, R)
    OBVIOUS
  <2>2. Sorts(g, S, R)
    BY <2>1, SortExists
  <2>3. Sorted(S, R) = g[S]
    BY <2>1 DEF Sorted, Sorts
  <2>4. S \in SUBSET S
    OBVIOUS
  <2> QED
    BY <2>2, <2>3, <2>4, SortsLists DEF Lists
<1>3. PICK list : list = Sorted(S, R)
  OBVIOUS
<1>4. PICK D : D = 1 .. Cardinality(S)
  OBVIOUS
<1>5. list \in Injection(D, S)
  <2>1. ASSUME NEW i \in D, NEW j \in D, list[i] = list[j] PROVE i = j
    <3>1. i \in Nat /\ j \in Nat
      BY <1>1, <1>4
    <3>2. ~ (i < j) /\ ~ (j < i)
      BY <1>2, <1>3, <1>4, <2>1 DEF InOrderOf
    <3> QED
      BY <3>1, <3>2
  <2> QED
    BY <1>2, <1>3, <1>4, <2>1 DEF Injection, IsInjective
<1>6. IsFiniteSet(D) /\ Cardinality(D) = Cardinality(S)
  BY <1>1, <1>4, FS_Interval
<1>7. list \in Surjection(D, S)
  BY <1>5, <1>6, FS_Injection
<1> QED
  BY <1>1, <1>2, <1>3, <1>4, <1>7 DEF Surjection

\* Lists of lists, one after the other.
LEMMA FlatList ==
    ASSUME NEW S, NEW seqs \in Seq(Seq(S))
    PROVE  FlattenSeq(seqs) \in Seq(S)
<1>1. PICK n : n = Len(seqs)
  OBVIOUS
<1>2. n \in Nat /\ \A i \in 1 .. n : seqs[i] \in Seq(S)
  BY <1>1, LenProperties, ElementOfSeq
<1> DEFINE Part(f, i) == IF i = 1 THEN seqs[i] ELSE f[i - 1] \o seqs[i]
           Made(k) == \E f \in [1 .. k -> Seq(S)] : \A i \in 1 .. k : f[i] = Part(f, i)
           Bad == {k \in 1 .. n : ~ Made(k)}
<1>3. ASSUME NEW m \in 1 .. n, \A k \in 1 .. n : k < m => Made(k) PROVE Made(m)
  <2>1. CASE m = 1
    <3>1. PICK f : f = [i \in 1 .. 1 |-> seqs[i]]
      OBVIOUS
    <3>2. f \in [1 .. m -> Seq(S)] /\ \A i \in 1 .. m : f[i] = Part(f, i)
      BY <1>2, <1>3, <2>1, <3>1
    <3> QED
      BY <3>2
  <2>2. CASE m # 1
    <3>1. m - 1 \in 1 .. n /\ m - 1 < m
      BY <1>2, <2>2
    <3>2. PICK g \in [1 .. (m - 1) -> Seq(S)] : \A i \in 1 .. (m - 1) : g[i] = Part(g, i)
      BY <1>3, <3>1
    <3>3. PICK f : f = [i \in 1 .. m |-> IF i = m THEN g[m - 1] \o seqs[m] ELSE g[i]]
      OBVIOUS
    <3>4. g[m - 1] \in Seq(S) /\ seqs[m] \in Seq(S)
      BY <1>2, <3>1, <3>2
    <3>5. g[m - 1] \o seqs[m] \in Seq(S)
      BY <3>4, ConcatProperties
    <3>6. \A i \in 1 .. m : i = m \/ i \in 1 .. (m - 1)
      BY <1>2
    <3>7. ASSUME NEW i \in 1 .. (m - 1) PROVE f[i] = g[i] /\ g[i] \in Seq(S)
      <4>1. i \in 1 .. m /\ i # m
        BY <1>2
      <4> QED
        BY <3>2, <3>3, <4>1
    <3>8. f[m] = g[m - 1] \o seqs[m]
      <4>1. m \in 1 .. m
        BY <1>2
      <4> QED
        BY <3>3, <4>1
    <3>9. f \in [1 .. m -> Seq(S)]
      BY <3>3, <3>5, <3>6, <3>7, <3>8
    <3>10. ASSUME NEW i \in 1 .. m PROVE f[i] = Part(f, i)
      <4>1. CASE i = m
        <5>1. m - 1 \in 1 .. (m - 1)
          BY <1>2, <2>2
        <5>2. f[m - 1] = g[m - 1]
          BY <3>7, <5>1
        <5> QED
          BY <2>2, <3>8, <4>1, <5>2
      <4>2. CASE i # m /\ i = 1
        BY <3>2, <3>6, <3>7, <4>2
      <4>3. CASE i # m /\ i # 1
        <5>1. i \in 1 .. (m - 1) /\ i - 1 \in 1 .. (m - 1)
          BY <1>2, <4>3
        <5> QED
          BY <3>2, <3>7, <4>3, <5>1
      <4> QED
        BY <4>1, <4>2, <4>3
    <3> QED
      BY <3>9, <3>10
  <2> QED
    BY <2>1, <2>2
<1>4. Bad = {}
  <2> SUFFICES ASSUME Bad # {} PROVE FALSE
    OBVIOUS
  <2>1. Bad \in SUBSET Nat
    BY <1>2
  <2> HIDE DEF Made
  <2>2. PICK m \in Bad : \A k \in Bad : m <= k
    <3> HIDE DEF Bad
    <3> QED
      BY <2>1, LeastNat
  <2>3. \A k \in 1 .. n : k < m => Made(k)
    BY <1>2, <2>1, <2>2
  <2> QED
    BY <1>3, <2>2, <2>3
<1>5. CASE n = 0
  <2>1. seqs = <<>>
    BY <1>1, <1>5, EmptySeq
  <2> QED
    BY <1>1, <1>5, <2>1, EmptySeq DEF FlattenSeq
<1>6. CASE n # 0
  <2>1. PICK f \in [1 .. n -> Seq(S)] : \A i \in 1 .. n : f[i] = Part(f, i)
    <3>1. n \in 1 .. n
      BY <1>2, <1>6
    <3> QED
      BY <1>4, <3>1
  <2> DEFINE flatten == CHOOSE g : g = [i \in 1 .. n |-> IF i = 1 THEN seqs[i] ELSE g[i - 1] \o seqs[i]]
  <2>2. f = [i \in 1 .. n |-> IF i = 1 THEN seqs[i] ELSE f[i - 1] \o seqs[i]]
    BY <2>1
  <2>3. flatten = [i \in 1 .. n |-> IF i = 1 THEN seqs[i] ELSE flatten[i - 1] \o seqs[i]]
    BY <2>2
  <2>4. FlattenSeq(seqs) = flatten[n]
    BY <1>1, <1>6 DEF FlattenSeq
  <2> HIDE DEF flatten
  <2> DEFINE Wrong == {i \in 1 .. n : flatten[i] \notin Seq(S)}
  <2>5. Wrong = {}
    <3> SUFFICES ASSUME Wrong # {} PROVE FALSE
      OBVIOUS
    <3>1. Wrong \in SUBSET Nat
      BY <1>2
    <3>2. PICK m \in Wrong : \A k \in Wrong : m <= k
      <4> HIDE DEF Wrong
      <4> QED
        BY <3>1, LeastNat
    <3>3. m \in 1 .. n /\ flatten[m] \notin Seq(S)
      BY <3>2
    <3>4. CASE m = 1
      BY <1>2, <2>3, <3>3, <3>4
    <3>5. CASE m # 1
      <4>1. m - 1 \in 1 .. n /\ m - 1 < m
        BY <1>2, <3>3, <3>5
      <4>2. flatten[m - 1] \in Seq(S)
        BY <3>2, <4>1
      <4>3. flatten[m] = flatten[m - 1] \o seqs[m]
        BY <2>3, <3>3, <3>5
      <4> QED
        BY <1>2, <3>3, <4>2, <4>3, ConcatProperties
    <3> QED
      BY <3>4, <3>5
  <2>6. n \in 1 .. n
    BY <1>2, <1>6
  <2> QED
    BY <2>4, <2>5, <2>6
<1> QED
  BY <1>5, <1>6

LEMMA ImageIsFinite ==
    ASSUME NEW S, IsFiniteSet(S), NEW f
    PROVE  IsFiniteSet({f[x] : x \in S})
<1>1. PICK g : g = [x \in S |-> f[x]]
  OBVIOUS
<1>2. PICK T : T = {f[x] : x \in S}
  OBVIOUS
<1>3. g \in Surjection(S, T)
  BY <1>1, <1>2 DEF Surjection
<1> QED
  BY <1>2, <1>3, FS_Surjection

(***************************** Pages and checkpoints ***********************)
\* A page from the start that is not full is everything: the first element it
\* lacks would follow a full page of newer ones.
LEMMA NotFull ==
    ASSUME NEW W, IsFiniteSet(W), \A m \in W : m.at \in Nat /\ m.key \in Nat,
           NEW n \in Nat, Cardinality(Slice(W, 0, n)) < n
    PROVE  Slice(W, 0, n) = W
<1> DEFINE Page == Slice(W, 0, n)
           Ahead(m) == {o \in W : Newer(o, m)}
           Bad == {A \in SUBSET W : \E m \in W \ Page : A = Ahead(m)}
<1>1. Page = {m \in W : Cardinality(Ahead(m)) \in 0 .. n - 1}
  BY DEF Slice
<1> SUFFICES ASSUME Page # W PROVE FALSE
  OBVIOUS
<1>2. PICK A \in Bad : \A B \in Bad : B \subseteq A => B = A
  <2>1. PICK m \in W : m \notin Page
    BY <1>1
  <2>2. Ahead(m) \in Bad
    BY <2>1
  <2>3. Bad \in SUBSET SUBSET W
    OBVIOUS
  <2> HIDE DEF Bad
  <2> QED
    BY <2>2, <2>3, MinimalSubset
<1>3. PICK m \in W \ Page : A = Ahead(m)
  BY <1>2
<1>4. ASSUME NEW o \in A, o \notin Page PROVE FALSE
  <2>1. o \in W /\ Newer(o, m) /\ ~ Newer(o, o)
    BY <1>3, <1>4 DEF Newer
  <2>2. Ahead(o) \subseteq A
    BY <1>3, <2>1 DEF Newer
  <2>3. Ahead(o) \in Bad
    BY <1>4, <2>1
  <2>4. Ahead(o) = A
    BY <1>2, <2>2, <2>3
  <2> QED
    BY <1>4, <2>1, <2>4
<1>5. Page \in SUBSET W /\ A \in SUBSET Page
  BY <1>1, <1>4
<1>6. IsFiniteSet(Page) /\ IsFiniteSet(A)
  BY <1>5, FS_Subset
<1>7. Cardinality(A) <= Cardinality(Page) /\ Cardinality(A) \in Nat /\ Cardinality(Page) \in Nat
  BY <1>5, <1>6, FS_Subset, FS_CardinalityType
<1>8. Cardinality(Ahead(m)) \in 0 .. n - 1
  BY <1>3, <1>7
<1> QED
  BY <1>1, <1>3, <1>8

\* A session asks the sources in a fixed order.
Place == [gecko |-> 1, dune |-> 2, dexscreener |-> 3]
InOrder(q) == q \in Seq(Sources) /\ \A i, j \in DOMAIN q : i < j => Place[q[i]] < Place[q[j]]

\* The trades of token t older than at have rows.
Held(t, at, have) == \A m \in Market : m.token = t /\ m.at < at => <<"row", t, m.key>> \in have

Traded(set) == {r \in set : r.src # "dexscreener"}
Checkpoint == [at : Nat, cursor : Nat, status : {"none", "running", "idle", "error"}]

\* What session r may say of Dune's checkpoint: that what it loaded was right
\* of the rows of then, and that what it would write is right of the rows there
\* have been and those it adds, but for the ones it may yet take back.
Claims(r, have, table) ==
    /\ "gecko" \notin Range(r.todo)
    /\ "dune" \in DOMAIN r.loaded /\ r.loaded["dune"] \in Checkpoint /\ r.cp["dune"] \in Checkpoint
    /\ r.loaded["dune"].cursor # 0 => table[r.token]["dune"].cursor # 0
    /\ r.loaded["dune"].cursor = 0 => Held(r.token, r.loaded["dune"].at, have)
    /\ r.cp["dune"].cursor = 0 =>
          /\ r.loaded["dune"].cursor = 0
          /\ Held(r.token, r.cp["dune"].at, have \cup RowLocks(Traded(r.add)))

AtSource(r) == r.pc \in {"clear", "pull"}

\* What of a session matters to the trades.
Fields == {"pc", "token", "todo", "cp", "loaded", "add", "since", "cursor", "page", "locks", "drop"}

Holds(r, have, table) ==
    /\ Fields \subseteq DOMAIN r
    /\ r.token \in Tokens /\ InOrder(r.todo)
    /\ r.pc = "ohlcv" => DOMAIN r.cp = {} /\ r.add = {}
    /\ ~ Range(r.todo) \subseteq {"dexscreener"} => Traded(r.add) = r.add
    /\ "dune" \in DOMAIN r.cp => Claims(r, have, table)
    /\ AtSource(r) => r.todo # <<>>
    /\ AtSource(r) /\ Head(r.todo) = "dune" =>
          "dune" \in DOMAIN r.cp /\ r.cursor = r.cp["dune"].cursor /\ r.since = r.loaded["dune"].at

Resting == {"idle", "next", "announce", "alert"}

SessionsHold == \A p \in Procs : s[p].pc \notin Resting => Holds(s[p], ever, cps)

CheckpointsInv ==
    /\ DOMAIN cps = Tokens
    /\ \A t \in Tokens : /\ "dune" \in DOMAIN cps[t] /\ cps[t]["dune"] \in Checkpoint
                         /\ cps[t]["dune"].cursor = 0 => Held(t, cps[t]["dune"].at, ever)

StoredInv == now \in Nat /\ RowLocks(rows) \subseteq ever /\ CheckpointsInv /\ SessionsHold

LEMMA SourceOrder ==
    ASSUME NEW q, InOrder(q), q # <<>>
    PROVE  /\ Head(q) \in Sources /\ InOrder(Tail(q)) /\ Range(Tail(q)) \subseteq Range(q)
           /\ Head(q) = "dune" => "gecko" \notin Range(q) /\ ~ Range(q) \subseteq {"dexscreener"}
           /\ Head(q) = "gecko" => ~ Range(q) \subseteq {"dexscreener"} /\ "gecko" \in Range(q)
           /\ Head(q) = "dexscreener" => Range(q) = {"dexscreener"}
<1>1. /\ Head(q) = q[1] /\ Head(q) \in Sources /\ Tail(q) \in Seq(Sources) /\ Len(q) \in Nat \ {0}
      /\ Len(Tail(q)) = Len(q) - 1 /\ DOMAIN q = 1 .. Len(q) /\ DOMAIN Tail(q) = 1 .. (Len(q) - 1)
      /\ \A i \in 1 .. Len(Tail(q)) : Tail(q)[i] = q[i + 1]
  BY HeadTailProperties, LenProperties, ElementOfSeq, EmptySeq DEF InOrder
<1>2. Range(q) = {Head(q)} \cup Range(Tail(q)) /\ Range(q) \subseteq Sources
  BY QueueRange DEF InOrder
<1>3. InOrder(Tail(q))
  <2>1. ASSUME NEW i \in DOMAIN Tail(q), NEW j \in DOMAIN Tail(q), i < j
        PROVE  Place[Tail(q)[i]] < Place[Tail(q)[j]]
    <3>1. i + 1 \in DOMAIN q /\ j + 1 \in DOMAIN q /\ i + 1 < j + 1
      BY <1>1, <2>1
    <3>2. Place[q[i + 1]] < Place[q[j + 1]]
      BY <3>1 DEF InOrder
    <3> QED
      BY <1>1, <2>1, <3>2
  <2> QED
    BY <1>1, <2>1 DEF InOrder
<1>4. ASSUME NEW x \in Range(Tail(q)) PROVE Place[Head(q)] < Place[x]
  <2>1. PICK i \in DOMAIN Tail(q) : x = Tail(q)[i]
    BY <1>4 DEF Range
  <2>2. 1 \in DOMAIN q /\ i + 1 \in DOMAIN q /\ 1 < i + 1 /\ q[i + 1] = x
    BY <1>1, <2>1
  <2> QED
    BY <1>1, <2>2 DEF InOrder
<1>5. Place["gecko"] = 1 /\ Place["dune"] = 2 /\ Place["dexscreener"] = 3
  BY DEF Place
<1>6. ASSUME Head(q) = "dune" PROVE "gecko" \notin Range(q) /\ "dune" \in Range(q)
  BY <1>2, <1>4, <1>5, <1>6
<1>7. ASSUME Head(q) = "dexscreener" PROVE Range(q) = {"dexscreener"}
  <2>1. ASSUME NEW x \in Range(Tail(q)) PROVE FALSE
    BY <1>2, <1>4, <1>5, <1>7, <2>1 DEF Sources
  <2> QED
    BY <1>2, <1>7, <2>1
<1> QED
  BY <1>1, <1>2, <1>3, <1>6, <1>7

LEMMA OrderedConcat ==
    ASSUME NEW a, NEW b, InOrder(a), InOrder(b), \A x \in Range(a), y \in Range(b) : Place[x] < Place[y]
    PROVE  InOrder(a \o b) /\ Range(a \o b) \subseteq Range(a) \cup Range(b)
<1>1. /\ a \o b \in Seq(Sources) /\ Len(a) \in Nat /\ Len(b) \in Nat
      /\ DOMAIN a = 1 .. Len(a) /\ DOMAIN b = 1 .. Len(b) /\ DOMAIN (a \o b) = 1 .. (Len(a) + Len(b))
      /\ \A i \in 1 .. (Len(a) + Len(b)) : (a \o b)[i] = IF i <= Len(a) THEN a[i] ELSE b[i - Len(a)]
  BY ConcatProperties, LenProperties DEF InOrder
<1>2. PICK c : c = a \o b
  OBVIOUS
<1>3. ASSUME NEW i \in DOMAIN c
      PROVE  \/ i \in DOMAIN a /\ c[i] = a[i]
             \/ i > Len(a) /\ i - Len(a) \in DOMAIN b /\ c[i] = b[i - Len(a)]
  BY <1>1, <1>2, <1>3
<1>4. ASSUME NEW i \in DOMAIN c, NEW j \in DOMAIN c, i < j PROVE Place[c[i]] < Place[c[j]]
  <2>1. CASE i \in DOMAIN a /\ j \in DOMAIN a
    BY <1>1, <1>3, <1>4, <2>1 DEF InOrder
  <2>2. CASE i \in DOMAIN a /\ j \notin DOMAIN a
    <3>1. c[i] \in Range(a) /\ c[j] \in Range(b)
      BY <1>1, <1>3, <1>4, <2>2 DEF Range
    <3> QED
      BY <3>1
  <2>3. CASE i \notin DOMAIN a
    <3>1. /\ i - Len(a) \in DOMAIN b /\ c[i] = b[i - Len(a)]
          /\ j - Len(a) \in DOMAIN b /\ c[j] = b[j - Len(a)] /\ i - Len(a) < j - Len(a)
      BY <1>1, <1>2, <1>3, <1>4, <2>3
    <3> QED
      BY <3>1 DEF InOrder
  <2> QED
    BY <2>1, <2>2, <2>3
<1>5. Range(c) \subseteq Range(a) \cup Range(b)
  BY <1>3 DEF Range
<1> QED
  BY <1>1, <1>2, <1>4, <1>5 DEF InOrder

LEMMA CollectorsInOrder == \A b \in BOOLEAN : InOrder(Collectors(b))
<1>1. /\ "gecko" \in Sources /\ "dune" \in Sources /\ "dexscreener" \in Sources
      /\ Place["gecko"] = 1 /\ Place["dune"] = 2 /\ Place["dexscreener"] = 3
  BY DEF Sources, Place
<1>2. ASSUME NEW x \in Sources PROVE InOrder(<<x>>) /\ Range(<<x>>) = {x}
  <2>1. <<x>> \in Seq(Sources) /\ DOMAIN <<x>> = {1} /\ <<x>>[1] = x
    BY <1>2
  <2> QED
    BY <2>1 DEF InOrder, Range
<1>3. InOrder(<<>>) /\ Range(<<>>) = {}
  <2>1. <<>> \in Seq(Sources) /\ DOMAIN <<>> = {}
    BY EmptySeq
  <2> QED
    BY <2>1 DEF InOrder, Range
<1> SUFFICES ASSUME NEW b \in BOOLEAN PROVE InOrder(Collectors(b))
  OBVIOUS
<1>4. PICK a, c, d : /\ a = <<"gecko">> /\ c = (IF dune THEN <<"dune">> ELSE <<>>)
                     /\ d = (IF b THEN <<"dexscreener">> ELSE <<>>)
  OBVIOUS
<1>5. /\ InOrder(a) /\ Range(a) = {"gecko"} /\ InOrder(c) /\ Range(c) \subseteq {"dune"}
      /\ InOrder(d) /\ Range(d) \subseteq {"dexscreener"}
  BY <1>1, <1>2, <1>3, <1>4
<1>6. InOrder(a \o c) /\ Range(a \o c) \subseteq {"gecko", "dune"}
  <2>1. \A x \in Range(a), y \in Range(c) : Place[x] < Place[y]
    BY <1>1, <1>5
  <2> QED
    BY <1>5, <2>1, OrderedConcat
<1>7. InOrder((a \o c) \o d)
  <2>1. \A x \in Range(a \o c), y \in Range(d) : Place[x] < Place[y]
    BY <1>1, <1>5, <1>6
  <2> QED
    BY <1>5, <1>6, <2>1, OrderedConcat
<1>8. Collectors(b) = (a \o c) \o d
  BY <1>4 DEF Collectors
<1> QED
  BY <1>7, <1>8

\* What a session holds stays right when it goes on with what it had, and when
\* more is stored in the meantime.
LEMMA HoldsStay ==
    ASSUME NEW r, NEW r2, NEW have, NEW have2, NEW table, NEW table2,
           Holds(r, have, table), have \subseteq have2,
           table[r.token]["dune"].cursor # 0 => table2[r.token]["dune"].cursor # 0,
           Fields \subseteq DOMAIN r2,
           r2.token = r.token, InOrder(r2.todo), Range(r2.todo) \subseteq Range(r.todo),
           r2.pc = "ohlcv" => r.pc = "ohlcv" /\ r2.cp = r.cp /\ r2.add = r.add,
           ~ Range(r2.todo) \subseteq {"dexscreener"} => Traded(r2.add) = r2.add,
           "dune" \in DOMAIN r2.cp =>
              /\ "dune" \in DOMAIN r.cp /\ "dune" \in DOMAIN r2.loaded
              /\ r2.loaded["dune"] = r.loaded["dune"] /\ r2.cp["dune"] \in Checkpoint
              /\ r2.cp["dune"].at = r.cp["dune"].at /\ r2.cp["dune"].cursor = r.cp["dune"].cursor
              /\ Traded(r.add) \subseteq Traded(r2.add),
           AtSource(r2) => r2.todo # <<>>,
           AtSource(r2) /\ Head(r2.todo) = "dune" =>
              "dune" \in DOMAIN r2.cp /\ r2.cursor = r2.cp["dune"].cursor /\ r2.since = r2.loaded["dune"].at
    PROVE  Holds(r2, have2, table2)
<1>1. ASSUME "dune" \in DOMAIN r2.cp PROVE Claims(r2, have2, table2)
  <2>1. Claims(r, have, table)
    BY <1>1 DEF Holds
  <2>2. RowLocks(Traded(r.add)) \subseteq RowLocks(Traded(r2.add))
    BY <1>1 DEF RowLocks
  <2>3. \A at : Held(r.token, at, have) => Held(r.token, at, have2)
    BY DEF Held
  <2>4. \A at : Held(r.token, at, have \cup RowLocks(Traded(r.add)))
                   => Held(r.token, at, have2 \cup RowLocks(Traded(r2.add)))
    BY <2>2 DEF Held
  <2> QED
    BY <1>1, <2>1, <2>3, <2>4 DEF Claims
<1> QED
  BY <1>1 DEF Holds

\* The newest row of a page of Dune has a time.
LEMMA PageTimes ==
    ASSUME NEW p \in Procs, Source(p) = "dune", PageOf(p) # {}
    PROVE  /\ Max({r.at : r \in PageOf(p)}) \in {r.at : r \in PageOf(p)}
           /\ Max({r.at : r \in PageOf(p)}) \in Nat
           /\ IsFiniteSet(PageOf(p)) /\ Cardinality(PageOf(p)) \in Nat \ {0}
<1> DEFINE t == s[p].token
           Row(n) == [key |-> n.key, token |-> t, wallet |-> n.wallet, side |-> n.side, usd |-> n.usd,
                      at |-> n.at, src |-> Source(p)]
           Sl == Slice(Since(Shown(t), s[p].since), s[p].cursor, DunePage)
           Page == PageOf(p)
<1>1. Page = {Row(n) : n \in Sl} /\ \A n : Row(n).at = n.at
  BY DEF PageOf
<1>2. Sl \in SUBSET Market
  BY DEF Slice, Since, Shown
<1>3. PICK f : f = [n \in Sl |-> Row(n)]
  OBVIOUS
<1> HIDE DEF Row, Sl
<1>4. IsFiniteSet(Sl) /\ \A n \in Sl : n.at \in Nat
  BY <1>2, MarketAssumption, FS_Subset
<1>5. IsFiniteSet(Page)
  <2>1. f \in Surjection(Sl, Page)
    BY <1>1, <1>3 DEF Surjection
  <2> QED
    BY <1>4, <2>1, FS_Surjection
<1>6. PICK A, g : A = {r.at : r \in Page} /\ g = [r \in Page |-> r.at]
  OBVIOUS
<1>7. A # {} /\ \A x \in A : x \in Nat
  <2>1. \A r \in Page : r.at \in Nat
    BY <1>1, <1>4
  <2> QED
    BY <1>6, <2>1 DEF Page
<1>8. IsFiniteSet(A)
  <2>1. g \in Surjection(Page, A)
    BY <1>6 DEF Surjection
  <2> QED
    BY <1>5, <2>1, FS_Surjection
<1>9. Max(A) \in A
  BY <1>7, <1>8, MaxIsIn
<1>10. Cardinality(Page) \in Nat \ {0}
  BY <1>5, FS_CardinalityType, FS_EmptySet DEF Page
<1> QED
  BY <1>5, <1>6, <1>7, <1>9, <1>10 DEF Page

\* A page that leaves the cursor empty leaves out no trade made since: it is
\* not full, and a trade the market shows only later is not older.
LEMMA PageIsWhole ==
    ASSUME now \in Nat, NEW p \in Procs, Source(p) = "dune", s[p].cursor = 0, s[p].since \in Nat,
           PageOf(p) # {}, Cardinality(PageOf(p)) < DunePage,
           NEW m \in Market, m.token = s[p].token, m.at < Max({r.at : r \in PageOf(p)}),
           s[p].since = 0 \/ m.at >= s[p].since
    PROVE  \E r \in PageOf(p) : r.key = m.key /\ r.token = s[p].token /\ r.src = "dune"
<1> DEFINE t == s[p].token
           Row(n) == [key |-> n.key, token |-> t, wallet |-> n.wallet, side |-> n.side, usd |-> n.usd,
                      at |-> n.at, src |-> Source(p)]
           W == Since(Shown(t), s[p].since)
           Sl == Slice(W, 0, DunePage)
           Page == PageOf(p)
<1>1. Page = {Row(n) : n \in Sl}
  BY DEF PageOf
<1>2. W \in SUBSET Market /\ Sl \in SUBSET W /\ \A n \in W : n.token = t /\ n.shown <= now
  BY DEF Since, Shown, Slice
<1>3. IsFiniteSet(W) /\ IsFiniteSet(Sl) /\ \A n \in W : n.at \in Nat /\ n.key \in Nat /\ n.shown \in Nat
  <2>1. IsFiniteSet(Market) /\ \A n \in Market : n.at \in Nat /\ n.key \in Nat /\ n.shown \in Nat
    BY MarketAssumption
  <2>2. Sl \in SUBSET Market
    BY <1>2
  <2> HIDE DEF W, Sl
  <2>3. IsFiniteSet(W) /\ IsFiniteSet(Sl)
    BY <1>2, <2>1, <2>2, FS_Subset
  <2> QED
    BY <1>2, <2>1, <2>3
<1>4. \A n \in Sl : Row(n) \in Page /\ Row(n).key = n.key /\ Row(n).at = n.at /\ Row(n).token = t /\ Row(n).src = "dune"
  BY <1>1
<1>5. \A r \in Page : \E n \in Sl : r = Row(n)
  BY <1>1
<1>6. PICK f : f = [n \in Sl |-> Row(n)]
  OBVIOUS
<1> HIDE DEF Row, W, Sl, Page
<1>7. \A n \in Sl, o \in Sl : n.key = o.key => n = o
  BY <1>2, MarketAssumption
<1>8. f \in Surjection(Sl, Page)
  BY <1>4, <1>5, <1>6 DEF Surjection
<1>9. IsFiniteSet(Page)
  BY <1>3, <1>8, FS_Surjection
<1>10. f \in Injection(Sl, Page)
  BY <1>4, <1>6, <1>7 DEF Injection, IsInjective
<1>11. Cardinality(Sl) <= Cardinality(Page)
  BY <1>9, <1>10, FS_Injection
<1>12. Cardinality(Sl) < DunePage /\ DunePage \in Nat
  <2>1. Cardinality(Sl) \in Nat /\ Cardinality(Page) \in Nat
    BY <1>3, <1>9, FS_CardinalityType
  <2> QED
    BY <1>11, <2>1, MarketAssumption DEF Page
<1>13. Sl = W
  BY <1>3, <1>12, NotFull DEF Sl
<1>14. PICK top : top \in {r.at : r \in Page} /\ m.at < top
  BY PageTimes DEF Page
<1>15. PICK n \in Sl : n.at = top
  BY <1>4, <1>5, <1>14
<1>16. m \in Shown(t)
  <2>1. m.at \in Nat /\ n.at \in Nat /\ m.shown \in Nat /\ n.shown \in Nat /\ n \in Market /\ n.token = m.token /\ n.shown <= now
    BY <1>2, <1>15, MarketAssumption DEF t
  <2>2. n.shown < m.shown => n.at <= m.at
    BY <2>1, MarketAssumption
  <2>3. m.shown <= now
    BY <1>14, <1>15, <2>1, <2>2
  <2> QED
    BY <2>3 DEF Shown, t
<1>17. m \in Sl
  BY <1>13, <1>16 DEF W, Since
<1> QED
  BY <1>4, <1>17 DEF Page, t

\* The next page of Dune: what the session now says of the checkpoint is right.
LEMMA PagePulled ==
    ASSUME now \in Nat, RowLocks(rows) \subseteq ever, NEW p \in Procs, Holds(s[p], ever, cps),
           s[p].pc = "pull", Source(p) = "dune", PageOf(p) # {},
           NEW new, new = {r \in PageOf(p) : RowLocks({r}) \cap RowLocks(Visible(p)) = {}},
           s[p].cp["dune"].cursor = 0, Cardinality(PageOf(p)) < DunePage
    PROVE  Held(s[p].token, Max({r.at : r \in PageOf(p)}), ever \cup RowLocks(Traded(s[p].add \cup new)))
<1>1. /\ s[p].cursor = 0 /\ s[p].since = s[p].loaded["dune"].at /\ s[p].loaded["dune"].at \in Nat
      /\ Held(s[p].token, s[p].loaded["dune"].at, ever) /\ Traded(s[p].add) = s[p].add
  <2>1. s[p].todo # <<>> /\ Head(s[p].todo) = "dune" /\ InOrder(s[p].todo) /\ AtSource(s[p])
    BY DEF Holds, AtSource, Source
  <2>2. Traded(s[p].add) = s[p].add
    BY <2>1, SourceOrder DEF Holds
  <2>3. "dune" \in DOMAIN s[p].cp /\ s[p].cursor = s[p].cp["dune"].cursor /\ s[p].since = s[p].loaded["dune"].at
    BY <2>1 DEF Holds
  <2>4. Claims(s[p], ever, cps)
    BY <2>3 DEF Holds
  <2>5. s[p].loaded["dune"].at \in Nat
    BY <2>4 DEF Claims, Checkpoint
  <2> QED
    BY <2>2, <2>3, <2>4, <2>5 DEF Claims
<1> SUFFICES ASSUME NEW m \in Market, m.token = s[p].token, m.at < Max({r.at : r \in PageOf(p)})
             PROVE  <<"row", s[p].token, m.key>> \in ever \cup RowLocks(Traded(s[p].add \cup new))
  BY DEF Held
<1>2. m.at \in Nat
  BY MarketAssumption
<1>3. CASE m.at < s[p].since
  BY <1>1, <1>3 DEF Held
<1>4. CASE m.at >= s[p].since
  <2>1. PICK r \in PageOf(p) : r.key = m.key /\ r.token = s[p].token /\ r.src = "dune"
    BY <1>1, <1>4, PageIsWhole
  <2>2. RowLocks({r}) = {<<"row", s[p].token, m.key>>}
    BY <2>1 DEF RowLocks
  <2>3. CASE r \in new
    BY <2>1, <2>3 DEF RowLocks, Traded
  <2>4. CASE r \notin new
    <3>1. <<"row", s[p].token, m.key>> \in RowLocks(Visible(p))
      BY <2>1, <2>2, <2>4
    <3>2. RowLocks(Visible(p)) \subseteq RowLocks(rows) \cup RowLocks(s[p].add)
      BY DEF RowLocks, Visible
    <3>3. RowLocks(s[p].add) \subseteq RowLocks(Traded(s[p].add \cup new))
      BY <1>1 DEF RowLocks, Traded
    <3> QED
      BY <3>1, <3>2, <3>3
  <2> QED
    BY <2>3, <2>4
<1> QED
  BY <1>1, <1>2, <1>3, <1>4

\* What every session is about to say, once its step is taken.
LEMMA ToSessions ==
    ASSUME \A p \in Procs : s'[p].pc \notin Resting => Holds(s'[p], ever', cps')
    PROVE  SessionsHold'
BY DEF SessionsHold, Resting

\* A step of session p within its sync.
LEMMA ByOne ==
    ASSUME StoredInv, NEW p \in Procs, UNCHANGED <<now, rows, cps, ever>>,
           \A q \in Procs \ {p} : s'[q] = s[q],
           s'[p].pc \notin Resting => Holds(s'[p], ever, cps)
    PROVE  StoredInv'
<1>1. \A q \in Procs : s[q].pc \notin Resting => Holds(s[q], ever, cps)
  BY DEF StoredInv, SessionsHold
<1>2. SessionsHold'
  <2>1. \A q \in Procs : s'[q].pc \notin Resting => Holds(s'[q], ever', cps')
    BY <1>1
  <2> QED
    BY <2>1, ToSessions
<1>3. CheckpointsInv'
  BY DEF StoredInv, CheckpointsInv, Held
<1> QED
  BY <1>2, <1>3 DEF StoredInv, RowLocks

\* A step of session p after which no source is asked, and which adds no row.
LEMMA Onward ==
    ASSUME StoredInv, NEW p \in Procs, UNCHANGED <<now, rows, cps, ever>>,
           \A q \in Procs \ {p} : s'[q] = s[q],
           s[p].pc \notin Resting, s'[p].pc \notin {"ohlcv", "clear", "pull"},
           DOMAIN s'[p] = DOMAIN s[p], s'[p].token = s[p].token, s'[p].add = s[p].add,
           s'[p].todo = s[p].todo \/ (s[p].todo # <<>> /\ s'[p].todo = Tail(s[p].todo)),
           "dune" \in DOMAIN s'[p].cp =>
              /\ "dune" \in DOMAIN s[p].cp
              /\ "dune" \in DOMAIN s[p].loaded => "dune" \in DOMAIN s'[p].loaded
              /\ s'[p].loaded["dune"] = s[p].loaded["dune"]
              /\ s[p].cp["dune"] \in Checkpoint => s'[p].cp["dune"] \in Checkpoint
              /\ s'[p].cp["dune"].at = s[p].cp["dune"].at /\ s'[p].cp["dune"].cursor = s[p].cp["dune"].cursor
    PROVE  StoredInv'
<1>1. Holds(s[p], ever, cps)
  BY DEF StoredInv, SessionsHold
<1>2. PICK r, r2 : r = s[p] /\ r2 = s'[p]
  OBVIOUS
<1>3. InOrder(r2.todo) /\ Range(r2.todo) \subseteq Range(r.todo)
  <2>1. InOrder(r.todo)
    BY <1>1, <1>2 DEF Holds
  <2> QED
    BY <1>2, <2>1, SourceOrder
<1>4. ~ Range(r2.todo) \subseteq {"dexscreener"} => Traded(r2.add) = r2.add
  BY <1>1, <1>2, <1>3 DEF Holds
<1>5. ~ AtSource(r2) /\ r2.pc # "ohlcv" /\ Fields \subseteq DOMAIN r2
  BY <1>1, <1>2 DEF Holds, AtSource
<1>6. ASSUME "dune" \in DOMAIN r2.cp
      PROVE  /\ "dune" \in DOMAIN r.cp /\ "dune" \in DOMAIN r2.loaded
             /\ r2.loaded["dune"] = r.loaded["dune"] /\ r2.cp["dune"] \in Checkpoint
             /\ r2.cp["dune"].at = r.cp["dune"].at /\ r2.cp["dune"].cursor = r.cp["dune"].cursor
             /\ Traded(r.add) \subseteq Traded(r2.add)
  BY <1>1, <1>2, <1>6 DEF Holds, Claims
<1>7. Holds(r2, ever, cps)
  BY <1>1, <1>2, <1>3, <1>4, <1>5, <1>6, HoldsStay
<1> QED
  BY <1>2, <1>7, ByOne

LEMMA OhlcvStored ==
    ASSUME SyncInv, StoredInv, NEW p \in Procs, Ohlcv(p) PROVE StoredInv'
<1> DEFINE t == s[p].token
           new(up) == {c \in IF HasPool(t) /\ up THEN Candles(t, s[p].hours) ELSE {} :
                          Slot(c) \notin {Slot(d) : d \in candles[t]}}
           keys(up) == {<<"candle", t, Slot(c)>> : c \in new(up)}
           first(up) == candles[t] \cup new(up) = {}
<1>1. PICK up \in BOOLEAN : s' = [s EXCEPT ![p].pc = "load", ![p].candles = new(up), ![p].locks = keys(up),
                                           ![p].todo = Collectors(first(up))]
  BY DEF Ohlcv
<1>2. PICK c, k, b : c = new(up) /\ k = keys(up) /\ b = first(up) /\ b \in BOOLEAN
  OBVIOUS
<1>3. s' = [s EXCEPT ![p].pc = "load", ![p].candles = c, ![p].locks = k, ![p].todo = Collectors(b)]
  BY <1>1, <1>2
<1> HIDE DEF t, new, keys, first
<1>4. s[p].pc = "ohlcv" /\ UNCHANGED <<now, rows, cps, ever>>
  BY DEF Ohlcv, tables, ghosts
<1>5. Holds(s[p], ever, cps) /\ DOMAIN s = Procs
  BY <1>4 DEF StoredInv, SessionsHold, Resting, SyncInv, SessionsInv
<1>6. DOMAIN s[p].cp = {} /\ s[p].add = {} /\ Fields \subseteq DOMAIN s[p] /\ s[p].token \in Tokens
  BY <1>4, <1>5 DEF Holds
<1>7. /\ s'[p].pc = "load" /\ s'[p].token = s[p].token /\ s'[p].cp = s[p].cp /\ s'[p].add = {}
      /\ s'[p].todo = Collectors(b) /\ Fields \subseteq DOMAIN s'[p]
      /\ \A q \in Procs \ {p} : s'[q] = s[q]
  BY <1>3, <1>5, <1>6 DEF Fields
<1>8. InOrder(s'[p].todo)
  BY <1>2, <1>7, CollectorsInOrder
<1>9. Holds(s'[p], ever, cps)
  BY <1>6, <1>7, <1>8 DEF Holds, AtSource, Traded
<1> QED
  BY <1>4, <1>7, <1>9, ByOne

LEMMA LoadStored ==
    ASSUME SyncInv, StoredInv, NEW p \in Procs, Load(p) PROVE StoredInv'
<1>1. s[p].pc = "load" /\ UNCHANGED <<now, rows, cps, ever>>
  BY DEF Load, tables, ghosts
<1>2. Holds(s[p], ever, cps) /\ DOMAIN s = Procs
  BY <1>1 DEF StoredInv, SessionsHold, Resting, SyncInv, SessionsInv
<1>3. Fields \subseteq DOMAIN s[p] /\ s[p].token \in Tokens /\ InOrder(s[p].todo)
  BY <1>2 DEF Holds
<1>4. CASE s[p].todo = <<>>
  <2>1. s' = [s EXCEPT ![p].pc = "liquidity"]
    BY <1>4 DEF Load
  <2>2. /\ DOMAIN s'[p] = DOMAIN s[p] /\ s'[p].pc = "liquidity" /\ s'[p].token = s[p].token
        /\ s'[p].add = s[p].add /\ s'[p].todo = s[p].todo /\ s'[p].cp = s[p].cp /\ s'[p].loaded = s[p].loaded
        /\ \A q \in Procs \ {p} : s'[q] = s[q]
    BY <1>2, <1>3, <2>1 DEF Fields
  <2> QED
    BY <1>1, <2>2, Onward DEF Resting
<1>5. CASE s[p].todo # <<>>
  <2>1. PICK src, cp, run : src = Source(p) /\ cp = cps[s[p].token][src] /\ run = [cp EXCEPT !.status = "running"]
    OBVIOUS
  <2>2. s' = [s EXCEPT ![p].pc = "clear", ![p].since = cp.at, ![p].cursor = cp.cursor,
                       ![p].loaded = Set(@, src, cp), ![p].page = 1, ![p].cp = Set(@, src, run)]
    BY <1>5, <2>1 DEF Load
  <2>3. /\ s'[p].pc = "clear" /\ s'[p].token = s[p].token /\ s'[p].add = s[p].add /\ s'[p].todo = s[p].todo
        /\ s'[p].since = cp.at /\ s'[p].cursor = cp.cursor /\ Fields \subseteq DOMAIN s'[p]
        /\ s'[p].loaded = Set(s[p].loaded, src, cp) /\ s'[p].cp = Set(s[p].cp, src, run)
        /\ \A q \in Procs \ {p} : s'[q] = s[q]
    BY <1>2, <1>3, <2>2 DEF Fields
  <2>4. PICK r, r2 : r = s[p] /\ r2 = s'[p]
    OBVIOUS
  <2>5. /\ DOMAIN r2.cp = DOMAIN r.cp \cup {src} /\ r2.cp[src] = run
        /\ DOMAIN r2.loaded = DOMAIN r.loaded \cup {src} /\ r2.loaded[src] = cp
        /\ \A x \in DOMAIN r.cp : x # src => r2.cp[x] = r.cp[x]
        /\ \A x \in DOMAIN r.loaded : x # src => r2.loaded[x] = r.loaded[x]
    <3>1. r2.cp = Set(r.cp, src, run) /\ r2.loaded = Set(r.loaded, src, cp)
      BY <2>3, <2>4
    <3> QED
      BY <3>1 DEF Set
  <2>6. CASE src = "dune"
    <3>1. /\ cp \in Checkpoint
          /\ cp.cursor = 0 => Held(r.token, cp.at, ever)
          /\ cp = cps[r.token]["dune"]
      BY <1>3, <2>1, <2>4, <2>6 DEF StoredInv, CheckpointsInv
    <3>2. run \in Checkpoint /\ run.at = cp.at /\ run.cursor = cp.cursor
      BY <2>1, <3>1 DEF Checkpoint
    <3>3. /\ "dune" \in DOMAIN r2.cp /\ "dune" \in DOMAIN r2.loaded
          /\ r2.loaded["dune"] = cp /\ r2.cp["dune"] = run
      BY <2>3, <2>5, <2>4, <2>6
    <3>4. "gecko" \notin Range(r2.todo) /\ Head(r2.todo) = "dune" /\ r2.todo # <<>>
      BY <1>3, <1>5, <2>1, <2>3, <2>4, <2>6, SourceOrder DEF Source
    <3>5. Held(r2.token, cp.at, ever) => Held(r2.token, cp.at, ever \cup RowLocks(Traded(r2.add)))
      BY DEF Held
    <3>6. Claims(r2, ever, cps)
      BY <2>3, <2>4, <3>1, <3>2, <3>3, <3>4, <3>5 DEF Claims
    <3>7. ~ Range(r2.todo) \subseteq {"dexscreener"} => Traded(r2.add) = r2.add
      BY <1>2, <2>3, <2>4 DEF Holds
    <3>8. Holds(r2, ever, cps)
      BY <1>3, <2>3, <2>4, <3>2, <3>3, <3>4, <3>6, <3>7 DEF Holds
    <3> QED
      BY <1>1, <2>3, <2>4, <3>8, ByOne
  <2>7. CASE src # "dune"
    <3>1. "dune" \in DOMAIN r2.cp => "dune" \in DOMAIN r.cp /\ r2.cp["dune"] = r.cp["dune"]
      BY <2>3, <2>5, <2>4, <2>7
    <3>2. "dune" \in DOMAIN r.loaded => "dune" \in DOMAIN r2.loaded /\ r2.loaded["dune"] = r.loaded["dune"]
      BY <2>3, <2>5, <2>4, <2>7
    <3>3. "dune" \in DOMAIN r.cp => "dune" \in DOMAIN r.loaded /\ r.cp["dune"] \in Checkpoint
      BY <1>2, <2>4 DEF Holds, Claims
    <3>4. Head(r2.todo) # "dune"
      BY <2>1, <2>3, <2>4, <2>7 DEF Source
    <3>5. ~ Range(r2.todo) \subseteq {"dexscreener"} => Traded(r2.add) = r2.add
      BY <1>2, <2>3, <2>4 DEF Holds
    <3>6. Holds(r2, ever, cps)
      BY <1>2, <1>3, <1>5, <2>3, <2>4, <3>1, <3>2, <3>3, <3>4, <3>5, HoldsStay
    <3> QED
      BY <1>1, <2>3, <2>4, <3>6, ByOne
  <2> QED
    BY <2>6, <2>7
<1> QED
  BY <1>4, <1>5

LEMMA ClearStored ==
    ASSUME SyncInv, StoredInv, NEW p \in Procs, Clear(p) PROVE StoredInv'
<1> DEFINE old_ == IF Source(p) \in Replaced
                   THEN {x \in OfToken(Visible(p), s[p].token) : x.src = Source(p)} ELSE {}
           wanted_ == RowLocks(old_) \cup (IF s[p].loaded[Source(p)].status = "none" THEN {CpLock(p)} ELSE {})
<1>1. s[p].pc = "clear" /\ UNCHANGED <<now, rows, cps, ever>>
  BY DEF Clear, tables, ghosts
<1>2. Holds(s[p], ever, cps) /\ DOMAIN s = Procs
  BY <1>1 DEF StoredInv, SessionsHold, Resting, SyncInv, SessionsInv
<1>3. PICK old, locks : old = old_ /\ locks = wanted_
  OBVIOUS
<1>4. s' = [s EXCEPT ![p].pc = "pull", ![p].locks = @ \cup locks, ![p].drop = @ \cup old, ![p].add = @ \ old]
  BY <1>3 DEF Clear
<1>5. /\ Fields \subseteq DOMAIN s[p] /\ s[p].token \in Tokens /\ InOrder(s[p].todo) /\ s[p].todo # <<>>
      /\ AtSource(s[p])
  BY <1>1, <1>2 DEF Holds, AtSource
<1>6. /\ s'[p].pc = "pull" /\ s'[p].token = s[p].token /\ s'[p].add = s[p].add \ old /\ s'[p].todo = s[p].todo
      /\ s'[p].since = s[p].since /\ s'[p].cursor = s[p].cursor /\ Fields \subseteq DOMAIN s'[p]
      /\ s'[p].loaded = s[p].loaded /\ s'[p].cp = s[p].cp
      /\ \A q \in Procs \ {p} : s'[q] = s[q]
  BY <1>2, <1>4, <1>5 DEF Fields
<1>7. PICK r, r2 : r = s[p] /\ r2 = s'[p]
  OBVIOUS
<1>8. ASSUME "dune" \in DOMAIN r.cp PROVE Traded(r.add) \subseteq Traded(r2.add)
  <2>1. "gecko" \notin Range(r.todo)
    BY <1>2, <1>7, <1>8 DEF Holds, Claims
  <2>2. Source(p) # "gecko"
    BY <1>5, <1>7, <2>1, SourceOrder DEF Source
  <2>3. \A x \in old : x.src = "dexscreener"
    BY <1>3, <2>2 DEF Replaced
  <2> QED
    BY <1>6, <1>7, <2>3 DEF Traded
<1>9. ~ Range(r2.todo) \subseteq {"dexscreener"} => Traded(r2.add) = r2.add
  BY <1>2, <1>6, <1>7 DEF Holds, Traded
<1>10. "dune" \in DOMAIN r.cp => "dune" \in DOMAIN r.loaded /\ r.cp["dune"] \in Checkpoint
  BY <1>2, <1>7 DEF Holds, Claims
<1>11. Head(r2.todo) = "dune" =>
          "dune" \in DOMAIN r2.cp /\ r2.cursor = r2.cp["dune"].cursor /\ r2.since = r2.loaded["dune"].at
  BY <1>2, <1>5, <1>6, <1>7 DEF Holds
<1>12. Holds(r2, ever, cps)
  BY <1>2, <1>5, <1>6, <1>7, <1>8, <1>9, <1>10, <1>11, HoldsStay
<1> QED
  BY <1>1, <1>6, <1>7, <1>12, ByOne

\* A source that is done with leaves the rows and what is known of them alone.
LEMMA DoneStored ==
    ASSUME SyncInv, StoredInv, NEW p \in Procs, s[p].pc = "pull", UNCHANGED <<now, rows, cps, ever>>,
           NEW status \in {"idle", "error"}, SourceDone(p, status)
    PROVE  StoredInv'
<1>1. Holds(s[p], ever, cps) /\ DOMAIN s = Procs
  BY DEF StoredInv, SessionsHold, Resting, SyncInv, SessionsInv
<1>2. Fields \subseteq DOMAIN s[p] /\ s[p].todo # <<>>
  BY <1>1 DEF Holds, AtSource
<1>3. PICK src : src = Source(p)
  OBVIOUS
<1>4. s' = [s EXCEPT ![p].pc = "load", ![p].todo = Tail(@), ![p].cp[src].status = status]
  BY <1>3 DEF SourceDone
<1>5. /\ DOMAIN s'[p] = DOMAIN s[p] /\ s'[p].pc = "load" /\ s'[p].token = s[p].token /\ s'[p].add = s[p].add
      /\ s'[p].todo = Tail(s[p].todo) /\ s'[p].loaded = s[p].loaded
      /\ s'[p].cp = [s[p].cp EXCEPT ![src].status = status]
      /\ \A q \in Procs \ {p} : s'[q] = s[q]
  BY <1>1, <1>2, <1>4 DEF Fields
<1>6. ASSUME "dune" \in DOMAIN s'[p].cp
      PROVE  /\ "dune" \in DOMAIN s[p].cp
             /\ s[p].cp["dune"] \in Checkpoint => s'[p].cp["dune"] \in Checkpoint
             /\ s'[p].cp["dune"].at = s[p].cp["dune"].at /\ s'[p].cp["dune"].cursor = s[p].cp["dune"].cursor
  <2>1. "dune" \in DOMAIN s[p].cp
    BY <1>5, <1>6
  <2>2. s[p].cp["dune"] \in Checkpoint
    BY <1>1, <2>1 DEF Holds, Claims
  <2>3. PICK cp : cp = s[p].cp["dune"]
    OBVIOUS
  <2>4. s'[p].cp["dune"] \in {cp, [cp EXCEPT !.status = status]}
    BY <1>5, <2>1, <2>3
  <2>5. [cp EXCEPT !.status = status] \in Checkpoint
        /\ [cp EXCEPT !.status = status].at = cp.at /\ [cp EXCEPT !.status = status].cursor = cp.cursor
    BY <2>2, <2>3 DEF Checkpoint
  <2> QED
    BY <2>1, <2>2, <2>3, <2>4, <2>5
<1> QED
  BY <1>2, <1>5, <1>6, Onward DEF Resting

LEMMA LiquidityStored ==
    ASSUME SyncInv, StoredInv, NEW p \in Procs, Liquidity(p) PROVE StoredInv'
<1>1. s[p].pc = "liquidity" /\ UNCHANGED <<now, rows, cps, ever>>
  BY DEF Liquidity, tables, ghosts
<1>2. Holds(s[p], ever, cps) /\ DOMAIN s = Procs
  BY <1>1 DEF StoredInv, SessionsHold, Resting, SyncInv, SessionsInv
<1>3. Fields \subseteq DOMAIN s[p]
  BY <1>2 DEF Holds
<1>4. PICK new, cp, mine, toScore :
         /\ s' = [s EXCEPT ![p].pc = "score", ![p].liq = new, ![p].loaded = Set(@, "liquidity", cp),
                           ![p].cp = mine, ![p].toScore = toScore]
         /\ \E v : mine \in {s[p].cp, Set(s[p].cp, "liquidity", v)}
  <2> DEFINE t == s[p].token
             c == cps[t]["liquidity"]
             events == IF HasPool(t) \/ ~dune THEN {} ELSE Since({e \in LiquidityOf : e.at <= now}, c.at)
             v == [at |-> Max({e.at : e \in events}), cursor |-> 0, status |-> "idle"]
             mine == IF events = {} THEN s[p].cp ELSE Set(s[p].cp, "liquidity", v)
             new == {e \in events : EventKey(e) \notin EventKeys(liq[t])}
  <2>1. s' = [s EXCEPT ![p].pc = "score", ![p].liq = new, ![p].loaded = Set(@, "liquidity", c),
                       ![p].cp = mine, ![p].toScore = Wallets(OfToken(Visible(p), t))]
    BY DEF Liquidity
  <2>2. mine \in {s[p].cp, Set(s[p].cp, "liquidity", v)}
    OBVIOUS
  <2> HIDE DEF t, c, events, v, mine, new
  <2> QED
    BY <2>1, <2>2
<1>5. /\ DOMAIN s'[p] = DOMAIN s[p] /\ s'[p].pc = "score" /\ s'[p].token = s[p].token /\ s'[p].add = s[p].add
      /\ s'[p].todo = s[p].todo /\ s'[p].loaded = Set(s[p].loaded, "liquidity", cp) /\ s'[p].cp = mine
      /\ \A q \in Procs \ {p} : s'[q] = s[q]
  <2>1. PICK c : c = Set(s[p].loaded, "liquidity", cp)
    OBVIOUS
  <2>2. s' = [s EXCEPT ![p].pc = "score", ![p].liq = new, ![p].loaded = c, ![p].cp = mine, ![p].toScore = toScore]
    BY <1>4, <2>1
  <2> QED
    BY <1>2, <1>3, <2>1, <2>2 DEF Fields
<1>6. "dune" \in DOMAIN mine => "dune" \in DOMAIN s[p].cp /\ mine["dune"] = s[p].cp["dune"]
  <2>1. PICK v : mine \in {s[p].cp, Set(s[p].cp, "liquidity", v)}
    BY <1>4
  <2>2. CASE mine = s[p].cp
    BY <2>2
  <2>3. CASE mine = Set(s[p].cp, "liquidity", v)
    BY <2>3 DEF Set
  <2> QED
    BY <2>1, <2>2, <2>3
<1>7. "dune" \in DOMAIN s[p].cp => "dune" \in DOMAIN s[p].loaded
  BY <1>2 DEF Holds, Claims
<1>8. "dune" \in DOMAIN s[p].loaded => "dune" \in DOMAIN s'[p].loaded /\ s'[p].loaded["dune"] = s[p].loaded["dune"]
  BY <1>5 DEF Set
<1> QED
  BY <1>1, <1>5, <1>6, <1>7, <1>8, Onward DEF Resting

LEMMA ScoringStored ==
    ASSUME SyncInv, StoredInv, NEW p \in Procs, ScoreRead(p) \/ ScoreWrite(p) \/ Analyse(p) PROVE StoredInv'
<1>1. s[p].pc \in {"score", "upsert", "analyse"} /\ UNCHANGED <<now, rows, cps, ever>>
  BY DEF ScoreRead, ScoreWrite, Analyse, tables, ghosts
<1>2. Holds(s[p], ever, cps) /\ DOMAIN s = Procs
  BY <1>1 DEF StoredInv, SessionsHold, Resting, SyncInv, SessionsInv
<1>3. Fields \subseteq DOMAIN s[p]
  BY <1>2 DEF Holds
<1> DEFINE Kept == /\ DOMAIN s'[p] = DOMAIN s[p] /\ s'[p].pc \in {"score", "upsert", "analyse", "commit"}
                   /\ s'[p].token = s[p].token /\ s'[p].add = s[p].add /\ s'[p].todo = s[p].todo
                   /\ s'[p].loaded = s[p].loaded /\ s'[p].cp = s[p].cp
                   /\ \A q \in Procs \ {p} : s'[q] = s[q]
<1>8. ASSUME Kept PROVE StoredInv'
  <2>1. s[p].pc \notin Resting /\ s'[p].pc \notin {"ohlcv", "clear", "pull"}
    BY <1>1, <1>8 DEF Resting
  <2> QED
    BY <1>1, <1>8, <2>1, Onward
<1>4. CASE ScoreRead(p) /\ s[p].toScore = {}
  <2>1. s' = [s EXCEPT ![p].pc = "analyse"]
    BY <1>4 DEF ScoreRead
  <2>2. Kept
    BY <1>2, <1>3, <2>1 DEF Fields
  <2> QED
    BY <1>8, <2>2
<1>5. CASE ScoreRead(p) /\ s[p].toScore # {}
  <2>1. PICK w, stat : s' \in {[s EXCEPT ![p].toScore = @ \ {w}],
                               [s EXCEPT ![p].pc = "upsert", ![p].wallet = w, ![p].toScore = @ \ {w},
                                         ![p].stat = stat]}
    BY <1>5 DEF ScoreRead
  <2>2. CASE s' = [s EXCEPT ![p].toScore = @ \ {w}]
    <3>1. Kept
      BY <1>1, <1>2, <1>3, <2>2 DEF Fields
    <3> QED
      BY <1>8, <3>1
  <2>3. CASE s' = [s EXCEPT ![p].pc = "upsert", ![p].wallet = w, ![p].toScore = @ \ {w}, ![p].stat = stat]
    <3>1. Kept
      BY <1>2, <1>3, <2>3 DEF Fields
    <3> QED
      BY <1>8, <3>1
  <2> QED
    BY <2>1, <2>2, <2>3
<1>6. CASE ScoreWrite(p)
  <2>1. PICK stats_, locks : s' = [s EXCEPT ![p].pc = "score", ![p].locks = locks, ![p].stats = stats_]
    BY <1>6 DEF ScoreWrite
  <2>2. Kept
    BY <1>2, <1>3, <2>1 DEF Fields
  <2> QED
    BY <1>8, <2>2
<1>7. CASE Analyse(p)
  <2>1. PICK smart_, metric, signals :
          s' = [s EXCEPT ![p].pc = "commit", ![p].smart = smart_, ![p].metric = metric, ![p].signals = signals]
    BY <1>7 DEF Analyse
  <2>2. Kept
    BY <1>2, <1>3, <2>1 DEF Fields
  <2> QED
    BY <1>8, <2>2
<1> QED
  BY <1>4, <1>5, <1>6, <1>7

\* What a page brings: its new rows, the next cursor and the checkpoint.
NewRows(p) == {r \in PageOf(p) : RowLocks({r}) \cap RowLocks(Visible(p)) = {}}
NextCursor(p) ==
    IF Source(p) = "dune" /\ Cardinality(PageOf(p)) >= DunePage THEN s[p].cursor + Cardinality(PageOf(p)) ELSE 0
NewCheckpoint(p) ==
    [s[p].cp[Source(p)] EXCEPT !.at = Max({r.at : r \in PageOf(p)}), !.status = "idle",
                               !.cursor = IF NextCursor(p) = 0 THEN @ ELSE NextCursor(p)]

LEMMA PullShape ==
    ASSUME SyncInv, NEW p \in Procs, Pull(p), PageOf(p) # {}, Fields \subseteq DOMAIN s[p]
    PROVE  /\ s'[p].add = s[p].add \cup NewRows(p) /\ s'[p].cursor = NextCursor(p)
           /\ s'[p].cp = [s[p].cp EXCEPT ![Source(p)] = NewCheckpoint(p)]
           /\ s'[p].token = s[p].token /\ s'[p].loaded = s[p].loaded /\ s'[p].since = s[p].since
           /\ \/ s'[p].pc = "load" /\ s'[p].todo = Tail(s[p].todo)
              \/ s'[p].pc = "pull" /\ s'[p].todo = s[p].todo /\ NextCursor(p) # 0
           /\ Fields \subseteq DOMAIN s'[p]
           /\ \A q \in Procs \ {p} : s'[q] = s[q]
<1> DEFINE fresh == {r \in PageOf(p) : RowLocks({r}) \cap RowLocks(Visible(p)) = {}}
           locks_ == IF fresh = {} THEN {} ELSE RowLocks(fresh) \cup {CpLock(p)}
           next_ == IF Source(p) = "dune" /\ Cardinality(PageOf(p)) >= DunePage
                    THEN s[p].cursor + Cardinality(PageOf(p)) ELSE 0
           cp_ == [s[p].cp[Source(p)] EXCEPT !.at = Max({r.at : r \in PageOf(p)}), !.status = "idle",
                                             !.cursor = IF next_ = 0 THEN @ ELSE next_]
           last_ == next_ = 0 \/ s[p].page = MaxPages
<1>1. s' = [s EXCEPT ![p].add = @ \cup fresh, ![p].locks = @ \cup locks_,
                     ![p].cp[Source(p)] = cp_, ![p].cursor = next_, ![p].page = @ + 1,
                     ![p].pc = IF last_ THEN "load" ELSE "pull",
                     ![p].todo = IF last_ THEN Tail(@) ELSE @]
  BY DEF Pull
<1>2. PICK new, next, cp : /\ new = NewRows(p) /\ next = NextCursor(p) /\ cp = NewCheckpoint(p)
                           /\ fresh = new /\ next_ = next /\ cp_ = cp
  BY DEF NewRows, NextCursor, NewCheckpoint
<1>3. PICK locks, last, src : locks = locks_ /\ last = last_ /\ last \in BOOLEAN /\ src = Source(p)
  OBVIOUS
<1>4. ~last => next # 0
  BY <1>2, <1>3
<1> HIDE DEF fresh, locks_, next_, cp_, last_
<1>5. s' = [s EXCEPT ![p].add = @ \cup new, ![p].locks = @ \cup locks,
                     ![p].cp[src] = cp, ![p].cursor = next, ![p].page = @ + 1,
                     ![p].pc = IF last THEN "load" ELSE "pull",
                     ![p].todo = IF last THEN Tail(@) ELSE @]
  BY <1>1, <1>2, <1>3
<1>6. DOMAIN s = Procs
  BY DEF SyncInv, SessionsInv
<1>7. \A q \in Procs \ {p} : s'[q] = s[q]
  BY <1>5, <1>6
<1>8. s'[p] = [s[p] EXCEPT !.add = @ \cup new, !.locks = @ \cup locks,
                           !.cp[src] = cp, !.cursor = next, !.page = @ + 1,
                           !.pc = IF last THEN "load" ELSE "pull",
                           !.todo = IF last THEN Tail(@) ELSE @]
  BY <1>5, <1>6
<1>9. DOMAIN s'[p] = DOMAIN s[p]
  BY <1>8
<1>10. /\ s'[p].add = s[p].add \cup new /\ s'[p].cursor = next
       /\ s'[p].cp = [s[p].cp EXCEPT ![src] = cp]
       /\ s'[p].pc = (IF last THEN "load" ELSE "pull")
       /\ s'[p].todo = (IF last THEN Tail(s[p].todo) ELSE s[p].todo)
  BY <1>8 DEF Fields
<1>11. s'[p].token = s[p].token /\ s'[p].loaded = s[p].loaded /\ s'[p].since = s[p].since
  BY <1>8 DEF Fields
<1> QED
  BY <1>2, <1>3, <1>4, <1>7, <1>9, <1>10, <1>11

LEMMA PullStored ==
    ASSUME SyncInv, StoredInv, NEW p \in Procs, Pull(p) PROVE StoredInv'
<1>1. s[p].pc = "pull" /\ UNCHANGED <<now, rows, cps, ever>>
  BY DEF Pull, tables, ghosts
<1>2. Holds(s[p], ever, cps)
  BY <1>1 DEF StoredInv, SessionsHold, Resting
<1>3. Fields \subseteq DOMAIN s[p] /\ s[p].token \in Tokens /\ InOrder(s[p].todo) /\ s[p].todo # <<>> /\ AtSource(s[p])
  BY <1>1, <1>2 DEF Holds, AtSource
<1>4. CASE PageOf(p) = {}
  <2>1. SourceDone(p, "idle")
    BY <1>4 DEF Pull
  <2> QED
    BY <1>1, <2>1, DoneStored
<1>5. CASE PageOf(p) # {}
  <2>1. PICK new, next, cp : new = NewRows(p) /\ next = NextCursor(p) /\ cp = NewCheckpoint(p)
    OBVIOUS
  <2>2. /\ s'[p].add = s[p].add \cup new /\ s'[p].cursor = next
        /\ s'[p].cp = [s[p].cp EXCEPT ![Source(p)] = cp]
        /\ s'[p].token = s[p].token /\ s'[p].loaded = s[p].loaded /\ s'[p].since = s[p].since
        /\ \/ s'[p].pc = "load" /\ s'[p].todo = Tail(s[p].todo)
           \/ s'[p].pc = "pull" /\ s'[p].todo = s[p].todo /\ next # 0
        /\ Fields \subseteq DOMAIN s'[p]
        /\ \A q \in Procs \ {p} : s'[q] = s[q]
    BY <1>3, <1>5, <2>1, PullShape
  <2>3. PICK r, r2 : r = s[p] /\ r2 = s'[p]
    OBVIOUS
  <2>4. /\ InOrder(r2.todo) /\ Range(r2.todo) \subseteq Range(r.todo)
        /\ AtSource(r2) => r2.todo = r.todo /\ next # 0
    BY <1>3, <2>2, <2>3, SourceOrder DEF AtSource
  <2>5. \A x \in new : x.src = Source(p)
    <3>1. Source(p) \in Sources
      BY <1>3, SourceOrder DEF Source
    <3>2. \A x \in PageOf(p) : x.src = Source(p)
      BY <3>1 DEF PageOf, Sources
    <3> QED
      BY <2>1, <3>2 DEF NewRows
  <2>6. Source(p) = Head(r.todo)
    BY <2>3 DEF Source
  <2>7. ~ Range(r2.todo) \subseteq {"dexscreener"} => Traded(r2.add) = r2.add
    <3>1. ASSUME ~ Range(r2.todo) \subseteq {"dexscreener"} PROVE Traded(r2.add) = r2.add
      <4>1. ~ Range(r.todo) \subseteq {"dexscreener"}
        BY <2>4, <3>1
      <4>2. Traded(r.add) = r.add
        BY <1>2, <2>3, <4>1 DEF Holds
      <4>3. Source(p) # "dexscreener"
        BY <1>3, <2>3, <2>6, <4>1, SourceOrder
      <4> QED
        BY <2>2, <2>3, <2>5, <4>2, <4>3 DEF Traded
    <3> QED
      BY <3>1
  <2>8. CASE Source(p) = "dune"
    <3>1. Claims(r, ever, cps) /\ "dune" \in DOMAIN r.cp /\ r.cursor = r.cp["dune"].cursor /\ r.since = r.loaded["dune"].at
      BY <1>2, <1>3, <2>3, <2>6, <2>8 DEF Holds
    <3>2. r.cp["dune"] \in Checkpoint /\ r.cp["dune"].cursor \in Nat
      BY <3>1 DEF Claims, Checkpoint
    <3>3. PICK old, top : old = r.cp["dune"] /\ top = Max({x.at : x \in PageOf(p)})
      OBVIOUS
    <3>4. top \in Nat /\ Cardinality(PageOf(p)) \in Nat \ {0}
      BY <1>5, <2>8, <3>3, PageTimes
    <3>5. next \in Nat /\ (next = 0 => Cardinality(PageOf(p)) < DunePage)
      <4>1. PICK size : size = Cardinality(PageOf(p)) /\ size \in Nat \ {0}
        BY <3>4
      <4>2. next = IF size >= DunePage THEN s[p].cursor + size ELSE 0
        BY <2>1, <2>8, <4>1 DEF NextCursor
      <4>3. s[p].cursor \in Nat /\ DunePage \in Nat
        BY <2>3, <3>1, <3>2, MarketAssumption
      <4> QED
        BY <4>1, <4>2, <4>3
    <3>6. cp = [old EXCEPT !.at = top, !.status = "idle", !.cursor = IF next = 0 THEN @ ELSE next]
      BY <2>1, <2>3, <2>8, <3>3 DEF NewCheckpoint
    <3>7. cp \in Checkpoint /\ cp.at = top /\ cp.cursor = (IF next = 0 THEN old.cursor ELSE next)
      BY <3>2, <3>3, <3>4, <3>5, <3>6 DEF Checkpoint
    <3>8. r2.cp["dune"] = cp /\ "dune" \in DOMAIN r2.cp
      BY <2>2, <2>3, <2>8, <3>1
    <3>9. cp.cursor = 0 => r.loaded["dune"].cursor = 0
                           /\ Held(r2.token, cp.at, ever \cup RowLocks(Traded(r2.add)))
      <4>1. ASSUME cp.cursor = 0
            PROVE  Held(s[p].token, top, ever \cup RowLocks(Traded(s[p].add \cup new)))
        <5>1. next = 0 /\ s[p].cp["dune"].cursor = 0
          BY <2>3, <3>3, <3>7, <4>1
        <5> QED
          BY <1>1, <1>2, <1>5, <2>1, <2>8, <3>3, <3>5, <5>1, PagePulled DEF StoredInv, NewRows
      <4>2. cp.cursor = 0 => r.loaded["dune"].cursor = 0
        BY <3>1, <3>3, <3>7 DEF Claims
      <4> QED
        BY <2>2, <2>3, <3>7, <4>1, <4>2
    <3>10. Claims(r2, ever, cps)
      BY <2>2, <2>3, <2>4, <3>1, <3>7, <3>8, <3>9 DEF Claims
    <3>11. AtSource(r2) => r2.todo # <<>> /\ r2.cursor = r2.cp["dune"].cursor /\ r2.since = r2.loaded["dune"].at
      BY <1>3, <2>2, <2>3, <2>4, <3>1, <3>7, <3>8
    <3>12. r2.pc # "ohlcv" /\ r2.token \in Tokens /\ Fields \subseteq DOMAIN r2
      BY <1>3, <2>2, <2>3
    <3>13. Holds(r2, ever, cps)
      BY <2>4, <2>7, <3>8, <3>10, <3>11, <3>12 DEF Holds
    <3> QED
      BY <1>1, <2>2, <2>3, <3>13, ByOne
  <2>9. CASE Source(p) # "dune"
    <3>1. "dune" \in DOMAIN r2.cp => "dune" \in DOMAIN r.cp /\ r2.cp["dune"] = r.cp["dune"]
      BY <2>2, <2>3, <2>9
    <3>2. "dune" \in DOMAIN r.cp => "dune" \in DOMAIN r.loaded /\ r.cp["dune"] \in Checkpoint
      BY <1>2, <2>3 DEF Holds, Claims
    <3>3. Traded(r.add) \subseteq Traded(r2.add)
      BY <2>2, <2>3 DEF Traded
    <3>4. AtSource(r2) => r2.todo # <<>> /\ Head(r2.todo) # "dune"
      BY <1>3, <2>3, <2>4, <2>6, <2>9
    <3>5. r2.pc # "ohlcv" /\ r2.token = r.token /\ r2.loaded = r.loaded /\ Fields \subseteq DOMAIN r2
      BY <2>2, <2>3
    <3>6. Holds(r, ever, cps)
      BY <1>2, <2>3
    <3>7. Holds(r2, ever, cps)
      BY <2>4, <2>7, <3>1, <3>2, <3>3, <3>4, <3>5, <3>6, HoldsStay
    <3> QED
      BY <1>1, <2>2, <2>3, <3>7, ByOne
  <2> QED
    BY <2>8, <2>9
<1> QED
  BY <1>4, <1>5

\* A session that holds nothing any more.
LEMMA RestStored ==
    ASSUME StoredInv, NEW p \in Procs, UNCHANGED <<now, rows, cps, ever>>,
           \A q \in Procs \ {p} : s'[q] = s[q], s'[p].pc \in Resting
    PROVE  StoredInv'
BY ByOne

LEMMA FailedStored ==
    ASSUME SyncInv, StoredInv, NEW p \in Procs, Failed(p) PROVE StoredInv'
<1>1. PICK new : new = [NewSession EXCEPT !.pc = IF p = "job" THEN "next" ELSE "idle", !.queue = s[p].queue]
  OBVIOUS
<1>2. s' = [s EXCEPT ![p] = new] /\ UNCHANGED <<now, rows, cps, ever>>
  BY <1>1 DEF Failed, tables
<1>3. new.pc \in {"next", "idle"}
  BY <1>1 DEF NewSession
<1>4. DOMAIN s = Procs
  BY DEF SyncInv, SessionsInv
<1> QED
  BY <1>2, <1>3, <1>4, RestStored DEF Resting

LEMMA StartStored ==
    ASSUME SyncInv, StoredInv, NEW p \in Procs, NEW t \in Tokens, NEW queue, NEW hours, Start(p, t, queue, hours),
           UNCHANGED <<now, rows, cps, ever>>
    PROVE  StoredInv'
<1>1. PICK new, others : new = [NewSession EXCEPT !.pc = "ohlcv", !.token = t, !.queue = queue, !.start = now,
                                    !.hours = hours, !.broken = s[p].broken, !.lapped = others]
                         /\ s'[p] = new
  BY DEF Start
<1>2. ASSUME NEW q \in Procs \ {p} PROVE s'[q] = [s[q] EXCEPT !.lapped = @ \/ s[q].pc \notin {"idle", "next"}]
  BY <1>2 DEF Start
<1>3. /\ Fields \subseteq DOMAIN new /\ new.token = t /\ new.pc = "ohlcv" /\ new.todo = <<>> /\ new.cp = <<>>
      /\ new.add = {}
  BY <1>1 DEF NewSession, Fields
<1>4. Holds(new, ever, cps)
  <2>1. DOMAIN <<>> = {} /\ <<>> \in Seq(Sources)
    BY EmptySeq
  <2>2. InOrder(new.todo) /\ DOMAIN new.cp = {}
    BY <1>3, <2>1 DEF InOrder
  <2> QED
    BY <1>3, <2>2 DEF Holds, AtSource, Traded
<1>5. ASSUME NEW q \in Procs \ {p}, s'[q].pc \notin Resting PROVE Holds(s'[q], ever, cps)
  <2>1. {"pc"} \subseteq DOMAIN s[q]
    BY DEF SyncInv, SessionsInv, Session
  <2>2. s'[q].pc = s[q].pc
    BY <1>2, <2>1
  <2>3. Holds(s[q], ever, cps)
    BY <1>5, <2>2 DEF StoredInv, SessionsHold
  <2>4. Fields \subseteq DOMAIN s[q]
    BY <2>3 DEF Holds
  <2>5. /\ Fields \subseteq DOMAIN s'[q] /\ s'[q].token = s[q].token /\ s'[q].todo = s[q].todo
        /\ s'[q].cp = s[q].cp /\ s'[q].loaded = s[q].loaded /\ s'[q].add = s[q].add
        /\ s'[q].cursor = s[q].cursor /\ s'[q].since = s[q].since
    BY <1>2, <2>4 DEF Fields
  <2>6. PICK r, r2 : r = s[q] /\ r2 = s'[q]
    OBVIOUS
  <2>7. Holds(r2, ever, cps)
    <3>1. Holds(r, ever, cps) /\ Fields \subseteq DOMAIN r2 /\ r2.pc = r.pc /\ r2.token = r.token /\ r2.todo = r.todo
          /\ r2.cp = r.cp /\ r2.loaded = r.loaded /\ r2.add = r.add /\ r2.cursor = r.cursor /\ r2.since = r.since
      BY <2>2, <2>3, <2>5, <2>6
    <3>2. Claims(r, ever, cps) => Claims(r2, ever, cps)
      BY <3>1 DEF Claims
    <3> QED
      BY <3>1, <3>2 DEF Holds, AtSource
  <2> QED
    BY <2>6, <2>7
<1>6. ASSUME NEW q \in Procs, s'[q].pc \notin Resting PROVE Holds(s'[q], ever', cps')
  <2>1. CASE q = p
    BY <1>1, <1>4, <2>1
  <2>2. CASE q # p
    BY <1>5, <1>6, <2>2
  <2> QED
    BY <2>1, <2>2
<1>7. SessionsHold'
  BY <1>6, ToSessions
<1>8. CheckpointsInv'
  BY DEF StoredInv, CheckpointsInv, Held
<1> QED
  BY <1>7, <1>8 DEF StoredInv, RowLocks

\* The checkpoint of Dune as a commit leaves it.
LEMMA WrittenRight ==
    ASSUME StoredInv, NEW p \in Procs, Holds(s[p], ever, cps)
    PROVE  /\ Written(p, s[p].token, "dune") \in Checkpoint
           /\ Written(p, s[p].token, "dune").cursor = 0 =>
                 /\ cps[s[p].token]["dune"].cursor = 0
                 /\ Held(s[p].token, Written(p, s[p].token, "dune").at, ever \cup RowLocks(s[p].add))
<1>1. PICK t, old, new : t = s[p].token /\ old = cps[t]["dune"] /\ new = Written(p, t, "dune")
  OBVIOUS
<1>2. t \in Tokens /\ old \in Checkpoint /\ (old.cursor = 0 => Held(t, old.at, ever))
  BY <1>1 DEF Holds, StoredInv, CheckpointsInv
<1>3. CASE "dune" \notin DOMAIN s[p].cp
  <2>1. new = old
    BY <1>1, <1>3 DEF Written
  <2> QED
    BY <1>1, <1>2, <2>1 DEF Held
<1>4. CASE "dune" \in DOMAIN s[p].cp
  <2>1. PICK mine, was : mine = s[p].cp["dune"] /\ was = s[p].loaded["dune"]
    OBVIOUS
  <2>2. new = [col \in DOMAIN mine |-> IF mine[col] # was[col] THEN mine[col] ELSE old[col]]
    BY <1>1, <1>4, <2>1 DEF Written
  <2>3. /\ mine \in Checkpoint /\ was \in Checkpoint
        /\ was.cursor # 0 => old.cursor # 0
        /\ mine.cursor = 0 => was.cursor = 0 /\ Held(t, mine.at, ever \cup RowLocks(Traded(s[p].add)))
    BY <1>1, <1>4, <2>1 DEF Holds, Claims
  <2>4. /\ new.at \in {mine.at, old.at} /\ new.status \in {mine.status, old.status}
        /\ new.cursor = IF mine.cursor # was.cursor THEN mine.cursor ELSE old.cursor
        /\ new = [at |-> new.at, cursor |-> new.cursor, status |-> new.status]
    BY <2>2, <2>3 DEF Checkpoint
  <2>5. new \in Checkpoint
    BY <1>2, <2>3, <2>4 DEF Checkpoint
  <2>6. ASSUME new.cursor = 0 PROVE old.cursor = 0 /\ mine.cursor = 0
    BY <2>3, <2>4, <2>6
  <2>7. RowLocks(Traded(s[p].add)) \subseteq RowLocks(s[p].add)
    BY DEF RowLocks, Traded
  <2>8. ASSUME new.cursor = 0 PROVE Held(t, new.at, ever \cup RowLocks(s[p].add))
    BY <1>2, <2>3, <2>4, <2>6, <2>7, <2>8 DEF Held
  <2> QED
    BY <1>1, <2>5, <2>6, <2>8
<1> QED
  BY <1>3, <1>4

LEMMA CommitStored ==
    ASSUME SyncInv, StoredInv, NEW p \in Procs, Commit(p) PROVE StoredInv'
<1>1. s[p].pc = "commit" /\ DOMAIN s = Procs
  BY DEF Commit, SyncInv, SessionsInv
<1>2. Holds(s[p], ever, cps)
  BY <1>1 DEF StoredInv, SessionsHold, Resting
<1>3. PICK t : t = s[p].token
  OBVIOUS
<1>4. /\ rows' = Visible(p) /\ ever' = ever \cup RowLocks(s[p].add) /\ now' = now
      /\ cps' = [cps EXCEPT ![t] = [src \in DOMAIN cps[t] |-> Written(p, t, src)]]
  BY <1>3 DEF Commit
<1>5. t \in Tokens /\ DOMAIN cps = Tokens /\ \A u \in Tokens : "dune" \in DOMAIN cps[u]
  BY <1>2, <1>3 DEF Holds, StoredInv, CheckpointsInv
<1>6. /\ DOMAIN cps' = Tokens /\ \A u \in Tokens : "dune" \in DOMAIN cps'[u]
      /\ cps'[t]["dune"] = Written(p, t, "dune") /\ \A u \in Tokens \ {t} : cps'[u] = cps[u]
  BY <1>4, <1>5
<1>7. /\ cps'[t]["dune"] \in Checkpoint
      /\ cps'[t]["dune"].cursor = 0 => cps[t]["dune"].cursor = 0 /\ Held(t, cps'[t]["dune"].at, ever')
  BY <1>2, <1>3, <1>4, <1>6, WrittenRight
<1>8. ASSUME NEW u \in Tokens
      PROVE  /\ "dune" \in DOMAIN cps'[u] /\ cps'[u]["dune"] \in Checkpoint
             /\ cps'[u]["dune"].cursor = 0 => Held(u, cps'[u]["dune"].at, ever')
  <2>1. CASE u = t
    BY <1>6, <1>7, <2>1
  <2>2. CASE u # t
    <3>1. cps[u]["dune"] \in Checkpoint /\ (cps[u]["dune"].cursor = 0 => Held(u, cps[u]["dune"].at, ever))
      BY DEF StoredInv, CheckpointsInv
    <3> QED
      BY <1>4, <1>6, <2>2, <3>1 DEF Held
  <2> QED
    BY <2>1, <2>2
<1>9. CheckpointsInv'
  BY <1>6, <1>8 DEF CheckpointsInv, Checkpoint, Held
<1>10. \A u \in Tokens : cps[u]["dune"].cursor # 0 => cps'[u]["dune"].cursor # 0
  BY <1>6, <1>7
<1>11. s'[p].pc \in Resting /\ \A q \in Procs \ {p} : s'[q] = s[q]
  <2>1. "pc" \in DOMAIN s[p]
    BY DEF SyncInv, SessionsInv, Session
  <2>2. CASE p = "admin"
    <3>1. s' = [s EXCEPT ![p] = NewSession]
      BY <2>2 DEF Commit
    <3> QED
      BY <1>1, <3>1, FreshSession DEF Resting
  <2>3. CASE p = "job"
    <3>1. s' = [s EXCEPT ![p] = [@ EXCEPT !.pc = IF s[p].signals = <<>> THEN "next" ELSE "announce",
                               !.locks = {}, !.add = {}, !.drop = {}, !.candles = {}, !.stats = <<>>,
                               !.smart = {}, !.cp = <<>>, !.loaded = <<>>, !.stat = None, !.wallet = None]]
      BY <2>3 DEF Commit
    <3> QED
      BY <1>1, <2>1, <3>1 DEF Resting
  <2> QED
    BY <2>2, <2>3 DEF Procs
<1>12. ASSUME NEW q \in Procs, s'[q].pc \notin Resting PROVE Holds(s'[q], ever', cps')
  <2>1. q # p /\ s'[q] = s[q]
    BY <1>11, <1>12
  <2>2. Holds(s[q], ever, cps)
    BY <1>12, <2>1 DEF StoredInv, SessionsHold
  <2>3. PICK r : r = s[q]
    OBVIOUS
  <2>4. ever \subseteq ever' /\ (cps[r.token]["dune"].cursor # 0 => cps'[r.token]["dune"].cursor # 0)
    BY <1>4, <1>10, <2>2, <2>3 DEF Holds
  <2>5. /\ Fields \subseteq DOMAIN r /\ InOrder(r.todo)
        /\ ~ Range(r.todo) \subseteq {"dexscreener"} => Traded(r.add) = r.add
        /\ "dune" \in DOMAIN r.cp => "dune" \in DOMAIN r.loaded /\ r.cp["dune"] \in Checkpoint
        /\ AtSource(r) => r.todo # <<>>
        /\ AtSource(r) /\ Head(r.todo) = "dune" =>
              "dune" \in DOMAIN r.cp /\ r.cursor = r.cp["dune"].cursor /\ r.since = r.loaded["dune"].at
    BY <2>2, <2>3 DEF Holds, Claims
  <2>6. Holds(r, ever', cps')
    BY <2>2, <2>3, <2>4, <2>5, HoldsStay
  <2> QED
    BY <2>1, <2>3, <2>6
<1>13. SessionsHold'
  BY <1>12, ToSessions
<1>14. RowLocks(rows') \subseteq ever'
  BY <1>4 DEF RowLocks, Visible, StoredInv
<1> QED
  BY <1>4, <1>9, <1>13, <1>14 DEF StoredInv, RowLocks

LEMMA StoredAtFirst == OnchainInit => StoredInv
<1> SUFFICES ASSUME OnchainInit PROVE StoredInv
  OBVIOUS
<1>1. now = 0 /\ rows = {} /\ ever = {} /\ cps = [t \in Tokens |-> [src \in Sources \cup {"liquidity"} |-> NoCheckpoint]]
      /\ \A p \in Procs : s[p] = NewSession
  BY DEF OnchainInit
<1>2. /\ NoCheckpoint \in Checkpoint /\ NoCheckpoint.at = 0
      /\ \A t \in Tokens : "dune" \in DOMAIN cps[t] /\ cps[t]["dune"] = NoCheckpoint
  BY <1>1 DEF NoCheckpoint, Checkpoint, Sources
<1>3. \A t \in Tokens : Held(t, 0, ever)
  BY MarketAssumption DEF Held
<1>4. CheckpointsInv
  BY <1>1, <1>2, <1>3 DEF CheckpointsInv
<1>5. SessionsHold
  BY <1>1, FreshSession DEF SessionsHold, Resting
<1> QED
  BY <1>1, <1>4, <1>5 DEF StoredInv, RowLocks

LEMMA SyncStored ==
    ASSUME SyncInv, StoredInv, NEW p \in Procs, SyncStep(p) PROVE StoredInv'
<1>1. CASE Refused(p) \/ CommitClashes(p) \/ Deadlock(p)
  BY <1>1, FailedStored DEF Refused, CommitClashes, Deadlock
<1> QED
  BY <1>1, OhlcvStored, LoadStored, ClearStored, PullStored, LiquidityStored, ScoringStored, CommitStored DEF SyncStep

LEMMA JobStored ==
    ASSUME SyncInv, StoredInv, RunJob \/ NextToken \/ Announce \/ Alert \/ AlertFails PROVE StoredInv'
<1>1. /\ DOMAIN s = Procs /\ "job" \in Procs /\ UNCHANGED <<now, rows, cps, ever>>
      /\ s["job"].queue \in Seq(Tokens) /\ "pc" \in DOMAIN s["job"]
  BY DEF SyncInv, SessionsInv, Session, Procs, RunJob, NextToken, Announce, Alert, AlertFails, tables, ghosts
<1> DEFINE Rests == (\A q \in Procs \ {"job"} : s'[q] = s[q]) /\ s'["job"].pc \in Resting
<1>2. CASE RunJob
  <2>1. PICK new : new = [NewSession EXCEPT !.pc = "next", !.queue = Tracked]
    OBVIOUS
  <2>2. s' = [s EXCEPT !["job"] = new]
    BY <1>2, <2>1 DEF RunJob
  <2>3. new.pc = "next"
    BY <2>1 DEF NewSession
  <2>4. Rests
    BY <1>1, <2>2, <2>3 DEF Resting
  <2> QED
    BY <1>1, <2>4, RestStored
<1>3. CASE NextToken /\ s["job"].queue = <<>>
  <2>1. s' = [s EXCEPT !["job"] = NewSession]
    BY <1>3 DEF NextToken
  <2>2. Rests
    BY <1>1, <2>1, FreshSession DEF Resting
  <2> QED
    BY <1>1, <2>2, RestStored
<1>4. CASE NextToken /\ s["job"].queue # <<>>
  <2>1. Start("job", Head(s["job"].queue), Tail(s["job"].queue), 4)
    BY <1>4 DEF NextToken
  <2>2. Head(s["job"].queue) \in Tokens
    BY <1>1, <1>4, QueueRange
  <2> QED
    BY <1>1, <2>1, <2>2, StartStored
<1>5. CASE Announce
  <2>1. s' = [s EXCEPT !["job"].pc = "alert", !["job"].alerts = FirstN(SelectSeq(s["job"].signals, Alerting), 5)]
    BY <1>5 DEF Announce
  <2>2. Rests
    BY <1>1, <2>1 DEF Resting
  <2> QED
    BY <1>1, <2>2, RestStored
<1>6. CASE Alert /\ s["job"].alerts = <<>>
  <2>1. s' = [s EXCEPT !["job"].pc = "next"]
    BY <1>6 DEF Alert
  <2>2. Rests
    BY <1>1, <2>1 DEF Resting
  <2> QED
    BY <1>1, <2>2, RestStored
<1>7. CASE Alert /\ s["job"].alerts # <<>>
  <2>1. s' = [s EXCEPT !["job"].alerts = Tail(@)] /\ s["job"].pc = "alert"
    BY <1>7 DEF Alert
  <2>2. Rests
    BY <1>1, <2>1 DEF Resting
  <2> QED
    BY <1>1, <2>2, RestStored
<1>8. CASE AlertFails
  <2>1. s' = [s EXCEPT !["job"].pc = "next", !["job"].broken = TRUE]
    BY <1>8 DEF AlertFails
  <2>2. Rests
    BY <1>1, <2>1 DEF Resting
  <2> QED
    BY <1>1, <2>2, RestStored
<1> QED
  BY <1>2, <1>3, <1>4, <1>5, <1>6, <1>7, <1>8

LEMMA OthersStored ==
    ASSUME SyncInv, StoredInv, Tick \/ Restart \/ UNCHANGED vars PROVE StoredInv'
<1>1. UNCHANGED <<rows, cps, ever>>
  BY DEF Tick, Restart, vars, tables, ghosts
<1>2. now' \in Nat
  <2>1. CASE Tick
    <3>1. PICK later : later = {t \in Instants : t > now}
      OBVIOUS
    <3>2. later \in SUBSET Nat
      <4>1. 0 .. (7 * Day) \subseteq Nat
        BY DEF Day, Hour
      <4> QED
        BY <3>1, <4>1, MarketAssumption
    <3>3. later # {} /\ now' = Min(later)
      BY <2>1, <3>1 DEF Tick
    <3>4. Min(later) \in later
      BY <3>2, <3>3, MinIsIn
    <3> QED
      BY <3>2, <3>3, <3>4
  <2>2. CASE Restart \/ UNCHANGED vars
    BY <2>2 DEF Restart, vars, StoredInv
  <2> QED
    BY <2>1, <2>2
<1>3. SessionsHold'
  <2>1. CASE Tick \/ UNCHANGED vars
    <3>1. UNCHANGED s
      BY <2>1 DEF Tick, vars
    <3>2. \A q \in Procs : s'[q].pc \notin Resting => Holds(s'[q], ever', cps')
      BY <1>1, <3>1 DEF StoredInv, SessionsHold
    <3> QED
      BY <3>2, ToSessions
  <2>2. CASE Restart
    <3>1. PICK again : again = [NewSession EXCEPT !.pc = "next", !.queue = Tracked]
      OBVIOUS
    <3>2. \A p \in Procs : s'[p] \in {again, NewSession}
      BY <2>2, <3>1 DEF Restart
    <3>3. again.pc = "next" /\ NewSession.pc = "idle"
      BY <3>1 DEF NewSession
    <3>4. \A q \in Procs : s'[q].pc \notin Resting => Holds(s'[q], ever', cps')
      BY <3>2, <3>3 DEF Resting
    <3> QED
      BY <3>4, ToSessions
  <2> QED
    BY <2>1, <2>2
<1>4. CheckpointsInv'
  BY <1>1 DEF StoredInv, CheckpointsInv, Held
<1> QED
  BY <1>1, <1>2, <1>3, <1>4 DEF StoredInv, RowLocks

LEMMA StoredStep ==
    ASSUME SyncInv, StoredInv, [OnchainNext]_vars PROVE StoredInv'
<1>1. ASSUME NEW t \in Tokens, NEW hours \in {1, 4}, RequestSync(t, hours) PROVE StoredInv'
  <2>1. Start("admin", t, <<>>, hours) /\ UNCHANGED <<now, rows, cps, ever>> /\ "admin" \in Procs
    BY <1>1 DEF RequestSync, tables, ghosts, Procs
  <2> QED
    BY <2>1, StartStored
<1>2. ASSUME NEW p \in Procs, Fault(p) PROVE StoredInv'
  BY <1>2, FailedStored DEF Fault
<1>3. ASSUME NEW p \in Procs, PullFails(p) PROVE StoredInv'
  <2>1. /\ s[p].pc = "pull" /\ UNCHANGED <<now, rows, cps, ever>>
        /\ \E status \in {"idle", "error"} : SourceDone(p, status)
    BY <1>3 DEF PullFails, tables, ghosts
  <2> QED
    BY <2>1, DoneStored
<1>4. "job" \in Procs /\ "admin" \in Procs
  BY DEF Procs
<1> QED
  BY <1>1, <1>2, <1>3, <1>4, SyncStored, JobStored, OthersStored DEF OnchainNext, JobStep

\* As long as Dune's pages are not full, every trade older than the committed
\* checkpoint has been stored, whatever failed or overlapped since.
THEOREM TradesStayStored == OnchainSpec => []EveryTradeWasStored
<1>1. StoredInv => EveryTradeWasStored
  BY DEF StoredInv, CheckpointsInv, Held, EveryTradeWasStored
<1> QED
  BY <1>1, OnchainInitInv, StoredAtFirst, SyncKept, StoredStep, PTL DEF OnchainSpec

(**************************** What is announced ****************************)
(* A session that nothing overlapped is the only one: the rows that it sees  *)
(* are those its commit makes visible, and of each wallet of its token it    *)
(* has the figures of these rows when it analyses them.                      *)

Open(r) == r.pc \notin {"idle", "next"}
FieldsInv == DOMAIN s = Procs /\ \A p \in Procs : DOMAIN s[p] = DOMAIN NewSession /\ s[p].lapped \in BOOLEAN

\* A session that nothing has overlapped is the only one.
AloneInv == \A p \in Procs : Open(s[p]) /\ ~s[p].lapped => \A q \in Procs \ {p} : ~Open(s[q])

\* Every wallet with a row has a place in the statistics.
PeopleInv ==
    /\ DOMAIN stats = People /\ DOMAIN candles = Tokens /\ DOMAIN liq = Tokens
    /\ DOMAIN smart = Tokens /\ DOMAIN metrics = Tokens
    /\ \A r \in rows : r.wallet \in People
    /\ \A p \in Procs : \A r \in s[p].add : r.wallet \in People

\* The rows that session r sees of a table.
Seen(r, table) == (table \ r.drop) \cup r.add

\* Of the wallets of the token each has been scored from the rows the session
\* sees, or is still to be.
Scored(r, seen_) ==
    /\ \A w \in DOMAIN r.stats : r.stats[w] = WalletStat({x \in seen_ : x.wallet = w})
    /\ r.pc = "upsert" => r.stat = WalletStat({x \in seen_ : x.wallet = r.wallet})
    /\ r.pc \in {"analyse", "commit"} => r.toScore = {}
    /\ \A x \in OfToken(seen_, r.token) :
          \/ x.wallet \in DOMAIN r.stats \/ x.wallet \in r.toScore
          \/ r.pc = "upsert" /\ x.wallet = r.wallet

Analysed(r, seen_, old, events) ==
    /\ r.metric = Metric(OfToken(seen_, r.token), old \cup r.candles, 0, r.start)
    /\ r.signals = Signals(OfToken(seen_, r.token), {x[1] : x \in r.smart}, events, 0, r.start)

Early == {"ohlcv", "load", "clear", "pull", "liquidity"}
Late == {"score", "upsert", "analyse", "commit"}

TellsSo(r) ==
    /\ r.pc \in Early => DOMAIN r.stats = {}
    /\ r.pc \in Late => Scored(r, Seen(r, rows))
    /\ r.pc = "commit" => Analysed(r, Seen(r, rows), candles[r.token], liq[r.token])

TellInv ==
    /\ FieldsInv /\ AloneInv /\ PeopleInv
    /\ Open(s["job"]) /\ ~s["job"].lapped => TellsSo(s["job"]) /\ ToldFromTheTables

LEMMA SessionFields ==
    /\ DOMAIN NewSession = {"pc", "token", "queue", "start", "hours", "todo", "page", "since", "cursor", "loaded",
                            "cp", "add", "drop", "candles", "liq", "toScore", "wallet", "stat", "stats", "smart",
                            "metric", "signals", "alerts", "locks", "broken", "lapped"}
    /\ NewSession.pc = "idle" /\ NewSession.add = {} /\ NewSession.stats = <<>> /\ NewSession.lapped \in BOOLEAN
BY DEF NewSession

\* A step of session p that commits nothing.
LEMMA TellByOne ==
    ASSUME TellInv, NEW p \in Procs, UNCHANGED <<rows, stats, smart, metrics, candles, liq>>,
           DOMAIN s' = Procs, \A q \in Procs \ {p} : s'[q] = s[q],
           DOMAIN s'[p] = DOMAIN NewSession, s'[p].lapped \in BOOLEAN,
           \A r \in s'[p].add : r.wallet \in People,
           Open(s'[p]) => Open(s[p]) /\ s'[p].lapped = s[p].lapped,
           p = "job" /\ Open(s'[p]) /\ ~s'[p].lapped => TellsSo(s'[p]) /\ s'[p].pc # "announce"
    PROVE  TellInv'
<1>1. FieldsInv'
  BY DEF TellInv, FieldsInv, NewSession
<1>2. AloneInv'
  <2>1. ASSUME NEW a \in Procs, Open(s'[a]), ~s'[a].lapped, NEW b \in Procs \ {a} PROVE ~Open(s'[b])
    <3>1. Open(s[a]) /\ ~s[a].lapped
      BY <2>1
    <3>2. ~Open(s[b])
      BY <2>1, <3>1 DEF TellInv, AloneInv
    <3> QED
      BY <2>1, <3>2
  <2> QED
    BY <2>1 DEF AloneInv, Open
<1>3. PeopleInv'
  <2>1. \A q \in Procs : \A r \in s'[q].add : r.wallet \in People
    BY DEF TellInv, PeopleInv
  <2> QED
    BY <2>1 DEF TellInv, PeopleInv, People
<1>4. ASSUME Open(s'["job"]), ~s'["job"].lapped PROVE TellsSo(s'["job"]) /\ ToldFromTheTables'
  <2>1. CASE p = "job"
    BY <1>4, <2>1 DEF ToldFromTheTables
  <2>2. CASE p # "job"
    <3>1. s'["job"] = s["job"]
      BY <2>2 DEF Procs
    <3> QED
      BY <1>4, <3>1 DEF TellInv, ToldFromTheTables
  <2> QED
    BY <2>1, <2>2
<1>5. TellsSo(s'["job"]) => TellsSo(s["job"])'
  BY DEF TellsSo
<1> QED
  BY <1>1, <1>2, <1>3, <1>4, <1>5 DEF TellInv, Open

LEMMA PageWallets ==
    ASSUME NEW p \in Procs, Source(p) \in Sources PROVE \A r \in PageOf(p) : r.wallet \in People
<1>1. \A t, n, k, since : Slice(Since(Shown(t), since), k, n) \subseteq Market /\ Slice(Shown(t), k, n) \subseteq Market
  BY DEF Slice, Since, Shown
<1>2. \A t, n, k, since : Since(Slice(Shown(t), k, n), since) \subseteq Market
  BY <1>1 DEF Since
<1>3. CASE Source(p) \in {"gecko", "dune"}
  <2>1. ASSUME NEW r \in PageOf(p) PROVE \E m \in Market : r.wallet = m.wallet
    BY <1>1, <1>2, <1>3, <2>1 DEF PageOf
  <2> QED
    BY <2>1 DEF People
<1>4. CASE Source(p) = "dexscreener"
  BY <1>4 DEF PageOf, People
<1> QED
  BY <1>3, <1>4 DEF Sources

\* Before the wallets are scored.
LEMMA TellEarly ==
    ASSUME TellInv, NEW p \in Procs, UNCHANGED <<rows, stats, smart, metrics, candles, liq>>,
           DOMAIN s' = Procs, \A q \in Procs \ {p} : s'[q] = s[q], s[p].pc \in Early,
           DOMAIN s'[p] = DOMAIN s[p], s'[p].lapped = s[p].lapped, s'[p].stats = s[p].stats, s'[p].pc \in Early,
           \A r \in s'[p].add : r.wallet \in People
    PROVE  TellInv'
<1>1. DOMAIN s[p] = DOMAIN NewSession /\ s[p].lapped \in BOOLEAN /\ Open(s[p])
  BY DEF TellInv, FieldsInv, Open, Early
<1>2. s'[p].pc \notin Late /\ s'[p].pc # "commit" /\ s'[p].pc # "announce"
  BY DEF Early, Late
<1>3. p = "job" /\ ~s'[p].lapped => TellsSo(s'[p])
  BY <1>1, <1>2 DEF TellInv, TellsSo
<1> QED
  BY <1>1, <1>2, <1>3, TellByOne

LEMMA ToldEarly ==
    ASSUME SyncInv, StoredInv, TellInv, NEW p \in Procs,
           Ohlcv(p) \/ Load(p) \/ Clear(p) \/ Pull(p) \/ PullFails(p)
    PROVE  TellInv'
<1>1. /\ DOMAIN s = Procs /\ DOMAIN s[p] = DOMAIN NewSession /\ \A r \in s[p].add : r.wallet \in People
      /\ UNCHANGED <<rows, stats, smart, metrics, candles, liq>>
  BY DEF TellInv, FieldsInv, PeopleInv, Ohlcv, Load, Clear, Pull, PullFails, tables
<1>2. {"pc", "lapped", "stats", "add", "drop", "todo", "candles", "locks", "cp", "loaded", "since", "cursor", "page"} \subseteq DOMAIN s[p]
  BY <1>1, SessionFields
<1> DEFINE Within_ == /\ DOMAIN s' = Procs /\ \A q \in Procs \ {p} : s'[q] = s[q]
                      /\ s[p].pc \in Early /\ DOMAIN s'[p] = DOMAIN s[p] /\ s'[p].lapped = s[p].lapped
                      /\ s'[p].stats = s[p].stats /\ s'[p].pc \in Early
<1>3. CASE Ohlcv(p)
  <2> DEFINE t == s[p].token
             new(up) == {c \in IF HasPool(t) /\ up THEN Candles(t, s[p].hours) ELSE {} :
                            Slot(c) \notin {Slot(d) : d \in candles[t]}}
             keys(up) == {<<"candle", t, Slot(c)>> : c \in new(up)}
             todo(up) == Collectors(candles[t] \cup new(up) = {})
  <2>1. PICK up \in BOOLEAN : s' = [s EXCEPT ![p].pc = "load", ![p].candles = new(up), ![p].locks = keys(up),
                                             ![p].todo = todo(up)]
    BY <1>3 DEF Ohlcv
  <2>2. s[p].pc = "ohlcv"
    BY <1>3 DEF Ohlcv
  <2> HIDE DEF t, new, keys, todo
  <2>3. Within_ /\ s'[p].add = s[p].add
    BY <1>1, <1>2, <2>1, <2>2 DEF Early
  <2> QED
    BY <1>1, <2>3, TellEarly
<1>4. CASE Load(p)
  <2>1. Within_ /\ s'[p].add = s[p].add
    <3>1. CASE s[p].todo = <<>>
      BY <1>1, <1>2, <1>4, <3>1 DEF Load, Early
    <3>2. CASE s[p].todo # <<>>
      <4>3. PICK src, cp, run : src = Source(p) /\ cp = cps[s[p].token][src] /\ run = [cp EXCEPT !.status = "running"]
        OBVIOUS
      <4>1. s' = [s EXCEPT ![p].pc = "clear", ![p].since = cp.at, ![p].cursor = cp.cursor,
                           ![p].loaded = Set(@, src, cp), ![p].page = 1, ![p].cp = Set(@, src, run)]
        BY <1>4, <3>2, <4>3 DEF Load
      <4>2. s[p].pc = "load"
        BY <1>4 DEF Load
      <4> QED
        BY <1>1, <1>2, <4>1, <4>2 DEF Early
    <3> QED
      BY <3>1, <3>2
  <2> QED
    BY <1>1, <2>1, TellEarly
<1>5. CASE Clear(p)
  <2>1. PICK old, locks : s' = [s EXCEPT ![p].pc = "pull", ![p].locks = locks, ![p].drop = @ \cup old, ![p].add = @ \ old]
    BY <1>5 DEF Clear
  <2>2. s[p].pc = "clear"
    BY <1>5 DEF Clear
  <2>3. Within_ /\ s'[p].add \subseteq s[p].add
    BY <1>1, <1>2, <2>1, <2>2 DEF Early
  <2> QED
    BY <1>1, <2>3, TellEarly
<1>6. ASSUME s[p].pc = "pull", NEW status, SourceDone(p, status) PROVE TellInv'
  <2>1. Within_ /\ s'[p].add = s[p].add
    BY <1>1, <1>2, <1>6 DEF SourceDone, Early
  <2> QED
    BY <1>1, <2>1, TellEarly
<1>7. CASE PullFails(p)
  BY <1>6, <1>7 DEF PullFails
<1>8. CASE Pull(p)
  <2>1. s[p].pc = "pull"
    BY <1>8 DEF Pull
  <2>2. CASE PageOf(p) = {}
    BY <1>6, <1>8, <2>1, <2>2 DEF Pull
  <2>3. CASE PageOf(p) # {}
    <3>1. Holds(s[p], ever, cps)
      BY <2>1 DEF StoredInv, SessionsHold, Resting
    <3>2. Source(p) \in Sources
      BY <2>1, <3>1, SourceOrder DEF Holds, AtSource, Source
    <3>3. PICK new, locks, src, cp, next, last :
             /\ s' = [s EXCEPT ![p].add = @ \cup new, ![p].locks = @ \cup locks,
                               ![p].cp[src] = cp, ![p].cursor = next, ![p].page = @ + 1,
                               ![p].pc = IF last THEN "load" ELSE "pull",
                               ![p].todo = IF last THEN Tail(@) ELSE @]
             /\ new \subseteq PageOf(p)
      <4> DEFINE new == {r \in PageOf(p) : RowLocks({r}) \cap RowLocks(Visible(p)) = {}}
                 locks == IF new = {} THEN {} ELSE RowLocks(new) \cup {CpLock(p)}
                 next == IF Source(p) = "dune" /\ Cardinality(PageOf(p)) >= DunePage
                         THEN s[p].cursor + Cardinality(PageOf(p)) ELSE 0
                 cp == [s[p].cp[Source(p)] EXCEPT !.at = Max({r.at : r \in PageOf(p)}), !.status = "idle",
                                                  !.cursor = IF next = 0 THEN @ ELSE next]
                 last == next = 0 \/ s[p].page = MaxPages
      <4>1. s' = [s EXCEPT ![p].add = @ \cup new, ![p].locks = @ \cup locks,
                           ![p].cp[Source(p)] = cp, ![p].cursor = next, ![p].page = @ + 1,
                           ![p].pc = IF last THEN "load" ELSE "pull",
                           ![p].todo = IF last THEN Tail(@) ELSE @]
        BY <1>8, <2>3 DEF Pull
      <4>2. new \subseteq PageOf(p)
        OBVIOUS
      <4> HIDE DEF new, locks, next, cp, last
      <4> QED
        BY <4>1, <4>2
    <3>4. Within_ /\ s'[p].add = s[p].add \cup new
      BY <1>1, <1>2, <2>1, <3>3 DEF Early
    <3>5. \A r \in s'[p].add : r.wallet \in People
      BY <1>1, <3>2, <3>3, <3>4, PageWallets
    <3> QED
      BY <1>1, <3>4, <3>5, TellEarly
  <2> QED
    BY <2>2, <2>3
<1> QED
  BY <1>3, <1>4, <1>5, <1>7, <1>8

\* From the first wallet on the session's rows stay as they are.
LEMMA TellLate ==
    ASSUME TellInv, NEW p \in Procs, UNCHANGED <<rows, stats, smart, metrics, candles, liq>>,
           DOMAIN s' = Procs, \A q \in Procs \ {p} : s'[q] = s[q], Open(s[p]), s'[p].pc \in Late,
           DOMAIN s'[p] = DOMAIN s[p], s'[p].lapped = s[p].lapped, s'[p].token = s[p].token,
           s'[p].add = s[p].add, s'[p].drop = s[p].drop,
           p = "job" /\ ~s[p].lapped => Scored(s'[p], Visible(p)),
           s'[p].pc = "commit" => Analysed(s'[p], Visible(p), candles[s[p].token], liq[s[p].token])
    PROVE  TellInv'
<1>1. DOMAIN s[p] = DOMAIN NewSession /\ s[p].lapped \in BOOLEAN /\ \A r \in s'[p].add : r.wallet \in People
  BY DEF TellInv, FieldsInv, PeopleInv
<1>2. Seen(s'[p], rows) = Visible(p)
  BY DEF Seen, Visible
<1>3. s'[p].pc \notin Early /\ s'[p].pc # "announce"
  BY DEF Early, Late
<1>4. p = "job" /\ ~s'[p].lapped => TellsSo(s'[p])
  BY <1>2, <1>3 DEF TellsSo
<1> QED
  BY <1>1, <1>3, <1>4, TellByOne

LEMMA ToldLate ==
    ASSUME TellInv, NEW p \in Procs, Liquidity(p) \/ ScoreRead(p) \/ ScoreWrite(p) \/ Analyse(p)
    PROVE  TellInv'
<1>1. /\ DOMAIN s = Procs /\ DOMAIN s[p] = DOMAIN NewSession
      /\ UNCHANGED <<rows, stats, smart, metrics, candles, liq>> /\ Open(s[p])
      /\ s[p].pc \in {"liquidity", "score", "upsert", "analyse"}
  BY DEF TellInv, FieldsInv, Liquidity, ScoreRead, ScoreWrite, Analyse, tables, Open
<1>2. {"pc", "lapped", "stats", "stat", "add", "drop", "token", "toScore", "wallet", "locks", "loaded", "cp", "liq",
       "smart", "metric", "signals", "start", "candles"} \subseteq DOMAIN s[p]
  BY <1>1, SessionFields
<1>3. ASSUME p = "job", ~s[p].lapped
      PROVE  /\ s[p].pc = "liquidity" => DOMAIN s[p].stats = {}
             /\ s[p].pc # "liquidity" => Scored(s[p], Visible(p))
  <2>1. TellsSo(s[p]) /\ Seen(s[p], rows) = Visible(p)
    BY <1>1, <1>3 DEF TellInv, Seen, Visible
  <2> QED
    BY <1>1, <2>1 DEF TellsSo, Early, Late
<1> DEFINE Within_ == /\ DOMAIN s' = Procs /\ \A q \in Procs \ {p} : s'[q] = s[q]
                      /\ s'[p].pc \in Late
                      /\ DOMAIN s'[p] = DOMAIN s[p] /\ s'[p].lapped = s[p].lapped /\ s'[p].token = s[p].token
                      /\ s'[p].add = s[p].add /\ s'[p].drop = s[p].drop
<1>4. CASE Liquidity(p)
  <2>1. PICK new, loaded, mine :
           s' = [s EXCEPT ![p].pc = "score", ![p].liq = new, ![p].loaded = loaded, ![p].cp = mine,
                          ![p].toScore = Wallets(OfToken(Visible(p), s[p].token))]
    <3> DEFINE t == s[p].token
               c == cps[t]["liquidity"]
               events == IF HasPool(t) \/ ~dune THEN {} ELSE Since({e \in LiquidityOf : e.at <= now}, c.at)
               v == [at |-> Max({e.at : e \in events}), cursor |-> 0, status |-> "idle"]
               mine == IF events = {} THEN s[p].cp ELSE Set(s[p].cp, "liquidity", v)
               new == {e \in events : EventKey(e) \notin EventKeys(liq[t])}
               loaded == Set(s[p].loaded, "liquidity", c)
    <3>1. s' = [s EXCEPT ![p].pc = "score", ![p].liq = new, ![p].loaded = loaded,
                         ![p].cp = mine, ![p].toScore = Wallets(OfToken(Visible(p), s[p].token))]
      BY <1>4 DEF Liquidity
    <3> HIDE DEF t, c, events, v, mine, new, loaded
    <3> QED
      BY <3>1
  <2>2. PICK left : left = Wallets(OfToken(Visible(p), s[p].token))
    OBVIOUS
  <2>3. /\ Within_ /\ s'[p].pc = "score" /\ s'[p].toScore = left /\ s'[p].stats = s[p].stats
    <3>1. s' = [s EXCEPT ![p].pc = "score", ![p].liq = new, ![p].loaded = loaded, ![p].cp = mine, ![p].toScore = left]
      BY <2>1, <2>2
    <3> QED
      BY <1>1, <1>2, <3>1 DEF Late
  <2>4. s[p].pc = "liquidity"
    BY <1>4 DEF Liquidity
  <2>5. ASSUME p = "job", ~s[p].lapped PROVE Scored(s'[p], Visible(p))
    <3>1. DOMAIN s'[p].stats = {}
      BY <1>3, <2>3, <2>4, <2>5
    <3>2. \A x \in OfToken(Visible(p), s[p].token) : x.wallet \in s'[p].toScore
      BY <2>2, <2>3 DEF Wallets
    <3> QED
      BY <2>3, <3>1, <3>2 DEF Scored
  <2> QED
    BY <1>1, <2>3, <2>5, TellLate
<1>5. CASE ScoreRead(p) /\ s[p].toScore = {}
  <2>1. s' = [s EXCEPT ![p].pc = "analyse"] /\ s[p].pc = "score"
    BY <1>5 DEF ScoreRead
  <2>2. /\ Within_ /\ s'[p].pc = "analyse" /\ s'[p].toScore = {} /\ s'[p].stats = s[p].stats
    BY <1>1, <1>2, <1>5, <2>1 DEF Late
  <2>3. ASSUME p = "job", ~s[p].lapped PROVE Scored(s'[p], Visible(p))
    <3>1. Scored(s[p], Visible(p))
      BY <1>3, <2>1, <2>3
    <3> QED
      BY <1>5, <2>1, <2>2, <3>1 DEF Scored
  <2> QED
    BY <1>1, <2>2, <2>3, TellLate
<1>6. CASE ScoreRead(p) /\ s[p].toScore # {}
  <2>1. PICK w \in s[p].toScore :
          s' = IF RowsOf(p, w) = {} THEN [s EXCEPT ![p].toScore = @ \ {w}]
               ELSE [s EXCEPT ![p].pc = "upsert", ![p].wallet = w, ![p].toScore = @ \ {w},
                              ![p].stat = WalletStat(RowsOf(p, w))]
    BY <1>6 DEF ScoreRead
  <2>2. s[p].pc = "score"
    BY <1>6 DEF ScoreRead
  <2>3. CASE RowsOf(p, w) = {}
    <3>1. /\ Within_ /\ s'[p].pc = "score" /\ s'[p].toScore = s[p].toScore \ {w} /\ s'[p].stats = s[p].stats
      BY <1>1, <1>2, <2>1, <2>2, <2>3 DEF Late
    <3>2. ASSUME p = "job", ~s[p].lapped PROVE Scored(s'[p], Visible(p))
      <4>1. Scored(s[p], Visible(p))
        BY <1>3, <2>2, <3>2
      <4>2. \A x \in Visible(p) : x.wallet # w
        BY <2>3 DEF RowsOf
      <4> QED
        BY <2>2, <3>1, <4>1, <4>2 DEF Scored, OfToken
    <3> QED
      BY <1>1, <3>1, <3>2, TellLate
  <2>4. CASE RowsOf(p, w) # {}
    <3>1. PICK stat : stat = WalletStat(RowsOf(p, w))
      OBVIOUS
    <3>2. s' = [s EXCEPT ![p].pc = "upsert", ![p].wallet = w, ![p].toScore = @ \ {w}, ![p].stat = stat]
      BY <2>1, <2>4, <3>1
    <3>3. /\ Within_ /\ s'[p].pc = "upsert" /\ s'[p].toScore = s[p].toScore \ {w} /\ s'[p].stats = s[p].stats
          /\ s'[p].wallet = w /\ s'[p].stat = stat
      BY <1>1, <1>2, <3>2 DEF Late
    <3>4. ASSUME p = "job", ~s[p].lapped PROVE Scored(s'[p], Visible(p))
      <4>1. Scored(s[p], Visible(p))
        BY <1>3, <2>2, <3>4
      <4>2. stat = WalletStat({x \in Visible(p) : x.wallet = w})
        BY <3>1 DEF RowsOf
      <4> QED
        BY <2>2, <3>3, <4>1, <4>2 DEF Scored
    <3> QED
      BY <1>1, <3>3, <3>4, TellLate
  <2> QED
    BY <2>3, <2>4
<1>7. CASE ScoreWrite(p)
  <2>1. PICK new, locks : /\ new = Set(s[p].stats, s[p].wallet, s[p].stat)
                          /\ s' = [s EXCEPT ![p].pc = "score", ![p].locks = locks, ![p].stats = new]
    BY <1>7 DEF ScoreWrite
  <2>2. s[p].pc = "upsert"
    BY <1>7 DEF ScoreWrite
  <2>3. /\ Within_ /\ s'[p].pc = "score" /\ s'[p].toScore = s[p].toScore /\ s'[p].stats = new
    BY <1>1, <1>2, <2>1 DEF Late
  <2>4. /\ DOMAIN new = DOMAIN s[p].stats \cup {s[p].wallet} /\ new[s[p].wallet] = s[p].stat
        /\ \A w \in DOMAIN s[p].stats \ {s[p].wallet} : new[w] = s[p].stats[w]
    BY <2>1 DEF Set
  <2>5. ASSUME p = "job", ~s[p].lapped PROVE Scored(s'[p], Visible(p))
    <3>1. Scored(s[p], Visible(p))
      BY <1>3, <2>2, <2>5
    <3>2. \A w \in DOMAIN new : new[w] = WalletStat({x \in Visible(p) : x.wallet = w})
      BY <2>2, <2>4, <3>1 DEF Scored
    <3> QED
      BY <2>2, <2>3, <2>4, <3>1, <3>2 DEF Scored
  <2> QED
    BY <1>1, <2>3, <2>5, TellLate
<1>8. CASE Analyse(p)
  <2> DEFINE t == s[p].token
             mine == OfToken(Visible(p), t)
             registered == Registered(smart[t], Merge(stats, s[p].stats))
             metric == Metric(mine, candles[t] \cup s[p].candles, 0, s[p].start)
             signals == Signals(mine, {r[1] : r \in registered}, liq[t], 0, s[p].start)
  <2>1. PICK reg, met, sig : reg = registered /\ met = metric /\ sig = signals
    OBVIOUS
  <2>2. s' = [s EXCEPT ![p].pc = "commit", ![p].smart = reg, ![p].metric = met, ![p].signals = sig] /\ s[p].pc = "analyse"
    BY <1>8, <2>1 DEF Analyse
  <2>3. /\ Within_ /\ s'[p].pc = "commit" /\ s'[p].toScore = s[p].toScore /\ s'[p].stats = s[p].stats
        /\ s'[p].smart = reg /\ s'[p].metric = met /\ s'[p].signals = sig
        /\ s'[p].candles = s[p].candles /\ s'[p].start = s[p].start
    BY <1>1, <1>2, <2>2 DEF Late
  <2>4. ASSUME p = "job", ~s[p].lapped PROVE Scored(s'[p], Visible(p))
    <3>1. Scored(s[p], Visible(p))
      BY <1>3, <2>2, <2>4
    <3> QED
      BY <2>2, <2>3, <3>1 DEF Scored
  <2>5. Analysed(s'[p], Visible(p), candles[s[p].token], liq[s[p].token])
    BY <2>1, <2>3 DEF Analysed
  <2> QED
    BY <1>1, <2>3, <2>4, <2>5, TellLate
<1> QED
  BY <1>4, <1>5, <1>6, <1>7, <1>8

LEMMA FailedTold ==
    ASSUME TellInv, NEW p \in Procs, Failed(p) PROVE TellInv'
<1>1. PICK new : new = [NewSession EXCEPT !.pc = IF p = "job" THEN "next" ELSE "idle", !.queue = s[p].queue]
  OBVIOUS
<1>2. s' = [s EXCEPT ![p] = new] /\ UNCHANGED <<rows, stats, smart, metrics, candles, liq>>
  BY <1>1 DEF Failed, tables
<1>3. new.pc \in {"next", "idle"} /\ DOMAIN new = DOMAIN NewSession /\ new.lapped \in BOOLEAN /\ new.add = {}
  BY <1>1 DEF NewSession
<1>4. DOMAIN s = Procs
  BY DEF TellInv, FieldsInv
<1>5. s'[p] = new /\ DOMAIN s' = Procs /\ \A q \in Procs \ {p} : s'[q] = s[q]
  BY <1>2, <1>4
<1>6. ~Open(s'[p])
  BY <1>3, <1>5 DEF Open
<1> QED
  BY <1>2, <1>3, <1>5, <1>6, TellByOne

\* Whatever starts beside an open session laps it, and is lapped by it.
LEMMA StartTold ==
    ASSUME TellInv, NEW p \in Procs, NEW t \in Tokens, NEW queue, NEW hours, Start(p, t, queue, hours),
           UNCHANGED <<rows, stats, smart, metrics, candles, liq>>
    PROVE  TellInv'
<1>1. PICK new, others : /\ new = [NewSession EXCEPT !.pc = "ohlcv", !.token = t, !.queue = queue, !.start = now,
                                       !.hours = hours, !.broken = s[p].broken, !.lapped = others]
                         /\ others = \E q \in Procs \ {p} : s[q].pc \notin {"idle", "next"}
                         /\ s' = [q \in Procs |-> IF q = p THEN new
                                     ELSE [s[q] EXCEPT !.lapped = @ \/ s[q].pc \notin {"idle", "next"}]]
  BY DEF Start
<1>2. /\ DOMAIN new = DOMAIN NewSession /\ new.pc = "ohlcv" /\ new.add = {} /\ new.stats = <<>>
      /\ new.lapped = others
  BY <1>1 DEF NewSession
<1>3. others \in BOOLEAN /\ (~others => \A q \in Procs \ {p} : ~Open(s[q]))
  BY <1>1 DEF Open
<1>4. s'[p] = new /\ DOMAIN s' = Procs
  BY <1>1
<1>5. ASSUME NEW q \in Procs \ {p}
      PROVE  /\ DOMAIN s'[q] = DOMAIN NewSession /\ s'[q].lapped \in BOOLEAN /\ s'[q].pc = s[q].pc
             /\ s'[q].add = s[q].add
             /\ Open(s[q]) => s'[q].lapped
  <2>1. DOMAIN s[q] = DOMAIN NewSession /\ s[q].lapped \in BOOLEAN
    BY DEF TellInv, FieldsInv
  <2>2. {"pc", "lapped", "add"} \subseteq DOMAIN s[q]
    BY <2>1, SessionFields
  <2>3. s'[q] = [s[q] EXCEPT !.lapped = @ \/ s[q].pc \notin {"idle", "next"}]
    BY <1>1
  <2>4. s'[q].lapped = (s[q].lapped \/ s[q].pc \notin {"idle", "next"})
    BY <2>2, <2>3
  <2> QED
    BY <2>1, <2>2, <2>3, <2>4 DEF Open
<1>6. FieldsInv'
  <2>1. \A q \in Procs : DOMAIN s'[q] = DOMAIN NewSession /\ s'[q].lapped \in BOOLEAN
    BY <1>2, <1>3, <1>4, <1>5
  <2> QED
    BY <1>4, <2>1 DEF FieldsInv, NewSession
<1>7. \A q \in Procs \ {p} : Open(s'[q]) => Open(s[q]) /\ s'[q].lapped
  BY <1>5 DEF Open
<1>8. AloneInv'
  <2>1. ASSUME NEW a \in Procs, Open(s'[a]), ~s'[a].lapped, NEW b \in Procs \ {a} PROVE ~Open(s'[b])
    <3>1. a = p
      BY <1>7, <2>1
    <3> QED
      BY <1>2, <1>3, <1>4, <1>7, <2>1, <3>1
  <2> QED
    BY <2>1 DEF AloneInv, Open
<1>9. PeopleInv'
  <2>1. \A q \in Procs : \A r \in s'[q].add : r.wallet \in People
    BY <1>2, <1>4, <1>5 DEF TellInv, PeopleInv
  <2> QED
    BY <2>1 DEF TellInv, PeopleInv, People
<1>10. ASSUME Open(s'["job"]), ~s'["job"].lapped PROVE TellsSo(s["job"])' /\ ToldFromTheTables'
  <2>1. p = "job"
    BY <1>7, <1>10 DEF Procs
  <2>2. s'["job"].pc = "ohlcv" /\ DOMAIN s'["job"].stats = {}
    BY <1>2, <1>4, <2>1
  <2> QED
    BY <2>2 DEF TellsSo, Late, ToldFromTheTables
<1> QED
  BY <1>6, <1>8, <1>9, <1>10 DEF TellInv, Open

LEMMA CommitTold ==
    ASSUME SyncInv, StoredInv, TellInv, NEW p \in Procs, Commit(p) PROVE TellInv'
<1>1. /\ s[p].pc = "commit" /\ ~Clash(p) /\ DOMAIN s = Procs
      /\ DOMAIN s[p] = DOMAIN NewSession /\ s[p].lapped \in BOOLEAN
  BY DEF Commit, TellInv, FieldsInv
<1>2. PICK t : t = s[p].token
  OBVIOUS
<1>3. t \in Tokens
  BY <1>1, <1>2 DEF StoredInv, SessionsHold, Resting, Holds
<1>4. /\ rows' = Visible(p)
      /\ candles' = [candles EXCEPT ![t] = @ \cup s[p].candles]
      /\ liq' = [liq EXCEPT ![t] = @ \cup s[p].liq]
      /\ stats' = Merge(stats, s[p].stats)
      /\ smart' = [smart EXCEPT ![t] = s[p].smart]
      /\ metrics' = [metrics EXCEPT ![t] = s[p].metric]
  BY <1>2 DEF Commit
<1>5. /\ DOMAIN stats = People /\ DOMAIN candles = Tokens /\ DOMAIN liq = Tokens
      /\ DOMAIN smart = Tokens /\ DOMAIN metrics = Tokens
      /\ \A r \in Visible(p) : r.wallet \in People
  BY DEF TellInv, PeopleInv, Visible
<1>6. /\ s'[p].pc \in {"idle", "next", "announce"} /\ s'[p].add = {}
      /\ DOMAIN s'[p] = DOMAIN NewSession /\ s'[p].lapped \in BOOLEAN
      /\ s'[p].pc = "announce" => /\ p = "job" /\ s'[p].token = t /\ s'[p].start = s[p].start
                                  /\ s'[p].liq = s[p].liq /\ s'[p].signals = s[p].signals
                                  /\ s'[p].lapped = s[p].lapped
      /\ DOMAIN s' = Procs /\ \A q \in Procs \ {p} : s'[q] = s[q]
  <2>1. CASE p = "admin"
    <3>1. s' = [s EXCEPT ![p] = NewSession]
      BY <2>1 DEF Commit
    <3> QED
      BY <1>1, <3>1, SessionFields
  <2>2. CASE p = "job"
    <3>1. s' = [s EXCEPT ![p] = [@ EXCEPT !.pc = IF s[p].signals = <<>> THEN "next" ELSE "announce",
                               !.locks = {}, !.add = {}, !.drop = {}, !.candles = {}, !.stats = <<>>,
                               !.smart = {}, !.cp = <<>>, !.loaded = <<>>, !.stat = None, !.wallet = None]]
      BY <2>2 DEF Commit
    <3>2. {"pc", "add", "token", "start", "liq", "signals", "lapped"} \subseteq DOMAIN s[p]
      BY <1>1, SessionFields
    <3> QED
      BY <1>1, <1>2, <2>2, <3>1, <3>2
  <2> QED
    BY <2>1, <2>2 DEF Procs
<1>7. FieldsInv'
  <2>1. \A q \in Procs : DOMAIN s'[q] = DOMAIN NewSession /\ s'[q].lapped \in BOOLEAN
    BY <1>6 DEF TellInv, FieldsInv
  <2> QED
    BY <1>6, <2>1 DEF FieldsInv, NewSession
<1>8. AloneInv'
  <2>1. ASSUME NEW a \in Procs, Open(s'[a]), ~s'[a].lapped, NEW b \in Procs \ {a} PROVE ~Open(s'[b])
    <3>1. Open(s[p])
      BY <1>1 DEF Open
    <3>2. \A q \in Procs : Open(s'[q]) => Open(s[q]) /\ s'[q].lapped = s[q].lapped
      BY <1>6, <3>1 DEF Open
    <3>3. ~Open(s[b])
      BY <2>1, <3>2 DEF TellInv, AloneInv
    <3> QED
      BY <3>2, <3>3
  <2> QED
    BY <2>1 DEF AloneInv, Open
<1>9. PeopleInv'
  <2>1. \A q \in Procs : \A r \in s'[q].add : r.wallet \in People
    BY <1>6 DEF TellInv, PeopleInv
  <2>2. DOMAIN stats' = People
    BY <1>4, <1>5 DEF Merge
  <2> QED
    BY <1>4, <1>5, <2>1, <2>2 DEF PeopleInv, People
<1>10. ASSUME Open(s'["job"]), ~s'["job"].lapped PROVE TellsSo(s["job"])' /\ ToldFromTheTables'
  <2>1. p = "job"
    <3>1. CASE p = "admin"
      <4>1. s'["job"] = s["job"] /\ "job" \in Procs /\ p # "job" /\ Open(s[p])
        BY <1>1, <1>6, <3>1 DEF Procs, Open
      <4> QED
        BY <1>10, <4>1 DEF TellInv, AloneInv
    <3> QED
      BY <3>1 DEF Procs
  <2>2. s'[p].pc = "announce" /\ ~s[p].lapped
    BY <1>6, <1>10, <2>1 DEF Open
  <2>3. PICK v : v = Visible(p)
    OBVIOUS
  <2>4. Scored(s[p], v) /\ Analysed(s[p], v, candles[t], liq[t])
    <3>1. Seen(s[p], rows) = v
      BY <2>3 DEF Seen, Visible
    <3>2. TellsSo(s[p])
      BY <1>1, <2>1, <2>2 DEF TellInv, Open
    <3> QED
      BY <1>1, <1>2, <3>1, <3>2 DEF TellsSo, Late
  <2>5. ASSUME NEW w \in Wallets(OfToken(v, t)) PROVE stats'[w] = WalletStat({r \in v : r.wallet = w})
    <3>1. PICK x \in OfToken(v, t) : x.wallet = w
      BY DEF Wallets
    <3>2. w \in DOMAIN s[p].stats /\ s[p].stats[w] = WalletStat({r \in v : r.wallet = w})
      BY <1>1, <1>2, <2>4, <3>1 DEF Scored
    <3>3. w \in DOMAIN stats
      BY <1>5, <2>3, <3>1 DEF OfToken
    <3> QED
      BY <1>4, <3>2, <3>3 DEF Merge
  <2>6. metrics'[t] = Metric(OfToken(v, t), candles'[t], 0, s[p].start)
    BY <1>2, <1>3, <1>4, <1>5, <2>4 DEF Analysed
  <2>7. liq'[t] \ s[p].liq = liq[t]
    <3>1. liq'[t] = liq[t] \cup s[p].liq
      BY <1>3, <1>4, <1>5
    <3>2. \A e \in liq[t] : e \notin s[p].liq
      BY <1>1, <1>2 DEF Clash, EventKeys
    <3> QED
      BY <3>1, <3>2
  <2>8. s[p].signals = Signals(OfToken(v, t), {r[1] : r \in smart'[t]}, liq'[t] \ s[p].liq, 0, s[p].start)
    <3>1. smart'[t] = s[p].smart
      BY <1>3, <1>4, <1>5
    <3> QED
      BY <1>2, <2>4, <2>7, <3>1 DEF Analysed
  <2>9. /\ s'["job"].token = t /\ s'["job"].start = s[p].start /\ s'["job"].liq = s[p].liq
        /\ s'["job"].signals = s[p].signals /\ rows' = v
    BY <1>4, <1>6, <2>1, <2>2, <2>3
  <2>10. ToldFromTheTables'
    BY <2>5, <2>6, <2>8, <2>9 DEF ToldFromTheTables
  <2>11. TellsSo(s["job"])'
    BY <2>1, <2>2 DEF TellsSo, Early, Late
  <2> QED
    BY <2>10, <2>11
<1> QED
  BY <1>7, <1>8, <1>9, <1>10 DEF TellInv, Open

LEMMA ToldAtFirst == OnchainInit => TellInv
<1> SUFFICES ASSUME OnchainInit PROVE TellInv
  OBVIOUS
<1>1. /\ DOMAIN s = Procs /\ \A p \in Procs : s[p] = NewSession
      /\ rows = {} /\ DOMAIN stats = People /\ DOMAIN candles = Tokens /\ DOMAIN liq = Tokens
      /\ DOMAIN smart = Tokens /\ DOMAIN metrics = Tokens
  BY DEF OnchainInit
<1>2. ~Open(NewSession) /\ "job" \in Procs
  BY SessionFields DEF Open, Procs
<1>3. FieldsInv /\ AloneInv /\ PeopleInv
  BY <1>1, <1>2, SessionFields DEF FieldsInv, AloneInv, PeopleInv
<1> QED
  BY <1>1, <1>2, <1>3 DEF TellInv

LEMMA JobTold ==
    ASSUME SyncInv, TellInv, RunJob \/ NextToken \/ Announce \/ Alert \/ AlertFails PROVE TellInv'
<1>1. /\ DOMAIN s = Procs /\ "job" \in Procs /\ DOMAIN s["job"] = DOMAIN NewSession /\ s["job"].lapped \in BOOLEAN
      /\ \A r \in s["job"].add : r.wallet \in People
      /\ s["job"].queue \in Seq(Tokens)
      /\ UNCHANGED <<rows, stats, smart, metrics, candles, liq>>
  BY DEF TellInv, FieldsInv, PeopleInv, SyncInv, SessionsInv, Session, Procs, RunJob, NextToken, Announce, Alert,
         AlertFails, tables
<1>2. {"pc", "lapped", "add", "alerts", "broken"} \subseteq DOMAIN s["job"]
  BY <1>1, SessionFields
<1> DEFINE Fresh_ == /\ DOMAIN s' = Procs /\ \A q \in Procs \ {"job"} : s'[q] = s[q]
                     /\ ~Open(s'["job"]) /\ DOMAIN s'["job"] = DOMAIN NewSession
                     /\ s'["job"].lapped \in BOOLEAN /\ s'["job"].add \in {{}, s["job"].add}
<1>3. Fresh_ => TellInv'
  BY <1>1, TellByOne
<1>4. CASE RunJob
  <2>1. PICK new : new = [NewSession EXCEPT !.pc = "next", !.queue = Tracked]
    OBVIOUS
  <2>2. s' = [s EXCEPT !["job"] = new]
    BY <1>4, <2>1 DEF RunJob
  <2>3. DOMAIN new = DOMAIN NewSession /\ new.pc = "next" /\ new.lapped \in BOOLEAN /\ new.add = {}
    BY <2>1 DEF NewSession
  <2> QED
    BY <1>1, <1>3, <2>2, <2>3 DEF Open
<1>5. CASE NextToken /\ s["job"].queue = <<>>
  <2>1. s' = [s EXCEPT !["job"] = NewSession]
    BY <1>5 DEF NextToken
  <2> QED
    BY <1>1, <1>3, <2>1, SessionFields DEF Open
<1>6. CASE NextToken /\ s["job"].queue # <<>>
  <2>1. Start("job", Head(s["job"].queue), Tail(s["job"].queue), 4)
    BY <1>6 DEF NextToken
  <2>2. Head(s["job"].queue) \in Tokens
    BY <1>1, <1>6, QueueRange
  <2> QED
    BY <1>1, <2>1, <2>2, StartTold
<1>7. ASSUME NEW alerts, s' = [s EXCEPT !["job"].pc = "alert", !["job"].alerts = alerts],
             Open(s["job"])
      PROVE  TellInv'
  <2>1. /\ DOMAIN s' = Procs /\ \A q \in Procs \ {"job"} : s'[q] = s[q]
        /\ s'["job"].pc = "alert" /\ DOMAIN s'["job"] = DOMAIN NewSession
        /\ s'["job"].lapped = s["job"].lapped /\ s'["job"].add = s["job"].add
    BY <1>1, <1>2, <1>7
  <2>2. TellsSo(s'["job"])
    BY <2>1 DEF TellsSo, Early, Late
  <2> QED
    BY <1>1, <1>7, <2>1, <2>2, TellByOne
<1>8. CASE Announce
  <2>1. PICK alerts : s' = [s EXCEPT !["job"].pc = "alert", !["job"].alerts = alerts]
    BY <1>8 DEF Announce
  <2> QED
    BY <1>7, <1>8, <2>1 DEF Announce, Open
<1>9. CASE Alert /\ s["job"].alerts # <<>>
  <2>1. s' = [s EXCEPT !["job"].alerts = Tail(s["job"].alerts)] /\ s["job"].pc = "alert"
    BY <1>9 DEF Alert
  <2>2. PICK alerts : alerts = Tail(s["job"].alerts)
    OBVIOUS
  <2>3. s' = [s EXCEPT !["job"].pc = "alert", !["job"].alerts = alerts]
    BY <1>1, <1>2, <2>1, <2>2
  <2> QED
    BY <1>7, <2>1, <2>3 DEF Open
<1>10. CASE Alert /\ s["job"].alerts = <<>>
  <2>1. s' = [s EXCEPT !["job"].pc = "next"]
    BY <1>10 DEF Alert
  <2> QED
    BY <1>1, <1>2, <1>3, <2>1 DEF Open
<1>11. CASE AlertFails
  <2>1. s' = [s EXCEPT !["job"].pc = "next", !["job"].broken = TRUE]
    BY <1>11 DEF AlertFails
  <2> QED
    BY <1>1, <1>2, <1>3, <2>1 DEF Open
<1> QED
  BY <1>4, <1>5, <1>6, <1>8, <1>9, <1>10, <1>11

LEMMA OthersTold ==
    ASSUME TellInv, Tick \/ Restart \/ UNCHANGED vars PROVE TellInv'
<1>1. UNCHANGED <<rows, stats, smart, metrics, candles, liq>>
  BY DEF Tick, Restart, vars, tables
<1>2. CASE UNCHANGED s
  BY <1>1, <1>2 DEF TellInv, FieldsInv, AloneInv, PeopleInv, TellsSo, ToldFromTheTables, Open, NewSession, People
<1>3. CASE Restart
  <2>1. PICK again : again = [NewSession EXCEPT !.pc = "next", !.queue = Tracked]
    OBVIOUS
  <2>2. DOMAIN s' = Procs /\ \A p \in Procs : s'[p] \in {again, NewSession}
    BY <1>3, <2>1 DEF Restart
  <2>3. \A r \in {again, NewSession} :
            ~Open(r) /\ DOMAIN r = DOMAIN NewSession /\ r.lapped \in BOOLEAN /\ r.add = {}
    BY <2>1, SessionFields DEF Open, NewSession
  <2>4. \A q \in Procs : /\ ~Open(s'[q]) /\ DOMAIN s'[q] = DOMAIN NewSession /\ s'[q].lapped \in BOOLEAN
                         /\ s'[q].add = {}
    BY <2>2, <2>3
  <2>5. FieldsInv'
    BY <2>2, <2>4 DEF FieldsInv, NewSession
  <2>6. AloneInv'
    BY <2>4 DEF AloneInv, Open
  <2>7. PeopleInv'
    BY <1>1, <2>4 DEF TellInv, PeopleInv, People
  <2> QED
    BY <2>4, <2>5, <2>6, <2>7 DEF TellInv, Open, Procs
<1> QED
  BY <1>2, <1>3 DEF Tick, vars

LEMMA TellStep ==
    ASSUME SyncInv, StoredInv, TellInv, [OnchainNext]_vars PROVE TellInv'
<1>1. ASSUME NEW t \in Tokens, NEW hours \in {1, 4}, RequestSync(t, hours) PROVE TellInv'
  <2>1. Start("admin", t, <<>>, hours) /\ "admin" \in Procs
        /\ UNCHANGED <<rows, stats, smart, metrics, candles, liq>>
    BY <1>1 DEF RequestSync, tables, Procs
  <2> QED
    BY <2>1, StartTold
<1>2. ASSUME NEW p \in Procs, SyncStep(p) PROVE TellInv'
  <2>1. CASE Refused(p) \/ CommitClashes(p) \/ Deadlock(p)
    BY <2>1, FailedTold DEF Refused, CommitClashes, Deadlock
  <2> QED
    BY <1>2, <2>1, ToldEarly, ToldLate, CommitTold DEF SyncStep
<1>3. ASSUME NEW p \in Procs, Fault(p) \/ PullFails(p) PROVE TellInv'
  BY <1>3, FailedTold, ToldEarly DEF Fault
<1>4. "job" \in Procs /\ "admin" \in Procs
  BY DEF Procs
<1> QED
  BY <1>1, <1>2, <1>3, <1>4, JobTold, OthersTold DEF OnchainNext, JobStep

\* What the job is about to announce is computed from the committed rows.
LEMMA AnnouncedFromTheTables == TellInv => ToldFromTheTables
BY DEF TellInv, ToldFromTheTables, Open

(***************************** Token discovery *****************************)
(* The lock's line is in the order in which the results were built, so the   *)
(* table goes forward; and whoever puts a result into the memory is the one  *)
(* who writes it to the table next.                                          *)

IsScan(x) ==
    /\ DOMAIN x = {"pc", "todo", "chain", "limit", "result"}
    /\ x.pc \in {"idle", "fetch", "wait", "save"}
    /\ x.pc # "idle" => x.todo \in Seq(Categories) /\ x.todo # <<>>

ScansInv ==
    /\ DOMAIN scan = Scanners /\ \A p \in Scanners : IsScan(scan[p])
    /\ DOMAIN stored = Spots /\ DOMAIN snapshots = Categories /\ DOMAIN reader = Readers
    /\ \A r \in Readers : reader[r] # Nothing => <<reader[r].category, reader[r].chain>> \in Spots

\* The holder of the lock is the first in line, and saves.
LineInv ==
    /\ line \in Seq(Scanners)
    /\ \A i, j \in DOMAIN line : i # j => line[i] # line[j]
    /\ \A p \in Scanners : scan[p].pc \in {"wait", "save"} <=> \E i \in DOMAIN line : line[i] = p
    /\ \A p \in Scanners : scan[p].pc = "save" => line # <<>> /\ line[1] = p

\* Results are numbered as they are built; those in line are newer than those
\* in the table.
OrderInv ==
    /\ made \in Nat
    /\ \A i \in DOMAIN line :
          /\ scan[line[i]].result.no \in Nat
          /\ scan[line[i]].result.no <= made
          /\ scan[line[i]].result.category = Head(scan[line[i]].todo)
    /\ \A i, j \in DOMAIN line : i < j => scan[line[i]].result.no < scan[line[j]].result.no
    /\ \A c \in Categories : snapshots[c] # Nothing =>
          /\ snapshots[c].no \in Nat /\ snapshots[c].no <= made
          /\ \A i \in DOMAIN line : snapshots[c].no < scan[line[i]].result.no

Saves(p, c) == scan[p].pc = "save" /\ Category(p) = c
Queues(p, c) == scan[p].pc \in {"wait", "save"} /\ Category(p) = c
Reads(r, c) == reader[r] # Nothing /\ reader[r].category = c

\* Who loads the category has the table's row, and no scan of it is in line;
\* its entry in the memory is what the saver saves, or else the table's row.
ReadersOf(c) ==
    \A r \in Readers : Reads(r, c) =>
        /\ \A p \in Scanners : ~ Queues(p, c)
        /\ snapshots[c] \in {Nothing, reader[r].row}
SaverOf(c) ==
    \A p \in Scanners : Saves(p, c) /\ stored[<<c, "">>] # Nothing => stored[<<c, "">>].result = scan[p].result
TableOf(c) ==
    (\A p \in Scanners : ~ Saves(p, c)) /\ stored[<<c, "">>] # Nothing /\ snapshots[c] # Nothing
    => stored[<<c, "">>].result = snapshots[c]

MemoryInv == \A c \in Categories \ parted : ReadersOf(c) /\ SaverOf(c) /\ TableOf(c)

DiscoveryInv == ScansInv /\ LineInv /\ OrderInv /\ MemoryInv

LEMMA FreshScan == IsScan(NoScan) /\ NoScan.pc = "idle"
BY DEF IsScan, NoScan

LEMMA DiscoveryInitInv == DiscoveryInit => DiscoveryInv
<1> SUFFICES ASSUME DiscoveryInit PROVE DiscoveryInv
  OBVIOUS
<1>1. /\ DOMAIN scan = Scanners /\ \A p \in Scanners : scan[p] = NoScan
      /\ DOMAIN reader = Readers /\ \A r \in Readers : reader[r] = Nothing
      /\ DOMAIN stored = Spots /\ \A x \in Spots : stored[x] = Nothing
      /\ DOMAIN snapshots = Categories /\ \A c \in Categories : snapshots[c] = Nothing
      /\ line = <<>> /\ DOMAIN line = {} /\ made = 0
  BY DEF DiscoveryInit
<1>2. ScansInv
  BY <1>1, FreshScan DEF ScansInv
<1>3. LineInv
  BY <1>1, FreshScan, EmptySeq DEF LineInv
<1>4. OrderInv
  BY <1>1 DEF OrderInv
<1>5. \A c \in Categories : <<c, "">> \in Spots
  BY DEF Spots
<1>6. MemoryInv
  BY <1>1, <1>5 DEF MemoryInv, Reads, ReadersOf, SaverOf, TableOf
<1> QED
  BY <1>2, <1>3, <1>4, <1>6 DEF DiscoveryInv

\* A scan that is not in line may start, end or fail.
LEMMA FetchingStep ==
    ASSUME DiscoveryInv, NEW p \in Scanners,
           UNCHANGED <<stored, snapshots, line, reader, made, parted>>,
           DOMAIN scan' = Scanners, \A q \in Scanners \ {p} : scan'[q] = scan[q],
           scan[p].pc \in {"idle", "fetch"}, scan'[p].pc \in {"idle", "fetch"}, IsScan(scan'[p])
    PROVE  DiscoveryInv'
<1>1. ScansInv'
  BY DEF DiscoveryInv, ScansInv, IsScan
<1>2. \A i \in DOMAIN line : line[i] \in Scanners \ {p}
  BY ElementOfSeq, LenProperties DEF DiscoveryInv, LineInv
<1>3. LineInv'
  <2>1. \A q \in Scanners : (scan'[q].pc \in {"wait", "save"} <=> scan[q].pc \in {"wait", "save"})
                           /\ (scan'[q].pc = "save" <=> scan[q].pc = "save")
    OBVIOUS
  <2> QED
    BY <2>1 DEF DiscoveryInv, LineInv
<1>4. \A i \in DOMAIN line : scan'[line[i]] = scan[line[i]]
  BY <1>2
<1>5. OrderInv'
  BY <1>4 DEF DiscoveryInv, OrderInv, Category
<1>6. MemoryInv'
  <2>1. \A q \in Scanners : \A c : (Queues(q, c)' <=> Queues(q, c)) /\ (Saves(q, c)' <=> Saves(q, c))
                                  /\ (Saves(q, c) => scan'[q].result = scan[q].result)
    BY DEF Queues, Saves, Category
  <2>2. \A r \in Readers : \A c : (Reads(r, c)' <=> Reads(r, c))
    BY DEF Reads
  <2>3. ASSUME NEW c \in Categories \ parted PROVE (ReadersOf(c) /\ SaverOf(c) /\ TableOf(c))'
    <3>1. ReadersOf(c) /\ SaverOf(c) /\ TableOf(c)
      BY DEF DiscoveryInv, MemoryInv
    <3>2. ReadersOf(c)'
      BY <2>1, <2>2, <3>1 DEF ReadersOf
    <3>3. SaverOf(c)'
      BY <2>1, <3>1 DEF SaverOf
    <3>4. TableOf(c)'
      BY <2>1, <3>1 DEF TableOf
    <3> QED
      BY <3>2, <3>3, <3>4
  <2> QED
    BY <2>3 DEF MemoryInv
<1> QED
  BY <1>1, <1>3, <1>5, <1>6 DEF DiscoveryInv

\* What is left of a scan when its category is done with.
LEMMA NextCategoryShape ==
    ASSUME DiscoveryInv, NEW p \in Scanners, scan[p].pc # "idle", scan' = NextCategory(p)
    PROVE  /\ DOMAIN scan' = Scanners /\ \A q \in Scanners \ {p} : scan'[q] = scan[q]
           /\ scan'[p].pc \in {"idle", "fetch"} /\ IsScan(scan'[p])
<1>1. DOMAIN scan = Scanners /\ IsScan(scan[p])
  BY DEF DiscoveryInv, ScansInv
<1>2. /\ DOMAIN scan' = Scanners /\ \A q \in Scanners \ {p} : scan'[q] = scan[q]
      /\ scan'[p] = IF Len(scan[p].todo) = 1 THEN NoScan
                    ELSE [scan[p] EXCEPT !.pc = "fetch", !.todo = Tail(@), !.result = Nothing]
  <2>1. /\ DOMAIN scan' = Scanners /\ \A q \in Scanners \ {p} : scan'[q] = scan[q]
        /\ scan'[p] = RestOf(scan[p])
    BY <1>1 DEF NextCategory
  <2> QED
    BY <2>1 DEF RestOf
<1>3. CASE Len(scan[p].todo) = 1
  BY <1>2, <1>3, FreshScan
<1>4. CASE Len(scan[p].todo) # 1
  <2>1. scan[p].todo \in Seq(Categories) /\ scan[p].todo # <<>>
    BY <1>1 DEF IsScan
  <2>2. /\ Tail(scan[p].todo) \in Seq(Categories) /\ Len(Tail(scan[p].todo)) = Len(scan[p].todo) - 1
        /\ Len(scan[p].todo) \in Nat /\ Len(scan[p].todo) # 0
    BY <2>1, HeadTailProperties, LenProperties, EmptySeq
  <2>3. Len(Tail(scan[p].todo)) # 0
    BY <1>4, <2>2
  <2>4. Tail(scan[p].todo) # <<>>
    BY <2>3, EmptySeq
  <2>5. /\ DOMAIN scan'[p] = {"pc", "todo", "chain", "limit", "result"}
        /\ scan'[p].pc = "fetch" /\ scan'[p].todo = Tail(scan[p].todo)
    BY <1>1, <1>2, <1>4 DEF IsScan
  <2> QED
    BY <1>2, <2>2, <2>4, <2>5 DEF IsScan
<1> QED
  BY <1>3, <1>4

\* The holder leaves the lock: the others move up.
LEMMA LeaveIsTail ==
    ASSUME LineInv, NEW p \in Scanners, scan[p].pc = "save"
    PROVE  /\ line[1] = p /\ Leave(p) = Tail(line) /\ Tail(line) \in Seq(Scanners)
           /\ Len(line) \in Nat \ {0} /\ DOMAIN line = 1 .. Len(line) /\ DOMAIN Tail(line) = 1 .. (Len(line) - 1)
           /\ \A i \in 1 .. (Len(line) - 1) : Tail(line)[i] = line[i + 1]
           /\ \A i \in 1 .. (Len(line) - 1) : line[i + 1] # p
<1>1. line \in Seq(Scanners) /\ line # <<>> /\ line[1] = p
  BY DEF LineInv
<1>2. /\ Tail(line) \in Seq(Scanners) /\ Len(line) \in Nat \ {0} /\ DOMAIN line = 1 .. Len(line)
      /\ Len(Tail(line)) = Len(line) - 1
      /\ \A i \in 1 .. Len(Tail(line)) : Tail(line)[i] = line[i + 1]
  BY <1>1, HeadTailProperties, LenProperties, EmptySeq
<1>3. DOMAIN Tail(line) = 1 .. (Len(line) - 1)
  BY <1>2, LenProperties
<1>4. \A i \in DOMAIN line : line[i] = p => i = 1
  BY <1>1, <1>2 DEF LineInv
<1>5. (CHOOSE i \in DOMAIN line : line[i] = p) = 1
  BY <1>1, <1>2, <1>4
<1>6. Leave(p) = SubSeq(line, 1, 0) \o SubSeq(line, 2, Len(line))
  <2>1. Leave(p) = RemoveAt(line, 1)
    BY <1>5 DEF Leave
  <2>2. 1 - 1 = 0 /\ 1 + 1 = 2
    OBVIOUS
  <2> QED
    BY <2>1, <2>2 DEF RemoveAt
<1>7. SubSeq(line, 1, 0) = <<>> /\ SubSeq(line, 2, Len(line)) = Tail(line)
  BY <1>1, <1>2, SubSeqEmpty, TailIsSubSeq
<1>8. Leave(p) = Tail(line)
  BY <1>2, <1>6, <1>7, ConcatEmptySeq
<1> QED
  BY <1>1, <1>2, <1>3, <1>4, <1>8

\* A save, done or failed, by the holder of the lock.
LEMMA LeavingStep ==
    ASSUME DiscoveryInv, NEW p \in Scanners, scan[p].pc = "save",
           scan' = NextCategory(p), line' = Leave(p), UNCHANGED <<stored, reader, made>>,
           \/ snapshots' = [snapshots EXCEPT ![Category(p)] = scan[p].result] /\ parted' = parted
           \/ snapshots' = snapshots /\ parted' = parted \cup {Category(p)}
    PROVE  DiscoveryInv'
<1>1. /\ DOMAIN scan' = Scanners /\ \A q \in Scanners \ {p} : scan'[q] = scan[q]
      /\ scan'[p].pc \in {"idle", "fetch"} /\ IsScan(scan'[p])
  BY NextCategoryShape
<1>2. LineInv
  BY DEF DiscoveryInv
<1>3. /\ line[1] = p /\ line' = Tail(line) /\ line' \in Seq(Scanners)
      /\ Len(line) \in Nat \ {0} /\ DOMAIN line = 1 .. Len(line) /\ DOMAIN line' = 1 .. (Len(line) - 1)
      /\ \A i \in 1 .. (Len(line) - 1) : line'[i] = line[i + 1]
      /\ \A i \in 1 .. (Len(line) - 1) : line[i + 1] # p
  BY <1>2, LeaveIsTail
<1>4. Category(p) \in Categories
  <2>1. IsScan(scan[p])
    BY DEF DiscoveryInv, ScansInv
  <2> QED
    BY <2>1, HeadTailProperties DEF IsScan, Category
<1>5. DOMAIN snapshots = Categories /\ DOMAIN snapshots' = Categories
      /\ \A c \in Categories \ {Category(p)} : snapshots'[c] = snapshots[c]
      /\ snapshots'[Category(p)] \in {snapshots[Category(p)], scan[p].result}
  BY <1>4 DEF DiscoveryInv, ScansInv
<1>6. \A q \in Scanners : scan[q].pc = "save" => q = p
  BY <1>2, <1>3 DEF LineInv
<1>7. \A q \in Scanners : scan'[q].pc # "save"
  BY <1>1, <1>6
<1>8. ScansInv'
  <2>1. \A q \in Scanners : IsScan(scan'[q])
    BY <1>1 DEF DiscoveryInv, ScansInv
  <2> QED
    BY <1>1, <1>5, <2>1 DEF DiscoveryInv, ScansInv, IsScan
<1>9. LineInv'
  <2>1. \A i, j \in DOMAIN line' : i # j => line'[i] # line'[j]
    BY <1>2, <1>3 DEF LineInv
  <2>2. ASSUME NEW q \in Scanners
        PROVE  scan'[q].pc \in {"wait", "save"} <=> \E i \in DOMAIN line' : line'[i] = q
    <3>1. CASE q = p
      BY <1>1, <1>3, <3>1
    <3>2. CASE q # p
      <4>1. scan'[q].pc \in {"wait", "save"} <=> \E i \in DOMAIN line : line[i] = q
        BY <1>1, <1>2, <3>2 DEF LineInv
      <4>2. ASSUME NEW i \in DOMAIN line, line[i] = q PROVE i - 1 \in DOMAIN line' /\ line'[i - 1] = q
        BY <1>3, <3>2, <4>2
      <4>3. ASSUME NEW i \in DOMAIN line', line'[i] = q PROVE i + 1 \in DOMAIN line /\ line[i + 1] = q
        BY <1>3, <4>3
      <4> QED
        BY <4>1, <4>2, <4>3
    <3> QED
      BY <3>1, <3>2
  <2> QED
    BY <1>3, <1>7, <2>1, <2>2 DEF LineInv
<1>10. OrderInv'
  <2>1. ASSUME NEW i \in DOMAIN line'
        PROVE  /\ i + 1 \in DOMAIN line /\ line'[i] = line[i + 1] /\ line[i + 1] \in Scanners
               /\ scan'[line'[i]] = scan[line[i + 1]] /\ scan[line[1]].result.no < scan[line[i + 1]].result.no
    <3>1. i \in 1 .. (Len(line) - 1) /\ i + 1 \in DOMAIN line /\ 1 \in DOMAIN line /\ 1 < i + 1
      BY <1>3
    <3>2. line'[i] = line[i + 1] /\ line[i + 1] # p
      BY <1>3, <3>1
    <3>3. line[i + 1] \in Scanners
      BY <1>2, <1>3, <3>1, ElementOfSeq DEF LineInv
    <3> QED
      BY <1>1, <3>1, <3>2, <3>3 DEF DiscoveryInv, OrderInv
  <2>2. \A i \in DOMAIN line' : /\ scan'[line'[i]].result.no \in Nat
                                /\ scan'[line'[i]].result.no <= made
                                /\ scan'[line'[i]].result.category = Head(scan'[line'[i]].todo)
    BY <2>1 DEF DiscoveryInv, OrderInv
  <2>3. \A i, j \in DOMAIN line' : i < j => scan'[line'[i]].result.no < scan'[line'[j]].result.no
    <3> TAKE i, j \in DOMAIN line'
    <3>1. i < j => i + 1 < j + 1
      BY <1>3
    <3> QED
      BY <2>1, <3>1 DEF DiscoveryInv, OrderInv
  <2>4. ASSUME NEW c \in Categories, snapshots'[c] # Nothing
        PROVE  /\ snapshots'[c].no \in Nat /\ snapshots'[c].no <= made
               /\ \A i \in DOMAIN line' : snapshots'[c].no < scan'[line'[i]].result.no
    <3>1. CASE snapshots'[c] = snapshots[c]
      BY <2>1, <2>4, <3>1 DEF DiscoveryInv, OrderInv
    <3>2. CASE snapshots'[c] # snapshots[c]
      <4>1. snapshots'[c] = scan[p].result /\ 1 \in DOMAIN line
        BY <1>3, <1>5, <3>2
      <4> QED
        BY <1>3, <2>1, <4>1 DEF DiscoveryInv, OrderInv
    <3> QED
      BY <3>1, <3>2
  <2> QED
    BY <2>2, <2>3, <2>4 DEF DiscoveryInv, OrderInv
<1>11. ASSUME NEW c \in Categories, c \notin parted' PROVE (ReadersOf(c) /\ SaverOf(c) /\ TableOf(c))'
  <2>1. c \notin parted /\ ReadersOf(c) /\ SaverOf(c) /\ TableOf(c)
    BY <1>11 DEF DiscoveryInv, MemoryInv
  <2>2. \A q \in Scanners : Queues(q, c)' => Queues(q, c)
    BY <1>1 DEF Queues, Category
  <2>3. SaverOf(c)'
    BY <1>7 DEF SaverOf, Saves
  <2>4. CASE c = Category(p)
    <3>1. snapshots'[c] = scan[p].result
      BY <1>4, <1>5, <1>11, <2>4 DEF DiscoveryInv, ScansInv
    <3>2. Queues(p, c) /\ Saves(p, c)
      BY <2>4 DEF Queues, Saves
    <3>3. \A r \in Readers : ~ Reads(r, c)
      BY <2>1, <3>2 DEF ReadersOf
    <3>4. ReadersOf(c)'
      BY <3>3 DEF ReadersOf, Reads
    <3>5. TableOf(c)'
      BY <2>1, <3>1, <3>2 DEF TableOf, SaverOf
    <3> QED
      BY <2>3, <3>4, <3>5
  <2>5. CASE c # Category(p)
    <3>1. snapshots'[c] = snapshots[c]
      BY <1>5, <2>5
    <3>2. \A q \in Scanners : ~ Saves(q, c)
      BY <1>6, <2>5 DEF Saves
    <3>3. TableOf(c)'
      BY <2>1, <3>1, <3>2 DEF TableOf
    <3>4. ReadersOf(c)'
      BY <2>1, <2>2, <3>1 DEF ReadersOf, Reads
    <3> QED
      BY <2>3, <3>3, <3>4
  <2> QED
    BY <2>4, <2>5
<1>12. MemoryInv'
  BY <1>11 DEF MemoryInv
<1> QED
  BY <1>8, <1>9, <1>10, <1>12 DEF DiscoveryInv

LEMMA CategoryType ==
    ASSUME DiscoveryInv, NEW p \in Scanners, scan[p].pc # "idle"
    PROVE  Category(p) \in Categories /\ <<Category(p), "">> \in Spots
<1>1. IsScan(scan[p])
  BY DEF DiscoveryInv, ScansInv
<1>2. Category(p) \in Categories
  BY <1>1, HeadTailProperties DEF IsScan, Category
<1> QED
  BY <1>2 DEF Spots

LEMMA PutHere ==
    ASSUME NEW memory, NEW result, DOMAIN memory = Spots, <<result.category, "">> \in Spots
    PROVE  /\ DOMAIN PutInto(memory, result) = Spots
           /\ PutInto(memory, result)[<<result.category, "">>].result = result
           /\ \A x \in Spots : x # <<result.category, "">> => PutInto(memory, result)[x] = memory[x]
BY DEF PutInto

\* A result joins the line, and goes into the memory if the lock is free.
LEMMA BuiltStep ==
    ASSUME DiscoveryInv, NEW p \in Scanners, NEW result,
           scan[p].pc = "fetch", result.no = made + 1, result.category = Category(p),
           scan' = [scan EXCEPT ![p].pc = IF line = <<>> THEN "save" ELSE "wait", ![p].result = result],
           line' = Append(line, p), made' = made + 1, UNCHANGED <<snapshots, reader>>,
           stored' = IF line = <<>> THEN PutInto(stored, result) ELSE stored,
           parted' = parted \cup IF \E r \in Readers : Reads(r, Category(p)) THEN {Category(p)} ELSE {}
    PROVE  DiscoveryInv'
<1> DEFINE c0 == Category(p)
<1>1. IsScan(scan[p]) /\ DOMAIN scan = Scanners /\ DOMAIN stored = Spots /\ made \in Nat
  BY DEF DiscoveryInv, ScansInv, OrderInv
<1>2. c0 \in Categories /\ <<c0, "">> \in Spots
  BY CategoryType
<1>3. /\ DOMAIN scan' = Scanners /\ \A q \in Scanners \ {p} : scan'[q] = scan[q]
      /\ DOMAIN scan'[p] = DOMAIN scan[p] /\ scan'[p].pc = (IF line = <<>> THEN "save" ELSE "wait")
      /\ scan'[p].todo = scan[p].todo /\ scan'[p].result = result
  BY <1>1 DEF IsScan
<1>4. IsScan(scan'[p])
  BY <1>1, <1>3 DEF IsScan
<1>5. /\ line \in Seq(Scanners) /\ Len(line) \in Nat /\ DOMAIN line = 1 .. Len(line)
      /\ line' \in Seq(Scanners) /\ DOMAIN line' = 1 .. (Len(line) + 1)
      /\ line'[Len(line) + 1] = p /\ \A i \in DOMAIN line : line'[i] = line[i] /\ line[i] \in Scanners
  BY AppendProperties, LenProperties, ElementOfSeq DEF DiscoveryInv, LineInv
<1>6. \A i \in DOMAIN line : line[i] # p
  BY <1>5 DEF DiscoveryInv, LineInv
<1>7. \A i \in DOMAIN line : scan'[line'[i]] = scan[line[i]]
  BY <1>3, <1>5, <1>6
<1>8. /\ DOMAIN stored' = Spots
      /\ \A x \in Spots : x # <<c0, "">> => stored'[x] = stored[x]
      /\ line = <<>> => stored'[<<c0, "">>].result = result
      /\ line # <<>> => stored' = stored
  <2>1. result.category = c0
    OBVIOUS
  <2> HIDE DEF c0
  <2>2. CASE line = <<>>
    <3>1. stored' = PutInto(stored, result)
      BY <2>2
    <3>2. /\ DOMAIN PutInto(stored, result) = Spots
          /\ PutInto(stored, result)[<<result.category, "">>].result = result
          /\ \A x \in Spots : x # <<result.category, "">> => PutInto(stored, result)[x] = stored[x]
      BY <1>1, <1>2, <2>1, PutHere
    <3> QED
      BY <2>1, <2>2, <3>1, <3>2
  <2>3. CASE line # <<>>
    BY <1>1, <2>3
  <2> QED
    BY <2>2, <2>3
<1>9. ScansInv'
  <2>1. \A q \in Scanners : IsScan(scan'[q])
    BY <1>3, <1>4 DEF DiscoveryInv, ScansInv
  <2> QED
    BY <1>3, <1>8, <2>1 DEF DiscoveryInv, ScansInv, IsScan
<1> HIDE DEF c0
<1>10. LineInv'
  <2>1. \A i, j \in DOMAIN line' : i # j => line'[i] # line'[j]
    <3> TAKE i, j \in DOMAIN line'
    <3>1. (i \in DOMAIN line \/ i = Len(line) + 1) /\ (j \in DOMAIN line \/ j = Len(line) + 1)
      BY <1>5
    <3> QED
      BY <1>5, <1>6, <3>1 DEF DiscoveryInv, LineInv
  <2>2. ASSUME NEW q \in Scanners
        PROVE  scan'[q].pc \in {"wait", "save"} <=> \E i \in DOMAIN line' : line'[i] = q
    <3>1. CASE q = p
      <4>1. Len(line) + 1 \in DOMAIN line'
        BY <1>5
      <4> QED
        BY <1>3, <1>5, <3>1, <4>1
    <3>2. CASE q # p
      <4>1. scan'[q].pc \in {"wait", "save"} <=> \E i \in DOMAIN line : line[i] = q
        BY <1>3, <3>2 DEF DiscoveryInv, LineInv
      <4>2. \A i \in DOMAIN line : i \in DOMAIN line'
        BY <1>5
      <4>3. \A i \in DOMAIN line' : i \in DOMAIN line \/ i = Len(line) + 1
        BY <1>5
      <4> QED
        BY <1>5, <3>2, <4>1, <4>2, <4>3
    <3> QED
      BY <3>1, <3>2
  <2>3. line' # <<>>
    BY <1>5, EmptySeq
  <2>4. ASSUME NEW q \in Scanners, scan'[q].pc = "save" PROVE line'[1] = q
    <3>1. CASE line = <<>>
      <4>1. \A x \in Scanners : scan[x].pc # "save"
        BY <3>1 DEF DiscoveryInv, LineInv
      <4>2. q = p
        BY <1>3, <2>4, <4>1
      <4>3. Len(line) = 0
        BY <3>1
      <4> QED
        BY <1>5, <4>2, <4>3
    <3>2. CASE line # <<>>
      <4>1. q # p /\ scan[q].pc = "save"
        BY <1>3, <2>4, <3>2
      <4>2. line[1] = q /\ 1 \in DOMAIN line
        BY <1>5, <3>2, <4>1, EmptySeq DEF DiscoveryInv, LineInv
      <4> QED
        BY <1>5, <4>2
    <3> QED
      BY <3>1, <3>2
  <2>5. line' \in Seq(Scanners)
    BY <1>5
  <2>6. \A q \in Scanners : scan'[q].pc = "save" => line' # <<>> /\ line'[1] = q
    BY <2>3, <2>4
  <2>7. \A q \in Scanners : scan'[q].pc \in {"wait", "save"} <=> \E i \in DOMAIN line' : line'[i] = q
    BY <2>2
  <2> HIDE DEF c0
  <2> QED
    BY <2>1, <2>5, <2>6, <2>7 DEF LineInv
<1>11. OrderInv'
  <2>1. \A i \in DOMAIN line' : i \in DOMAIN line \/ (i = Len(line) + 1 /\ scan'[line'[i]] = scan'[p])
    <3>1. \A i \in 1 .. (Len(line) + 1) : i \in 1 .. Len(line) \/ i = Len(line) + 1
      BY <1>5
    <3> QED
      BY <1>5, <3>1
  <2>2. \A i \in DOMAIN line : scan[line[i]].result.no \in Nat /\ scan[line[i]].result.no <= made
    BY DEF DiscoveryInv, OrderInv
  <2>3. made' \in Nat /\ made < made' /\ scan'[p].result.no = made'
    BY <1>1, <1>3
  <2>4. \A i \in DOMAIN line' : /\ scan'[line'[i]].result.no \in Nat /\ scan'[line'[i]].result.no <= made'
    <3> TAKE i \in DOMAIN line'
    <3>1. CASE i \in DOMAIN line
      <4>1. scan'[line'[i]].result.no = scan[line[i]].result.no
        BY <1>7, <3>1
      <4>2. scan[line[i]].result.no \in Nat /\ scan[line[i]].result.no <= made
        BY <2>2, <3>1
      <4> QED
        BY <1>1, <2>3, <4>1, <4>2
    <3>2. CASE i \notin DOMAIN line
      <4>1. scan'[line'[i]].result.no = made'
        BY <2>1, <2>3, <3>2
      <4> QED
        BY <2>3, <4>1
    <3> QED
      BY <3>1, <3>2
  <2>5. \A i \in DOMAIN line' : scan'[line'[i]].result.category = Head(scan'[line'[i]].todo)
    <3>1. scan'[p].result.category = Head(scan'[p].todo)
      BY <1>3 DEF Category
    <3>2. \A i \in DOMAIN line : scan[line[i]].result.category = Head(scan[line[i]].todo)
      BY DEF DiscoveryInv, OrderInv
    <3> QED
      BY <1>7, <2>1, <3>1, <3>2
  <2>6. ASSUME NEW i \in DOMAIN line', NEW j \in DOMAIN line', i < j
        PROVE  scan'[line'[i]].result.no < scan'[line'[j]].result.no
    <3>1. i \in DOMAIN line
      BY <1>5, <2>6
    <3>2. CASE j \in DOMAIN line
      BY <1>7, <2>6, <3>1, <3>2 DEF DiscoveryInv, OrderInv
    <3>3. CASE j \notin DOMAIN line
      <4>1. scan'[line'[j]].result.no = made'
        BY <2>1, <2>3, <3>3
      <4>2. scan'[line'[i]].result.no = scan[line[i]].result.no
        BY <1>7, <3>1
      <4>3. scan[line[i]].result.no \in Nat /\ scan[line[i]].result.no <= made
        BY <2>2, <3>1
      <4> QED
        BY <1>1, <2>3, <4>1, <4>2, <4>3
    <3> QED
      BY <3>2, <3>3
  <2>7. ASSUME NEW c \in Categories, snapshots[c] # Nothing
        PROVE  /\ snapshots[c].no \in Nat /\ snapshots[c].no <= made'
               /\ \A i \in DOMAIN line' : snapshots[c].no < scan'[line'[i]].result.no
    <3>1. snapshots[c].no \in Nat /\ snapshots[c].no <= made
          /\ \A i \in DOMAIN line : snapshots[c].no < scan[line[i]].result.no
      BY <2>7 DEF DiscoveryInv, OrderInv
    <3>2. snapshots[c].no < made'
      BY <1>1, <2>3, <3>1
    <3>3. ASSUME NEW i \in DOMAIN line' PROVE snapshots[c].no < scan'[line'[i]].result.no
      <4>1. CASE i \in DOMAIN line
        BY <1>7, <3>1, <4>1
      <4>2. CASE i \notin DOMAIN line
        <5>1. scan'[line'[i]].result.no = made'
          BY <2>1, <2>3, <4>2
        <5> QED
          BY <3>2, <5>1
      <4> QED
        BY <4>1, <4>2
    <3>4. snapshots[c].no <= made'
      BY <1>1, <2>3, <3>1, <3>2
    <3> QED
      BY <3>1, <3>3, <3>4
  <2> QED
    BY <2>3, <2>4, <2>5, <2>6, <2>7 DEF OrderInv
<1>12. ASSUME NEW c \in Categories, c \notin parted' PROVE (ReadersOf(c) /\ SaverOf(c) /\ TableOf(c))'
  <2>1. c \notin parted /\ ReadersOf(c) /\ SaverOf(c) /\ TableOf(c) /\ <<c, "">> \in Spots
    BY <1>12 DEF DiscoveryInv, MemoryInv, Spots
  <2>2. /\ \A q \in Scanners \ {p} : (Queues(q, c)' <=> Queues(q, c)) /\ (Saves(q, c)' <=> Saves(q, c))
        /\ ~ Saves(p, c) /\ (Saves(p, c)' <=> line = <<>> /\ c = c0) /\ (Queues(p, c)' => c = c0)
    BY <1>3 DEF Queues, Saves, Category, c0
  <2>3. \A r \in Readers : Reads(r, c)' <=> Reads(r, c)
    BY DEF Reads
  <2>4. ReadersOf(c)'
    <3>1. c = c0 => \A r \in Readers : ~ Reads(r, c)
      BY <1>12 DEF c0
    <3>2. ASSUME NEW r \in Readers, Reads(r, c)
          PROVE  (\A q \in Scanners : ~ Queues(q, c)') /\ snapshots[c] \in {Nothing, reader[r].row}
      BY <2>1, <2>2, <3>1, <3>2 DEF ReadersOf
    <3> QED
      BY <2>3, <3>2 DEF ReadersOf
  <2>5. CASE line = <<>> /\ c = c0
    <3>1. \A q \in Scanners \ {p} : ~ Saves(q, c)
      BY <2>5 DEF DiscoveryInv, LineInv, Saves
    <3>2. SaverOf(c)'
      BY <1>3, <1>8, <2>2, <2>5, <3>1 DEF SaverOf
    <3>3. TableOf(c)'
      BY <2>2, <2>5 DEF TableOf
    <3> QED
      BY <2>4, <3>2, <3>3
  <2>6. CASE ~ (line = <<>> /\ c = c0)
    <3>1. stored'[<<c, "">>] = stored[<<c, "">>]
      BY <1>8, <2>1, <2>6
    <3>2. \A q \in Scanners : Saves(q, c)' <=> Saves(q, c)
      BY <2>2, <2>6
    <3>3. \A q \in Scanners : Saves(q, c) => scan'[q].result = scan[q].result
      BY <1>3, <2>2
    <3>4. SaverOf(c)'
      BY <2>1, <3>1, <3>2, <3>3 DEF SaverOf
    <3>5. TableOf(c)'
      BY <2>1, <3>1, <3>2 DEF TableOf
    <3> QED
      BY <2>4, <3>4, <3>5
  <2> QED
    BY <2>5, <2>6
<1>13. MemoryInv'
  BY <1>12 DEF MemoryInv
<1> QED
  BY <1>9, <1>10, <1>11, <1>13 DEF DiscoveryInv

\* The first in line gets the lock and puts its result into the memory.
LEMMA EnterStep ==
    ASSUME DiscoveryInv, NEW p \in Scanners, Enter(p) PROVE DiscoveryInv'
<1> DEFINE c0 == Category(p)
           result == scan[p].result
<1>1. /\ scan[p].pc = "wait" /\ Head(line) = p /\ scan' = [scan EXCEPT ![p].pc = "save"]
      /\ stored' = PutInto(stored, result) /\ UNCHANGED <<snapshots, line, reader, made, parted>>
  BY DEF Enter
<1>2. IsScan(scan[p]) /\ DOMAIN scan = Scanners /\ DOMAIN stored = Spots /\ LineInv
  BY DEF DiscoveryInv, ScansInv
<1>3. c0 \in Categories /\ <<c0, "">> \in Spots
  BY <1>1, CategoryType
<1>4. line \in Seq(Scanners) /\ line # <<>> /\ 1 \in DOMAIN line /\ line[1] = p
  <2>1. PICK i \in DOMAIN line : line[i] = p
    BY <1>1, <1>2 DEF LineInv
  <2>2. line \in Seq(Scanners) /\ line # <<>>
    BY <1>2, <2>1 DEF LineInv
  <2>3. Len(line) \in Nat /\ Len(line) # 0 /\ DOMAIN line = 1 .. Len(line)
    BY <2>2, LenProperties, EmptySeq
  <2> QED
    BY <1>1, <2>2, <2>3, HeadTailProperties
<1>5. /\ DOMAIN scan' = Scanners /\ \A q \in Scanners \ {p} : scan'[q] = scan[q]
      /\ DOMAIN scan'[p] = DOMAIN scan[p] /\ scan'[p].pc = "save"
      /\ scan'[p].todo = scan[p].todo /\ scan'[p].result = result
  BY <1>1, <1>2 DEF IsScan
<1>6. result.category = c0
  BY <1>4 DEF DiscoveryInv, OrderInv, Category
<1>7. /\ DOMAIN stored' = Spots /\ stored'[<<c0, "">>].result = result
      /\ \A x \in Spots : x # <<c0, "">> => stored'[x] = stored[x]
  <2> HIDE DEF c0, result
  <2>1. /\ DOMAIN PutInto(stored, result) = Spots
        /\ PutInto(stored, result)[<<result.category, "">>].result = result
        /\ \A x \in Spots : x # <<result.category, "">> => PutInto(stored, result)[x] = stored[x]
    BY <1>2, <1>3, <1>6, PutHere
  <2> QED
    BY <1>1, <1>6, <2>1
<1>8. \A q \in Scanners : scan[q].pc # "save"
  BY <1>1, <1>2, <1>4 DEF LineInv
<1>9. ScansInv'
  <2>1. \A q \in Scanners : IsScan(scan'[q])
    BY <1>1, <1>2, <1>5 DEF DiscoveryInv, ScansInv, IsScan
  <2> QED
    BY <1>1, <1>5, <1>7, <2>1 DEF DiscoveryInv, ScansInv, IsScan
<1>10. LineInv'
  <2>1. \A q \in Scanners : scan'[q].pc \in {"wait", "save"} <=> scan[q].pc \in {"wait", "save"}
    BY <1>1, <1>5
  <2>2. \A q \in Scanners : scan'[q].pc = "save" => q = p
    BY <1>5, <1>8
  <2> QED
    BY <1>1, <1>2, <1>4, <2>1, <2>2 DEF LineInv
<1>11. OrderInv'
  <2>1. \A i \in DOMAIN line : /\ scan'[line[i]].result = scan[line[i]].result
                               /\ scan'[line[i]].todo = scan[line[i]].todo
    BY <1>4, <1>5, ElementOfSeq, LenProperties
  <2> QED
    BY <1>1, <2>1 DEF DiscoveryInv, OrderInv
<1>12. ASSUME NEW c \in Categories, c \notin parted PROVE (ReadersOf(c) /\ SaverOf(c) /\ TableOf(c))'
  <2>1. ReadersOf(c) /\ SaverOf(c) /\ TableOf(c) /\ <<c, "">> \in Spots
    BY <1>12 DEF DiscoveryInv, MemoryInv, Spots
  <2>2. /\ \A q \in Scanners : Queues(q, c)' <=> Queues(q, c)
        /\ \A q \in Scanners : Saves(q, c)' <=> q = p /\ c = c0
    BY <1>1, <1>5, <1>8 DEF Queues, Saves, Category, c0
  <2>3. ReadersOf(c)'
    BY <1>1, <2>1, <2>2 DEF ReadersOf, Reads
  <2>4. CASE c = c0
    BY <1>5, <1>7, <2>2, <2>3, <2>4 DEF SaverOf, TableOf
  <2>5. CASE c # c0
    <3>1. stored'[<<c, "">>] = stored[<<c, "">>]
      BY <1>7, <2>1, <2>5
    <3>2. \A q \in Scanners : ~ Saves(q, c)
      BY <1>8 DEF Saves
    <3>3. TableOf(c)'
      BY <1>1, <2>1, <3>1, <3>2 DEF TableOf
    <3>4. SaverOf(c)'
      BY <2>2, <2>5 DEF SaverOf
    <3> QED
      BY <2>3, <3>3, <3>4
  <2> QED
    BY <2>4, <2>5
<1>13. MemoryInv'
  BY <1>1, <1>12 DEF MemoryInv
<1> QED
  BY <1>9, <1>10, <1>11, <1>13 DEF DiscoveryInv

\* No scan moves: the memory, the table and the readers may.
LEMMA StillStep ==
    ASSUME DiscoveryInv, UNCHANGED <<scan, line, made>>,
           DOMAIN stored' = Spots, DOMAIN snapshots' = Categories, DOMAIN reader' = Readers,
           \A r \in Readers : reader'[r] # Nothing => <<reader'[r].category, reader'[r].chain>> \in Spots,
           \A c \in Categories : snapshots'[c] \in {Nothing, snapshots[c]},
           \A c \in Categories \ parted' : (ReadersOf(c) /\ SaverOf(c) /\ TableOf(c))'
    PROVE  DiscoveryInv'
<1>1. ScansInv'
  BY DEF DiscoveryInv, ScansInv, IsScan
<1>2. LineInv'
  BY DEF DiscoveryInv, LineInv
<1>3. OrderInv'
  BY DEF DiscoveryInv, OrderInv
<1>4. MemoryInv'
  BY DEF MemoryInv
<1> QED
  BY <1>1, <1>2, <1>3, <1>4 DEF DiscoveryInv

LEMMA AskStep ==
    ASSUME DiscoveryInv, NEW r \in Readers, NEW spot \in Asking, Ask(r, spot[1], spot[2]) PROVE DiscoveryInv'
<1> DEFINE c0 == spot[1]
           chain == spot[2]
<1>1. /\ reader' = [reader EXCEPT ![r] = [category |-> c0, chain |-> chain, row |-> snapshots[c0]]]
      /\ parted' = parted \cup IF \E p \in Scanners : scan[p].pc \in {"save", "wait"} /\ Category(p) = c0 THEN {c0} ELSE {}
      /\ UNCHANGED <<stored, snapshots, scan, line, made>>
  BY DEF Ask
<1>2. <<c0, chain>> \in Spots /\ c0 \in Categories
  BY RequestsAssumption DEF Spots
<1>3. DOMAIN reader = Readers /\ DOMAIN stored = Spots /\ DOMAIN snapshots = Categories
      /\ \A x \in Readers : reader[x] # Nothing => <<reader[x].category, reader[x].chain>> \in Spots
  BY DEF DiscoveryInv, ScansInv
<1> HIDE DEF c0, chain
<1>4. /\ DOMAIN reader' = Readers /\ \A x \in Readers \ {r} : reader'[x] = reader[x]
      /\ reader'[r].category = c0 /\ reader'[r].chain = chain /\ reader'[r].row = snapshots[c0]
  BY <1>1, <1>3
<1>5. \A x \in Readers : reader'[x] # Nothing => <<reader'[x].category, reader'[x].chain>> \in Spots
  BY <1>2, <1>3, <1>4
<1>6. ASSUME NEW c \in Categories \ parted' PROVE (ReadersOf(c) /\ SaverOf(c) /\ TableOf(c))'
  <2>1. ReadersOf(c) /\ SaverOf(c) /\ TableOf(c)
    BY <1>1, <1>6 DEF DiscoveryInv, MemoryInv
  <2>2. SaverOf(c)' /\ TableOf(c)'
    BY <1>1, <2>1 DEF SaverOf, TableOf, Saves, Category
  <2>3. \A p \in Scanners : Queues(p, c)' <=> Queues(p, c)
    BY <1>1 DEF Queues, Category
  <2>4. ASSUME NEW x \in Readers, Reads(x, c)'
        PROVE  (\A p \in Scanners : ~ Queues(p, c)) /\ snapshots[c] \in {Nothing, reader'[x].row}
    <3>1. CASE x = r
      <4>1. c = c0
        BY <1>4, <2>4, <3>1 DEF Reads
      <4>2. \A p \in Scanners : ~ Queues(p, c)
        BY <1>1, <1>6, <4>1 DEF Queues
      <4> QED
        BY <1>4, <3>1, <4>1, <4>2
    <3>2. CASE x # r
      BY <1>4, <2>1, <2>4, <3>2 DEF Reads, ReadersOf
    <3> QED
      BY <3>1, <3>2
  <2>5. ReadersOf(c)'
    BY <1>1, <2>3, <2>4 DEF ReadersOf
  <2> QED
    BY <2>2, <2>5
<1> QED
  BY <1>1, <1>3, <1>4, <1>5, <1>6, StillStep

\* What was loaded is put into the memory: of a category as a whole, only if
\* no scan of it came in between.
LEMMA FillStep ==
    ASSUME DiscoveryInv, NEW r \in Readers, Fill(r) PROVE DiscoveryInv'
<1> DEFINE q == reader[r]
           entry == [result |-> OfChain(q.row, q.chain), until |-> clock + TtlTicks]
<1>1. /\ q # Nothing /\ stored' = [stored EXCEPT ![<<q.category, q.chain>>] = entry]
      /\ reader' = [reader EXCEPT ![r] = Nothing]
      /\ UNCHANGED <<snapshots, scan, line, made, parted>>
  BY DEF Fill
<1>2. DOMAIN reader = Readers /\ DOMAIN stored = Spots /\ DOMAIN snapshots = Categories
      /\ \A x \in Readers : reader[x] # Nothing => <<reader[x].category, reader[x].chain>> \in Spots
  BY DEF DiscoveryInv, ScansInv
<1>3. entry.result = OfChain(q.row, q.chain)
  OBVIOUS
<1> HIDE DEF entry
<1>4. DOMAIN stored' = Spots /\ DOMAIN reader' = Readers /\ reader'[r] = Nothing
      /\ \A x \in Readers \ {r} : reader'[x] = reader[x]
  BY <1>1, <1>2
<1>5. ASSUME NEW c \in Categories \ parted' PROVE (ReadersOf(c) /\ SaverOf(c) /\ TableOf(c))'
  <2>1. ReadersOf(c) /\ SaverOf(c) /\ TableOf(c)
    BY <1>1, <1>5 DEF DiscoveryInv, MemoryInv
  <2>2. /\ \A p \in Scanners : Queues(p, c)' <=> Queues(p, c)
        /\ \A p \in Scanners : Saves(p, c)' <=> Saves(p, c)
        /\ \A p \in Scanners : Saves(p, c) => Queues(p, c)
        /\ \A x \in Readers : Reads(x, c)' => Reads(x, c) /\ reader'[x] = reader[x]
    BY <1>1, <1>4 DEF Queues, Saves, Category, Reads
  <2>3. ReadersOf(c)'
    BY <1>1, <2>1, <2>2 DEF ReadersOf
  <2>4. CASE <<q.category, q.chain>> = <<c, "">>
    <3>1. c = q.category /\ q.chain = "" /\ <<c, "">> \in Spots
      BY <1>1, <1>2, <2>4
    <3>2. stored'[<<c, "">>] = entry /\ entry.result = q.row
      BY <1>1, <1>2, <1>3, <2>4, <3>1 DEF OfChain
    <3>3. (\A p \in Scanners : ~ Saves(p, c)) /\ snapshots[c] \in {Nothing, q.row}
      BY <1>1, <2>1, <2>2, <3>1 DEF ReadersOf, Reads
    <3>4. SaverOf(c)' /\ TableOf(c)'
      BY <1>1, <2>2, <3>2, <3>3 DEF SaverOf, TableOf
    <3> QED
      BY <2>3, <3>4
  <2>5. CASE <<q.category, q.chain>> # <<c, "">>
    <3>1. stored'[<<c, "">>] = stored[<<c, "">>]
      <4>1. <<c, "">> \in Spots
        BY DEF Spots
      <4> QED
        BY <1>1, <1>2, <2>5, <4>1
    <3>2. SaverOf(c)' /\ TableOf(c)'
      BY <1>1, <2>1, <2>2, <3>1 DEF SaverOf, TableOf
    <3> QED
      BY <2>3, <3>2
  <2> QED
    BY <2>4, <2>5
<1> QED
  BY <1>1, <1>2, <1>4, <1>5, StillStep

\* Entries of the memory and rows of the table may expire.
LEMMA ExpiryStep ==
    ASSUME DiscoveryInv, Passes \/ DeleteStale PROVE DiscoveryInv'
<1>1. DOMAIN reader = Readers /\ DOMAIN stored = Spots /\ DOMAIN snapshots = Categories
      /\ \A x \in Readers : reader[x] # Nothing => <<reader[x].category, reader[x].chain>> \in Spots
  BY DEF DiscoveryInv, ScansInv
<1>2. /\ DOMAIN stored' = Spots /\ \A x \in Spots : stored'[x] \in {Nothing, stored[x]}
      /\ DOMAIN snapshots' = Categories /\ \A c \in Categories : snapshots'[c] \in {Nothing, snapshots[c]}
      /\ UNCHANGED <<scan, line, made, reader, parted>>
  <2>1. CASE Passes
    BY <1>1, <2>1 DEF Passes
  <2>2. CASE DeleteStale
    BY <1>1, <2>2 DEF DeleteStale
  <2> QED
    BY <2>1, <2>2
<1>3. ASSUME NEW c \in Categories \ parted' PROVE (ReadersOf(c) /\ SaverOf(c) /\ TableOf(c))'
  <2>1. ReadersOf(c) /\ SaverOf(c) /\ TableOf(c) /\ <<c, "">> \in Spots
    BY <1>2, <1>3 DEF DiscoveryInv, MemoryInv, Spots
  <2>2. /\ \A p \in Scanners : Queues(p, c)' <=> Queues(p, c)
        /\ \A p \in Scanners : Saves(p, c)' <=> Saves(p, c)
        /\ \A x \in Readers : Reads(x, c)' <=> Reads(x, c)
    BY <1>2 DEF Queues, Saves, Category, Reads
  <2>3. stored'[<<c, "">>] \in {Nothing, stored[<<c, "">>]} /\ snapshots'[c] \in {Nothing, snapshots[c]}
    BY <1>2, <2>1
  <2>4. ReadersOf(c)'
    BY <1>2, <2>1, <2>2, <2>3 DEF ReadersOf
  <2>5. SaverOf(c)' /\ TableOf(c)'
    BY <1>2, <2>1, <2>2, <2>3 DEF SaverOf, TableOf
  <2> QED
    BY <2>4, <2>5
<1> QED
  BY <1>1, <1>2, <1>3, StillStep

\* A restart leaves the table and nothing else.
LEMMA RebootStep ==
    ASSUME DiscoveryInv, Reboot PROVE DiscoveryInv'
<1>1. /\ DOMAIN scan' = Scanners /\ \A p \in Scanners : scan'[p] = NoScan
      /\ DOMAIN reader' = Readers /\ \A r \in Readers : reader'[r] = Nothing
      /\ DOMAIN stored' = Spots /\ \A x \in Spots : stored'[x] = Nothing
      /\ line' = <<>> /\ DOMAIN line' = {} /\ UNCHANGED <<made, snapshots>>
  BY DEF Reboot
<1>2. ScansInv'
  <2>1. \A p \in Scanners : IsScan(scan'[p])
    BY <1>1, FreshScan
  <2> QED
    BY <1>1, <2>1 DEF DiscoveryInv, ScansInv, IsScan
<1>3. LineInv'
  BY <1>1, FreshScan, EmptySeq DEF LineInv
<1>4. OrderInv'
  BY <1>1 DEF DiscoveryInv, OrderInv
<1>5. \A c \in Categories : <<c, "">> \in Spots
  BY DEF Spots
<1>6. MemoryInv'
  BY <1>1, <1>5 DEF MemoryInv, Reads, ReadersOf, SaverOf, TableOf
<1> QED
  BY <1>2, <1>3, <1>4, <1>6 DEF DiscoveryInv

LEMMA BeginStep ==
    ASSUME DiscoveryInv, NEW p \in Scanners, NEW todo \in Seq(Categories), todo # <<>>, NEW chain, NEW limit,
           Begin(p, todo, chain, limit)
    PROVE  DiscoveryInv'
<1> DEFINE new == [NoScan EXCEPT !.pc = "fetch", !.todo = todo, !.chain = chain, !.limit = limit]
<1>1. scan[p].pc = "idle" /\ scan' = [scan EXCEPT ![p] = new]
      /\ UNCHANGED <<stored, snapshots, line, reader, made, parted>>
  BY DEF Begin
<1>2. IsScan(new) /\ new.pc = "fetch"
  BY DEF IsScan, NoScan
<1> HIDE DEF new
<1>3. DOMAIN scan = Scanners
  BY DEF DiscoveryInv, ScansInv
<1>4. DOMAIN scan' = Scanners /\ scan'[p] = new /\ \A q \in Scanners \ {p} : scan'[q] = scan[q]
  BY <1>1, <1>3
<1> QED
  BY <1>1, <1>2, <1>4, FetchingStep

LEMMA ScanStep ==
    ASSUME DiscoveryInv, NEW p \in Scanners,
           BeginFull(p) \/ CatalogFails(p) \/ Save(p) \/ SaveFails(p)
    PROVE  DiscoveryInv'
<1>1. CASE BeginFull(p)
  <2>1. FullScan \in Seq(Categories) /\ FullScan # <<>>
    BY DEF FullScan, Categories
  <2> QED
    BY <1>1, <2>1, BeginStep DEF BeginFull
<1>2. CASE CatalogFails(p)
  <2>1. scan[p].pc = "fetch" /\ scan' = NextCategory(p)
        /\ UNCHANGED <<stored, snapshots, line, reader, made, parted>>
    BY <1>2 DEF CatalogFails
  <2> QED
    BY <2>1, NextCategoryShape, FetchingStep
<1>3. CASE Save(p)
  BY <1>3, LeavingStep DEF Save
<1>4. CASE SaveFails(p)
  BY <1>4, LeavingStep DEF SaveFails
<1> QED
  BY <1>1, <1>2, <1>3, <1>4

LEMMA BuildStep ==
    ASSUME DiscoveryInv, NEW p \in Scanners, NEW silent, Build(p, silent) PROVE DiscoveryInv'
<1> DEFINE c == Category(p)
           since == IF c = "new_cex" THEN SeenNow(Pairs) ELSE seen
           raw == Raw(c, SourcesOf(c) \ silent, since)
           ranked == Ranked(c, raw, scan[p].chain, [t \in Range(raw) |-> SurgeOf(t)])
           result == [category |-> c, items |-> FirstOnes(ranked, scan[p].limit), at |-> clock, no |-> made + 1,
                      recorded |-> IF c = "surging" THEN ranked ELSE FirstOnes(ranked, scan[p].limit)]
<1>1. /\ line' = Append(line, p)
      /\ scan' = [scan EXCEPT ![p].pc = IF MayEnter(p) THEN "save" ELSE "wait", ![p].result = result]
      /\ stored' = IF MayEnter(p) THEN PutInto(stored, result) ELSE stored
      /\ parted' = parted \cup IF \E r \in Readers : reader[r] # Nothing /\ reader[r].category = c THEN {c} ELSE {}
      /\ made' = made + 1 /\ scan[p].pc = "fetch" /\ UNCHANGED <<snapshots, reader>>
  BY DEF Build
<1>2. result.no = made + 1 /\ result.category = Category(p)
  OBVIOUS
<1> HIDE DEF result
<1>3. /\ scan' = [scan EXCEPT ![p].pc = IF line = <<>> THEN "save" ELSE "wait", ![p].result = result]
      /\ stored' = IF line = <<>> THEN PutInto(stored, result) ELSE stored
      /\ parted' = parted \cup IF \E r \in Readers : Reads(r, Category(p)) THEN {Category(p)} ELSE {}
  BY <1>1 DEF MayEnter, Reads
<1> QED
  BY <1>1, <1>2, <1>3, BuiltStep

LEMMA DiscoveryStep ==
    ASSUME DiscoveryInv, [DiscoveryNext]_discoveryVars PROVE DiscoveryInv'
<1>1. CASE UNCHANGED discoveryVars
  <2>1. UNCHANGED <<stored, snapshots, scan, line, reader, made, parted>>
    BY <1>1 DEF discoveryVars
  <2>2. \A c : (ReadersOf(c)' <=> ReadersOf(c)) /\ (SaverOf(c)' <=> SaverOf(c)) /\ (TableOf(c)' <=> TableOf(c))
    BY <2>1 DEF ReadersOf, SaverOf, TableOf, Reads, Queues, Saves, Category
  <2>3. \A c \in Categories \ parted' : (ReadersOf(c) /\ SaverOf(c) /\ TableOf(c))'
    BY <2>1, <2>2 DEF DiscoveryInv, MemoryInv
  <2> QED
    BY <2>1, <2>3, StillStep DEF DiscoveryInv, ScansInv
<1>2. ASSUME NEW q \in Refreshes, BeginRefresh(q.category, q.chain, q.limit) PROVE DiscoveryInv'
  <2>1. <<q.category>> \in Seq(Categories) /\ <<q.category>> # <<>> /\ "refresh" \in Scanners
    BY RequestsAssumption DEF Scanners
  <2>2. Begin("refresh", <<q.category>>, IF q.category = "new_cex" THEN "" ELSE q.chain, q.limit)
    BY <1>2 DEF BeginRefresh
  <2> QED
    BY <2>1, <2>2, BeginStep
<1> QED
  BY <1>1, <1>2, ScanStep, EnterStep, BuildStep, AskStep, FillStep, ExpiryStep, RebootStep DEF DiscoveryNext

LEMMA DiscoveryInvariance == DiscoverySpec => []DiscoveryInv
BY DiscoveryInitInv, DiscoveryStep, PTL DEF DiscoverySpec

\* However the scans overlap, the table never goes back to an older one.
THEOREM TableGoesForward == DiscoverySpec => SnapshotsGoForward
<1> DEFINE Forward == \A c \in Categories : snapshots[c] # Nothing /\ snapshots'[c] # Nothing
                                                => snapshots'[c].no >= snapshots[c].no
<1>1. ASSUME DiscoveryInv, DiscoveryInv', [DiscoveryNext]_discoveryVars PROVE Forward
  <2> SUFFICES ASSUME NEW c \in Categories, snapshots[c] # Nothing, snapshots'[c] # Nothing
               PROVE  snapshots'[c].no >= snapshots[c].no
    OBVIOUS
  <2>1. snapshots[c].no \in Nat /\ snapshots'[c].no \in Nat
    BY <1>1 DEF DiscoveryInv, OrderInv
  <2>2. CASE snapshots'[c] = snapshots[c]
    BY <2>1, <2>2
  <2>3. ASSUME NEW p \in Scanners, Save(p) PROVE snapshots'[c].no >= snapshots[c].no
    <3>1. scan[p].pc = "save" /\ snapshots' = [snapshots EXCEPT ![Category(p)] = scan[p].result]
      BY <2>3 DEF Save
    <3>2. DOMAIN snapshots = Categories
      BY <1>1 DEF DiscoveryInv, ScansInv
    <3>3. line[1] = p /\ 1 \in DOMAIN line
      BY <1>1, <3>1, LeaveIsTail DEF DiscoveryInv
    <3>4. snapshots[c].no < scan[p].result.no
      BY <1>1, <3>3 DEF DiscoveryInv, OrderInv
    <3>5. snapshots'[c] \in {snapshots[c], scan[p].result}
      BY <3>1, <3>2
    <3> QED
      BY <2>1, <3>4, <3>5
  <2>4. CASE DeleteStale
    <3>1. snapshots'[c] \in {Nothing, snapshots[c]}
      BY <2>4 DEF DeleteStale
    <3> QED
      BY <2>1, <3>1
  <2>5. \/ UNCHANGED snapshots
        \/ \E p \in Scanners : Save(p)
        \/ DeleteStale
    BY <1>1 DEF DiscoveryNext, discoveryVars, BeginFull, BeginRefresh, Begin, CatalogFails, Enter, SaveFails,
                Build, Ask, Fill, Passes, Reboot
  <2> QED
    BY <2>2, <2>3, <2>4, <2>5
<1> QED
  BY <1>1, DiscoveryInvariance, PTL DEF DiscoverySpec, SnapshotsGoForward

\* A reader who is answered from the memory and one who is answered from the
\* table are told the same, but for a save at work or failed and for a load
\* that a scan overlapped.
THEOREM MemoryAndTableAgree == DiscoverySpec => []MemoryMatchesTable
<1>1. ASSUME DiscoveryInv PROVE MemoryMatchesTable
  <2> SUFFICES ASSUME NEW c \in Categories, Live(stored[<<c, "">>]), snapshots[c] # Nothing, c \notin parted,
                      \A p \in Scanners : scan[p].pc = "save" => Category(p) # c
               PROVE  stored[<<c, "">>].result = snapshots[c]
    BY DEF MemoryMatchesTable
  <2>1. TableOf(c)
    BY <1>1 DEF DiscoveryInv, MemoryInv
  <2>2. (\A p \in Scanners : ~ Saves(p, c)) /\ stored[<<c, "">>] # Nothing
    BY DEF Saves, Live
  <2> QED
    BY <2>1, <2>2 DEF TableOf
<1> QED
  BY <1>1, DiscoveryInvariance, PTL

\* A full scan has tried or has still to try every category, and has tried
\* the one whose result is in line.
Covers(p) ==
    /\ scan[p].pc = "idle" => tries[p] \in {{}, Categories}
    /\ scan[p].pc # "idle" => tries[p] \cup Range(scan[p].todo) = Categories
    /\ scan[p].pc \in {"wait", "save"} => Category(p) \in tries[p]
TriesInv == DOMAIN tries = Scanners /\ \A p \in {"job", "admin"} : Covers(p)

\* A category that was tried is done with.
LEMMA DoneWith ==
    ASSUME DiscoveryInv, NEW p \in Scanners, scan[p].pc # "idle", scan' = NextCategory(p),
           tries'[p] \cup Range(scan[p].todo) = Categories, Category(p) \in tries'[p]
    PROVE  Covers(p)'
<1>1. DOMAIN scan = Scanners /\ DOMAIN scan[p] = {"pc", "todo", "chain", "limit", "result"}
      /\ scan[p].todo \in Seq(Categories) /\ scan[p].todo # <<>>
  BY DEF DiscoveryInv, ScansInv, IsScan
<1>2. /\ Range(scan[p].todo) = {Category(p)} \cup Range(Tail(scan[p].todo))
      /\ Tail(scan[p].todo) \in Seq(Categories)
      /\ Len(Tail(scan[p].todo)) = Len(scan[p].todo) - 1
  BY <1>1, QueueRange, HeadTailProperties DEF Category
<1>3. scan'[p] = RestOf(scan[p])
  BY <1>1 DEF NextCategory
<1>4. CASE Len(scan[p].todo) = 1
  <2>1. Len(Tail(scan[p].todo)) = 0 /\ DOMAIN Tail(scan[p].todo) = {}
    <3>1. Len(Tail(scan[p].todo)) = 0
      BY <1>2, <1>4
    <3>2. DOMAIN Tail(scan[p].todo) = 1 .. 0
      BY <1>2, <3>1, LenProperties
    <3> QED
      BY <3>1, <3>2
  <2>2. Range(Tail(scan[p].todo)) = {}
    BY <2>1 DEF Range
  <2>3. tries'[p] = Categories
    BY <1>2, <2>2
  <2>4. scan'[p] = NoScan
    BY <1>3, <1>4 DEF RestOf
  <2> QED
    BY <2>3, <2>4, FreshScan DEF Covers
<1>5. CASE Len(scan[p].todo) # 1
  <2>1. scan'[p].pc = "fetch" /\ scan'[p].todo = Tail(scan[p].todo)
    BY <1>1, <1>3, <1>5 DEF RestOf
  <2> QED
    BY <1>2, <2>1 DEF Covers
<1> QED
  BY <1>4, <1>5

LEMMA CoversStep ==
    ASSUME DiscoveryInv, TriesInv, [DiscoveryNext]_discoveryVars PROVE TriesInv'
<1>1. DOMAIN scan = Scanners /\ DOMAIN tries = Scanners /\ {"job", "admin"} \subseteq Scanners
      /\ \A p \in Scanners : DOMAIN scan[p] = {"pc", "todo", "chain", "limit", "result"}
  BY DEF DiscoveryInv, ScansInv, IsScan, TriesInv, Scanners
<1>2. ASSUME NEW p \in Scanners, DOMAIN tries' = Scanners,
             \A q \in Scanners \ {p} : scan'[q] = scan[q] /\ tries'[q] = tries[q],
             p # "refresh" => Covers(p)'
      PROVE  TriesInv'
  <2>1. ASSUME NEW q \in {"job", "admin"}, q # p PROVE Covers(q)'
    <3>1. Covers(q) /\ scan'[q] = scan[q] /\ tries'[q] = tries[q]
      BY <1>1, <1>2, <2>1 DEF TriesInv
    <3> QED
      BY <3>1 DEF Covers, Category
  <2> QED
    BY <1>2, <2>1 DEF TriesInv
<1>3. CASE UNCHANGED <<scan, tries>>
  BY <1>3 DEF TriesInv, Covers, Category
<1>4. ASSUME NEW p \in Scanners, BeginFull(p) PROVE TriesInv'
  <2> DEFINE new == [NoScan EXCEPT !.pc = "fetch", !.todo = FullScan, !.chain = "", !.limit = 50]
  <2>1. scan' = [scan EXCEPT ![p] = new] /\ tries' = [tries EXCEPT ![p] = {}]
    BY <1>4 DEF BeginFull, Begin
  <2>2. new.pc = "fetch" /\ new.todo = FullScan
    BY DEF NoScan
  <2> HIDE DEF new
  <2>3. Range(FullScan) = Categories
    BY DEF FullScan, Categories, Range
  <2>4. Covers(p)'
    BY <1>1, <2>1, <2>2, <2>3 DEF Covers
  <2> QED
    BY <1>1, <1>2, <2>1, <2>4
<1>5. ASSUME NEW q \in Refreshes, BeginRefresh(q.category, q.chain, q.limit) PROVE TriesInv'
  <2>1. \E new : scan' = [scan EXCEPT !["refresh"] = new] /\ tries' = [tries EXCEPT !["refresh"] = {}]
    BY <1>5 DEF BeginRefresh, Begin
  <2>2. "refresh" \in Scanners
    BY DEF Scanners
  <2> QED
    BY <1>1, <1>2, <2>1, <2>2
<1>6. ASSUME NEW p \in Scanners, NEW silent, Build(p, silent) PROVE TriesInv'
  <2>1. \E pc_ \in {"save", "wait"} : \E result : scan' = [scan EXCEPT ![p].pc = pc_, ![p].result = result]
    BY <1>6 DEF Build
  <2>2. tries' = [tries EXCEPT ![p] = @ \cup {Category(p)}] /\ scan[p].pc = "fetch"
    BY <1>6 DEF Build
  <2>3. scan'[p].pc \in {"save", "wait"} /\ scan'[p].todo = scan[p].todo
        /\ \A q \in Scanners \ {p} : scan'[q] = scan[q]
    BY <1>1, <2>1
  <2>4. tries'[p] = tries[p] \cup {Category(p)} /\ DOMAIN tries' = Scanners
        /\ \A q \in Scanners \ {p} : tries'[q] = tries[q]
    BY <1>1, <2>2
  <2>5. ASSUME p # "refresh" PROVE Covers(p)'
    <3>1. Covers(p) /\ Category(p) \in Categories
      BY <2>2, <2>5, CategoryType DEF TriesInv, Scanners
    <3> QED
      BY <2>2, <2>3, <2>4, <3>1 DEF Covers, Category
  <2> QED
    BY <1>2, <2>3, <2>4, <2>5
<1>7. ASSUME NEW p \in Scanners, CatalogFails(p) PROVE TriesInv'
  <2>1. /\ scan[p].pc = "fetch" /\ Category(p) = "new_cex" /\ scan' = NextCategory(p)
        /\ tries' = [tries EXCEPT ![p] = @ \cup {"new_cex"}]
    BY <1>7 DEF CatalogFails
  <2>2. \A q \in Scanners \ {p} : scan'[q] = scan[q]
    BY <2>1, NextCategoryShape
  <2>3. ASSUME p # "refresh" PROVE Covers(p)'
    <3>1. Covers(p) /\ Category(p) \in Categories
      BY <2>1, <2>3, CategoryType DEF TriesInv, Scanners
    <3>2. tries'[p] = tries[p] \cup {Category(p)}
      BY <1>1, <2>1
    <3>3. tries'[p] \cup Range(scan[p].todo) = Categories
      BY <2>1, <3>1, <3>2 DEF Covers
    <3> QED
      BY <2>1, <3>2, <3>3, DoneWith
  <2> QED
    BY <1>1, <1>2, <2>1, <2>2, <2>3
<1>8. ASSUME NEW p \in Scanners, Save(p) \/ SaveFails(p) PROVE TriesInv'
  <2>1. scan[p].pc = "save" /\ scan' = NextCategory(p) /\ tries' = tries
    BY <1>8 DEF Save, SaveFails
  <2>2. \A q \in Scanners \ {p} : scan'[q] = scan[q]
    BY <2>1, NextCategoryShape
  <2>3. ASSUME p # "refresh" PROVE Covers(p)'
    <3>1. Covers(p)
      BY <2>3 DEF TriesInv, Scanners
    <3> QED
      BY <2>1, <3>1, DoneWith DEF Covers
  <2> QED
    BY <1>1, <1>2, <2>1, <2>2, <2>3
<1>9. ASSUME NEW p \in Scanners, Enter(p) PROVE TriesInv'
  <2>1. scan[p].pc = "wait" /\ scan' = [scan EXCEPT ![p].pc = "save"] /\ tries' = tries
    BY <1>9 DEF Enter
  <2>2. scan'[p].pc = "save" /\ scan'[p].todo = scan[p].todo /\ \A q \in Scanners \ {p} : scan'[q] = scan[q]
    BY <1>1, <2>1
  <2>3. p # "refresh" => Covers(p)'
    BY <2>1, <2>2 DEF TriesInv, Scanners, Covers, Category
  <2> QED
    BY <1>1, <1>2, <2>1, <2>2, <2>3
<1>10. CASE Reboot
  <2>1. /\ DOMAIN tries' = Scanners /\ \A p \in Scanners : tries'[p] = {} /\ scan'[p] = NoScan
    BY <1>10 DEF Reboot
  <2> QED
    BY <1>1, <2>1, FreshScan DEF TriesInv, Covers
<1>11. \/ UNCHANGED <<scan, tries>>
       \/ \E p \in Scanners : BeginFull(p) \/ CatalogFails(p) \/ Enter(p) \/ Save(p) \/ SaveFails(p)
       \/ \E q \in Refreshes : BeginRefresh(q.category, q.chain, q.limit)
       \/ \E p \in Scanners : \E silent : Build(p, silent)
       \/ Reboot
  BY DEF DiscoveryNext, discoveryVars, Ask, Fill, Passes, DeleteStale
<1> QED
  BY <1>3, <1>4, <1>5, <1>6, <1>7, <1>8, <1>9, <1>10, <1>11

\* A full scan that ends without a restart has tried every category, whichever
\* of them failed; and only who is waiting or saving is in the lock's line.
LEMMA FullScansTryAll ==
    DiscoverySpec => [](/\ \A p \in {"job", "admin"} : scan[p].pc = "idle" => tries[p] \in {{}, Categories}
                        /\ \A p \in Scanners : p \in Range(line) <=> scan[p].pc \in {"wait", "save"})
<1> DEFINE Whole == /\ \A p \in {"job", "admin"} : scan[p].pc = "idle" => tries[p] \in {{}, Categories}
                    /\ \A p \in Scanners : p \in Range(line) <=> scan[p].pc \in {"wait", "save"}
<1>1. DiscoveryInit => TriesInv
  <2> SUFFICES ASSUME DiscoveryInit PROVE TriesInv
    OBVIOUS
  <2>1. DOMAIN tries = Scanners /\ \A p \in Scanners : tries[p] = {} /\ scan[p] = NoScan
    BY DEF DiscoveryInit
  <2>2. {"job", "admin"} \subseteq Scanners
    BY DEF Scanners
  <2> QED
    BY <2>1, <2>2, FreshScan DEF TriesInv, Covers
<1>2. DiscoveryInv /\ TriesInv => Whole
  BY DEF DiscoveryInv, LineInv, TriesInv, Covers, Range
<1> QED
  BY <1>1, <1>2, CoversStep, DiscoveryInvariance, PTL DEF DiscoverySpec

(* What a scan makes of a list of tokens is ranked, whatever was listed.      *)

IsToken(t) == t.volume \in Int /\ t.liquidity \in Int /\ t.change \in Int /\ t.txs \in Int /\ t.age \in Int
IsEntry(x) == x.score \in Int /\ x.surge \in Int /\ x.token.volume \in Int

IsRanking(c, items) ==
    /\ items \in Seq(Range(items))
    /\ \A i \in DOMAIN items : IsEntry(items[i])
    /\ \A i, j \in DOMAIN items : i < j =>
          items[i].token.id # items[j].token.id /\ ~ Before(c, items[j], items[i])

LEMMA MaxOfTwo == \A a, b \in Int : Max({a, b}) \in {a, b} /\ Max({a, b}) >= a /\ Max({a, b}) >= b
<1> SUFFICES ASSUME NEW a \in Int, NEW b \in Int
             PROVE  Max({a, b}) \in {a, b} /\ Max({a, b}) >= a /\ Max({a, b}) >= b
  OBVIOUS
<1>1. \E x \in {a, b} : \A y \in {a, b} : x >= y
  <2>1. CASE a >= b
    BY <2>1
  <2>2. CASE b >= a
    BY <2>2
  <2> QED
    BY <2>1, <2>2
<1> QED
  BY <1>1 DEF Max

LEMMA MinOfTwo == \A a, b \in Int : Min({a, b}) \in {a, b} /\ Min({a, b}) <= a /\ Min({a, b}) <= b
<1> SUFFICES ASSUME NEW a \in Int, NEW b \in Int
             PROVE  Min({a, b}) \in {a, b} /\ Min({a, b}) <= a /\ Min({a, b}) <= b
  OBVIOUS
<1>1. \E x \in {a, b} : \A y \in {a, b} : x <= y
  <2>1. CASE a <= b
    BY <2>1
  <2>2. CASE b <= a
    BY <2>2
  <2> QED
    BY <2>1, <2>2
<1> QED
  BY <1>1 DEF Min

LEMMA ClampType == \A x, low, high \in Int : Clamp(x, low, high) \in Int
<1> SUFFICES ASSUME NEW x \in Int, NEW low \in Int, NEW high \in Int PROVE Clamp(x, low, high) \in Int
  OBVIOUS
<1>1. Min({high, x}) \in Int
  BY MinOfTwo
<1> QED
  BY <1>1, MaxOfTwo DEF Clamp

LEMMA LogNormType == \A v, scale \in Int : LogNorm(v, scale) \in Int
<1> SUFFICES ASSUME NEW v \in Int, NEW scale \in Int PROVE LogNorm(v, scale) \in Int
  OBVIOUS
<1>1. Decades(v) \in Nat
  <2> DEFINE powers == {n \in 1 .. 9 : 10 ^ n <= v + 1}
  <2>1. powers \in SUBSET (1 .. 9)
    BY Zenon
  <2> HIDE DEF powers
  <2>2. IsFiniteSet(1 .. 9)
    <3>1. 1 \in Int /\ 9 \in Int
      OBVIOUS
    <3> QED
      BY <3>1, FS_Interval, Zenon
  <2>3. IsFiniteSet(powers)
    BY <2>1, <2>2, FS_Subset
  <2>4. Cardinality(powers) \in Nat
    BY <2>3, FS_CardinalityType
  <2> QED
    BY <2>4, Zenon DEF Decades, powers
<1>2. scale * Decades(v) \in Int
  BY <1>1
<1> QED
  BY <1>2, ClampType DEF LogNorm

LEMMA FreshnessType == \A age \in Int : Freshness(age) \in Int
<1> SUFFICES ASSUME NEW age \in Int PROVE Freshness(age) \in Int
  OBVIOUS
<1>1. Distance(age, 36) \in Int
  BY MaxOfTwo DEF Distance
<1>2. Max({0, 300 - (age - 168) \div 2}) \in Int
  <2>1. 300 - (age - 168) \div 2 \in Int
    OBVIOUS
  <2> QED
    BY <2>1, MaxOfTwo
<1>3. CASE age <= 0
  BY <1>3 DEF Freshness
<1>4. CASE age > 0 /\ age < 6
  BY <1>4 DEF Freshness
<1>5. CASE age >= 6 /\ age <= 72
  BY <1>1, <1>5 DEF Freshness
<1>6. CASE age > 72 /\ age <= 168
  BY <1>6 DEF Freshness
<1>7. CASE age > 168
  BY <1>2, <1>7 DEF Freshness
<1> QED
  BY <1>3, <1>4, <1>5, <1>6, <1>7

LEMMA ScoreType ==
    ASSUME NEW t, IsToken(t), NEW surge \in Int
    PROVE  ScoreToken(t, surge).token = t /\ IsEntry(ScoreToken(t, surge))
<1>1. /\ LogNorm(t.volume, 25) \in Int /\ LogNorm(t.volume, 22) \in Int
      /\ LogNorm(t.liquidity, 18) \in Int /\ LogNorm(t.txs, 12) \in Int /\ Freshness(t.age) \in Int
  <2>1. {t.volume, t.liquidity, t.txs, t.age, 25, 22, 18, 12} \subseteq Int
    BY DEF IsToken
  <2> QED
    BY <2>1, LogNormType, FreshnessType, Zenon
<1>2. Rise(t) \in Int
  <2>1. t.change \in Int /\ 0 \in Int
    BY DEF IsToken
  <2>2. Max({0, t.change}) \in {0, t.change}
    BY <2>1, MaxOfTwo, Zenon
  <2> QED
    BY <2>1, <2>2 DEF Rise
<1>3. /\ (5 * Rise(t)) \div 2 \in Int /\ (3 * Rise(t)) \div 2 \in Int /\ (3 * surge) \div 20 \in Int
      /\ (2 * Freshness(t.age)) \div 5 \in Int
  BY <1>1, <1>2
<1>4. /\ Clamp((5 * Rise(t)) \div 2, 0, 25) \in Int /\ Clamp((3 * Rise(t)) \div 2, 0, 20) \in Int
      /\ Clamp((3 * surge) \div 20, 0, 25) \in Int
  <2>1. {0, 20, 25} \subseteq Int
    OBVIOUS
  <2> QED
    BY <1>3, <2>1, ClampType, Zenon
<1>5. Safety(t) \in Int
  BY DEF Safety
<1>6. GrowthScore(t, surge) \in Int
  <2>1. CASE Cex(t)
    BY <1>1, <1>3, <1>4, <2>1 DEF GrowthScore
  <2>2. CASE ~ Cex(t)
    BY <1>1, <1>4, <1>5, <2>2 DEF GrowthScore
  <2> QED
    BY <2>1, <2>2
<1> QED
  BY <1>6 DEF ScoreToken, IsEntry, IsToken

LEMMA BeforeIsStrict ==
    ASSUME NEW c
    PROVE  /\ \A a : IsEntry(a) => ~ Before(c, a, a)
           /\ \A a, b, d : IsEntry(a) /\ IsEntry(b) /\ IsEntry(d) /\ Before(c, a, b) /\ Before(c, b, d)
                           => Before(c, a, d)
           /\ \A a, b, d : IsEntry(a) /\ IsEntry(b) /\ IsEntry(d) /\ ~ Before(c, a, b) /\ ~ Before(c, b, d)
                           => ~ Before(c, a, d)
<1>1. CASE c = "surging"
  BY <1>1 DEF Before, IsEntry
<1>2. CASE c # "surging"
  BY <1>2 DEF Before, IsEntry
<1> QED
  BY <1>1, <1>2

LEMMA RanksAboveIsStrict ==
    ASSUME NEW c, NEW scored, DOMAIN scored \subseteq Int, \A i \in DOMAIN scored : IsEntry(scored[i])
    PROVE  IsStrict(DOMAIN scored, RanksAbove(c, scored))
<1>1. \A i, j \in DOMAIN scored : <<i, j>> \in RanksAbove(c, scored)
          <=> \/ Before(c, scored[i], scored[j])
              \/ i < j /\ ~ Before(c, scored[j], scored[i])
  BY DEF RanksAbove
<1>2. \A i \in DOMAIN scored : <<i, i>> \notin RanksAbove(c, scored)
  BY <1>1, BeforeIsStrict
<1>3. ASSUME NEW i \in DOMAIN scored, NEW j \in DOMAIN scored, NEW k \in DOMAIN scored,
             <<i, j>> \in RanksAbove(c, scored), <<j, k>> \in RanksAbove(c, scored)
      PROVE  <<i, k>> \in RanksAbove(c, scored)
  <2>1. PICK a, b, d : a = scored[i] /\ b = scored[j] /\ d = scored[k]
    <3>1. \E a, b, d : a = scored[i] /\ b = scored[j] /\ d = scored[k]
      OBVIOUS
    <3> QED
      BY <3>1
  <2>2. IsEntry(a) /\ IsEntry(b) /\ IsEntry(d)
    BY <2>1
  <2>3. /\ Before(c, a, b) \/ (i < j /\ ~ Before(c, b, a))
        /\ Before(c, b, d) \/ (j < k /\ ~ Before(c, d, b))
    BY <1>1, <1>3, <2>1
  <2>4. ~ (Before(c, a, b) /\ Before(c, b, a)) /\ ~ (Before(c, b, d) /\ Before(c, d, b))
    BY <2>2, BeforeIsStrict
  <2>5. i < j /\ j < k => i < k
    OBVIOUS
  <2>6. Before(c, a, d) \/ (i < k /\ ~ Before(c, d, a))
    <3>1. Before(c, d, a) => (Before(c, d, b) \/ Before(c, b, a))
      BY <2>2, BeforeIsStrict
    <3>2. Before(c, a, b) => (Before(c, a, d) \/ Before(c, d, b))
      BY <2>2, BeforeIsStrict
    <3>3. Before(c, b, d) => (Before(c, b, a) \/ Before(c, a, d))
      BY <2>2, BeforeIsStrict
    <3> QED
      BY <2>3, <2>4, <2>5, <3>1, <3>2, <3>3
  <2> QED
    BY <1>1, <2>1, <2>6
<1> QED
  BY <1>2, <1>3 DEF IsStrict

LEMMA ScanIsRanked ==
    ASSUME NEW c, NEW seq, NEW n \in Nat, DOMAIN seq = 1 .. n, NEW chain, NEW surge,
           \A i \in 1 .. n : IsToken(seq[i]) /\ surge[seq[i]] \in Int
    PROVE  IsRanking(c, Ranked(c, seq, chain, surge))
<1> DEFINE unique == DedupeTokens(seq, FilterByChain(seq, chain))
           kept == {i \in unique :
                    /\ PassesHardFilters(seq[i], c)
                    /\ c = "surging" => IsSurgingCandidate(seq[i], surge[seq[i]])}
           scored == [i \in kept |-> ScoreToken(seq[i], surge[seq[i]])]
           ranked == Sorted(kept, RanksAbove(c, scored))
           items == [k \in DOMAIN ranked |-> scored[ranked[k]]]
           size == Cardinality(kept)
<1>1. Ranked(c, seq, chain, surge) = items
  BY DEF Ranked
<1>2. kept \in SUBSET (1 .. n) /\ \A i, j \in kept : j < i => seq[j].id # seq[i].id
  BY DEF DedupeTokens, FilterByChain
<1>3. DOMAIN scored = kept /\ \A i \in kept : scored[i] = ScoreToken(seq[i], surge[seq[i]])
  OBVIOUS
<1> HIDE DEF kept, unique, scored
<1>4. \A i \in kept : scored[i].token = seq[i] /\ IsEntry(scored[i])
  BY <1>2, <1>3, ScoreType
<1>5. IsFiniteSet(kept)
  BY <1>2, FS_Interval, FS_Subset
<1>6. IsStrict(kept, RanksAbove(c, scored))
  BY <1>2, <1>3, <1>4, RanksAboveIsStrict
<1>7. size \in Nat /\ ranked \in [1 .. size -> kept] /\ InOrderOf(kept, RanksAbove(c, scored), ranked)
  BY <1>5, <1>6, SortedList
<1> HIDE DEF ranked
<1>8. DOMAIN items = 1 .. size /\ \A k \in 1 .. size : items[k] = scored[ranked[k]] /\ ranked[k] \in kept
  BY <1>7
<1>9. \A k \in DOMAIN items : IsEntry(items[k])
  BY <1>4, <1>8
<1>10. ASSUME NEW i \in 1 .. size, NEW j \in 1 .. size, i < j
       PROVE  items[i].token.id # items[j].token.id /\ ~ Before(c, items[j], items[i])
  <2>1. ranked[i] \in kept /\ ranked[j] \in kept
    BY <1>8
  <2>2. ranked[i] # ranked[j] /\ <<ranked[j], ranked[i]>> \notin RanksAbove(c, scored)
    BY <1>7, <1>10 DEF InOrderOf
  <2>3. ranked[i] < ranked[j] \/ ranked[j] < ranked[i]
    <3>1. kept \subseteq Int
      BY <1>2
    <3>2. ranked[i] \in Int /\ ranked[j] \in Int
      BY <2>1, <3>1, Zenon
    <3> QED
      BY <2>2, <3>2
  <2>4. items[i].token = seq[ranked[i]] /\ items[j].token = seq[ranked[j]]
    BY <1>4, <1>8, <2>1
  <2>5. items[i].token.id # items[j].token.id
    BY <1>2, <2>1, <2>3, <2>4
  <2>6. ~ Before(c, items[j], items[i])
    BY <1>3, <1>8, <2>1, <2>2 DEF RanksAbove
  <2> QED
    BY <2>5, <2>6
<1>11. items \in Seq(Range(items))
  <2>1. \A k \in 1 .. size : items[k] \in Range(items)
    BY <1>8 DEF Range
  <2>2. items = [k \in 1 .. size |-> items[k]]
    BY <1>8
  <2> HIDE DEF items
  <2>3. [k \in 1 .. size |-> items[k]] \in Seq(Range(items))
    BY <1>7, <2>1, IsASeq
  <2> QED
    BY <2>2, <2>3
<1> QED
  BY <1>1, <1>8, <1>9, <1>10, <1>11 DEF IsRanking

LEMMA FirstOfRanking ==
    ASSUME NEW c, NEW items, IsRanking(c, items), NEW limit \in Nat
    PROVE  IsRanking(c, FirstOnes(items, limit))
<1>1. Len(items) \in Nat /\ DOMAIN items = 1 .. Len(items) /\ \A i \in 1 .. Len(items) : items[i] \in Range(items)
  BY LenProperties DEF IsRanking, Range
<1>2. PICK m : m = Min({limit, Len(items)})
  OBVIOUS
<1>3. m \in 0 .. Len(items)
  BY <1>1, <1>2, MinOfTwo
<1>4. PICK first : first = FirstOnes(items, limit)
  OBVIOUS
<1>5. first = SubSeq(items, 1, m)
  BY <1>2, <1>4 DEF FirstOnes
<1>6. /\ first \in Seq(Range(items)) /\ Len(first) = m
      /\ \A i \in 1 .. m : first[i] = items[i]
  BY <1>1, <1>3, <1>5, SubSeqProperties
<1>7. DOMAIN first = 1 .. m /\ \A i \in DOMAIN first : i \in DOMAIN items /\ first[i] = items[i]
  BY <1>1, <1>3, <1>6, LenProperties
<1>8. first \in Seq(Range(first))
  <2>1. first \in [1 .. m -> Range(first)]
    <3>1. first \in [1 .. m -> Range(items)]
      BY <1>6, LenProperties
    <3> QED
      BY <1>7, <3>1 DEF Range
  <2>2. \A i \in 1 .. m : first[i] \in Range(first)
    BY <2>1
  <2>3. [i \in 1 .. m |-> first[i]] \in Seq(Range(first))
    BY <1>3, <2>2, IsASeq
  <2>4. first = [i \in 1 .. m |-> first[i]]
    BY <2>1
  <2> QED
    BY <2>3, <2>4
<1> QED
  BY <1>4, <1>7, <1>8 DEF IsRanking

IsListed(t) == IsToken(t) /\ t.id \in Ids

LEMMA ListedToday ==
    ASSUME clock \in Int, NEW t \in Now PROVE IsListed(Today(t))
<1>1. t \in Listed
  BY DEF Now
<1>2. /\ "volume" \in DOMAIN t /\ "age" \in DOMAIN t
      /\ t.volume \in Int /\ t.liquidity \in Int /\ t.change \in Int /\ t.txs \in Int
      /\ t.age \in Int /\ t.from \in Int /\ t.grown \in Int
  BY <1>1, ListedAssumption
<1>3. PICK now_ : now_ = Today(t)
  OBVIOUS
<1>4. /\ now_.volume = (IF clock > t.from THEN t.grown ELSE t.volume) /\ now_.age = t.age + 8 * (clock - t.from)
      /\ now_.liquidity = t.liquidity /\ now_.change = t.change /\ now_.txs = t.txs /\ now_.id = t.id
  <2>1. now_ = [t EXCEPT !.volume = IF clock > t.from THEN t.grown ELSE @, !.age = @ + 8 * (clock - t.from)]
    BY <1>3 DEF Today
  <2> QED
    BY <1>2, <2>1
<1>5. now_.volume \in Int /\ now_.age \in Int
  BY <1>2, <1>4
<1> QED
  BY <1>1, <1>2, <1>3, <1>4, <1>5 DEF IsListed, IsToken, Ids

\* A sorted list of a finite set of tokens.
LEMMA ListOfTokens ==
    ASSUME NEW S, IsFiniteSet(S), NEW R, IsStrict(S, R), NEW T, S \subseteq T
    PROVE  Sorted(S, R) \in Seq(T)
<1>1. PICK n, list : n = Cardinality(S) /\ list = Sorted(S, R)
  <2>1. \E n, list : n = Cardinality(S) /\ list = Sorted(S, R)
    OBVIOUS
  <2> QED
    BY <2>1
<1>2. n \in Nat /\ list \in [1 .. n -> S]
  BY <1>1, SortedList
<1>3. \A i \in 1 .. n : list[i] \in T
  BY <1>2
<1>4. [i \in 1 .. n |-> list[i]] \in Seq(T)
  BY <1>2, <1>3, IsASeq
<1>5. list = [i \in 1 .. n |-> list[i]]
  BY <1>2
<1> QED
  BY <1>1, <1>4, <1>5

LEMMA ListIsFinite ==
    ASSUME NEW source PROVE IsFiniteSet(ListOf(source))
<1>1. PICK N : N = {x \in Now : x.source = source}
  OBVIOUS
<1>2. IsFiniteSet(N)
  BY <1>1, ListedAssumption, FS_Subset DEF Now
<1>3. PICK f : f = [t \in N |-> Today(t)]
  OBVIOUS
<1>4. IsFiniteSet({f[x] : x \in N})
  BY <1>2, ImageIsFinite
<1>5. {f[x] : x \in N} = {Today(t) : t \in N}
  BY <1>3
<1> QED
  BY <1>1, <1>4, <1>5 DEF ListOf

TokensNow == {Today(t) : t \in Now}

LEMMA ProvidersList ==
    ASSUME clock \in Int, NEW source
    PROVE  FetchNewPools(source) \in Seq(TokensNow) /\ FetchBusiest(source) \in Seq(TokensNow)
<1>1. PICK L : L = ListOf(source)
  OBVIOUS
<1>2. IsFiniteSet(L) /\ L \subseteq TokensNow
  BY <1>1, ListIsFinite DEF ListOf, TokensNow
<1>3. \A t \in L : t.age \in Int /\ t.liquidity \in Int /\ t.volume \in Int
  BY <1>2, ListedToday DEF TokensNow, IsListed, IsToken
<1>4. FetchNewPools(source) \in Seq(TokensNow)
  <2> DEFINE R == {p \in L \X L : \/ p[1].age < p[2].age
                                  \/ p[1].age = p[2].age /\ p[1].liquidity > p[2].liquidity}
  <2>1. IsStrict(L, R)
    BY <1>3 DEF IsStrict
  <2>2. FetchNewPools(source) = Sorted(L, R)
    BY <1>1 DEF FetchNewPools
  <2> HIDE DEF R
  <2> QED
    BY <1>2, <2>1, <2>2, ListOfTokens
<1>5. FetchBusiest(source) \in Seq(TokensNow)
  <2> DEFINE R == {p \in L \X L : p[1].volume > p[2].volume}
  <2>1. IsStrict(L, R)
    BY <1>3 DEF IsStrict
  <2>2. FetchBusiest(source) = Sorted(L, R)
    BY <1>1 DEF FetchBusiest
  <2> HIDE DEF R
  <2> QED
    BY <1>2, <2>1, <2>2, ListOfTokens
<1> QED
  BY <1>4, <1>5

LEMMA PairsList ==
    ASSUME clock \in Int, NEW since, \A t \in Now : Cex(t) => since[t.id] \in Int
    PROVE  \E T : FetchRecent(since) \in Seq(T) /\ \A t \in T : IsListed(t)
<1>1. PICK N : N = {x \in {t \in Now : Cex(t)} : 8 * (clock - since[x.id]) <= 168}
  OBVIOUS
<1>2. IsFiniteSet(N)
  BY <1>1, ListedAssumption, FS_Subset DEF Now
<1>3. PICK f : f = [t \in N |-> [t EXCEPT !.age = 8 * (clock - since[t.id])]]
  OBVIOUS
<1>4. PICK L : L = {f[x] : x \in N}
  OBVIOUS
<1>5. IsFiniteSet(L)
  BY <1>2, <1>4, ImageIsFinite
<1>6. ASSUME NEW t \in N PROVE IsListed(f[t])
  <2>1. t \in Listed /\ since[t.id] \in Int
    BY <1>1 DEF Now
  <2>2. /\ "age" \in DOMAIN t
        /\ t.volume \in Int /\ t.liquidity \in Int /\ t.change \in Int /\ t.txs \in Int
    BY <2>1, ListedAssumption
  <2>3. /\ f[t].age = 8 * (clock - since[t.id]) /\ f[t].volume = t.volume /\ f[t].liquidity = t.liquidity
        /\ f[t].change = t.change /\ f[t].txs = t.txs /\ f[t].id = t.id
    <3>1. f[t] = [t EXCEPT !.age = 8 * (clock - since[t.id])]
      BY <1>3
    <3> QED
      BY <2>2, <3>1
  <2>4. f[t].age \in Int
    BY <2>1, <2>3
  <2> QED
    BY <2>1, <2>2, <2>3, <2>4 DEF IsListed, IsToken, Ids
<1>7. \A t \in L : IsListed(t)
  BY <1>4, <1>6
<1>8. L = Recent({t \in Now : Cex(t)}, since)
  BY <1>1, <1>3, <1>4 DEF Recent
<1> DEFINE R == {p \in L \X L : p[1].age < p[2].age}
<1>9. IsStrict(L, R)
  BY <1>7 DEF IsStrict, IsListed, IsToken
<1>10. FetchRecent(since) = Sorted(L, R)
  BY <1>8 DEF FetchRecent
<1> HIDE DEF R
<1>11. FetchRecent(since) \in Seq(L)
  BY <1>5, <1>9, <1>10, ListOfTokens
<1> QED
  BY <1>7, <1>11

\* Whatever answers, what the scan is given is a list of listed tokens.
LEMMA RawIsAList ==
    ASSUME clock \in Int, NEW c \in Categories, NEW answering, NEW since,
           c = "new_cex" => \A t \in Now : Cex(t) => since[t.id] \in Int
    PROVE  \E n \in Nat : /\ DOMAIN Raw(c, answering, since) = 1 .. n
                          /\ \A i \in 1 .. n : IsListed(Raw(c, answering, since)[i])
<1>1. PICK raw : raw = Raw(c, answering, since)
  OBVIOUS
<1>2. \E T : raw \in Seq(T) /\ \A t \in T : IsListed(t)
  <2>1. CASE c = "new_cex"
    BY <1>1, <2>1, PairsList DEF Raw
  <2>2. CASE c # "new_cex"
    <3> DEFINE List(source) == CASE source \notin answering -> <<>>
                  [] source \in answering /\ source = "new_pools" -> FetchNewPools(source)
                  [] source \in answering /\ source # "new_pools" -> FetchBusiest(source)
               lists == [i \in DOMAIN Providers[c] |-> List(Providers[c][i])]
    <3>1. raw = FlattenSeq(lists)
      BY <1>1, <2>2 DEF Raw
    <3>2. \A source : List(source) \in Seq(TokensNow)
      BY ProvidersList, EmptySeq
    <3>3. PICK n \in Nat : DOMAIN Providers[c] = 1 .. n
      BY ListedAssumption, LenProperties
    <3> HIDE DEF List
    <3>4. \A i \in 1 .. n : List(Providers[c][i]) \in Seq(TokensNow)
      BY <3>2
    <3>5. [i \in 1 .. n |-> List(Providers[c][i])] \in Seq(Seq(TokensNow))
      BY <3>4, IsASeq
    <3>6. lists \in Seq(Seq(TokensNow))
      BY <3>3, <3>5
    <3>7. raw \in Seq(TokensNow)
      <4> HIDE DEF lists
      <4> QED
        BY <3>1, <3>6, FlatList
    <3>8. \A t \in TokensNow : IsListed(t)
      BY ListedToday DEF TokensNow
    <3> QED
      BY <3>7, <3>8
  <2> QED
    BY <2>1, <2>2
<1>3. PICK T : raw \in Seq(T) /\ \A t \in T : IsListed(t)
  BY <1>2
<1>4. Len(raw) \in Nat /\ DOMAIN raw = 1 .. Len(raw) /\ \A i \in 1 .. Len(raw) : raw[i] \in T
  BY <1>3, LenProperties, ElementOfSeq
<1> QED
  BY <1>1, <1>3, <1>4

(* What is ranked when it is built stays ranked in the line and in the table. *)

IsResult(r) ==
    /\ IsRanking(r.category, r.items)
    /\ \A x \in Range(r.recorded) : x.token.volume \in Int

RankInv ==
    /\ clock \in Nat
    /\ \A i \in Ids : seen[i] # Nothing => seen[i] \in Int
    /\ \A i \in Ids : volumes[i] # Nothing => volumes[i].volume \in Int
    /\ \A p \in Scanners : scan[p].limit \in Nat
    /\ \A p \in Scanners : scan[p].pc \in {"wait", "save"} => IsResult(scan[p].result)
    /\ \A c \in Categories : snapshots[c] # Nothing => IsRanking(c, snapshots[c].items)

LEMMA FirstSeen ==
    ASSUME RankInv, NEW ids
    PROVE  /\ \A i \in Ids : SeenNow(ids)[i] # Nothing => SeenNow(ids)[i] \in Int
           /\ \A i \in ids \cap Ids : SeenNow(ids)[i] \in Int
BY DEF SeenNow, RankInv

LEMMA SurgeType ==
    ASSUME RankInv, NEW t, IsListed(t) PROVE SurgeOf(t) \in Int
<1>1. t.volume \in Int /\ t.id \in Ids
  BY DEF IsListed, IsToken
<1>2. PICK was : was = volumes[t.id]
  OBVIOUS
<1>3. CASE Cex(t) \/ ~ Live(was) \/ was.volume <= 0
  BY <1>2, <1>3 DEF SurgeOf
<1>4. CASE ~ (Cex(t) \/ ~ Live(was) \/ was.volume <= 0)
  <2>1. was.volume \in Int
    BY <1>1, <1>2, <1>4 DEF RankInv, Live
  <2>2. was.volume > 0
    BY <1>4, <2>1
  <2>3. (t.volume - was.volume) * 100 \in Int
    BY <1>1, <2>1
  <2>4. \A a, b \in Int : b > 0 => a \div b \in Int
    OBVIOUS
  <2>5. ((t.volume - was.volume) * 100) \div was.volume \in Int
    BY <2>1, <2>2, <2>3, <2>4
  <2> QED
    BY <1>2, <1>4, <2>5 DEF SurgeOf
<1> QED
  BY <1>3, <1>4

\* What Build gives to the lock is a ranking of its category.
LEMMA BuiltIsRanked ==
    ASSUME DiscoveryInv, RankInv, NEW p \in Scanners, NEW silent, Build(p, silent)
    PROVE  /\ IsResult(scan'[p].result)
           /\ \A i \in Ids : seen'[i] # Nothing => seen'[i] \in Int
           /\ scan'[p].limit = scan[p].limit /\ \A q \in Scanners \ {p} : scan'[q] = scan[q]
<1> DEFINE c == Category(p)
           since == IF c = "new_cex" THEN SeenNow(Pairs) ELSE seen
           raw == Raw(c, SourcesOf(c) \ silent, since)
           surge == [t \in Range(raw) |-> SurgeOf(t)]
           ranked == Ranked(c, raw, scan[p].chain, surge)
           result == [category |-> c, items |-> FirstOnes(ranked, scan[p].limit), at |-> clock, no |-> made + 1,
                      recorded |-> IF c = "surging" THEN ranked ELSE FirstOnes(ranked, scan[p].limit)]
<1>1. /\ seen' = since
      /\ scan' = [scan EXCEPT ![p].pc = IF MayEnter(p) THEN "save" ELSE "wait", ![p].result = result]
      /\ scan[p].pc = "fetch"
  BY DEF Build
<1>2. c \in Categories
  BY <1>1, CategoryType
<1>3. clock \in Int /\ scan[p].limit \in Nat
  BY DEF RankInv
<1>4. \A i \in Ids : since[i] # Nothing => since[i] \in Int
  BY FirstSeen DEF RankInv
<1>5. c = "new_cex" => \A t \in Now : Cex(t) => since[t.id] \in Int
  <2>1. ASSUME c = "new_cex", NEW t \in Now, Cex(t) PROVE since[t.id] \in Int
    <3>1. t.id \in Pairs \cap Ids
      BY <2>1 DEF Pairs, Ids, Now
    <3> QED
      BY <2>1, <3>1, FirstSeen
  <2> QED
    BY <2>1
<1> HIDE DEF c, since
<1>6. PICK n \in Nat : DOMAIN raw = 1 .. n /\ \A i \in 1 .. n : IsListed(raw[i])
  BY <1>2, <1>3, <1>5, RawIsAList
<1> HIDE DEF raw
<1>7. \A i \in 1 .. n : IsToken(raw[i]) /\ surge[raw[i]] \in Int
  <2>1. ASSUME NEW i \in 1 .. n PROVE IsToken(raw[i]) /\ surge[raw[i]] \in Int
    <3>1. raw[i] \in Range(raw) /\ IsListed(raw[i])
      BY <1>6 DEF Range
    <3>2. surge[raw[i]] = SurgeOf(raw[i])
      BY <3>1
    <3>3. SurgeOf(raw[i]) \in Int
      BY <3>1, SurgeType
    <3> QED
      BY <3>1, <3>2, <3>3 DEF IsListed
  <2> QED
    BY <2>1
<1> HIDE DEF surge
<1>8. IsRanking(c, ranked)
  BY <1>6, <1>7, ScanIsRanked
<1> HIDE DEF ranked
<1>9. IsRanking(c, FirstOnes(ranked, scan[p].limit))
  BY <1>3, <1>8, FirstOfRanking
<1>10. \A items : IsRanking(c, items) => \A x \in Range(items) : x.token.volume \in Int
  BY DEF IsRanking, IsEntry, Range
<1>11. /\ result.category = c /\ result.items = FirstOnes(ranked, scan[p].limit)
       /\ result.recorded \in {ranked, FirstOnes(ranked, scan[p].limit)}
  OBVIOUS
<1> HIDE DEF result
<1>12. IsResult(result)
  BY <1>8, <1>9, <1>10, <1>11 DEF IsResult
<1>13. DOMAIN scan = Scanners /\ IsScan(scan[p])
  BY DEF DiscoveryInv, ScansInv
<1>14. /\ scan'[p].result = result /\ scan'[p].limit = scan[p].limit
       /\ \A q \in Scanners \ {p} : scan'[q] = scan[q]
  BY <1>1, <1>13 DEF IsScan
<1> QED
  BY <1>1, <1>4, <1>12, <1>14

Timed(f) == \A i \in Ids : f[i] # Nothing => f[i] \in Int
Measured(f) == \A i \in Ids : f[i] # Nothing => f[i].volume \in Int
RankedScan(x) == x.limit \in Nat /\ (x.pc \in {"wait", "save"} => IsResult(x.result))
RankedRow(c, row) == row # Nothing => IsRanking(c, row.items)

LEMMA RankParts ==
    RankInv <=> /\ clock \in Nat /\ Timed(seen) /\ Measured(volumes)
                /\ \A p \in Scanners : RankedScan(scan[p])
                /\ \A c \in Categories : RankedRow(c, snapshots[c])
BY DEF RankInv, Timed, Measured, RankedScan, RankedRow

LEMMA RankPartsAfter ==
    ASSUME clock' \in Nat, Timed(seen'), Measured(volumes'),
           \A p \in Scanners : RankedScan(scan'[p]),
           \A c \in Categories : RankedRow(c, snapshots'[c])
    PROVE  RankInv'
BY DEF RankInv, Timed, Measured, RankedScan, RankedRow

LEMMA RankedFresh == RankedScan(NoScan)
BY DEF RankedScan, NoScan

LEMMA RecordedType ==
    ASSUME RankInv, NEW items, \A x \in Range(items) : x.token.volume \in Int
    PROVE  Measured(Recorded(items))
<1>1. ASSUME NEW i \in Ids, Recorded(items)[i] # Nothing PROVE Recorded(items)[i].volume \in Int
  <2>1. CASE \E x \in Range(items) : x.token.id = i /\ ~ Cex(x.token)
    <3>1. PICK y : y = CHOOSE x \in Range(items) : x.token.id = i
      OBVIOUS
    <3>2. y \in Range(items)
      BY <2>1, <3>1
    <3>3. Recorded(items)[i].volume = y.token.volume
      BY <2>1, <3>1 DEF Recorded
    <3> QED
      BY <3>2, <3>3
  <2>2. CASE ~ \E x \in Range(items) : x.token.id = i /\ ~ Cex(x.token)
    <3>1. Recorded(items)[i] = volumes[i]
      BY <2>2 DEF Recorded
    <3> QED
      BY <1>1, <3>1 DEF RankInv
  <2> QED
    BY <2>1, <2>2
<1> QED
  BY <1>1 DEF Measured

LEMMA RankedNext ==
    ASSUME DiscoveryInv, RankInv, NEW p \in Scanners, scan[p].pc # "idle", scan' = NextCategory(p)
    PROVE  \A q \in Scanners : RankedScan(scan'[q])
<1>1. /\ DOMAIN scan' = Scanners /\ \A q \in Scanners \ {p} : scan'[q] = scan[q]
      /\ scan'[p].pc \in {"idle", "fetch"}
  BY NextCategoryShape
<1>2. scan'[p].limit \in Nat
  <2>1. DOMAIN scan = Scanners /\ IsScan(scan[p]) /\ scan[p].limit \in Nat
    BY DEF DiscoveryInv, ScansInv, RankInv
  <2>2. scan'[p] = RestOf(scan[p])
    <3>1. DOMAIN scan = Scanners
      BY <2>1
    <3> QED
      BY <3>1 DEF NextCategory
  <2>3. CASE Len(scan[p].todo) = 1
    <3>1. scan'[p] = NoScan
      BY <2>2, <2>3 DEF RestOf
    <3> QED
      BY <3>1, RankedFresh DEF RankedScan
  <2>4. CASE Len(scan[p].todo) # 1
    BY <2>1, <2>2, <2>4 DEF RestOf, IsScan
  <2> QED
    BY <2>3, <2>4
<1> QED
  BY <1>1, <1>2, RankParts DEF RankedScan

LEMMA SaveRanked ==
    ASSUME DiscoveryInv, RankInv, NEW p \in Scanners, Save(p) \/ SaveFails(p) PROVE RankInv'
<1>1. /\ scan[p].pc = "save" /\ scan' = NextCategory(p) /\ UNCHANGED <<clock, seen>>
      /\ volumes' \in {volumes, Recorded(scan[p].result.recorded)}
      /\ snapshots' \in {snapshots, [snapshots EXCEPT ![Category(p)] = scan[p].result]}
  BY DEF Save, SaveFails
<1>2. IsResult(scan[p].result)
  BY <1>1 DEF RankInv
<1>3. scan[p].result.category = Category(p)
  <2>1. PICK i \in DOMAIN line : line[i] = p
    BY <1>1 DEF DiscoveryInv, LineInv
  <2> QED
    BY <2>1 DEF DiscoveryInv, OrderInv, Category
<1>4. Measured(volumes')
  BY <1>1, <1>2, RecordedType, RankParts DEF IsResult
<1>5. \A q \in Scanners : RankedScan(scan'[q])
  BY <1>1, RankedNext
<1>6. \A c \in Categories : RankedRow(c, snapshots'[c])
  <2>1. DOMAIN snapshots = Categories
    BY DEF DiscoveryInv, ScansInv
  <2>2. IsRanking(Category(p), scan[p].result.items)
    BY <1>2, <1>3 DEF IsResult
  <2>3. ASSUME NEW c \in Categories PROVE snapshots'[c] = snapshots[c] \/ (c = Category(p) /\ snapshots'[c] = scan[p].result)
    BY <1>1, <2>1
  <2> QED
    BY <2>2, <2>3, RankParts DEF RankedRow
<1> QED
  BY <1>1, <1>4, <1>5, <1>6, RankParts, RankPartsAfter

LEMMA RankStep ==
    ASSUME DiscoveryInv, RankInv, [DiscoveryNext]_discoveryVars PROVE RankInv'
<1>1. DOMAIN scan = Scanners /\ \A p \in Scanners : IsScan(scan[p])
  BY DEF DiscoveryInv, ScansInv
<1>2. Timed(SeenNow(Pairs))
  BY FirstSeen DEF Timed
<1>3. ASSUME NEW p \in Scanners, NEW todo, NEW chain, NEW limit \in Nat, Begin(p, todo, chain, limit),
             seen' \in {seen, SeenNow(Pairs)}
      PROVE  RankInv'
  <2>1. /\ UNCHANGED <<clock, volumes, snapshots>>
        /\ scan' = [scan EXCEPT ![p] = [NoScan EXCEPT !.pc = "fetch", !.todo = todo, !.chain = chain, !.limit = limit]]
    BY <1>3 DEF Begin
  <2>2. /\ scan'[p].pc = "fetch" /\ scan'[p].limit = limit
        /\ \A q \in Scanners \ {p} : scan'[q] = scan[q]
    BY <1>1, <2>1 DEF NoScan
  <2>3. \A q \in Scanners : RankedScan(scan'[q])
    BY <1>3, <2>2, RankParts DEF RankedScan
  <2> QED
    BY <1>2, <1>3, <2>1, <2>3, RankParts, RankPartsAfter
<1>4. ASSUME NEW p \in Scanners, BeginFull(p) PROVE RankInv'
  <2>1. Begin(p, FullScan, "", 50) /\ seen' \in {seen, SeenNow(Pairs)}
    BY <1>4 DEF BeginFull
  <2>2. 50 \in Nat
    OBVIOUS
  <2> QED
    BY <1>3, <2>1, <2>2
<1>5. ASSUME NEW q \in Refreshes, BeginRefresh(q.category, q.chain, q.limit) PROVE RankInv'
  <2>1. /\ Begin("refresh", <<q.category>>, IF q.category = "new_cex" THEN "" ELSE q.chain, q.limit)
        /\ seen' = seen /\ q.limit \in Nat /\ "refresh" \in Scanners
    BY <1>5, RequestsAssumption DEF BeginRefresh, Scanners
  <2> QED
    BY <1>3, <2>1
<1>6. ASSUME NEW p \in Scanners, CatalogFails(p) PROVE RankInv'
  <2>1. scan[p].pc = "fetch" /\ scan' = NextCategory(p) /\ UNCHANGED <<clock, snapshots, volumes, seen>>
    BY <1>6 DEF CatalogFails
  <2>2. \A q \in Scanners : RankedScan(scan'[q])
    BY <2>1, RankedNext
  <2> QED
    BY <2>1, <2>2, RankParts, RankPartsAfter
<1>7. ASSUME NEW p \in Scanners, Enter(p) PROVE RankInv'
  <2>1. /\ scan[p].pc = "wait" /\ scan' = [scan EXCEPT ![p].pc = "save"]
        /\ UNCHANGED <<clock, snapshots, volumes, seen>>
    BY <1>7 DEF Enter
  <2>2. /\ scan'[p].limit = scan[p].limit /\ scan'[p].result = scan[p].result
        /\ \A q \in Scanners \ {p} : scan'[q] = scan[q]
    BY <1>1, <2>1 DEF IsScan
  <2>3. \A q \in Scanners : RankedScan(scan'[q])
    BY <2>1, <2>2, RankParts DEF RankedScan
  <2> QED
    BY <2>1, <2>3, RankParts, RankPartsAfter
<1>8. ASSUME NEW p \in Scanners, NEW silent, Build(p, silent) PROVE RankInv'
  <2>1. UNCHANGED <<clock, snapshots, volumes>>
    BY <1>8 DEF Build
  <2>2. /\ IsResult(scan'[p].result) /\ Timed(seen')
        /\ scan'[p].limit = scan[p].limit /\ \A q \in Scanners \ {p} : scan'[q] = scan[q]
    BY <1>8, BuiltIsRanked DEF Timed
  <2>3. \A q \in Scanners : RankedScan(scan'[q])
    BY <2>2, RankParts DEF RankedScan
  <2> QED
    BY <2>1, <2>2, <2>3, RankParts, RankPartsAfter
<1>9. CASE Passes \/ DeleteStale
  <2>1. UNCHANGED <<scan, volumes, seen>> /\ clock' \in Nat
    BY <1>9 DEF Passes, DeleteStale, RankInv
  <2>2. \A c \in Categories : snapshots'[c] \in {Nothing, snapshots[c]}
    BY <1>9 DEF Passes, DeleteStale
  <2>3. \A c \in Categories : RankedRow(c, snapshots'[c])
    BY <2>2, RankParts DEF RankedRow
  <2> QED
    BY <2>1, <2>3, RankParts, RankPartsAfter
<1>10. CASE Reboot
  <2>1. /\ UNCHANGED <<clock, snapshots>> /\ Timed(seen') /\ Measured(volumes')
        /\ \A p \in Scanners : scan'[p] = NoScan
    BY <1>10 DEF Reboot, Timed, Measured
  <2> QED
    BY <2>1, RankedFresh, RankParts, RankPartsAfter
<1>11. CASE UNCHANGED <<clock, seen, volumes, scan, snapshots>>
  BY <1>11, RankParts, RankPartsAfter
<1>12. \/ UNCHANGED <<clock, seen, volumes, scan, snapshots>>
       \/ \E p \in Scanners : BeginFull(p) \/ CatalogFails(p) \/ Enter(p) \/ Save(p) \/ SaveFails(p)
       \/ \E q \in Refreshes : BeginRefresh(q.category, q.chain, q.limit)
       \/ \E p \in Scanners : \E silent : Build(p, silent)
       \/ Passes \/ DeleteStale \/ Reboot
  BY DEF DiscoveryNext, discoveryVars, Ask, Fill
<1> QED
  BY <1>4, <1>5, <1>6, <1>7, <1>8, <1>9, <1>10, <1>11, <1>12, SaveRanked

\* Whatever fails and however scans overlap: a full scan that ends has tried
\* every category, the lock's line holds who waits or saves, and a row of the
\* table lists no token twice and none above one it must follow.
THEOREM ScansStayWhole == DiscoverySpec => []ScansAreWhole
<1>1. DiscoveryInit => RankInv
  <2> SUFFICES ASSUME DiscoveryInit PROVE RankInv
    OBVIOUS
  <2>1. clock = 0 /\ Timed(seen) /\ Measured(volumes)
        /\ (\A p \in Scanners : scan[p] = NoScan) /\ \A c \in Categories : snapshots[c] = Nothing
    BY DEF DiscoveryInit, Timed, Measured
  <2> QED
    BY <2>1, RankParts, RankedFresh DEF RankedRow
<1>2. DiscoverySpec => []RankInv
  BY <1>1, RankStep, DiscoveryInvariance, PTL DEF DiscoverySpec
<1> DEFINE Whole == /\ \A p \in {"job", "admin"} : scan[p].pc = "idle" => tries[p] \in {{}, Categories}
                    /\ \A p \in Scanners : p \in Range(line) <=> scan[p].pc \in {"wait", "save"}
<1>3. RankInv /\ Whole => ScansAreWhole
  BY DEF RankInv, ScansAreWhole, IsRanking
<1> QED
  BY <1>2, <1>3, FullScansTryAll, PTL

(************************** Sums over finite sets **************************)
(* What SumFunction adds up does not depend on the order it adds in, and a   *)
(* sum over a set is the sum of those over the parts of the set.             *)

Pick(T) == CHOOSE x \in T : TRUE
Adds(g, f, S) == g = [T \in SUBSET S |-> IF T = {} THEN 0 ELSE f[Pick(T)] + g[T \ {Pick(T)}]]
Sum(f, S) == (CHOOSE g : Adds(g, f, S))[S]

LEMMA PickIn == ASSUME NEW T, T # {} PROVE Pick(T) \in T
BY DEF Pick

LEMMA SumFunctionIsSum == \A f : SumFunction(f) = Sum(f, DOMAIN f)
BY DEF SumFunction, SumFunctionOnSet, FoldFunctionOnSet, MapThenFoldSet, Sum, Adds, Pick

\* Two functions with the same values on a set have the same sum over it.
LEMMA OneSum ==
    ASSUME NEW S, IsFiniteSet(S), NEW R, S \subseteq R, NEW f1, NEW f2, \A x \in S : f1[x] = f2[x],
           NEW g, NEW h, Adds(g, f1, S), Adds(h, f2, R)
    PROVE  \A T \in SUBSET S : g[T] = h[T]
<1> DEFINE Bad == {T \in SUBSET S : g[T] # h[T]}
<1> SUFFICES ASSUME Bad # {} PROVE FALSE
  OBVIOUS
<1>1. PICK T \in Bad : \A U \in Bad : U \subseteq T => U = T
  <2>1. Bad \in SUBSET SUBSET S
    OBVIOUS
  <2> HIDE DEF Bad
  <2> QED
    BY <2>1, MinimalSubset
<1>2. /\ g[T] = IF T = {} THEN 0 ELSE f1[Pick(T)] + g[T \ {Pick(T)}]
      /\ h[T] = IF T = {} THEN 0 ELSE f2[Pick(T)] + h[T \ {Pick(T)}]
  <2>1. T \in SUBSET S /\ T \in SUBSET R
    BY <1>1
  <2>2. g[T] = IF T = {} THEN 0 ELSE f1[Pick(T)] + g[T \ {Pick(T)}]
    BY <2>1 DEF Adds
  <2>3. h[T] = IF T = {} THEN 0 ELSE f2[Pick(T)] + h[T \ {Pick(T)}]
    BY <2>1 DEF Adds
  <2> QED
    BY <2>2, <2>3
<1>3. T # {} => g[T \ {Pick(T)}] = h[T \ {Pick(T)}] /\ f1[Pick(T)] = f2[Pick(T)]
  BY <1>1, PickIn
<1> QED
  BY <1>1, <1>2, <1>3

LEMMA SumExists ==
    ASSUME NEW f, NEW S, IsFiniteSet(S) PROVE \E g : Adds(g, f, S)
<1> DEFINE Bad == {T \in SUBSET S : ~ \E g : Adds(g, f, T)}
<1> SUFFICES ASSUME Bad # {} PROVE FALSE
  OBVIOUS
<1>1. PICK U \in Bad : \A V \in Bad : V \subseteq U => V = U
  <2>1. Bad \in SUBSET SUBSET S
    OBVIOUS
  <2> HIDE DEF Bad
  <2> QED
    BY <2>1, MinimalSubset
<1> DEFINE Some(V) == CHOOSE g : Adds(g, f, V)
           h == [T \in SUBSET U |-> IF T = {} THEN 0 ELSE f[Pick(T)] + Some(T \ {Pick(T)})[T \ {Pick(T)}]]
<1>2. \A V \in SUBSET U : V # U => Adds(Some(V), f, V) /\ IsFiniteSet(V)
  <2> SUFFICES ASSUME NEW V \in SUBSET U, V # U PROVE Adds(Some(V), f, V) /\ IsFiniteSet(V)
    OBVIOUS
  <2>1. IsFiniteSet(V)
    BY <1>1, FS_Subset
  <2>2. \E g : Adds(g, f, V)
    BY <1>1
  <2> QED
    BY <2>1, <2>2
<1>3. ASSUME NEW V \in SUBSET U, V # U PROVE h[V] = Some(V)[V]
  <2>1. Adds(Some(V), f, V) /\ IsFiniteSet(V)
    BY <1>2, <1>3
  <2>2. Some(V)[V] = IF V = {} THEN 0 ELSE f[Pick(V)] + Some(V)[V \ {Pick(V)}]
    <3> HIDE DEF Some
    <3> QED
      BY <2>1 DEF Adds
  <2>3. h[V] = IF V = {} THEN 0 ELSE f[Pick(V)] + Some(V \ {Pick(V)})[V \ {Pick(V)}]
    OBVIOUS
  <2>4. ASSUME V # {} PROVE Some(V \ {Pick(V)})[V \ {Pick(V)}] = Some(V)[V \ {Pick(V)}]
    <3>1. PICK W : W = V \ {Pick(V)}
      OBVIOUS
    <3>2. W \in SUBSET U /\ W # U /\ W \subseteq V /\ W \in SUBSET W
      BY <2>4, <3>1, PickIn
    <3>3. Adds(Some(W), f, W) /\ IsFiniteSet(W)
      BY <1>2, <3>2
    <3> HIDE DEF Some, h
    <3>4. Some(W)[W] = Some(V)[W]
      BY <2>1, <3>2, <3>3, OneSum
    <3> QED
      BY <3>1, <3>4
  <2> HIDE DEF Some, h
  <2> QED
    BY <2>2, <2>3, <2>4
<1>4. \A T \in SUBSET U : h[T] = IF T = {} THEN 0 ELSE f[Pick(T)] + h[T \ {Pick(T)}]
  <2> SUFFICES ASSUME NEW T \in SUBSET U
               PROVE  h[T] = IF T = {} THEN 0 ELSE f[Pick(T)] + h[T \ {Pick(T)}]
    OBVIOUS
  <2>1. h[T] = IF T = {} THEN 0 ELSE f[Pick(T)] + Some(T \ {Pick(T)})[T \ {Pick(T)}]
    <3> HIDE DEF Some
    <3> QED
      OBVIOUS
  <2>2. T # {} => T \ {Pick(T)} \in SUBSET U /\ T \ {Pick(T)} # U
    BY PickIn
  <2> HIDE DEF h, Some
  <2> QED
    BY <1>3, <2>1, <2>2
<1>5. h = [T \in SUBSET U |-> IF T = {} THEN 0 ELSE f[Pick(T)] + h[T \ {Pick(T)}]]
  <2>1. h = [T \in SUBSET U |-> h[T]]
    OBVIOUS
  <2> HIDE DEF h
  <2> QED
    BY <1>4, <2>1
<1>6. Adds(h, f, U)
  <2> HIDE DEF h
  <2> QED
    BY <1>5 DEF Adds
<1> QED
  BY <1>1, <1>6

LEMMA SameSum ==
    ASSUME NEW S, IsFiniteSet(S), NEW f1, NEW f2, \A x \in S : f1[x] = f2[x]
    PROVE  Sum(f1, S) = Sum(f2, S)
<1>1. PICK g, h : g = (CHOOSE g1 : Adds(g1, f1, S)) /\ h = (CHOOSE h2 : Adds(h2, f2, S))
  <2>1. \E g : g = CHOOSE g1 : Adds(g1, f1, S)
    OBVIOUS
  <2>2. \E h : h = CHOOSE h2 : Adds(h2, f2, S)
    OBVIOUS
  <2> QED
    BY <2>1, <2>2
<1>2. Adds(g, f1, S) /\ Adds(h, f2, S)
  BY <1>1, SumExists
<1>3. g[S] = h[S]
  <2>1. S \in SUBSET S /\ S \subseteq S
    OBVIOUS
  <2> QED
    BY <1>2, <2>1, OneSum
<1> QED
  BY <1>1, <1>3 DEF Sum

\* What the sum of a set is: from that of the set without one element.
LEMMA SumByPick ==
    ASSUME NEW f, NEW S, IsFiniteSet(S)
    PROVE  Sum(f, S) = IF S = {} THEN 0 ELSE f[Pick(S)] + Sum(f, S \ {Pick(S)})
<1>1. PICK T : T = S \ {Pick(S)}
  OBVIOUS
<1>2. IsFiniteSet(T) /\ T \subseteq S /\ T \in SUBSET T
  BY <1>1, FS_Subset
<1>3. PICK g : g = CHOOSE h : Adds(h, f, S)
  OBVIOUS
<1>4. PICK h : h = CHOOSE g2 : Adds(g2, f, T)
  OBVIOUS
<1>5. Adds(g, f, S) /\ Adds(h, f, T)
  BY <1>2, <1>3, <1>4, SumExists
<1>6. g[S] = IF S = {} THEN 0 ELSE f[Pick(S)] + g[T]
  BY <1>1, <1>5 DEF Adds
<1>7. h[T] = g[T]
  BY <1>2, <1>5, OneSum
<1> QED
  BY <1>1, <1>3, <1>4, <1>6, <1>7 DEF Sum

LEMMA SumOfNone == \A f : Sum(f, {}) = 0
BY SumByPick, FS_EmptySet

LEMMA SumIsInt ==
    ASSUME NEW f, NEW S, IsFiniteSet(S), \A x \in S : f[x] \in Int PROVE Sum(f, S) \in Int
<1> DEFINE Bad == {T \in SUBSET S : Sum(f, T) \notin Int}
<1> SUFFICES ASSUME Bad # {} PROVE FALSE
  <2>1. S \in SUBSET S
    OBVIOUS
  <2> QED
    BY <2>1
<1>1. PICK T \in Bad : \A U \in Bad : U \subseteq T => U = T
  <2>1. Bad \in SUBSET SUBSET S
    OBVIOUS
  <2> HIDE DEF Bad
  <2> QED
    BY <2>1, MinimalSubset
<1>2. IsFiniteSet(T)
  BY <1>1, FS_Subset
<1>3. T # {} /\ Sum(f, T) = f[Pick(T)] + Sum(f, T \ {Pick(T)})
  BY <1>1, <1>2, SumByPick
<1>4. T \ {Pick(T)} \notin Bad
  BY <1>1, <1>3, PickIn
<1>5. Sum(f, T \ {Pick(T)}) \in Int /\ f[Pick(T)] \in Int
  BY <1>1, <1>3, <1>4, PickIn
<1> QED
  BY <1>1, <1>3, <1>5

LEMMA SumIsNat ==
    ASSUME NEW f, NEW S, IsFiniteSet(S), \A x \in S : f[x] \in Nat PROVE Sum(f, S) \in Nat
<1> DEFINE Bad == {T \in SUBSET S : Sum(f, T) \notin Nat}
<1> SUFFICES ASSUME Bad # {} PROVE FALSE
  <2>1. S \in SUBSET S
    OBVIOUS
  <2> QED
    BY <2>1
<1>1. PICK T \in Bad : \A U \in Bad : U \subseteq T => U = T
  <2>1. Bad \in SUBSET SUBSET S
    OBVIOUS
  <2> HIDE DEF Bad
  <2> QED
    BY <2>1, MinimalSubset
<1>2. IsFiniteSet(T)
  BY <1>1, FS_Subset
<1>3. T # {} /\ Sum(f, T) = f[Pick(T)] + Sum(f, T \ {Pick(T)})
  BY <1>1, <1>2, SumByPick
<1>4. T \ {Pick(T)} \notin Bad
  BY <1>1, <1>3, PickIn
<1>5. Sum(f, T \ {Pick(T)}) \in Nat /\ f[Pick(T)] \in Nat
  BY <1>1, <1>3, <1>4, PickIn
<1> QED
  BY <1>1, <1>3, <1>5

\* The order in which a sum is taken makes no difference.
LEMMA SumWithout ==
    ASSUME NEW f, NEW S, IsFiniteSet(S), \A x \in S : f[x] \in Int, NEW y \in S
    PROVE  Sum(f, S) = f[y] + Sum(f, S \ {y})
<1> DEFINE Bad == {T \in SUBSET S : \E x \in T : Sum(f, T) # f[x] + Sum(f, T \ {x})}
<1> SUFFICES ASSUME Bad # {} PROVE FALSE
  <2>1. S \in SUBSET S
    OBVIOUS
  <2> QED
    BY <2>1
<1>1. PICK T \in Bad : \A U \in Bad : U \subseteq T => U = T
  <2>1. Bad \in SUBSET SUBSET S
    OBVIOUS
  <2> HIDE DEF Bad
  <2> QED
    BY <2>1, MinimalSubset
<1>2. PICK x \in T : Sum(f, T) # f[x] + Sum(f, T \ {x})
  BY <1>1
<1>3. PICK z : z = Pick(T)
  OBVIOUS
<1>4. /\ T \in SUBSET S /\ IsFiniteSet(T) /\ T # {} /\ z \in T
      /\ IsFiniteSet(T \ {x}) /\ IsFiniteSet(T \ {z}) /\ IsFiniteSet(T \ {x, z})
  <2>1. T \in SUBSET S /\ T # {} /\ z \in T
    BY <1>1, <1>2, <1>3, PickIn
  <2>2. T \ {x} \in SUBSET S /\ T \ {z} \in SUBSET S /\ T \ {x, z} \in SUBSET S
    BY <2>1
  <2> QED
    BY <2>1, <2>2, FS_Subset
<1>5. Sum(f, T) = f[z] + Sum(f, T \ {z})
  BY <1>3, <1>4, SumByPick
<1>6. x # z
  BY <1>2, <1>5
<1>7. Sum(f, T \ {z}) = f[x] + Sum(f, T \ {x, z})
  <2>1. T \ {z} \in SUBSET S /\ T \ {z} \notin Bad /\ x \in T \ {z}
    BY <1>1, <1>4, <1>6
  <2>2. (T \ {z}) \ {x} = T \ {x, z}
    OBVIOUS
  <2> QED
    BY <2>1, <2>2
<1>8. Sum(f, T \ {x}) = f[z] + Sum(f, T \ {x, z})
  <2>1. T \ {x} \in SUBSET S /\ T \ {x} \notin Bad /\ z \in T \ {x}
    BY <1>1, <1>2, <1>4, <1>6
  <2>2. (T \ {x}) \ {z} = T \ {x, z}
    OBVIOUS
  <2> QED
    BY <2>1, <2>2
<1>9. Sum(f, T \ {x, z}) \in Int /\ f[x] \in Int /\ f[z] \in Int
  <2>1. \A w \in T \ {x, z} : f[w] \in Int
    BY <1>4
  <2> QED
    BY <1>4, <2>1, SumIsInt
<1>10. Sum(f, T) = f[x] + Sum(f, T \ {x})
  BY <1>5, <1>7, <1>8, <1>9
<1> QED
  BY <1>2, <1>10

\* Adding up what is added up by part: part[k] is the sum over the elements of
\* class k, and every element is of a class of K.
LEMMA SumByClass ==
    ASSUME NEW f, NEW S, IsFiniteSet(S), \A x \in S : f[x] \in Int,
           NEW class, NEW K, IsFiniteSet(K), \A x \in S : class[x] \in K
    PROVE  Sum([k \in K |-> Sum(f, {x \in S : class[x] = k})], K) = Sum(f, S)
<1> DEFINE In(T, k) == {x \in T : class[x] = k}
           Parts(T) == [k \in K |-> Sum(f, In(T, k))]
           Bad == {T \in SUBSET S : Sum(Parts(T), K) # Sum(f, T)}
<1> SUFFICES ASSUME Bad # {} PROVE FALSE
  <2>1. S \in SUBSET S
    OBVIOUS
  <2> QED
    BY <2>1
<1>1. PICK T \in Bad : \A U \in Bad : U \subseteq T => U = T
  <2>1. Bad \in SUBSET SUBSET S
    OBVIOUS
  <2> HIDE DEF Bad
  <2> QED
    BY <2>1, MinimalSubset
<1>2. T \in SUBSET S /\ IsFiniteSet(T) /\ Sum(Parts(T), K) # Sum(f, T)
  BY <1>1, FS_Subset
<1>3. CASE T = {}
  <2>1. \A k \in K : Parts(T)[k] = 0
    <3>1. \A k \in K : In(T, k) = {}
      BY <1>3
    <3> QED
      BY <3>1, SumOfNone
  <2>2. Sum(f, T) = 0
    BY <1>3, SumOfNone
  <2>3. PICK zero : zero = [k \in K |-> 0]
    OBVIOUS
  <2>4. Sum(zero, K) = 0
    <3> DEFINE Worse == {L \in SUBSET K : Sum(zero, L) # 0}
    <3> SUFFICES ASSUME Worse # {} PROVE FALSE
      <4>1. K \in SUBSET K
        OBVIOUS
      <4> QED
        BY <4>1
    <3>1. PICK L \in Worse : \A U \in Worse : U \subseteq L => U = L
      <4>1. Worse \in SUBSET SUBSET K
        OBVIOUS
      <4> HIDE DEF Worse
      <4> QED
        BY <4>1, MinimalSubset
    <3>2. IsFiniteSet(L)
      BY <3>1, FS_Subset
    <3>3. L # {} /\ Sum(zero, L) = zero[Pick(L)] + Sum(zero, L \ {Pick(L)})
      BY <3>1, <3>2, SumByPick
    <3>4. Sum(zero, L \ {Pick(L)}) = 0 /\ zero[Pick(L)] = 0
      BY <2>3, <3>1, <3>3, PickIn
    <3> QED
      BY <3>1, <3>3, <3>4
  <2>5. Sum(Parts(T), K) = Sum(zero, K)
    <3>1. PICK parts : parts = Parts(T)
      OBVIOUS
    <3>2. \A k \in K : parts[k] = zero[k]
      BY <2>1, <2>3, <3>1
    <3> HIDE DEF Parts
    <3> QED
      BY <3>1, <3>2, SameSum
  <2> QED
    BY <1>2, <2>2, <2>4, <2>5
<1>4. CASE T # {}
  <2>1. PICK z \in T : TRUE
    BY <1>4
  <2>2. PICK U, c : U = T \ {z} /\ c = class[z] /\ c \in K
    BY <1>2, <2>1
  <2>3. U \in SUBSET S /\ IsFiniteSet(U) /\ Sum(Parts(U), K) = Sum(f, U)
    BY <1>1, <1>2, <2>1, <2>2, FS_Subset
  <2>4. Sum(f, T) = f[z] + Sum(f, U)
    BY <1>2, <2>1, <2>2, SumWithout
  <2>5. \A k \in K : In(T, k) \in SUBSET S /\ IsFiniteSet(In(T, k)) /\ In(U, k) \in SUBSET S /\ IsFiniteSet(In(U, k))
    <3>1. \A k \in K : In(T, k) \in SUBSET S /\ In(U, k) \in SUBSET S
      BY <1>2, <2>3
    <3> QED
      BY <3>1, FS_Subset
  <2>6. PICK new, old : new = Parts(T) /\ old = Parts(U)
    OBVIOUS
  <2>7. \A k \in K : new[k] = Sum(f, In(T, k)) /\ old[k] = Sum(f, In(U, k)) /\ new[k] \in Int /\ old[k] \in Int
    <3>1. \A k \in K : Sum(f, In(T, k)) \in Int /\ Sum(f, In(U, k)) \in Int
      <4> SUFFICES ASSUME NEW k \in K PROVE Sum(f, In(T, k)) \in Int /\ Sum(f, In(U, k)) \in Int
        OBVIOUS
      <4>1. \A x \in In(T, k) \cup In(U, k) : f[x] \in Int
        BY <2>5
      <4> HIDE DEF In
      <4> QED
        BY <2>5, <4>1, SumIsInt
    <3> HIDE DEF In
    <3> QED
      BY <2>6, <3>1
  <2>8. \A k \in K \ {c} : new[k] = old[k]
    <3>1. \A k \in K \ {c} : In(T, k) = In(U, k)
      BY <2>1, <2>2
    <3> HIDE DEF In
    <3> QED
      BY <2>7, <3>1
  <2>9. new[c] = f[z] + old[c]
    <3>1. z \in In(T, c) /\ In(T, c) \ {z} = In(U, c)
      BY <2>1, <2>2
    <3>2. \A x \in In(T, c) : f[x] \in Int
      BY <2>2, <2>5
    <3> HIDE DEF In
    <3>3. Sum(f, In(T, c)) = f[z] + Sum(f, In(T, c) \ {z})
      BY <2>2, <2>5, <3>1, <3>2, SumWithout
    <3> QED
      BY <2>2, <2>7, <3>1, <3>3
  <2>10. /\ Sum(new, K) = new[c] + Sum(new, K \ {c}) /\ Sum(old, K) = old[c] + Sum(old, K \ {c})
         /\ Sum(old, K \ {c}) \in Int
    <3>1. IsFiniteSet(K \ {c}) /\ \A k \in K : new[k] \in Int /\ old[k] \in Int
      BY <2>7, FS_Subset
    <3>2. Sum(new, K) = new[c] + Sum(new, K \ {c}) /\ Sum(old, K) = old[c] + Sum(old, K \ {c})
      BY <2>2, <3>1, SumWithout
    <3>3. Sum(old, K \ {c}) \in Int
      BY <3>1, SumIsInt
    <3> QED
      BY <3>2, <3>3
  <2>11. Sum(new, K \ {c}) = Sum(old, K \ {c})
    <3>1. IsFiniteSet(K \ {c})
      BY FS_Subset
    <3> QED
      BY <2>8, <3>1, SameSum
  <2>12. f[z] \in Int /\ old[c] \in Int
    BY <1>2, <2>1, <2>2, <2>7
  <2> HIDE DEF Parts
  <2> QED
    BY <1>2, <2>3, <2>4, <2>6, <2>9, <2>10, <2>11, <2>12
<1> QED
  BY <1>3, <1>4

\* Sums are taken term by term.
LEMMA SumOfBoth ==
    ASSUME NEW S, IsFiniteSet(S), NEW f1, NEW f2, NEW f, NEW c \in Int,
           \A x \in S : f1[x] \in Int /\ f2[x] \in Int /\ f[x] \in Int /\ f1[x] + f2[x] = c * f[x]
    PROVE  Sum(f1, S) + Sum(f2, S) = c * Sum(f, S)
<1> DEFINE Bad == {T \in SUBSET S : Sum(f1, T) + Sum(f2, T) # c * Sum(f, T)}
<1> SUFFICES ASSUME Bad # {} PROVE FALSE
  <2>1. S \in SUBSET S
    OBVIOUS
  <2> QED
    BY <2>1
<1>1. PICK T \in Bad : \A U \in Bad : U \subseteq T => U = T
  <2>1. Bad \in SUBSET SUBSET S
    OBVIOUS
  <2> HIDE DEF Bad
  <2> QED
    BY <2>1, MinimalSubset
<1>2. T \in SUBSET S /\ IsFiniteSet(T) /\ Sum(f1, T) + Sum(f2, T) # c * Sum(f, T)
  BY <1>1, FS_Subset
<1>3. T # {}
  <2>1. Sum(f1, {}) = 0 /\ Sum(f2, {}) = 0 /\ Sum(f, {}) = 0
    BY SumOfNone
  <2>2. T = {} => Sum(f1, T) + Sum(f2, T) = 0 /\ c * Sum(f, T) = 0
    BY <2>1
  <2> QED
    BY <1>2, <2>2
<1>4. PICK z, U : z = Pick(T) /\ U = T \ {z} /\ z \in T
  <2>1. Pick(T) \in T
    BY <1>3, PickIn
  <2> QED
    BY <2>1
<1>5. /\ Sum(f1, T) = f1[z] + Sum(f1, U) /\ Sum(f2, T) = f2[z] + Sum(f2, U) /\ Sum(f, T) = f[z] + Sum(f, U)
  BY <1>2, <1>3, <1>4, SumByPick
<1>6. Sum(f1, U) + Sum(f2, U) = c * Sum(f, U) /\ U \in SUBSET S /\ IsFiniteSet(U)
  BY <1>1, <1>2, <1>4, FS_Subset
<1>7. Sum(f1, U) \in Int /\ Sum(f2, U) \in Int /\ Sum(f, U) \in Int
  BY <1>6, SumIsInt
<1>8. PICK a1, a2, a, s1, s2, s3 : a1 = f1[z] /\ a2 = f2[z] /\ a = f[z] /\ s1 = Sum(f1, U) /\ s2 = Sum(f2, U) /\ s3 = Sum(f, U)
  OBVIOUS
<1>9. a1 \in Int /\ a2 \in Int /\ a \in Int /\ s1 \in Int /\ s2 \in Int /\ s3 \in Int /\ a1 + a2 = c * a /\ s1 + s2 = c * s3
  BY <1>2, <1>4, <1>6, <1>7, <1>8
<1>10. c * (a + s3) = c * a + c * s3
  BY <1>9
<1>11. (a1 + s1) + (a2 + s2) = c * (a + s3)
  <2>1. c * a \in Int /\ c * s3 \in Int /\ c * (a + s3) \in Int
    BY <1>9
  <2> QED
    BY <1>9, <1>10, <2>1
<1> QED
  BY <1>2, <1>5, <1>8, <1>11

(************************ The figures of the pages *************************)
(* What the pages tell of the rows of one token: the table's rows have their *)
(* types, and no two rows one key.                                           *)

IsTrade(r) == r.key \in Int \ {0} /\ r.usd \in Nat /\ r.at \in Nat /\ r.side \in {"BUY", "SELL"}
AreTrades(S) ==
    IsFiniteSet(S) /\ (\A r \in S : IsTrade(r)) /\ \A r, q \in S : r.key = q.key => r = q

\* Candles begin on the hour within the days of an instance.
IsCandle(c) ==
    /\ c.at \in {Hour * k : k \in 0 .. 168} /\ c.hours \in {1, 4}
    /\ c.open \in Nat /\ c.close \in Nat /\ c.volume \in Nat
AreCandles(C) ==
    IsFiniteSet(C) /\ (\A c \in C : IsCandle(c)) /\ \A c, d \in C : Slot(c) = Slot(d) => c = d

LEMMA WithinFinite ==
    ASSUME NEW S, IsFiniteSet(S), NEW a, NEW b
    PROVE  /\ IsFiniteSet(Within(S, a, b)) /\ Within(S, a, b) \subseteq S
           /\ \A r \in Within(S, a, b) : a <= r.at /\ r.at <= b
<1>1. Within(S, a, b) \in SUBSET S
  BY DEF Within
<1> QED
  BY <1>1, FS_Subset DEF Within

LEMMA UsdIsSum ==
    ASSUME NEW S, IsFiniteSet(S), NEW f, \A r \in S : f[r] = r.usd
    PROVE  Usd(S) = Sum(f, S)
<1>1. PICK g : g = [r \in S |-> r.usd]
  OBVIOUS
<1>2. DOMAIN g = S /\ \A r \in S : g[r] = f[r]
  BY <1>1
<1>3. Usd(S) = Sum(g, S)
  BY <1>1, <1>2, SumFunctionIsSum DEF Usd
<1> QED
  BY <1>2, <1>3, SameSum

LEMMA UsdIsNat == ASSUME NEW S, IsFiniteSet(S), \A r \in S : r.usd \in Nat PROVE Usd(S) \in Nat
<1>1. PICK f : f = [r \in S |-> r.usd]
  OBVIOUS
<1>2. \A r \in S : f[r] = r.usd /\ f[r] \in Nat
  BY <1>1
<1> QED
  BY <1>2, UsdIsSum, SumIsNat

LEMMA PlanType ==
    ASSUME NEW a \in Int, NEW b \in Int, a <= b
    PROVE  BucketPlan(a, b) \in Nat \ {0}
<1>1. PICK d : d = (b - a) \div Day + 1
  OBVIOUS
<1>2. d \in Int
  <2>1. Day = 96
    BY DEF Day, Hour
  <2> QED
    BY <1>1, <2>1
<1>3. PICK days : days = Max({1, d})
  OBVIOUS
<1>4. days \in Int /\ days >= 1
  BY <1>2, <1>3, MaxOfTwo
<1>5. /\ Min({days * 24, 48}) \in {days * 24, 48} /\ Min({days * 4, 56}) \in {days * 4, 56}
      /\ Min({days, 60}) \in {days, 60}
  <2>1. days * 24 \in Int /\ 48 \in Int /\ days * 4 \in Int /\ 56 \in Int /\ 60 \in Int
    BY <1>4
  <2> QED
    BY <1>4, <2>1, MinOfTwo
<1>6. BucketPlan(a, b) \in {days * 24, 48, days * 4, 56, days, 60}
  BY <1>1, <1>3, <1>5 DEF BucketPlan
<1> QED
  BY <1>4, <1>6

LEMMA BucketType ==
    ASSUME NEW a \in Int, NEW b \in Int, a <= b, NEW at \in Int, a <= at, at <= b
    PROVE  BucketOf(at, a, b) \in 0 .. BucketPlan(a, b) - 1
<1>1. PICK n, w : n = BucketPlan(a, b) /\ w = Span(a, b)
  OBVIOUS
<1>2. n \in Nat \ {0} /\ w \in Nat \ {0}
  BY <1>1, PlanType DEF Span
<1>3. PICK x : x = (at - a) * n
  OBVIOUS
<1>4. x \in Nat
  <2>1. at - a \in Nat /\ n \in Nat
    BY <1>2
  <2> QED
    BY <1>3, <2>1
<1>5. x \div w \in Nat
  BY <1>2, <1>4
<1>6. PICK q : q = x \div w
  OBVIOUS
<1>7. Min({q, n - 1}) \in {q, n - 1} /\ Min({q, n - 1}) <= n - 1
  <2>1. q \in Int /\ n - 1 \in Int
    BY <1>2, <1>5, <1>6
  <2> QED
    BY <2>1, MinOfTwo
<1>8. BucketOf(at, a, b) = Min({q, n - 1})
  BY <1>1, <1>3, <1>6 DEF BucketOf
<1> QED
  BY <1>1, <1>2, <1>5, <1>6, <1>7, <1>8

Bucket(W, a, b, i) == {r \in W : BucketOf(r.at, a, b) = i}

LEMMA BucketSums ==
    ASSUME NEW a \in Int, NEW b \in Int, a <= b, NEW W, IsFiniteSet(W),
           \A r \in W : r.at \in Int /\ a <= r.at /\ r.at <= b,
           NEW f, \A r \in W : f[r] \in Int,
           NEW g, \A i \in 0 .. BucketPlan(a, b) - 1 : g[i] = Sum(f, Bucket(W, a, b, i))
    PROVE  Sum(g, 0 .. BucketPlan(a, b) - 1) = Sum(f, W)
<1>1. PICK K, class : K = 0 .. BucketPlan(a, b) - 1 /\ class = [r \in W |-> BucketOf(r.at, a, b)]
  <2>1. \E K : K = 0 .. BucketPlan(a, b) - 1
    OBVIOUS
  <2> QED
    BY <2>1
<1>2. IsFiniteSet(K)
  BY <1>1, PlanType, FS_Interval
<1>3. \A r \in W : class[r] \in K /\ class[r] = BucketOf(r.at, a, b)
  BY <1>1, BucketType
<1>4. PICK h : h = [k \in K |-> Sum(f, {r \in W : class[r] = k})]
  OBVIOUS
<1>5. Sum(h, K) = Sum(f, W)
  BY <1>2, <1>3, <1>4, SumByClass
<1>6. \A k \in K : h[k] = g[k]
  <2> SUFFICES ASSUME NEW k \in K PROVE h[k] = g[k]
    OBVIOUS
  <2>1. {r \in W : class[r] = k} = Bucket(W, a, b, k)
    BY <1>3 DEF Bucket
  <2>2. h[k] = Sum(f, {r \in W : class[r] = k}) /\ g[k] = Sum(f, Bucket(W, a, b, k))
    BY <1>1, <1>4
  <2> QED
    BY <2>1, <2>2
<1>7. Sum(h, K) = Sum(g, K)
  BY <1>2, <1>6, SameSum
<1> QED
  BY <1>1, <1>5, <1>7

LEMMA MapSums ==
    ASSUME NEW K, IsFiniteSet(K), NEW buy, NEW sell, NEW map,
           DOMAIN map = K, \A i \in K : map[i].buy = buy[i] /\ map[i].sell = sell[i]
    PROVE  HeatmapSums(map) = [buy |-> Sum(buy, K), sell |-> Sum(sell, K)]
<1>1. PICK g, h : g = [i \in K |-> map[i].buy] /\ h = [i \in K |-> map[i].sell]
  OBVIOUS
<1>2. SumFunction(g) = Sum(g, K) /\ SumFunction(h) = Sum(h, K)
  BY <1>1, SumFunctionIsSum
<1>3. \A i \in K : g[i] = buy[i] /\ h[i] = sell[i]
  BY <1>1
<1>4. Sum(g, K) = Sum(buy, K) /\ Sum(h, K) = Sum(sell, K)
  BY <1>3, SameSum
<1> QED
  BY <1>1, <1>2, <1>4 DEF HeatmapSums

LEMMA TradeSums ==
    ASSUME NEW S, AreTrades(S), NEW a \in Int, NEW b \in Int, a <= b
    PROVE  HeatmapSums(TradeHeatmap(S, a, b))
              = [buy |-> Usd(Of(Within(S, a, b), "BUY")), sell |-> Usd(Of(Within(S, a, b), "SELL"))]
<1>1. PICK W, K, f, map : /\ W = Within(S, a, b) /\ K = 0 .. BucketPlan(a, b) - 1 /\ f = [r \in W |-> r.usd]
                          /\ map = TradeHeatmap(S, a, b)
  <2>1. \E W : W = Within(S, a, b)
    OBVIOUS
  <2>2. \E K : K = 0 .. BucketPlan(a, b) - 1
    OBVIOUS
  <2>3. \E map : map = TradeHeatmap(S, a, b)
    OBVIOUS
  <2> QED
    BY <2>1, <2>2, <2>3
<1>2. IsFiniteSet(W) /\ \A r \in W : IsTrade(r) /\ a <= r.at /\ r.at <= b /\ f[r] = r.usd
  <2>1. IsFiniteSet(W) /\ W \subseteq S /\ \A r \in W : a <= r.at /\ r.at <= b
    BY <1>1, WithinFinite DEF AreTrades
  <2> QED
    BY <1>1, <2>1 DEF AreTrades
<1> DEFINE Part(x, i) == Bucket(Of(W, x), a, b, i)
           Sums(x) == [i \in K |-> Usd(Part(x, i))]
<1>3. \A x, i : Of(InBucket(S, a, b, i), x) = Part(x, i)
  BY <1>1 DEF InBucket, Of, Bucket
<1>4. \A x : Of(W, x) \in SUBSET W /\ IsFiniteSet(Of(W, x))
  <2>1. \A x : Of(W, x) \in SUBSET W
    BY DEF Of
  <2> QED
    BY <1>2, <2>1, FS_Subset
<1>5. ASSUME NEW x, NEW i PROVE Usd(Part(x, i)) = Sum(f, Part(x, i))
  <2>1. Part(x, i) \in SUBSET Of(W, x)
    BY DEF Bucket
  <2>2. IsFiniteSet(Part(x, i)) /\ \A r \in Part(x, i) : f[r] = r.usd
    <3>1. \A r \in Part(x, i) : r \in W
      BY <1>4, <2>1
    <3> HIDE DEF Part
    <3> QED
      BY <1>2, <1>4, <2>1, <3>1, FS_Subset
  <2> HIDE DEF Part
  <2> QED
    BY <2>2, UsdIsSum
<1>6. ASSUME NEW x PROVE Sum(Sums(x), K) = Usd(Of(W, x))
  <2>1. PICK V, g : V = Of(W, x) /\ g = Sums(x)
    OBVIOUS
  <2>2. IsFiniteSet(V) /\ \A r \in V : r.at \in Int /\ a <= r.at /\ r.at <= b /\ f[r] = r.usd /\ f[r] \in Int
    BY <1>2, <1>4, <2>1 DEF IsTrade
  <2>3. \A i \in 0 .. BucketPlan(a, b) - 1 : g[i] = Sum(f, Bucket(V, a, b, i))
    <3> SUFFICES ASSUME NEW i \in 0 .. BucketPlan(a, b) - 1
                 PROVE  g[i] = Sum(f, Bucket(V, a, b, i))
      OBVIOUS
    <3>1. g[i] = Usd(Part(x, i))
      BY <1>1, <2>1
    <3>2. Part(x, i) = Bucket(V, a, b, i)
      BY <2>1
    <3>3. Usd(Part(x, i)) = Sum(f, Part(x, i))
      BY <1>5
    <3> HIDE DEF Part, Sums
    <3> QED
      BY <3>1, <3>2, <3>3
  <2>4. Sum(g, K) = Sum(f, V)
    <3>1. \A r \in V : r.at \in Int /\ a <= r.at /\ r.at <= b
      BY <2>2
    <3>2. \A r \in V : f[r] \in Int
      BY <2>2
    <3> HIDE DEF Part, Sums
    <3>3. Sum(g, 0 .. BucketPlan(a, b) - 1) = Sum(f, V)
      BY <2>2, <2>3, <3>1, <3>2, BucketSums
    <3> QED
      BY <1>1, <3>3
  <2>5. Usd(V) = Sum(f, V)
    BY <2>2, UsdIsSum
  <2> HIDE DEF Sums
  <2> QED
    BY <2>1, <2>4, <2>5
<1>7. DOMAIN map = K /\ \A i \in K : map[i].buy = Usd(Part("BUY", i)) /\ map[i].sell = Usd(Part("SELL", i))
  <2>1. map = [i \in K |-> [buy |-> Usd(Of(InBucket(S, a, b, i), "BUY")), sell |-> Usd(Of(InBucket(S, a, b, i), "SELL"))]]
    BY <1>1 DEF TradeHeatmap
  <2> HIDE DEF Part
  <2> QED
    BY <1>3, <2>1
<1>8. IsFiniteSet(K)
  BY <1>1, PlanType, FS_Interval
<1>9. PICK buy, sell : buy = Sums("BUY") /\ sell = Sums("SELL")
  OBVIOUS
<1>10. \A i \in K : map[i].buy = buy[i] /\ map[i].sell = sell[i]
  <2> HIDE DEF Part
  <2> QED
    BY <1>7, <1>9
<1>11. HeatmapSums(map) = [buy |-> Sum(buy, K), sell |-> Sum(sell, K)]
  BY <1>7, <1>8, <1>10, MapSums
<1>12. Sum(buy, K) = Usd(Of(W, "BUY")) /\ Sum(sell, K) = Usd(Of(W, "SELL"))
  <2> HIDE DEF Sums
  <2> QED
    BY <1>6, <1>9
<1> QED
  BY <1>1, <1>11, <1>12

LEMMA SplitType ==
    ASSUME NEW c, IsCandle(c)
    PROVE  /\ SplitVolume(c).buy \in Int /\ SplitVolume(c).sell \in Int
           /\ SplitVolume(c).buy + SplitVolume(c).sell = 100 * c.volume
<1>1. PICK v, o, e : v = c.volume /\ o = c.open /\ e = c.close
  OBVIOUS
<1>2. v \in Nat /\ o \in Nat /\ e \in Nat
  BY <1>1 DEF IsCandle
<1>3. BuyShare(c) \in Int
  <2>1. PICK hi, lo, base : hi = Max({o, e}) /\ lo = Min({o, e}) /\ base = Max({o, 1})
    <3>1. \E x : x = Max({o, e})
      OBVIOUS
    <3>2. \E x : x = Min({o, e})
      OBVIOUS
    <3> QED
      BY <3>1, <3>2
  <2>2. hi \in Int /\ lo \in Int /\ base \in Nat \ {0}
    <3>1. {o, e, 1} \subseteq Int
      BY <1>2
    <3>2. base \in {o, 1} /\ base >= 1
      BY <2>1, <3>1, MaxOfTwo, Zenon
    <3>3. hi \in {o, e} /\ lo \in {o, e}
      BY <2>1, <3>1, MaxOfTwo, MinOfTwo
    <3> QED
      BY <1>2, <3>2, <3>3
  <2>3. PICK q : q = (100 * (hi - lo)) \div base
    OBVIOUS
  <2>4. q \in Int
    BY <2>2, <2>3
  <2>5. PICK move : move = Min({q, 100})
    OBVIOUS
  <2>6. move \in Int
    <3>1. {q, 100} \subseteq Int
      BY <2>4
    <3>2. move \in {q, 100}
      BY <2>5, <3>1, MinOfTwo, Zenon
    <3> QED
      BY <3>1, <3>2
  <2>7. BuyShare(c) = IF e > o THEN 55 + (15 * move) \div 100 ELSE IF e < o THEN 45 - (15 * move) \div 100 ELSE 50
    BY <1>1, <2>1, <2>3, <2>5 DEF BuyShare
  <2>8. (15 * move) \div 100 \in Int
    BY <2>6
  <2> QED
    BY <2>7, <2>8
<1>4. PICK share : share = BuyShare(c)
  OBVIOUS
<1>5. SplitVolume(c) = IF v <= 0 THEN [buy |-> 0, sell |-> 0] ELSE [buy |-> v * share, sell |-> v * (100 - share)]
  BY <1>1, <1>4 DEF SplitVolume
<1>6. v * share \in Int /\ v * (100 - share) \in Int /\ v * share + v * (100 - share) = 100 * v
  <2>1. v \in Int /\ share \in Int
    BY <1>2, <1>3, <1>4
  <2> QED
    BY <2>1
<1> QED
  BY <1>1, <1>2, <1>5, <1>6

LEMMA CandlesWithin ==
    ASSUME NEW C, AreCandles(C), NEW a, NEW b
    PROVE  /\ AreCandles(Within(C, a, b))
           /\ \A c \in Within(C, a, b) : c.at \in Int /\ a <= c.at /\ c.at <= b
<1>1. IsFiniteSet(Within(C, a, b)) /\ Within(C, a, b) \subseteq C /\ \A c \in Within(C, a, b) : a <= c.at /\ c.at <= b
  BY WithinFinite DEF AreCandles
<1>2. \A c \in C : c.at \in Int
  <2>1. Hour = 4
    BY DEF Hour
  <2> QED
    BY <2>1 DEF AreCandles, IsCandle
<1> QED
  BY <1>1, <1>2 DEF AreCandles

LEMMA TotalsAreSums ==
    ASSUME NEW C, AreCandles(C),
           NEW buy, NEW sell, NEW volume,
           \A c \in C : buy[c] = SplitVolume(c).buy /\ sell[c] = SplitVolume(c).sell /\ volume[c] = c.volume
    PROVE  /\ CandleTotals(C).buy = Sum(buy, C) /\ CandleTotals(C).sell = Sum(sell, C)
           /\ CandleTotals(C).total = Sum(volume, C) /\ CandleTotals(C).candles = Cardinality(C)
<1>1. PICK f1, f2, f3 : /\ f1 = [c \in C |-> SplitVolume(c).buy] /\ f2 = [c \in C |-> SplitVolume(c).sell]
                        /\ f3 = [c \in C |-> c.volume]
  OBVIOUS
<1>2. DOMAIN f1 = C /\ DOMAIN f2 = C /\ DOMAIN f3 = C /\ \A c \in C : f1[c] = buy[c] /\ f2[c] = sell[c] /\ f3[c] = volume[c]
  BY <1>1
<1>3. /\ CandleTotals(C).buy = SumFunction(f1) /\ CandleTotals(C).sell = SumFunction(f2)
      /\ CandleTotals(C).total = SumFunction(f3) /\ CandleTotals(C).candles = Cardinality(C)
  BY <1>1 DEF CandleTotals
<1>4. SumFunction(f1) = Sum(f1, C) /\ SumFunction(f2) = Sum(f2, C) /\ SumFunction(f3) = Sum(f3, C)
  BY <1>2, SumFunctionIsSum
<1>5. Sum(f1, C) = Sum(buy, C) /\ Sum(f2, C) = Sum(sell, C) /\ Sum(f3, C) = Sum(volume, C)
  <2>1. IsFiniteSet(C)
    BY DEF AreCandles
  <2> QED
    BY <1>2, <2>1, SameSum
<1> QED
  BY <1>3, <1>4, <1>5

LEMMA CandleSums ==
    ASSUME NEW C, AreCandles(C), NEW a \in Int, NEW b \in Int, a <= b
    PROVE  LET c == StoredCandleMetrics(C, a, b)
           IN  /\ HeatmapSums(CandleHeatmap(C, a, b)) = [buy |-> c.buy, sell |-> c.sell]
               /\ c.candles > 0 => LiveCandleMetrics(C, a, b) = c
               /\ c.buy + c.sell = 100 * c.total
               /\ c.candles = Cardinality(Within(C, a, b))
<1>1. PICK W, K, map : W = Within(C, a, b) /\ K = 0 .. BucketPlan(a, b) - 1 /\ map = CandleHeatmap(C, a, b)
  <2>1. \E W : W = Within(C, a, b)
    OBVIOUS
  <2>2. \E K : K = 0 .. BucketPlan(a, b) - 1
    OBVIOUS
  <2>3. \E map : map = CandleHeatmap(C, a, b)
    OBVIOUS
  <2> QED
    BY <2>1, <2>2, <2>3
<1>2. PICK buy, sell, volume : /\ buy = [c \in W |-> SplitVolume(c).buy] /\ sell = [c \in W |-> SplitVolume(c).sell]
                               /\ volume = [c \in W |-> c.volume]
  OBVIOUS
<1>3. AreCandles(W) /\ IsFiniteSet(W) /\ \A c \in W : c.at \in Int /\ a <= c.at /\ c.at <= b
  BY <1>1, CandlesWithin DEF AreCandles
<1>4. \A c \in W : /\ buy[c] = SplitVolume(c).buy /\ sell[c] = SplitVolume(c).sell /\ volume[c] = c.volume
                   /\ buy[c] \in Int /\ sell[c] \in Int /\ volume[c] \in Int /\ buy[c] + sell[c] = 100 * volume[c]
  <2> SUFFICES ASSUME NEW c \in W
               PROVE  /\ buy[c] = SplitVolume(c).buy /\ sell[c] = SplitVolume(c).sell /\ volume[c] = c.volume
                      /\ buy[c] \in Int /\ sell[c] \in Int /\ volume[c] \in Int /\ buy[c] + sell[c] = 100 * volume[c]
    OBVIOUS
  <2>1. buy[c] = SplitVolume(c).buy /\ sell[c] = SplitVolume(c).sell /\ volume[c] = c.volume
    BY <1>2
  <2>2. IsCandle(c) /\ c.volume \in Int
    BY <1>3 DEF AreCandles, IsCandle
  <2> QED
    BY <2>1, <2>2, SplitType
<1>5. PICK t : t = StoredCandleMetrics(C, a, b)
  OBVIOUS
<1>6. t.buy = Sum(buy, W) /\ t.sell = Sum(sell, W) /\ t.total = Sum(volume, W) /\ t.candles = Cardinality(W)
  <2>1. t = CandleTotals(W)
    BY <1>1, <1>5 DEF StoredCandleMetrics
  <2> QED
    BY <1>3, <1>4, <2>1, TotalsAreSums
<1>7. Sum(buy, W) + Sum(sell, W) = 100 * Sum(volume, W)
  <2>1. PICK hundred \in Int : hundred = 100
    OBVIOUS
  <2>2. \A c \in W : buy[c] \in Int /\ sell[c] \in Int /\ volume[c] \in Int /\ buy[c] + sell[c] = hundred * volume[c]
    BY <1>4, <2>1
  <2>3. Sum(buy, W) + Sum(sell, W) = hundred * Sum(volume, W)
    BY <1>3, <2>2, SumOfBoth
  <2> QED
    BY <2>1, <2>3
<1>8. ASSUME t.candles > 0 PROVE LiveCandleMetrics(C, a, b) = t
  <2>1. W # {}
    BY <1>6, <1>8, FS_EmptySet
  <2> QED
    BY <1>1, <1>5, <2>1 DEF LiveCandleMetrics, StoredCandleMetrics
<1>9. \A i : Bucket(W, a, b, i) = InBucket(C, a, b, i) /\ Bucket(W, a, b, i) \in SUBSET W
  BY <1>1 DEF InBucket, Bucket
<1>10. PICK buys, sells : buys = [i \in K |-> Sum(buy, Bucket(W, a, b, i))] /\ sells = [i \in K |-> Sum(sell, Bucket(W, a, b, i))]
  OBVIOUS
<1>11. DOMAIN map = K /\ \A i \in K : map[i].buy = buys[i] /\ map[i].sell = sells[i]
  <2>1. map = [i \in K |-> [buy |-> SumFunction([c \in InBucket(C, a, b, i) |-> SplitVolume(c).buy]),
                            sell |-> SumFunction([c \in InBucket(C, a, b, i) |-> SplitVolume(c).sell])]]
    BY <1>1 DEF CandleHeatmap
  <2>2. ASSUME NEW i \in K PROVE map[i].buy = buys[i] /\ map[i].sell = sells[i]
    <3>1. PICK P, f1, f2 : /\ P = Bucket(W, a, b, i) /\ f1 = [c \in P |-> SplitVolume(c).buy]
                           /\ f2 = [c \in P |-> SplitVolume(c).sell]
      <4>1. \E P : P = Bucket(W, a, b, i)
        OBVIOUS
      <4> QED
        BY <4>1
    <3>2. map[i].buy = SumFunction(f1) /\ map[i].sell = SumFunction(f2)
      BY <1>9, <2>1, <3>1
    <3>3. IsFiniteSet(P) /\ P \subseteq W
      BY <1>3, <1>9, <3>1, FS_Subset
    <3>4. DOMAIN f1 = P /\ DOMAIN f2 = P /\ \A c \in P : f1[c] = buy[c] /\ f2[c] = sell[c]
      BY <1>4, <3>1, <3>3
    <3>5. SumFunction(f1) = Sum(f1, P) /\ SumFunction(f2) = Sum(f2, P)
      BY <3>4, SumFunctionIsSum
    <3>6. Sum(f1, P) = Sum(buy, P) /\ Sum(f2, P) = Sum(sell, P)
      BY <3>3, <3>4, SameSum
    <3> QED
      BY <1>10, <3>1, <3>2, <3>5, <3>6
  <2> QED
    BY <2>1, <2>2
<1>12. IsFiniteSet(K)
  BY <1>1, PlanType, FS_Interval
<1>13. HeatmapSums(map) = [buy |-> Sum(buys, K), sell |-> Sum(sells, K)]
  BY <1>11, <1>12, MapSums
<1>14. Sum(buys, K) = Sum(buy, W)
  <2>1. \A i \in 0 .. BucketPlan(a, b) - 1 : buys[i] = Sum(buy, Bucket(W, a, b, i))
    BY <1>1, <1>10
  <2>2. \A c \in W : buy[c] \in Int
    BY <1>4
  <2>3. Sum(buys, 0 .. BucketPlan(a, b) - 1) = Sum(buy, W)
    BY <1>3, <2>1, <2>2, BucketSums
  <2> QED
    BY <1>1, <2>3
<1>15. Sum(sells, K) = Sum(sell, W)
  <2>1. \A i \in 0 .. BucketPlan(a, b) - 1 : sells[i] = Sum(sell, Bucket(W, a, b, i))
    BY <1>1, <1>10
  <2>2. \A c \in W : sell[c] \in Int
    BY <1>4
  <2>3. Sum(sells, 0 .. BucketPlan(a, b) - 1) = Sum(sell, W)
    BY <1>3, <2>1, <2>2, BucketSums
  <2> QED
    BY <1>1, <2>3
<1>16. HeatmapSums(CandleHeatmap(C, a, b)) = [buy |-> t.buy, sell |-> t.sell]
  BY <1>1, <1>6, <1>13, <1>14, <1>15
<1>17. t.buy + t.sell = 100 * t.total /\ t.candles = Cardinality(Within(C, a, b))
  BY <1>1, <1>6, <1>7
<1> QED
  BY <1>5, <1>8, <1>16, <1>17

\* A sort's list is a sequence of every element, each once.
LEMMA SortedSeq ==
    ASSUME NEW S, IsFiniteSet(S), NEW R, IsStrict(S, R), NEW list, list = Sorted(S, R)
    PROVE  /\ Cardinality(S) \in Nat
           /\ list \in Seq(S) /\ Len(list) = Cardinality(S) /\ DOMAIN list = 1 .. Cardinality(S)
           /\ Range(list) = S
<1>1. PICK n : n = Cardinality(S)
  OBVIOUS
<1>2. n \in Nat /\ list \in [1 .. n -> S] /\ \A x \in S : \E i \in 1 .. n : list[i] = x
  BY <1>1, SortedList
<1>3. [i \in 1 .. n |-> list[i]] \in Seq(S)
  <2>1. \A i \in 1 .. n : list[i] \in S
    BY <1>2
  <2> QED
    BY <1>2, <2>1, IsASeq
<1>4. list = [i \in 1 .. n |-> list[i]]
  BY <1>2
<1>5. list \in Seq(S)
  BY <1>3, <1>4
<1>6. Len(list) \in Nat /\ DOMAIN list = 1 .. Len(list)
  BY <1>5, LenProperties
<1>7. Len(list) = n
  BY <1>2, <1>6
<1>8. Range(list) = S
  BY <1>2 DEF Range
<1> QED
  BY <1>1, <1>2, <1>5, <1>7, <1>8

LEMMA TradesSorted ==
    ASSUME NEW S, AreTrades(S), NEW list, list = NewestFirst(S)
    PROVE  /\ Cardinality(S) \in Nat
           /\ list \in Seq(S) /\ Len(list) = Cardinality(S) /\ DOMAIN list = 1 .. Cardinality(S)
           /\ Range(list) = S
<1>1. PICK R : R = {p \in S \X S : Newer(p[1], p[2])}
  OBVIOUS
<1>2. \A x, y \in S : <<x, y>> \in R <=> Newer(x, y)
  BY <1>1
<1>3. \A x \in S : x.at \in Int /\ x.key \in Int
  BY DEF AreTrades, IsTrade
<1>4. IsStrict(S, R)
  BY <1>2, <1>3 DEF IsStrict, Newer
<1>5. list = Sorted(S, R) /\ IsFiniteSet(S)
  BY <1>1 DEF NewestFirst, AreTrades
<1> QED
  BY <1>4, <1>5, SortedSeq

LEMMA CandlesSorted ==
    ASSUME NEW C, AreCandles(C), NEW list, list = ByTime(C)
    PROVE  /\ Cardinality(C) \in Nat
           /\ list \in Seq(C) /\ Len(list) = Cardinality(C) /\ DOMAIN list = 1 .. Cardinality(C)
           /\ Range(list) = C
<1>1. PICK R : R = {p \in C \X C : p[1].at < p[2].at \/ (p[1].at = p[2].at /\ p[1].hours < p[2].hours)}
  OBVIOUS
<1>2. \A x, y \in C : <<x, y>> \in R <=> x.at < y.at \/ (x.at = y.at /\ x.hours < y.hours)
  BY <1>1
<1>3. \A x \in C : x.at \in Int /\ x.hours \in Int
  <2>1. Hour = 4
    BY DEF Hour
  <2> QED
    BY <2>1 DEF AreCandles, IsCandle
<1>4. IsStrict(C, R)
  BY <1>2, <1>3 DEF IsStrict
<1>5. list = Sorted(C, R) /\ IsFiniteSet(C)
  BY <1>1 DEF ByTime, AreCandles
<1> QED
  BY <1>4, <1>5, SortedSeq

LEMMA FirstOfList ==
    ASSUME NEW S, NEW list \in Seq(S), NEW n \in Nat, NEW first, first = FirstN(list, n)
    PROVE  /\ first \in Seq(S) /\ Len(first) \in Nat /\ DOMAIN first = 1 .. Len(first)
           /\ \A i \in 1 .. Len(first) : i \in 1 .. Len(list) /\ first[i] = list[i]
           /\ Range(first) \subseteq Range(list)
           /\ Len(list) <= n => first = list
           /\ Len(first) <= n
<1>1. Len(list) \in Nat /\ DOMAIN list = 1 .. Len(list) /\ \A i \in 1 .. Len(list) : list[i] \in S
  BY LenProperties, ElementOfSeq
<1>2. PICK m : m = Min({n, Len(list)})
  OBVIOUS
<1>3. m \in {n, Len(list)} /\ m \in Nat /\ m <= n /\ m <= Len(list)
  <2>1. n \in Int /\ Len(list) \in Int
    BY <1>1
  <2>2. m \in {n, Len(list)} /\ m <= n /\ m <= Len(list)
    BY <1>2, <2>1, MinOfTwo, Zenon
  <2> QED
    BY <1>1, <2>2
<1>4. first = SubSeq(list, 1, m)
  BY <1>2 DEF FirstN
<1>5. first \in Seq(S) /\ Len(first) = m /\ \A i \in 1 .. m : first[i] = list[i]
  <2>1. PICK k : k = Len(list)
    OBVIOUS
  <2>2. k \in Nat /\ m \in Nat /\ m <= k /\ \A i \in 1 .. k : list[i] \in S
    BY <1>1, <1>3, <2>1
  <2>3. 1 \in Int /\ m \in Int /\ \A i \in 1 .. m : list[i] \in S
    BY <2>2
  <2>4. PICK f : f = SubSeq(list, 1, m)
    OBVIOUS
  <2>5. /\ f \in Seq(S) /\ Len(f) = IF 1 <= m THEN m - 1 + 1 ELSE 0
        /\ \A i \in 1 .. m - 1 + 1 : f[i] = list[1 + i - 1]
    BY <2>3, <2>4, SubSeqProperties
  <2>6. f \in Seq(S) /\ Len(f) = m /\ \A i \in 1 .. m : f[i] = list[i]
    BY <2>2, <2>5
  <2> QED
    BY <1>4, <2>4, <2>6
<1>6. DOMAIN first = 1 .. m
  BY <1>5, LenProperties
<1>7. \A i \in 1 .. m : i \in 1 .. Len(list)
  <2> SUFFICES ASSUME NEW i \in 1 .. m PROVE i \in 1 .. Len(list)
    OBVIOUS
  <2>1. PICK k : k = Len(list)
    OBVIOUS
  <2>2. k \in Nat /\ m \in Nat /\ m <= k
    BY <1>1, <1>3, <2>1
  <2>3. i \in 1 .. k
    BY <2>2
  <2> QED
    BY <2>1, <2>3
<1>8. Range(first) \subseteq Range(list)
  BY <1>1, <1>5, <1>6, <1>7 DEF Range
<1>9. ASSUME Len(list) <= n PROVE first = list
  <2>1. m = Len(list)
    <3>1. PICK k : k = Len(list)
      OBVIOUS
    <3>2. k \in Nat /\ m \in {n, k} /\ m <= k /\ k <= n
      BY <1>1, <1>3, <1>9, <3>1
    <3>3. m = k
      BY <3>2
    <3> QED
      BY <3>1, <3>3
  <2> QED
    BY <1>1, <1>4, <2>1, SubSeqFull
<1> QED
  BY <1>1, <1>3, <1>5, <1>6, <1>7, <1>8, <1>9

LEMMA RangeOfBoth ==
    ASSUME NEW S, NEW x \in Seq(S), NEW y \in Seq(S)
    PROVE  x \o y \in Seq(S) /\ Range(x \o y) = Range(x) \cup Range(y)
<1>1. PICK z : z = x \o y
  OBVIOUS
<1>2. PICK m, n : m = Len(x) /\ n = Len(y)
  OBVIOUS
<1>3. m \in Nat /\ n \in Nat /\ DOMAIN x = 1 .. m /\ DOMAIN y = 1 .. n
  BY <1>2, LenProperties
<1>4. z \in Seq(S) /\ Len(z) = m + n /\ \A i \in 1 .. (m + n) : z[i] = IF i <= m THEN x[i] ELSE y[i - m]
  BY <1>1, <1>2, ConcatProperties
<1>5. DOMAIN z = 1 .. (m + n)
  BY <1>4, LenProperties
<1>6. ASSUME NEW i \in 1 .. m PROVE i \in DOMAIN z /\ z[i] = x[i]
  BY <1>3, <1>4, <1>5
<1>7. ASSUME NEW i \in 1 .. n PROVE m + i \in DOMAIN z /\ z[m + i] = y[i]
  <2>1. m + i \in 1 .. (m + n) /\ ~ (m + i <= m) /\ (m + i) - m = i
    BY <1>3
  <2> QED
    BY <1>4, <1>5, <2>1
<1>8. ASSUME NEW i \in 1 .. (m + n) PROVE z[i] \in Range(x) \cup Range(y)
  <2>1. CASE i <= m
    <3>1. i \in 1 .. m
      BY <1>3, <2>1
    <3> QED
      BY <1>3, <1>4, <2>1, <3>1 DEF Range
  <2>2. CASE ~ (i <= m)
    <3>1. i - m \in 1 .. n
      BY <1>3, <2>2
    <3> QED
      BY <1>3, <1>4, <2>2, <3>1 DEF Range
  <2> QED
    BY <2>1, <2>2
<1>9. Range(z) = Range(x) \cup Range(y)
  <2>1. Range(z) \subseteq Range(x) \cup Range(y)
    BY <1>5, <1>8 DEF Range
  <2>2. Range(x) \subseteq Range(z)
    BY <1>3, <1>6 DEF Range
  <2>3. Range(y) \subseteq Range(z)
    BY <1>3, <1>7 DEF Range
  <2> QED
    BY <2>1, <2>2, <2>3
<1> QED
  BY <1>1, <1>4, <1>9

LEMMA RangeOfIf ==
    ASSUME NEW S, NEW x \in S, NEW c
    PROVE  If(c, <<x>>) \in Seq(S) /\ Range(If(c, <<x>>)) \subseteq {x}
<1>1. <<x>> \in Seq(S) /\ <<>> \in Seq(S)
  BY EmptySeq
<1>2. Range(<<x>>) \subseteq {x} /\ Range(<<>>) \subseteq {x}
  BY DEF Range
<1> QED
  BY <1>1, <1>2 DEF If

(****************************** Signals ************************************)
LargeTrades(S, a, b) == FirstN(NewestFirst(Whales(Within(S, a, b))), 10)

LEMMA TradesWithin ==
    ASSUME NEW S, AreTrades(S), NEW T \in SUBSET S PROVE AreTrades(T)
BY FS_Subset DEF AreTrades

LEMMA LargeTradesType ==
    ASSUME NEW S, AreTrades(S), NEW a, NEW b, NEW W, W = Whales(Within(S, a, b)), NEW large, large = LargeTrades(S, a, b)
    PROVE  /\ W \in SUBSET S /\ AreTrades(W) /\ Cardinality(W) \in Nat
           /\ large \in Seq(W) /\ Len(large) \in Nat /\ DOMAIN large = 1 .. Len(large) /\ Len(large) <= 10
           /\ Range(large) \subseteq W
           /\ Cardinality(W) <= 10 => Range(large) = W
<1>1. W \in SUBSET S
  BY DEF Whales, Within
<1>2. AreTrades(W)
  BY <1>1, TradesWithin
<1>3. PICK list : list = NewestFirst(W)
  OBVIOUS
<1>4. Cardinality(W) \in Nat /\ list \in Seq(W) /\ Len(list) = Cardinality(W) /\ Range(list) = W
  BY <1>2, <1>3, TradesSorted
<1>5. PICK ten \in Nat : ten = 10
  OBVIOUS
<1>6. large = FirstN(list, ten)
  BY <1>3, <1>5 DEF LargeTrades
<1>7. /\ large \in Seq(W) /\ Len(large) \in Nat /\ DOMAIN large = 1 .. Len(large)
      /\ Range(large) \subseteq Range(list)
      /\ Len(list) <= ten => large = list
      /\ Len(large) <= ten
  BY <1>4, <1>6, FirstOfList
<1> QED
  BY <1>1, <1>2, <1>4, <1>5, <1>7

\* Of the signals, those of a trade are the large trades.
LEMMA SignalsOfTrades ==
    ASSUME NEW S, AreTrades(S), NEW registered, NEW liquidity, NEW a, NEW b,
           NEW large, large = LargeTrades(S, a, b),
           NEW signals, signals = Signals(S, registered, liquidity, a, b)
    PROVE  /\ \E V : signals \in Seq(V)
           /\ \A q \in Range(signals) : q.key # 0 =>
                 \E i \in DOMAIN large : q.type = Large(large[i].side) /\ q.key = large[i].key /\ q.usd = large[i].usd
           /\ \A i \in DOMAIN large : \E q \in Range(signals) :
                 q.key # 0 /\ q.type = Large(large[i].side) /\ q.key = large[i].key /\ q.usd = large[i].usd
<1> DEFINE net == VolumeMetrics(S, a, b).net
           events == Within(liquidity, a, b)
           adds == Usd({e \in events : e.type = "ADD"})
           removes == Usd({e \in events : e.type = "REMOVE"})
           removal == 2 * removes > 3 * adds /\ removes > 10
<1>1. PICK x1, x2, x3, x4 : /\ x1 = Signal("NET_BUY_PRESSURE", "info", net)
                            /\ x2 = Signal("SMART_MONEY_ACCUMULATION", "warning", 0)
                            /\ x3 = Signal("LIQUIDITY_REMOVAL", "critical", removes)
                            /\ x4 = Signal("LIQUIDITY_INCREASE", "info", adds)
  <2>1. \E x1 : x1 = Signal("NET_BUY_PRESSURE", "info", net)
    OBVIOUS
  <2>2. \E x2 : x2 = Signal("SMART_MONEY_ACCUMULATION", "warning", 0)
    OBVIOUS
  <2>3. \E x3 : x3 = Signal("LIQUIDITY_REMOVAL", "critical", removes)
    OBVIOUS
  <2>4. \E x4 : x4 = Signal("LIQUIDITY_INCREASE", "info", adds)
    OBVIOUS
  <2> HIDE DEF net, removes, adds
  <2> QED
    BY <2>1, <2>2, <2>3, <2>4
<1>2. x1.key = 0 /\ x2.key = 0 /\ x3.key = 0 /\ x4.key = 0
  <2> HIDE DEF net, removes, adds
  <2> QED
    BY <1>1 DEF Signal
<1> DEFINE One(r) == [Signal(Large(r.side), Severity(r.usd), r.usd) EXCEPT !.key = r.key]
<1>3. PICK e : e = [i \in DOMAIN large |-> One(large[i])]
  OBVIOUS
<1>4. PICK c1, c2, c3, c4 :
         signals = If(c1, <<x1>>) \o If(c2, <<x2>>) \o If(c3, <<x3>>) \o If(c4, <<x4>>) \o e
  <2>1. signals = If(net > WhaleThreshold, <<x1>>)
                  \o If(Cardinality(SmartBuys(S, registered, a, b)) >= 2, <<x2>>)
                  \o If(removal, <<x3>>)
                  \o If(~ removal /\ 5 * adds > 6 * removes /\ adds > 10, <<x4>>)
                  \o e
    BY <1>1, <1>3 DEF Signals, LargeTrades
  <2>2. PICK c1 : c1 = (net > WhaleThreshold)
    OBVIOUS
  <2>3. PICK c2 : c2 = (Cardinality(SmartBuys(S, registered, a, b)) >= 2)
    OBVIOUS
  <2>4. PICK c3 : c3 = removal
    OBVIOUS
  <2>5. PICK c4 : c4 = (~ removal /\ 5 * adds > 6 * removes /\ adds > 10)
    OBVIOUS
  <2> HIDE DEF net, removes, adds, removal, One
  <2>6. signals = If(c1, <<x1>>) \o If(c2, <<x2>>) \o If(c3, <<x3>>) \o If(c4, <<x4>>) \o e
    BY <2>1, <2>2, <2>3, <2>4, <2>5
  <2> QED
    BY <2>6
<1> HIDE DEF net, events, adds, removes, removal
<1>5. \A r : One(r).key = r.key /\ One(r).type = Large(r.side) /\ One(r).usd = r.usd
  BY DEF Signal
<1> HIDE DEF One
<1>6. /\ large \in Seq(S) /\ Len(large) \in Nat /\ DOMAIN large = 1 .. Len(large)
      /\ \A i \in DOMAIN large : large[i] \in S /\ large[i].key # 0
  <2>1. PICK W : W = Whales(Within(S, a, b))
    OBVIOUS
  <2>2. W \in SUBSET S /\ large \in Seq(W) /\ Len(large) \in Nat /\ DOMAIN large = 1 .. Len(large)
    BY <2>1, LargeTradesType
  <2>3. large \in Seq(S) /\ \A i \in DOMAIN large : large[i] \in S
    BY <2>2, ElementOfSeq, SeqMonotonic
  <2> QED
    BY <2>2, <2>3 DEF AreTrades, IsTrade
<1>7. PICK V : V = {x1, x2, x3, x4} \cup {One(large[i]) : i \in DOMAIN large}
  OBVIOUS
<1>8. e \in Seq(V) /\ Range(e) = {One(large[i]) : i \in DOMAIN large}
  <2>1. \A i \in 1 .. Len(large) : One(large[i]) \in V
    BY <1>6, <1>7
  <2>2. e = [i \in 1 .. Len(large) |-> One(large[i])]
    BY <1>3, <1>6
  <2>3. [i \in 1 .. Len(large) |-> One(large[i])] \in Seq(V)
    BY <1>6, <2>1, IsASeq
  <2>4. Range(e) = {One(large[i]) : i \in DOMAIN large}
    BY <1>3 DEF Range
  <2> QED
    BY <2>2, <2>3, <2>4
<1>9. PICK s1, s2, s3, s4 : s1 = If(c1, <<x1>>) /\ s2 = If(c2, <<x2>>) /\ s3 = If(c3, <<x3>>) /\ s4 = If(c4, <<x4>>)
  <2>1. \E y : y = If(c1, <<x1>>)
    OBVIOUS
  <2>2. \E y : y = If(c2, <<x2>>)
    OBVIOUS
  <2>3. \E y : y = If(c3, <<x3>>)
    OBVIOUS
  <2>4. \E y : y = If(c4, <<x4>>)
    OBVIOUS
  <2> QED
    BY <2>1, <2>2, <2>3, <2>4
<1>10. /\ s1 \in Seq(V) /\ s2 \in Seq(V) /\ s3 \in Seq(V) /\ s4 \in Seq(V)
       /\ Range(s1) \subseteq {x1} /\ Range(s2) \subseteq {x2} /\ Range(s3) \subseteq {x3} /\ Range(s4) \subseteq {x4}
  <2>1. x1 \in V /\ x2 \in V /\ x3 \in V /\ x4 \in V
    BY <1>7
  <2> QED
    BY <1>9, <2>1, RangeOfIf
<1>11. signals \in Seq(V) /\ Range(signals) = Range(s1) \cup Range(s2) \cup Range(s3) \cup Range(s4) \cup Range(e)
  <2>1. PICK s12 : s12 = s1 \o s2
    OBVIOUS
  <2>2. s12 \in Seq(V) /\ Range(s12) = Range(s1) \cup Range(s2)
    BY <1>10, <2>1, RangeOfBoth
  <2>3. PICK s123 : s123 = s12 \o s3
    OBVIOUS
  <2>4. s123 \in Seq(V) /\ Range(s123) = Range(s12) \cup Range(s3)
    BY <1>10, <2>2, <2>3, RangeOfBoth
  <2>5. PICK s1234 : s1234 = s123 \o s4
    OBVIOUS
  <2>6. s1234 \in Seq(V) /\ Range(s1234) = Range(s123) \cup Range(s4)
    BY <1>10, <2>4, <2>5, RangeOfBoth
  <2>7. signals = s1234 \o e
    BY <1>4, <1>9, <2>1, <2>3, <2>5
  <2>8. signals \in Seq(V) /\ Range(signals) = Range(s1234) \cup Range(e)
    BY <1>8, <2>6, <2>7, RangeOfBoth
  <2> QED
    BY <2>2, <2>4, <2>6, <2>8
<1>12. ASSUME NEW q \in Range(signals), q.key # 0
       PROVE  \E i \in DOMAIN large : q.type = Large(large[i].side) /\ q.key = large[i].key /\ q.usd = large[i].usd
  <2>1. q \in Range(e)
    BY <1>2, <1>10, <1>11, <1>12
  <2> QED
    BY <1>5, <1>8, <2>1
<1>13. ASSUME NEW i \in DOMAIN large
       PROVE  \E q \in Range(signals) :
                 q.key # 0 /\ q.type = Large(large[i].side) /\ q.key = large[i].key /\ q.usd = large[i].usd
  <2>1. One(large[i]) \in Range(signals)
    BY <1>8, <1>11
  <2> QED
    BY <1>5, <1>6, <2>1
<1> QED
  BY <1>11, <1>12, <1>13

LargeEvent(r) == [type |-> Large(r.side), usd |-> r.usd, wallet |-> r.wallet, key |-> r.key]

\* The large trades the whale scan stores are the token's large trades.
LEMMA StoredWhales ==
    ASSUME NEW S, AreTrades(S), NEW a, NEW b, NEW W, W = Whales(Within(S, a, b)),
           NEW events, events = {e \in WhaleEvents({r \in S : r.at <= b}, a) : e.type \in {"LARGE_BUY", "LARGE_SELL"}}
    PROVE  /\ events = {LargeEvent(r) : r \in W}
           /\ Cardinality(events) = Cardinality(W)
<1>1. Whales({r \in S : r.at <= b}) = {r \in S : r.at <= b /\ r.usd >= WhaleThreshold}
  BY DEF Whales
<1>2. W = {r \in Whales({r \in S : r.at <= b}) : r.at >= a}
  <2>1. \A r \in S : r.at \in Nat
    BY DEF AreTrades, IsTrade
  <2>2. \A r : r \in W <=> r \in S /\ a <= r.at /\ r.at <= b /\ r.usd >= WhaleThreshold
    BY DEF Whales, Within
  <2>3. \A r : a <= r.at <=> r.at >= a
    OBVIOUS
  <2> QED
    BY <1>1, <2>2, <2>3
<1>3. PICK others : /\ WhaleEvents({r \in S : r.at <= b}, a) = {LargeEvent(r) : r \in W} \cup others
                    /\ \A e \in others : e.type \in {"COORDINATED_ACTIVITY", "ACCUMULATION"}
  <2> DEFINE trades == {r \in Whales({r \in S : r.at <= b}) : r.at >= a}
             buys == Of(trades, "BUY")
             window(at) == {r \in buys : r.at = at}
             of(w) == {r \in buys : r.wallet = w}
             others1 == {[type |-> "COORDINATED_ACTIVITY", usd |-> Usd(window(at)), wallet |-> "coordinated", key |-> 0] :
                            at \in {t \in {r.at : r \in buys} : Cardinality(Wallets(window(t))) >= 3}}
             several == {v \in Wallets(buys) : Cardinality(of(v)) >= 2 /\ 2 * Usd(of(v)) >= 3 * WhaleThreshold}
             others2 == {[type |-> "ACCUMULATION", usd |-> Usd(of(w)), wallet |-> w, key |-> 0] : w \in several}
  <2>1. WhaleEvents({r \in S : r.at <= b}, a) = {LargeEvent(r) : r \in trades} \cup others1 \cup others2
    BY DEF WhaleEvents, LargeEvent
  <2>2. \A e \in others1 : e.type = "COORDINATED_ACTIVITY"
    <3> HIDE DEF window
    <3> QED
      OBVIOUS
  <2>3. \A e \in others2 : e.type = "ACCUMULATION"
    <3> HIDE DEF of, several
    <3> QED
      OBVIOUS
  <2>4. PICK o : o = others1 \cup others2
    OBVIOUS
  <2> HIDE DEF others1, others2
  <2>5. WhaleEvents({r \in S : r.at <= b}, a) = {LargeEvent(r) : r \in W} \cup o
    BY <1>2, <2>1, <2>4
  <2>6. \A e \in o : e.type \in {"COORDINATED_ACTIVITY", "ACCUMULATION"}
    BY <2>2, <2>3, <2>4
  <2> QED
    BY <2>5, <2>6
<1>4. \A r : LargeEvent(r).type \in {"LARGE_BUY", "LARGE_SELL"} /\ LargeEvent(r).key = r.key
  BY DEF Large, LargeEvent
<1>5. events = {LargeEvent(r) : r \in W}
  BY <1>3, <1>4
<1>6. PICK f : f = [r \in W |-> LargeEvent(r)]
  OBVIOUS
<1>7. IsFiniteSet(W) /\ \A r, q \in W : r.key = q.key => r = q
  <2>1. W \in SUBSET S
    BY DEF Whales, Within
  <2> QED
    BY <2>1, TradesWithin DEF AreTrades
<1>8. f \in Surjection(W, events) /\ f \in Injection(W, events)
  <2>1. \A r \in W : f[r] = LargeEvent(r) /\ f[r] \in events
    BY <1>5, <1>6
  <2>2. \A e \in events : \E r \in W : f[r] = e
    BY <1>5, <2>1
  <2>3. \A r, q \in W : f[r] = f[q] => r = q
    <3> SUFFICES ASSUME NEW r \in W, NEW q \in W, f[r] = f[q] PROVE r = q
      OBVIOUS
    <3>1. LargeEvent(r) = LargeEvent(q)
      BY <2>1
    <3>2. r.key = q.key
      BY <1>4, <3>1
    <3> QED
      BY <1>7, <3>2
  <2>4. f \in [W -> events]
    BY <1>6, <2>1
  <2> QED
    BY <2>2, <2>3, <2>4 DEF Surjection, Injection, IsInjective
<1>9. Cardinality(events) = Cardinality(W)
  BY <1>7, <1>8, FS_Surjection
<1> QED
  BY <1>5, <1>9

LEMMA FiguresHold ==
    ASSUME NEW S, AreTrades(S), NEW C, AreCandles(C), NEW liquidity, NEW a \in Int, NEW b \in Int, a <= b
    PROVE  FiguresAgree(S, C, liquidity, a, b)
<1>1. HeatmapSums(TradeHeatmap(S, a, b)) = [buy |-> VolumeMetrics(S, a, b).buy, sell |-> VolumeMetrics(S, a, b).sell]
  <2>1. VolumeMetrics(S, a, b).buy = Usd(Of(Within(S, a, b), "BUY")) /\ VolumeMetrics(S, a, b).sell = Usd(Of(Within(S, a, b), "SELL"))
    BY DEF VolumeMetrics
  <2> QED
    BY <2>1, TradeSums
<1>2. /\ HeatmapSums(CandleHeatmap(C, a, b)) = [buy |-> StoredCandleMetrics(C, a, b).buy, sell |-> StoredCandleMetrics(C, a, b).sell]
      /\ StoredCandleMetrics(C, a, b).candles > 0 => LiveCandleMetrics(C, a, b) = StoredCandleMetrics(C, a, b)
      /\ StoredCandleMetrics(C, a, b).buy + StoredCandleMetrics(C, a, b).sell = 100 * StoredCandleMetrics(C, a, b).total
  BY CandleSums
<1>3. PICK W, large, list : W = Whales(Within(S, a, b)) /\ large = LargeTrades(S, a, b) /\ list = Signals(S, {}, liquidity, a, b)
  <2>1. \E W : W = Whales(Within(S, a, b))
    OBVIOUS
  <2>2. \E large : large = LargeTrades(S, a, b)
    OBVIOUS
  <2>3. \E list : list = Signals(S, {}, liquidity, a, b)
    OBVIOUS
  <2> QED
    BY <2>1, <2>2, <2>3
<1>4. PICK events : events = {e \in WhaleEvents({r \in S : r.at <= b}, a) : e.type \in {"LARGE_BUY", "LARGE_SELL"}}
  OBVIOUS
<1> DEFINE Told(e) == <<e.type, e.key, e.usd>>
<1>5. ASSUME Cardinality(events) <= 10
      PROVE  {Told(e) : e \in events} = {Told(q) : q \in {t \in Range(list) : t.key # 0}}
  <2>1. /\ events = {LargeEvent(r) : r \in W}
        /\ Cardinality(events) = Cardinality(W)
    BY <1>3, <1>4, StoredWhales
  <2>2. Range(large) = W
    BY <1>3, <1>5, <2>1, LargeTradesType
  <2>3. /\ \A q \in Range(list) : q.key # 0 =>
                 \E i \in DOMAIN large : q.type = Large(large[i].side) /\ q.key = large[i].key /\ q.usd = large[i].usd
        /\ \A i \in DOMAIN large : \E q \in Range(list) :
                 q.key # 0 /\ q.type = Large(large[i].side) /\ q.key = large[i].key /\ q.usd = large[i].usd
    BY <1>3, SignalsOfTrades
  <2> DEFINE Tale(r) == <<Large(r.side), r.key, r.usd>>
  <2>4. {Told(e) : e \in events} = {Tale(r) : r \in W}
    <3>1. \A r : Told(LargeEvent(r)) = Tale(r)
      BY DEF LargeEvent
    <3> HIDE DEF Told, Tale
    <3> QED
      BY <2>1, <3>1
  <2>5. ASSUME NEW q \in Range(list), q.key # 0 PROVE \E r \in W : Told(q) = Tale(r)
    <3>1. PICK i \in DOMAIN large : q.type = Large(large[i].side) /\ q.key = large[i].key /\ q.usd = large[i].usd
      BY <2>3, <2>5
    <3>2. large[i] \in W
      BY <2>2 DEF Range
    <3> QED
      BY <3>1, <3>2
  <2>6. ASSUME NEW r \in W PROVE \E q \in {t \in Range(list) : t.key # 0} : Told(q) = Tale(r)
    <3>1. PICK i \in DOMAIN large : large[i] = r
      BY <2>2 DEF Range
    <3>2. PICK q \in Range(list) : q.key # 0 /\ q.type = Large(r.side) /\ q.key = r.key /\ q.usd = r.usd
      BY <2>3, <3>1
    <3> QED
      BY <3>2
  <2> HIDE DEF Told, Tale
  <2> QED
    BY <2>4, <2>5, <2>6
<1>6. Cardinality(events) <= 10 =>
        {<<e.type, e.key, e.usd>> : e \in events} = {<<q.type, q.key, q.usd>> : q \in {t \in Range(list) : t.key # 0}}
  BY <1>5
<1> QED
  BY <1>1, <1>2, <1>3, <1>4, <1>6 DEF FiguresAgree

-----------------------------------------------------------------------------
\* There are at most two candles of any hour of the days of an instance.
LEMMA FewCandles ==
    ASSUME NEW C, AreCandles(C) PROVE Cardinality(C) \in Nat /\ Cardinality(C) <= 1000
<1>1. PICK H, f : H = 0 .. 168 /\ f = [k \in H |-> Hour * k]
  <2>1. PICK H : H = 0 .. 168
    OBVIOUS
  <2> QED
    BY <2>1
<1>2. IsFiniteSet(H) /\ Cardinality(H) = 169
  <2>1. 0 \in Int /\ 168 \in Int
    OBVIOUS
  <2>2. IsFiniteSet(0 .. 168) /\ Cardinality(0 .. 168) = IF 0 > 168 THEN 0 ELSE 168 - 0 + 1
    BY <2>1, FS_Interval, Zenon
  <2> QED
    BY <1>1, <2>2
<1>3. PICK A : A = {Hour * k : k \in H}
  OBVIOUS
<1>4. IsFiniteSet(A) /\ Cardinality(A) <= 169 /\ Cardinality(A) \in Nat
  <2>1. f \in Surjection(H, A)
    BY <1>1, <1>3 DEF Surjection
  <2> QED
    BY <1>2, <2>1, FS_Surjection, FS_CardinalityType
<1>5. PICK B : B = {1, 4}
  OBVIOUS
<1>6. IsFiniteSet(B) /\ Cardinality(B) = 2
  <2>1. IsFiniteSet({1}) /\ Cardinality({1}) = 1
    BY FS_Singleton, Zenon
  <2>2. IsFiniteSet({1} \cup {4}) /\ Cardinality({1} \cup {4}) = IF 4 \in {1} THEN Cardinality({1}) ELSE Cardinality({1}) + 1
    BY <2>1, FS_AddElement, Zenon
  <2>3. B = {1} \cup {4}
    BY <1>5
  <2> QED
    BY <2>1, <2>2, <2>3
<1>7. IsFiniteSet(A \X B) /\ Cardinality(A \X B) = Cardinality(A) * Cardinality(B)
  BY <1>4, <1>6, FS_Product
<1>8. PICK g : g = [c \in C |-> <<c.at, c.hours>>]
  OBVIOUS
<1>9. g \in Injection(C, A \X B)
  <2>1. \A c \in C : g[c] = Slot(c) /\ g[c] \in A \X B
    BY <1>1, <1>3, <1>5, <1>8 DEF AreCandles, IsCandle, Slot
  <2>2. \A c, d \in C : g[c] = g[d] => c = d
    BY <2>1 DEF AreCandles
  <2> QED
    BY <1>8, <2>1, <2>2 DEF Injection, IsInjective
<1>10. IsFiniteSet(C) /\ Cardinality(C) <= Cardinality(A \X B) /\ Cardinality(C) \in Nat
  BY <1>7, <1>9, FS_Injection, FS_CardinalityType
<1>11. Cardinality(A \X B) <= 338
  <2>1. PICK n : n = Cardinality(A)
    OBVIOUS
  <2>2. n \in Nat /\ n <= 169 /\ Cardinality(A \X B) = n * 2
    BY <1>4, <1>6, <1>7, <2>1
  <2> QED
    BY <2>2
<1>12. PICK n, k : n = Cardinality(C) /\ k = Cardinality(A \X B)
  OBVIOUS
<1>13. n \in Nat /\ k \in Nat /\ n <= k /\ k <= 338
  BY <1>7, <1>10, <1>11, <1>12, FS_CardinalityType
<1> QED
  BY <1>12, <1>13

(******************************* Pages *************************************)
\* The pages of two of a list hold every element, and there is a further one
\* exactly when the list is not at its end.
LEMMA PagesOfTwo ==
    ASSUME NEW S, NEW list \in Seq(S), NEW n, n = Len(list)
    PROVE  /\ UNION {Range(PageOfSeq(list, p, 2)) : p \in 1 .. n \div 2 + 1} = Range(list)
           /\ \A p \in 1 .. n \div 2 + 1 : p * 2 < n <=> p + 1 \in 1 .. n \div 2 + 1 /\ PageOfSeq(list, p + 1, 2) # <<>>
<1>1. n \in Nat /\ DOMAIN list = 1 .. n /\ \A i \in 1 .. n : list[i] \in S
  BY LenProperties, ElementOfSeq
<1>2. PICK P : P = 1 .. n \div 2 + 1
  OBVIOUS
<1>3. ASSUME NEW p \in P
      PROVE  \E m \in Int : /\ m = (IF p * 2 <= n THEN p * 2 ELSE n)
                            /\ PageOfSeq(list, p, 2) \in Seq(S) /\ Len(PageOfSeq(list, p, 2)) = m - 2 * p + 2
                            /\ DOMAIN PageOfSeq(list, p, 2) = 1 .. (m - 2 * p + 2)
                            /\ \A i \in 1 .. (m - 2 * p + 2) : PageOfSeq(list, p, 2)[i] = list[2 * p - 2 + i]
  <2>1. p \in Int /\ 1 <= p /\ 2 * p - 2 <= n
    BY <1>1, <1>2, <1>3
  <2>2. PICK from, to, m : from = (p - 1) * 2 + 1 /\ to = p * 2 /\ m = (IF p * 2 <= n THEN p * 2 ELSE n)
    OBVIOUS
  <2>3. from = 2 * p - 1 /\ to = 2 * p /\ m \in Int /\ 2 * p - 2 <= m /\ m <= n /\ m <= 2 * p /\ to \in Int /\ from \in Int
    BY <1>1, <2>1, <2>2
  <2>4. Min({to, n}) = m
    <3>1. to \in Int /\ n \in Int
      BY <1>1, <2>3
    <3>2. Min({to, n}) \in {to, n} /\ Min({to, n}) <= to /\ Min({to, n}) <= n
      BY <3>1, MinOfTwo, Zenon
    <3>3. PICK k : k = Min({to, n})
      OBVIOUS
    <3>4. k \in {to, n} /\ k <= to /\ k <= n
      BY <3>2, <3>3
    <3>5. k = m
      BY <2>2, <3>1, <3>4
    <3> QED
      BY <3>3, <3>5
  <2>5. PICK page : page = PageOfSeq(list, p, 2)
    OBVIOUS
  <2>6. page = SubSeq(list, from, m)
    BY <2>2, <2>4, <2>5 DEF PageOfSeq
  <2>7. \A i \in from .. m : list[i] \in S
    BY <1>1, <2>1, <2>3
  <2>8. /\ page \in Seq(S) /\ Len(page) = IF from <= m THEN m - from + 1 ELSE 0
        /\ \A i \in 1 .. m - from + 1 : page[i] = list[from + i - 1]
    BY <2>3, <2>6, <2>7, SubSeqProperties
  <2>9. Len(page) = m - 2 * p + 2
    BY <2>1, <2>3, <2>8
  <2>10. DOMAIN page = 1 .. (m - 2 * p + 2)
    BY <2>8, <2>9, LenProperties
  <2>11. ASSUME NEW i \in 1 .. (m - 2 * p + 2) PROVE page[i] = list[2 * p - 2 + i]
    <3>1. i \in 1 .. m - from + 1 /\ from + i - 1 = 2 * p - 2 + i
      BY <2>1, <2>3, <2>11
    <3> QED
      BY <2>8, <3>1
  <2> QED
    BY <2>2, <2>3, <2>5, <2>8, <2>9, <2>10, <2>11
<1>4. ASSUME NEW p \in P PROVE Range(PageOfSeq(list, p, 2)) \subseteq Range(list)
  <2>1. PICK page : page = PageOfSeq(list, p, 2)
    OBVIOUS
  <2>2. PICK m \in Int : /\ m = (IF p * 2 <= n THEN p * 2 ELSE n) /\ DOMAIN page = 1 .. (m - 2 * p + 2)
                         /\ \A i \in 1 .. (m - 2 * p + 2) : page[i] = list[2 * p - 2 + i]
    BY <1>3, <2>1
  <2>3. \A i \in 1 .. (m - 2 * p + 2) : 2 * p - 2 + i \in DOMAIN list
    <3>1. p \in Int /\ 1 <= p /\ m <= n
      BY <1>1, <1>2, <2>2
    <3> QED
      BY <1>1, <3>1
  <2> QED
    BY <2>1, <2>2, <2>3 DEF Range
<1>5. ASSUME NEW i \in 1 .. n PROVE \E p \in P : list[i] \in Range(PageOfSeq(list, p, 2))
  <2>1. PICK p, j : p = (i + 1) \div 2 /\ j = i - 2 * p + 2
    OBVIOUS
  <2>2. p \in P /\ 1 <= p /\ 2 * p - 1 <= i /\ i <= 2 * p /\ p \in Int
    BY <1>1, <1>2, <2>1
  <2>3. PICK page : page = PageOfSeq(list, p, 2)
    OBVIOUS
  <2>4. PICK m \in Int : /\ m = (IF p * 2 <= n THEN p * 2 ELSE n) /\ DOMAIN page = 1 .. (m - 2 * p + 2)
                         /\ \A k \in 1 .. (m - 2 * p + 2) : page[k] = list[2 * p - 2 + k]
    BY <1>3, <2>2, <2>3
  <2>5. j \in 1 .. (m - 2 * p + 2) /\ 2 * p - 2 + j = i
    BY <1>1, <2>1, <2>2, <2>4
  <2>6. page[j] = list[i] /\ j \in DOMAIN page
    BY <2>4, <2>5
  <2> QED
    BY <2>2, <2>3, <2>6 DEF Range
<1>6. UNION {Range(PageOfSeq(list, p, 2)) : p \in P} = Range(list)
  <2>1. \A x \in Range(list) : \E i \in 1 .. n : x = list[i]
    BY <1>1 DEF Range
  <2> QED
    BY <1>4, <1>5, <2>1
<1>7. ASSUME NEW p \in P PROVE p * 2 < n <=> p + 1 \in P /\ PageOfSeq(list, p + 1, 2) # <<>>
  <2>1. p \in Int /\ 1 <= p /\ p <= n \div 2 + 1
    BY <1>1, <1>2
  <2>2. ASSUME p * 2 < n PROVE p + 1 \in P
    BY <1>1, <1>2, <2>1, <2>2
  <2>3. ASSUME p + 1 \in P PROVE PageOfSeq(list, p + 1, 2) # <<>> <=> p * 2 < n
    <3>1. PICK page : page = PageOfSeq(list, p + 1, 2)
      OBVIOUS
    <3>2. PICK m \in Int : /\ m = (IF (p + 1) * 2 <= n THEN (p + 1) * 2 ELSE n) /\ page \in Seq(S)
                           /\ Len(page) = m - 2 * (p + 1) + 2
      BY <1>3, <2>3, <3>1
    <3>3. page = <<>> <=> Len(page) = 0
      <4>1. page # <<>> => Len(page) # 0
        BY <3>2, EmptySeq
      <4> QED
        BY <4>1, EmptySeq
    <3>4. Len(page) = 0 <=> ~ (p * 2 < n)
      <4>1. p + 1 <= n \div 2 + 1
        BY <1>1, <1>2, <2>1, <2>3
      <4> QED
        BY <1>1, <2>1, <3>2, <4>1
    <3> QED
      BY <3>1, <3>3, <3>4
  <2> QED
    BY <2>2, <2>3
<1> QED
  BY <1>2, <1>6, <1>7

\* The first page, as long as all there is, is all there is.
LEMMA OnePage ==
    ASSUME NEW S, AreTrades(S), NEW n \in Nat, Cardinality(S) <= n
    PROVE  Range(PageOfSeq(NewestFirst(S), 1, n)) = S
<1>1. PICK list, k : list = NewestFirst(S) /\ k = Cardinality(S)
  <2>1. \E list : list = NewestFirst(S)
    OBVIOUS
  <2> QED
    BY <2>1
<1>2. k \in Nat /\ list \in Seq(S) /\ Len(list) = k /\ Range(list) = S
  BY <1>1, TradesSorted
<1>3. PICK from, to : from = (1 - 1) * n + 1 /\ to = 1 * n
  OBVIOUS
<1>4. from = 1 /\ to = n
  BY <1>3
<1>5. Min({to, Len(list)}) = Len(list)
  <2>1. n \in Int /\ k \in Int
    BY <1>2
  <2>2. Min({n, k}) \in {n, k} /\ Min({n, k}) <= n /\ Min({n, k}) <= k
    BY <2>1, MinOfTwo, Zenon
  <2>3. PICK m : m = Min({n, k})
    OBVIOUS
  <2>4. m \in {n, k} /\ m <= k /\ k <= n
    BY <1>1, <2>2, <2>3
  <2>5. m = k
    BY <2>1, <2>4
  <2> QED
    BY <1>2, <1>4, <2>3, <2>5
<1>6. PageOfSeq(list, 1, n) = SubSeq(list, from, Min({to, Len(list)}))
  BY <1>3 DEF PageOfSeq
<1>7. PageOfSeq(list, 1, n) = list
  BY <1>2, <1>4, <1>5, <1>6, SubSeqFull
<1> QED
  BY <1>1, <1>2, <1>7

LEMMA PagesHold ==
    ASSUME NEW S, AreTrades(S), NEW C, AreCandles(C), NEW a \in Int, NEW b \in Int, a <= b,
           NEW db, db.trades = S, db.candles = C, db.whales = {}, NEW w, w = <<a, b>>
    PROVE  PagesAgree(db, w, 2)
<1>1. PICK W, CW, n, list : W = Within(S, a, b) /\ CW = Within(C, a, b) /\ n = Cardinality(W) /\ list = NewestFirst(W)
  <2>1. \E W : W = Within(S, a, b)
    OBVIOUS
  <2>2. \E CW : CW = Within(C, a, b)
    OBVIOUS
  <2>3. PICK V : V = Within(S, a, b)
    OBVIOUS
  <2>4. \E list : list = NewestFirst(V)
    OBVIOUS
  <2> QED
    BY <2>2, <2>3, <2>4
<1>2. AreTrades(W) /\ n \in Nat /\ list \in Seq(W) /\ Len(list) = n /\ Range(list) = W /\ W \subseteq S
  <2>1. W \in SUBSET S
    BY <1>1 DEF Within
  <2>2. AreTrades(W)
    BY <2>1, TradesWithin
  <2> QED
    BY <1>1, <2>1, <2>2, TradesSorted
<1>3. AreCandles(CW)
  BY <1>1, CandlesWithin
<1>4. w[1] = a /\ w[2] = b
  OBVIOUS
<1>5. \A p, size : /\ TradesPage(db, w, Absent, Absent, p, size).items = PageOfSeq(list, p, size)
                   /\ TradesPage(db, w, Absent, Absent, p, size).total = n
                   /\ TradesPage(db, w, Absent, Absent, p, size).more = (p * size < n)
  <2>1. {r \in W : Absent \in {Absent, r.side} /\ (Absent = Absent \/ r.usd >= Absent)} = W
    OBVIOUS
  <2>2. {r \in Within(db.trades, w[1], w[2]) : Absent \in {Absent, r.side} /\ (Absent = Absent \/ r.usd >= Absent)} = W
    BY <1>1, <1>4, <2>1
  <2> QED
    BY <1>1, <2>2 DEF TradesPage
<1>6. UNION {Range(PageOfSeq(list, p, 2)) : p \in 1 .. n \div 2 + 1} = W
  BY <1>2, PagesOfTwo
<1>7. \A p \in 1 .. n \div 2 + 1 : p * 2 < n <=> p + 1 \in 1 .. n \div 2 + 1 /\ PageOfSeq(list, p + 1, 2) # <<>>
  BY <1>2, PagesOfTwo
<1>8. ASSUME NEW x \in {"BUY", "SELL"}
      PROVE  Range(TradesPage(db, w, x, Absent, 1, n).items) = Of(W, x)
  <2>1. x # Absent
    BY AbsentAssumption
  <2>2. {r \in W : x \in {Absent, r.side} /\ (Absent = Absent \/ r.usd >= Absent)} = Of(W, x)
    BY <2>1 DEF Of
  <2>3. {r \in Within(db.trades, w[1], w[2]) : x \in {Absent, r.side} /\ (Absent = Absent \/ r.usd >= Absent)} = Of(W, x)
    BY <1>1, <1>4, <2>2
  <2>4. TradesPage(db, w, x, Absent, 1, n).items = PageOfSeq(NewestFirst(Of(W, x)), 1, n)
    BY <2>3 DEF TradesPage
  <2>5. AreTrades(Of(W, x)) /\ Cardinality(Of(W, x)) <= n
    <3>1. Of(W, x) \in SUBSET W
      BY DEF Of
    <3>2. IsFiniteSet(W)
      BY <1>2 DEF AreTrades
    <3> QED
      BY <1>1, <1>2, <3>1, <3>2, TradesWithin, FS_Subset
  <2> QED
    BY <1>2, <2>4, <2>5, OnePage
<1>9. HasCandles(db, w) <=> CW # {}
  BY <1>1, <1>4 DEF HasCandles
<1>10. PICK overview : overview = OverviewPage(db, w)
  OBVIOUS
<1>11. /\ overview.source = IF HasCandles(db, w) THEN "geckoterminal" ELSE "trades"
       /\ overview.volumes = Volumes(db, w) /\ overview.candles = Cardinality(CW)
       /\ overview.signals = FirstN(Signals(S, {r[1] : r \in db.smart}, db.liquidity, a, b), 10)
  BY <1>1, <1>4, <1>10 DEF OverviewPage
<1>12. HeatmapSums(HeatmapPage(db, w)) = overview.volumes
  <2>1. CASE HasCandles(db, w)
    <3>1. HeatmapPage(db, w) = CandleHeatmap(C, a, b)
      BY <1>4, <2>1 DEF HeatmapPage
    <3>2. Volumes(db, w) = [buy |-> StoredCandleMetrics(C, a, b).buy, sell |-> StoredCandleMetrics(C, a, b).sell]
      BY <1>4, <2>1 DEF Volumes
    <3> QED
      BY <1>11, <3>1, <3>2, CandleSums
  <2>2. CASE ~ HasCandles(db, w)
    <3>1. HeatmapPage(db, w) = TradeHeatmap(S, a, b)
      BY <1>4, <2>2 DEF HeatmapPage
    <3>2. Volumes(db, w) = [buy |-> Usd(Of(W, "BUY")), sell |-> Usd(Of(W, "SELL"))]
      BY <1>1, <1>4, <2>2 DEF Volumes, VolumeMetrics
    <3> QED
      BY <1>1, <1>11, <3>1, <3>2, TradeSums
  <2> QED
    BY <2>1, <2>2
<1>13. ASSUME overview.source = "trades"
       PROVE  overview.volumes = [buy |-> Usd(Range(TradesPage(db, w, "BUY", Absent, 1, n).items)),
                                  sell |-> Usd(Range(TradesPage(db, w, "SELL", Absent, 1, n).items))]
  <2>1. ~ HasCandles(db, w)
    BY <1>11, <1>13
  <2>2. Volumes(db, w) = [buy |-> Usd(Of(W, "BUY")), sell |-> Usd(Of(W, "SELL"))]
    BY <1>1, <1>4, <2>1 DEF Volumes, VolumeMetrics
  <2> QED
    BY <1>8, <1>11, <2>2
<1>14. {<<q.type, q.usd>> : q \in {x \in Range(overview.signals) : x.key # 0}} \subseteq Range(WhalesPage(db, w, 1, 10).items)
  <2>1. PICK large, all : large = LargeTrades(S, a, b) /\ all = Signals(S, {r[1] : r \in db.smart}, db.liquidity, a, b)
    <3>1. \E large : large = LargeTrades(S, a, b)
      OBVIOUS
    <3> QED
      BY <3>1
  <2>2. \A q \in Range(all) : q.key # 0 =>
           \E i \in DOMAIN large : q.type = Large(large[i].side) /\ q.key = large[i].key /\ q.usd = large[i].usd
    BY <2>1, SignalsOfTrades
  <2>3. Range(overview.signals) \subseteq Range(all)
    <3>1. PICK V : all \in Seq(V)
      BY <2>1, SignalsOfTrades
    <3>2. PICK ten \in Nat : ten = 10
      OBVIOUS
    <3>3. overview.signals = FirstN(all, ten)
      BY <1>11, <2>1, <3>2
    <3> QED
      BY <3>1, <3>3, FirstOfList
  <2>4. WhalesPage(db, w, 1, 10).items = [i \in DOMAIN large |-> <<Large(large[i].side), large[i].usd>>]
    <3>1. Within(db.whales, w[1], w[2]) = {}
      BY DEF Within
    <3>2. AreTrades({})
      BY FS_EmptySet DEF AreTrades
    <3>3. PICK none : none = PageOfSeq(NewestFirst({}), 1, 10)
      OBVIOUS
    <3>4. none = <<>>
      <4>1. PICK empty : empty = NewestFirst({})
        OBVIOUS
      <4>2. Len(empty) = 0
        BY <3>2, <4>1, TradesSorted, FS_EmptySet
      <4>3. none = SubSeq(empty, 1, Min({10, 0}))
        <5>1. PICK from, to : from = (1 - 1) * 10 + 1 /\ to = 1 * 10
          OBVIOUS
        <5>2. from = 1 /\ to = 10
          BY <5>1
        <5>3. none = SubSeq(empty, from, Min({to, Len(empty)}))
          BY <3>3, <4>1, <5>1 DEF PageOfSeq
        <5> QED
          BY <4>2, <5>2, <5>3
      <4>4. Min({10, 0}) <= 0 /\ Min({10, 0}) \in Int
        <5>1. 10 \in Int /\ 0 \in Int
          OBVIOUS
        <5>2. Min({10, 0}) <= 0 /\ Min({10, 0}) \in {10, 0}
          BY <5>1, MinOfTwo, Zenon
        <5> QED
          BY <5>2
      <4>5. PICK m : m = Min({10, 0})
        OBVIOUS
      <4>6. m \in Int /\ m < 1 /\ 1 \in Int
        BY <4>4, <4>5
      <4> QED
        BY <4>3, <4>5, <4>6, SubSeqEmpty
    <3>5. large = FirstN(NewestFirst(Whales(Within(db.trades, w[1], w[2]))), 10)
      BY <1>4, <2>1 DEF LargeTrades
    <3> QED
      BY <3>1, <3>3, <3>4, <3>5 DEF WhalesPage
  <2>5. PICK items : items = [i \in DOMAIN large |-> <<Large(large[i].side), large[i].usd>>]
    OBVIOUS
  <2>6. \A i \in DOMAIN large : <<Large(large[i].side), large[i].usd>> \in Range(items)
    BY <2>5 DEF Range
  <2>7. \A q \in Range(overview.signals) : q.key # 0 => <<q.type, q.usd>> \in Range(items)
    BY <2>2, <2>3, <2>6
  <2> QED
    BY <2>4, <2>5, <2>7
<1>15. overview.candles = Len(CandlesPage(db, w, 1000))
  <2>1. PICK times : times = ByTime(CW)
    OBVIOUS
  <2>2. times \in Seq(CW) /\ Len(times) = Cardinality(CW)
    BY <1>3, <2>1, CandlesSorted
  <2>3. PICK limit \in Nat : limit = 1000
    OBVIOUS
  <2>4. Cardinality(CW) <= limit
    BY <1>3, <2>3, FewCandles
  <2>5. FirstN(times, limit) = times
    BY <2>2, <2>4, FirstOfList
  <2>6. CandlesPage(db, w, 1000) = FirstN(times, limit)
    BY <1>1, <1>4, <2>1, <2>3 DEF CandlesPage
  <2> QED
    BY <1>11, <2>2, <2>5, <2>6
<1>16. \A p \in 1 .. n \div 2 + 1 :
          TradesPage(db, w, Absent, Absent, p, 2).more
             <=> p + 1 \in 1 .. n \div 2 + 1 /\ TradesPage(db, w, Absent, Absent, p + 1, 2).items # <<>>
  BY <1>5, <1>7
<1>17. UNION {Range(TradesPage(db, w, Absent, Absent, p, 2).items) : p \in 1 .. n \div 2 + 1} = Within(db.trades, w[1], w[2])
  BY <1>1, <1>4, <1>5, <1>6
<1>18. TradesPage(db, w, Absent, Absent, 1, 2).total = n
  BY <1>5
<1> QED
  BY <1>10, <1>12, <1>13, <1>14, <1>15, <1>16, <1>17, <1>18 DEF PagesAgree

(********************************* No row twice *****************************)
(* The rows that a session sees have different keys: a row that it adds is  *)
(* not among those it sees, and the lock of the row keeps every other open  *)
(* session from adding the same one.  So have its candles.                  *)

Distinct(S) == \A r, q \in S : r.token = q.token /\ r.key = q.key => r = q
CandleLocks(t, C) == {<<"candle", t, Slot(c)>> : c \in C}

Keeps(r, table, charts) ==
    /\ r.token \in Tokens /\ r.hours \in {1, 4}
    /\ IsFiniteSet(r.add) /\ (\A x \in r.add : IsTrade(x)) /\ Distinct(Seen(r, table))
    /\ RowLocks(r.add) \subseteq r.locks /\ CandleLocks(r.token, r.candles) \subseteq r.locks
    /\ AreCandles(charts[r.token] \cup r.candles)
    /\ r.pc = "ohlcv" => r.add = {} /\ r.drop = {}

Apart(a, b) == a.locks \cap b.locks = {}

UniqueInv ==
    /\ now \in Instants
    /\ IsFiniteSet(rows) /\ (\A r \in rows : IsTrade(r)) /\ Distinct(rows)
    /\ \A t \in Tokens : AreCandles(candles[t])
    /\ \A p \in Procs : Open(s[p]) => s[p].token \in Tokens
    /\ \A p \in Procs : s[p].pc \notin Resting => Keeps(s[p], rows, candles)
    /\ \A p \in Procs : \A q \in Procs \ {p} : Apart(s[p], s[q])

\* What of a session the invariant is about.
Bounds == {"pc", "token", "hours", "add", "drop", "candles", "locks"}
Alike(a, b) ==
    /\ a.pc = b.pc /\ a.token = b.token /\ a.hours = b.hours /\ a.add = b.add /\ a.drop = b.drop
    /\ a.candles = b.candles /\ a.locks = b.locks

LEMMA KeepsOn ==
    ASSUME NEW a, NEW b, NEW table, NEW charts, Keeps(a, table, charts),
           b.token = a.token, b.hours = a.hours, b.add = a.add, b.drop = a.drop, b.candles = a.candles,
           a.locks \subseteq b.locks, b.pc = "ohlcv" => a.pc = "ohlcv"
    PROVE  Keeps(b, table, charts)
BY DEF Keeps, Seen

\* A step of session p that commits nothing, and the others' share of it.
LEMMA UniqueByOne ==
    ASSUME UniqueInv, NEW p \in Procs, UNCHANGED <<now, rows, candles>>,
           \A q \in Procs \ {p} : Alike(s'[q], s[q]),
           Open(s'[p]) => s'[p].token \in Tokens,
           s'[p].pc \notin Resting => Keeps(s'[p], rows, candles),
           \A q \in Procs \ {p} : s'[p].locks \cap s[q].locks = {}
    PROVE  UniqueInv'
<1>1. now' \in Instants /\ (IsFiniteSet(rows) /\ (\A r \in rows : IsTrade(r)) /\ Distinct(rows))'
  BY DEF UniqueInv, Distinct
<1>2. (\A t \in Tokens : AreCandles(candles[t]))'
  BY DEF UniqueInv
<1>3. \A q \in Procs : Open(s'[q]) => s'[q].token \in Tokens
  BY DEF UniqueInv, Alike, Open
<1>4. ASSUME NEW q \in Procs, s'[q].pc \notin Resting PROVE Keeps(s'[q], rows', candles')
  <2>1. CASE q = p
    BY <1>4, <2>1
  <2>2. CASE q # p
    <3>1. Alike(s'[q], s[q])
      BY <2>2
    <3>2. Keeps(s[q], rows, candles)
      BY <1>4, <3>1 DEF UniqueInv, Alike
    <3>3. Keeps(s'[q], rows, candles)
      BY <3>1, <3>2, KeepsOn DEF Alike
    <3> QED
      BY <3>3
  <2> QED
    BY <2>1, <2>2
<1>5. ASSUME NEW a \in Procs, NEW b \in Procs \ {a} PROVE s'[a].locks \cap s'[b].locks = {}
  <2>1. s[a].locks \cap s[b].locks = {}
    BY DEF UniqueInv, Apart
  <2> QED
    BY <2>1 DEF Alike
<1>6. (\A q \in Procs : Open(s[q]) => s[q].token \in Tokens)'
  BY <1>3 DEF Open
<1>7. (\A q \in Procs : s[q].pc \notin Resting => Keeps(s[q], rows, candles))'
  BY <1>4 DEF Resting
<1>8. (\A a \in Procs : \A b \in Procs \ {a} : Apart(s[a], s[b]))'
  BY <1>5 DEF Apart
<1> QED
  BY <1>1, <1>2, <1>6, <1>7, <1>8 DEF UniqueInv

\* What a session of a sync is, for a proof about its next step.
LEMMA InSync ==
    ASSUME TellInv, UniqueInv, NEW p \in Procs, s[p].pc \notin Resting
    PROVE  /\ DOMAIN s = Procs /\ Bounds \subseteq DOMAIN s[p] /\ DOMAIN s[p] = DOMAIN NewSession
           /\ Keeps(s[p], rows, candles)
           /\ \A q \in Procs \ {p} : s[p].locks \cap s[q].locks = {}
<1>1. DOMAIN s = Procs /\ DOMAIN s[p] = DOMAIN NewSession
  BY DEF TellInv, FieldsInv
<1>2. Bounds \subseteq DOMAIN s[p]
  BY <1>1, SessionFields DEF Bounds
<1>3. Keeps(s[p], rows, candles)
  BY DEF UniqueInv
<1>4. \A q \in Procs \ {p} : s[p].locks \cap s[q].locks = {}
  BY DEF UniqueInv, Apart
<1> QED
  BY <1>1, <1>2, <1>3, <1>4

\* Only the locks of the session, if anything, grow.
LEMMA UniqueOnward ==
    ASSUME TellInv, UniqueInv, NEW p \in Procs, s[p].pc \notin Resting, UNCHANGED <<now, rows, candles>>,
           \A q \in Procs \ {p} : s'[q] = s[q],
           NEW more, Free(p, more), s'[p].locks = s[p].locks \cup more,
           s'[p].token = s[p].token, s'[p].hours = s[p].hours, s'[p].add = s[p].add, s'[p].drop = s[p].drop,
           s'[p].candles = s[p].candles, s'[p].pc # "ohlcv"
    PROVE  UniqueInv'
<1>1. Keeps(s[p], rows, candles) /\ \A q \in Procs \ {p} : s[p].locks \cap s[q].locks = {}
  BY InSync
<1>2. Keeps(s'[p], rows, candles)
  BY <1>1, KeepsOn
<1>3. \A q \in Procs \ {p} : s'[p].locks \cap s[q].locks = {}
  BY <1>1 DEF Free
<1>4. \A q \in Procs \ {p} : Alike(s'[q], s[q])
  BY DEF Alike
<1>5. s'[p].token \in Tokens
  BY <1>2 DEF Keeps
<1> QED
  BY <1>2, <1>3, <1>4, <1>5, UniqueByOne

LEMMA LoadUnique ==
    ASSUME TellInv, UniqueInv, NEW p \in Procs, Load(p) PROVE UniqueInv'
<1>1. s[p].pc = "load" /\ UNCHANGED <<now, rows, candles>>
  BY DEF Load, tables
<1>2. DOMAIN s = Procs /\ Bounds \subseteq DOMAIN s[p]
  BY <1>1, InSync DEF Resting
<1>3. /\ s'[p].pc \in {"liquidity", "clear"} /\ s'[p].locks = s[p].locks /\ s'[p].token = s[p].token
      /\ s'[p].hours = s[p].hours /\ s'[p].add = s[p].add /\ s'[p].drop = s[p].drop /\ s'[p].candles = s[p].candles
      /\ \A q \in Procs \ {p} : s'[q] = s[q]
  <2>1. CASE s[p].todo = <<>>
    <3>1. s' = [s EXCEPT ![p].pc = "liquidity"]
      BY <2>1 DEF Load
    <3> QED
      BY <1>2, <3>1 DEF Bounds
  <2>2. CASE s[p].todo # <<>>
    <3>1. PICK was, src : was = cps[s[p].token][Source(p)] /\ src = Source(p)
      OBVIOUS
    <3>2. s' = [s EXCEPT ![p].pc = "clear", ![p].since = was.at, ![p].cursor = was.cursor,
                         ![p].loaded = Set(@, src, was), ![p].page = 1,
                         ![p].cp = Set(@, src, [was EXCEPT !.status = "running"])]
      BY <2>2, <3>1 DEF Load
    <3> QED
      BY <1>2, <3>2 DEF Bounds
  <2> QED
    BY <2>1, <2>2
<1>4. Free(p, {}) /\ s'[p].locks = s[p].locks \cup {}
  BY <1>3 DEF Free
<1> QED
  BY <1>1, <1>3, <1>4, UniqueOnward DEF Resting

LEMMA LiquidityUnique ==
    ASSUME TellInv, UniqueInv, NEW p \in Procs, Liquidity(p) PROVE UniqueInv'
<1>1. s[p].pc = "liquidity" /\ UNCHANGED <<now, rows, candles>>
  BY DEF Liquidity, tables
<1>2. DOMAIN s = Procs /\ Bounds \subseteq DOMAIN s[p]
  BY <1>1, InSync DEF Resting
<1>3. PICK events, loaded, cp, todo :
         s' = [s EXCEPT ![p].pc = "score", ![p].liq = events, ![p].loaded = loaded, ![p].cp = cp, ![p].toScore = todo]
  BY DEF Liquidity
<1>4. /\ s'[p].pc = "score" /\ s'[p].locks = s[p].locks /\ s'[p].token = s[p].token
      /\ s'[p].hours = s[p].hours /\ s'[p].add = s[p].add /\ s'[p].drop = s[p].drop /\ s'[p].candles = s[p].candles
      /\ \A q \in Procs \ {p} : s'[q] = s[q]
  BY <1>2, <1>3 DEF Bounds
<1>5. Free(p, {}) /\ s'[p].locks = s[p].locks \cup {}
  BY <1>4 DEF Free
<1> QED
  BY <1>1, <1>4, <1>5, UniqueOnward DEF Resting

LEMMA DoneUnique ==
    ASSUME TellInv, UniqueInv, NEW p \in Procs, s[p].pc = "pull", UNCHANGED <<now, rows, candles>>,
           NEW status, SourceDone(p, status)
    PROVE  UniqueInv'
<1>1. DOMAIN s = Procs /\ Bounds \subseteq DOMAIN s[p]
  BY InSync DEF Resting
<1>2. PICK src : s' = [s EXCEPT ![p].pc = "load", ![p].todo = Tail(@), ![p].cp[src].status = status]
  BY DEF SourceDone
<1>3. /\ s'[p].pc = "load" /\ s'[p].locks = s[p].locks /\ s'[p].token = s[p].token
      /\ s'[p].hours = s[p].hours /\ s'[p].add = s[p].add /\ s'[p].drop = s[p].drop /\ s'[p].candles = s[p].candles
      /\ \A q \in Procs \ {p} : s'[q] = s[q]
  BY <1>1, <1>2 DEF Bounds
<1>4. Free(p, {}) /\ s'[p].locks = s[p].locks \cup {}
  BY <1>3 DEF Free
<1> QED
  BY <1>3, <1>4, UniqueOnward DEF Resting

LEMMA ScoreReadUnique ==
    ASSUME TellInv, UniqueInv, NEW p \in Procs, ScoreRead(p) PROVE UniqueInv'
<1>1. s[p].pc = "score" /\ UNCHANGED <<now, rows, candles>>
  BY DEF ScoreRead, tables
<1>2. DOMAIN s = Procs /\ Bounds \subseteq DOMAIN s[p]
  BY <1>1, InSync DEF Resting
<1>3. /\ s'[p].pc \in {"analyse", "score", "upsert"} /\ s'[p].locks = s[p].locks /\ s'[p].token = s[p].token
      /\ s'[p].hours = s[p].hours /\ s'[p].add = s[p].add /\ s'[p].drop = s[p].drop /\ s'[p].candles = s[p].candles
      /\ \A q \in Procs \ {p} : s'[q] = s[q]
  <2>1. CASE s[p].toScore = {}
    <3>1. s' = [s EXCEPT ![p].pc = "analyse"]
      BY <2>1 DEF ScoreRead
    <3> QED
      BY <1>2, <3>1 DEF Bounds
  <2>2. CASE s[p].toScore # {}
    <3>1. PICK w \in s[p].toScore :
             s' = IF RowsOf(p, w) = {} THEN [s EXCEPT ![p].toScore = @ \ {w}]
                  ELSE [s EXCEPT ![p].pc = "upsert", ![p].wallet = w, ![p].toScore = @ \ {w},
                                 ![p].stat = WalletStat(RowsOf(p, w))]
      BY <2>2 DEF ScoreRead
    <3>2. PICK stat : stat = WalletStat(RowsOf(p, w))
      OBVIOUS
    <3>3. CASE s' = [s EXCEPT ![p].toScore = @ \ {w}]
      BY <1>1, <1>2, <3>3 DEF Bounds
    <3>4. CASE s' = [s EXCEPT ![p].pc = "upsert", ![p].wallet = w, ![p].toScore = @ \ {w}, ![p].stat = stat]
      BY <1>2, <3>4 DEF Bounds
    <3> QED
      BY <3>1, <3>2, <3>3, <3>4
  <2> QED
    BY <2>1, <2>2
<1>4. Free(p, {}) /\ s'[p].locks = s[p].locks \cup {}
  BY <1>3 DEF Free
<1> QED
  BY <1>1, <1>3, <1>4, UniqueOnward DEF Resting

LEMMA ScoreWriteUnique ==
    ASSUME TellInv, UniqueInv, NEW p \in Procs, ScoreWrite(p) PROVE UniqueInv'
<1>1. s[p].pc = "upsert" /\ UNCHANGED <<now, rows, candles>> /\ Free(p, WalletLock(p))
  BY DEF ScoreWrite, tables
<1>2. DOMAIN s = Procs /\ Bounds \subseteq DOMAIN s[p]
  BY <1>1, InSync DEF Resting
<1>3. PICK lock, stats_ : lock = WalletLock(p) /\ stats_ = Set(s[p].stats, s[p].wallet, s[p].stat)
  OBVIOUS
<1>4. s' = [s EXCEPT ![p].pc = "score", ![p].locks = @ \cup lock, ![p].stats = stats_]
  BY <1>3 DEF ScoreWrite
<1>5. /\ s'[p].pc = "score" /\ s'[p].locks = s[p].locks \cup lock /\ s'[p].token = s[p].token
      /\ s'[p].hours = s[p].hours /\ s'[p].add = s[p].add /\ s'[p].drop = s[p].drop /\ s'[p].candles = s[p].candles
      /\ \A q \in Procs \ {p} : s'[q] = s[q]
  BY <1>2, <1>4 DEF Bounds
<1> QED
  BY <1>1, <1>3, <1>5, UniqueOnward DEF Resting

LEMMA AnalyseUnique ==
    ASSUME TellInv, UniqueInv, NEW p \in Procs, Analyse(p) PROVE UniqueInv'
<1>1. s[p].pc = "analyse" /\ UNCHANGED <<now, rows, candles>>
  BY DEF Analyse, tables
<1>2. DOMAIN s = Procs /\ Bounds \subseteq DOMAIN s[p]
  BY <1>1, InSync DEF Resting
<1>3. PICK best, metric, signals : s' = [s EXCEPT ![p].pc = "commit", ![p].smart = best, ![p].metric = metric,
                                                  ![p].signals = signals]
  BY DEF Analyse
<1>4. /\ s'[p].pc = "commit" /\ s'[p].locks = s[p].locks /\ s'[p].token = s[p].token
      /\ s'[p].hours = s[p].hours /\ s'[p].add = s[p].add /\ s'[p].drop = s[p].drop /\ s'[p].candles = s[p].candles
      /\ \A q \in Procs \ {p} : s'[q] = s[q]
  BY <1>2, <1>3 DEF Bounds
<1>5. Free(p, {}) /\ s'[p].locks = s[p].locks \cup {}
  BY <1>4 DEF Free
<1> QED
  BY <1>1, <1>4, <1>5, UniqueOnward DEF Resting

\* The deleted rows leave what the session sees: no row comes in.
LEMMA ClearUnique ==
    ASSUME TellInv, UniqueInv, NEW p \in Procs, Clear(p) PROVE UniqueInv'
<1> DEFINE old_ == IF Source(p) \in Replaced
                   THEN {x \in OfToken(Visible(p), s[p].token) : x.src = Source(p)} ELSE {}
           more_ == RowLocks(old_) \cup (IF s[p].loaded[Source(p)].status = "none" THEN {CpLock(p)} ELSE {})
<1>1. s[p].pc = "clear" /\ UNCHANGED <<now, rows, candles>> /\ Free(p, more_)
  BY DEF Clear, tables
<1>2. /\ DOMAIN s = Procs /\ Bounds \subseteq DOMAIN s[p] /\ Keeps(s[p], rows, candles)
      /\ \A q \in Procs \ {p} : s[p].locks \cap s[q].locks = {}
  BY <1>1, InSync DEF Resting
<1>3. PICK old, more : old = old_ /\ more = more_
  OBVIOUS
<1>4. s' = [s EXCEPT ![p].pc = "pull", ![p].locks = @ \cup more, ![p].drop = @ \cup old, ![p].add = @ \ old]
  BY <1>3 DEF Clear
<1>5. Free(p, more)
  BY <1>1, <1>3
<1> HIDE DEF old_, more_
<1>6. /\ s'[p].pc = "pull" /\ s'[p].locks = s[p].locks \cup more /\ s'[p].token = s[p].token
      /\ s'[p].hours = s[p].hours /\ s'[p].add = s[p].add \ old /\ s'[p].drop = s[p].drop \cup old
      /\ s'[p].candles = s[p].candles
      /\ \A q \in Procs \ {p} : s'[q] = s[q]
  BY <1>2, <1>4 DEF Bounds
<1>7. PICK a, b : a = s[p] /\ b = s'[p]
  OBVIOUS
<1>8. Keeps(b, rows, candles)
  <2>1. /\ Keeps(a, rows, candles)
        /\ b.pc = "pull" /\ b.locks = a.locks \cup more /\ b.token = a.token /\ b.hours = a.hours
        /\ b.add = a.add \ old /\ b.drop = a.drop \cup old /\ b.candles = a.candles
    BY <1>2, <1>6, <1>7
  <2>2. IsFiniteSet(b.add) /\ \A x \in b.add : IsTrade(x)
    <3>1. b.add \in SUBSET a.add /\ IsFiniteSet(a.add) /\ \A x \in a.add : IsTrade(x)
      BY <2>1 DEF Keeps
    <3>2. IsFiniteSet(b.add)
      BY <3>1, FS_Subset
    <3> QED
      BY <3>1, <3>2
  <2>3. Distinct(Seen(b, rows))
    <3>1. Seen(b, rows) \subseteq Seen(a, rows)
      BY <2>1 DEF Seen
    <3> QED
      BY <2>1, <3>1 DEF Distinct, Keeps
  <2>4. RowLocks(b.add) \subseteq b.locks /\ CandleLocks(b.token, b.candles) \subseteq b.locks
    <3>1. RowLocks(b.add) \subseteq RowLocks(a.add)
      BY <2>1 DEF RowLocks
    <3> QED
      BY <2>1, <3>1 DEF Keeps
  <2> QED
    BY <2>1, <2>2, <2>3, <2>4 DEF Keeps
<1>9. \A q \in Procs \ {p} : s'[p].locks \cap s[q].locks = {}
  BY <1>2, <1>5, <1>6 DEF Free
<1>10. s'[p].token \in Tokens
  BY <1>7, <1>8 DEF Keeps
<1>11. \A q \in Procs \ {p} : Alike(s'[q], s[q])
  BY <1>6 DEF Alike
<1> QED
  BY <1>1, <1>7, <1>8, <1>9, <1>10, <1>11, UniqueByOne

LEMMA TimesOf == \A t \in Instants : t \in 0 .. 672
<1>1. 7 * Day = 672
  BY DEF Day, Hour
<1> QED
  BY <1>1, MarketAssumption

\* The candles a source shows begin on the hour, and no two together.
LEMMA CandlesFetched ==
    ASSUME now \in Instants, NEW t, NEW hours \in {1, 4} PROVE AreCandles(Candles(t, hours))
<1> DEFINE width_ == hours * Hour
           Begin_(m) == m.at - (m.at % width_)
           begins_ == {Begin_(m) : m \in Shown(t)}
           C_(b) == [at |-> b, hours |-> hours, open |-> Price[b], close |-> Price[Min({b + width_, now})],
                     volume |-> Usd({m \in Shown(t) : b <= m.at /\ m.at < b + width_})]
<1>1. Candles(t, hours) = {C_(b) : b \in begins_}
  BY DEF Candles
<1>2. PICK M, width, begin, begins, f :
         /\ M = Shown(t) /\ width = width_ /\ begin = [m \in M |-> Begin_(m)] /\ begins = begins_
         /\ f = [b \in begins |-> C_(b)]
  <2>1. PICK M : M = Shown(t)
    OBVIOUS
  <2>2. PICK begin, begins : begin = [m \in M |-> Begin_(m)] /\ begins = begins_
    OBVIOUS
  <2>3. \E f : f = [b \in begins |-> C_(b)]
    OBVIOUS
  <2> QED
    BY <2>1, <2>2, <2>3
<1>3. /\ Candles(t, hours) = {f[b] : b \in begins} /\ begins = {begin[m] : m \in M}
      /\ \A m \in M : begin[m] = m.at - (m.at % width)
      /\ \A b \in begins : /\ f[b].at = b /\ f[b].hours = hours /\ f[b].open = Price[b]
                           /\ f[b].close = Price[Min({b + width, now})]
                           /\ f[b].volume = Usd({m \in M : b <= m.at /\ m.at < b + width})
  BY <1>1, <1>2
<1> HIDE DEF width_, Begin_, begins_, C_
<1>4. width \in {4, 16} /\ now \in 0 .. 672
  BY <1>2, TimesOf DEF Hour, width_
<1>5. M \in SUBSET Market /\ IsFiniteSet(M) /\ \A m \in M : m.at \in Nat /\ m.usd \in Nat /\ m.at <= now
  <2>1. M \in SUBSET Market /\ \A m \in M : m.shown <= now
    BY <1>2 DEF Shown
  <2>2. IsFiniteSet(M) /\ \A m \in M : m.at \in Nat /\ m.usd \in Nat /\ m.shown \in Nat /\ m.at <= m.shown
    BY <2>1, FS_Subset, MarketAssumption
  <2> QED
    BY <1>4, <2>1, <2>2
<1>6. \A b \in begins : b \in 0 .. now /\ b \in {Hour * k : k \in 0 .. 168}
  <2>1. ASSUME NEW m \in M PROVE begin[m] \in 0 .. now /\ \E k \in 0 .. 168 : begin[m] = Hour * k
    <3>1. PICK x : x = m.at
      OBVIOUS
    <3>2. x \in Nat /\ x <= now /\ begin[m] = x - (x % width) /\ now \in 0 .. 672
      BY <1>3, <1>4, <1>5, <3>1
    <3>3. CASE width = 4
      <4>1. x - (x % 4) = 4 * (x \div 4) /\ x \div 4 \in 0 .. 168
        BY <3>2
      <4> QED
        BY <3>2, <3>3, <4>1 DEF Hour
    <3>4. CASE width = 16
      <4>1. x - (x % 16) = 16 * (x \div 16) /\ x \div 16 \in 0 .. 42
        BY <3>2
      <4>2. PICK k : k = 4 * (x \div 16)
        OBVIOUS
      <4>3. k \in 0 .. 168 /\ begin[m] = 4 * k
        BY <3>2, <3>4, <4>1, <4>2
      <4> QED
        BY <3>2, <3>4, <4>1, <4>3 DEF Hour
    <3> QED
      BY <1>4, <3>3, <3>4
  <2> QED
    BY <1>3, <2>1
<1>7. IsFiniteSet(Candles(t, hours))
  <2>1. IsFiniteSet(begins)
    BY <1>3, <1>5, ImageIsFinite
  <2> QED
    BY <1>3, <2>1, ImageIsFinite
<1>8. ASSUME NEW b \in begins PROVE IsCandle(f[b])
  <2>1. b \in 0 .. now /\ Price[b] \in Nat
    BY <1>6, MarketAssumption
  <2>2. Price[Min({b + width, now})] \in Nat
    <3>1. b + width \in Int /\ now \in Int /\ b + width \in 0 .. 1000 /\ b \in 0 .. 672
      BY <1>4, <2>1
    <3>2. PICK n : n = Min({b + width, now})
      OBVIOUS
    <3>3. n \in {b + width, now} /\ n <= now
      BY <3>1, <3>2, MinOfTwo, Zenon
    <3>4. n \in 0 .. now
      BY <1>4, <3>1, <3>3
    <3> QED
      BY <3>2, <3>4, MarketAssumption
  <2>3. PICK V : V = {m \in M : b <= m.at /\ m.at < b + width}
    OBVIOUS
  <2>4. IsFiniteSet(V) /\ \A m \in V : m.usd \in Nat
    BY <1>5, <2>3, FS_Subset
  <2>5. Usd(V) \in Nat
    BY <2>4, UsdIsNat
  <2>6. /\ f[b].at = b /\ f[b].hours = hours /\ f[b].open = Price[b]
        /\ f[b].close = Price[Min({b + width, now})] /\ f[b].volume = Usd(V)
    BY <1>3, <2>3
  <2>7. f[b].at \in {Hour * k : k \in 0 .. 168}
    BY <1>6, <2>6
  <2> QED
    BY <2>1, <2>2, <2>5, <2>6, <2>7 DEF IsCandle
<1>9. ASSUME NEW c \in Candles(t, hours), NEW d \in Candles(t, hours), Slot(c) = Slot(d) PROVE c = d
  <2>1. PICK a \in begins, b \in begins : c = f[a] /\ d = f[b]
    BY <1>3
  <2>2. c.at = a /\ d.at = b
    BY <1>3, <2>1
  <2>3. c.at = d.at
    BY <1>9 DEF Slot
  <2> QED
    BY <2>1, <2>2, <2>3
<1> QED
  BY <1>3, <1>7, <1>8, <1>9 DEF AreCandles

\* Only candles of slots that the table has not are added.
LEMMA OhlcvUnique ==
    ASSUME TellInv, UniqueInv, NEW p \in Procs, Ohlcv(p) PROVE UniqueInv'
<1> DEFINE t_ == s[p].token
           new_(up) == {c \in IF HasPool(t_) /\ up THEN Candles(t_, s[p].hours) ELSE {} :
                           Slot(c) \notin {Slot(d) : d \in candles[t_]}}
           keys_(up) == {<<"candle", t_, Slot(c)>> : c \in new_(up)}
           first_(up) == candles[t_] \cup new_(up) = {}
<1>1. PICK up \in BOOLEAN :
         /\ s' = [s EXCEPT ![p].pc = "load", ![p].candles = new_(up), ![p].locks = keys_(up),
                           ![p].todo = Collectors(first_(up))]
         /\ Free(p, keys_(up))
  BY DEF Ohlcv
<1>2. PICK c, k, todo : c = new_(up) /\ k = keys_(up) /\ todo = Collectors(first_(up))
  OBVIOUS
<1>3. s' = [s EXCEPT ![p].pc = "load", ![p].candles = c, ![p].locks = k, ![p].todo = todo] /\ Free(p, k)
  BY <1>1, <1>2
<1>4. s[p].pc = "ohlcv" /\ UNCHANGED <<now, rows, candles>>
  BY DEF Ohlcv, tables
<1>5. DOMAIN s = Procs /\ Bounds \subseteq DOMAIN s[p] /\ Keeps(s[p], rows, candles)
  BY <1>4, InSync DEF Resting
<1>6. /\ s'[p].pc = "load" /\ s'[p].locks = k /\ s'[p].token = s[p].token /\ s'[p].hours = s[p].hours
      /\ s'[p].add = s[p].add /\ s'[p].drop = s[p].drop /\ s'[p].candles = c
      /\ \A q \in Procs \ {p} : s'[q] = s[q]
  BY <1>3, <1>5 DEF Bounds
<1>7. PICK a, b, old : a = s[p] /\ b = s'[p] /\ old = candles[a.token]
  OBVIOUS
<1>8. /\ a.token \in Tokens /\ a.hours \in {1, 4} /\ a.add = {} /\ a.drop = {}
      /\ AreCandles(old) /\ now \in Instants
  BY <1>4, <1>5, <1>7 DEF Keeps, UniqueInv
<1>9. AreCandles(old \cup c)
  <2>1. PICK C : C \in {Candles(a.token, a.hours), {}} /\ c = {x \in C : Slot(x) \notin {Slot(d) : d \in old}}
    BY <1>2, <1>7
  <2>2. AreCandles(C)
    <3>1. AreCandles({})
      BY FS_EmptySet DEF AreCandles
    <3>2. AreCandles(Candles(a.token, a.hours))
      BY <1>8, CandlesFetched
    <3> QED
      BY <2>1, <3>1, <3>2
  <2>3. c \in SUBSET C /\ \A x \in c : \A d \in old : Slot(x) # Slot(d)
    BY <2>1
  <2>4. IsFiniteSet(old \cup c)
    <3>1. IsFiniteSet(c)
      BY <2>2, <2>3, FS_Subset DEF AreCandles
    <3> QED
      BY <1>8, <3>1, FS_Union DEF AreCandles
  <2>5. \A x \in old \cup c : IsCandle(x)
    BY <1>8, <2>2, <2>3 DEF AreCandles
  <2>6. ASSUME NEW x \in old \cup c, NEW d \in old \cup c, Slot(x) = Slot(d) PROVE x = d
    <3>1. CASE x \in old /\ d \in old
      BY <1>8, <2>6, <3>1 DEF AreCandles
    <3>2. CASE x \in c /\ d \in c
      BY <2>2, <2>3, <2>6, <3>2 DEF AreCandles
    <3> QED
      BY <2>3, <2>6, <3>1, <3>2
  <2> QED
    BY <2>4, <2>5, <2>6 DEF AreCandles
<1>10. CandleLocks(b.token, c) = k
  BY <1>2, <1>6, <1>7 DEF CandleLocks
<1>11. Keeps(b, rows, candles)
  <2>1. b.token = a.token /\ b.hours = a.hours /\ b.add = {} /\ b.drop = {} /\ b.candles = c /\ b.locks = k
        /\ b.pc = "load" /\ candles[b.token] = old
    BY <1>6, <1>7, <1>8
  <2>2. Seen(b, rows) = rows /\ RowLocks(b.add) = {}
    BY <2>1 DEF Seen, RowLocks
  <2>3. IsFiniteSet(b.add) /\ Distinct(Seen(b, rows))
    BY <2>1, <2>2, FS_EmptySet DEF UniqueInv
  <2> QED
    BY <1>8, <1>9, <1>10, <2>1, <2>2, <2>3 DEF Keeps
<1>12. \A q \in Procs \ {p} : s'[p].locks \cap s[q].locks = {} /\ Alike(s'[q], s[q])
  BY <1>3, <1>6 DEF Free, Alike
<1>13. s'[p].token \in Tokens
  BY <1>6, <1>7, <1>8
<1> QED
  BY <1>4, <1>7, <1>11, <1>12, <1>13, UniqueByOne

\* A page is a finite set of rows of the token, no two of one trade.
LEMMA PageRows ==
    ASSUME now \in Nat, NEW p \in Procs, Source(p) \in Sources
    PROVE  /\ IsFiniteSet(PageOf(p)) /\ Distinct(PageOf(p))
           /\ \A r \in PageOf(p) : IsTrade(r) /\ r.token = s[p].token
<1> DEFINE t == s[p].token
           Row(n) == [key |-> n.key, token |-> t, wallet |-> n.wallet, side |-> n.side, usd |-> n.usd,
                      at |-> n.at, src |-> Source(p)]
<1>1. Shown(t) \in SUBSET Market /\ IsFiniteSet(Shown(t)) /\ \A m \in Shown(t) : m.token = t
  BY MarketAssumption, FS_Subset DEF Shown
<1>2. ASSUME NEW S \in SUBSET Shown(t), PageOf(p) = {Row(n) : n \in S}
      PROVE  /\ IsFiniteSet(PageOf(p)) /\ Distinct(PageOf(p))
             /\ \A r \in PageOf(p) : IsTrade(r) /\ r.token = t
  <2>1. PICK f : f = [n \in S |-> Row(n)]
    OBVIOUS
  <2>2. /\ PageOf(p) = {f[n] : n \in S}
        /\ \A n \in S : /\ f[n].key = n.key /\ f[n].token = t /\ f[n].side = n.side /\ f[n].usd = n.usd
                        /\ f[n].at = n.at
    BY <1>2, <2>1
  <2> HIDE DEF Row
  <2>3. IsFiniteSet(S) /\ S \in SUBSET Market /\ \A n \in S : n.token = t
    BY <1>1, FS_Subset
  <2>4. IsFiniteSet(PageOf(p))
    BY <2>2, <2>3, ImageIsFinite
  <2>5. \A n \in S : IsTrade(f[n])
    <3>1. \A n \in S : n.key \in Nat \ {0} /\ n.at \in Nat /\ n.side \in {"BUY", "SELL"} /\ n.usd \in Nat
      BY <2>3, MarketAssumption
    <3> QED
      BY <2>2, <3>1 DEF IsTrade
  <2>6. \A m, n \in S : f[m].key = f[n].key => m = n
    <3>1. \A m, n \in S : m.key = n.key => m = n
      BY <2>3, MarketAssumption
    <3> QED
      BY <2>2, <3>1
  <2>7. Distinct(PageOf(p))
    <3>1. ASSUME NEW r \in PageOf(p), NEW q \in PageOf(p), r.key = q.key PROVE r = q
      <4>1. PICK m \in S, n \in S : r = f[m] /\ q = f[n]
        BY <2>2
      <4> QED
        BY <2>6, <3>1, <4>1
    <3> QED
      BY <3>1 DEF Distinct
  <2>8. \A r \in PageOf(p) : IsTrade(r) /\ r.token = t
    BY <2>2, <2>5
  <2> QED
    BY <2>4, <2>7, <2>8
<1>3. CASE Source(p) = "gecko"
  <2>1. PICK S : S = IF HasPool(t) /\ s[p].cursor = 0 THEN Since(Slice(Shown(t), 0, GeckoPage), s[p].since) ELSE {}
    OBVIOUS
  <2>2. S \in SUBSET Shown(t)
    BY <2>1 DEF Since, Slice
  <2>3. PageOf(p) = {Row(n) : n \in S}
    BY <1>3, <2>1 DEF PageOf
  <2> QED
    BY <1>2, <2>2, <2>3
<1>4. CASE Source(p) = "dune"
  <2>1. PICK S : S = Slice(Since(Shown(t), s[p].since), s[p].cursor, DunePage)
    OBVIOUS
  <2>2. S \in SUBSET Shown(t)
    BY <2>1 DEF Since, Slice
  <2>3. PageOf(p) = {Row(n) : n \in S}
    BY <1>4, <2>1 DEF PageOf
  <2> QED
    BY <1>2, <2>2, <2>3
<1>5. CASE Source(p) = "dexscreener"
  <2>1. PICK row : row = [key |-> -1, token |-> t, wallet |-> "aggregate", side |-> "BUY",
                          usd |-> Usd(Shown(t)), at |-> now, src |-> "dexscreener"]
    OBVIOUS
  <2>2. PageOf(p) \in {{}, {row}}
    BY <1>5, <2>1 DEF PageOf
  <2>3. Usd(Shown(t)) \in Nat
    BY <1>1, MarketAssumption, UsdIsNat
  <2>4. IsTrade(row) /\ row.token = t
    BY <2>1, <2>3 DEF IsTrade
  <2>5. IsFiniteSet({}) /\ IsFiniteSet({row})
    BY FS_EmptySet, FS_Singleton
  <2> QED
    BY <2>2, <2>4, <2>5 DEF Distinct
<1> QED
  BY <1>3, <1>4, <1>5 DEF Sources

LEMMA PullFrame ==
    ASSUME NEW p \in Procs, Pull(p), PageOf(p) # {}, DOMAIN s = Procs, Bounds \subseteq DOMAIN s[p]
    PROVE  /\ s'[p].pc \in {"load", "pull"} /\ s'[p].add = s[p].add \cup NewRows(p)
           /\ s'[p].token = s[p].token /\ s'[p].hours = s[p].hours /\ s'[p].drop = s[p].drop
           /\ s'[p].candles = s[p].candles
           /\ \E more : /\ Free(p, more) /\ RowLocks(NewRows(p)) \subseteq more
                        /\ s'[p].locks = s[p].locks \cup more
           /\ \A q \in Procs \ {p} : s'[q] = s[q]
<1> DEFINE fresh == {r \in PageOf(p) : RowLocks({r}) \cap RowLocks(Visible(p)) = {}}
           locks_ == IF fresh = {} THEN {} ELSE RowLocks(fresh) \cup {CpLock(p)}
           next_ == IF Source(p) = "dune" /\ Cardinality(PageOf(p)) >= DunePage
                    THEN s[p].cursor + Cardinality(PageOf(p)) ELSE 0
           cp_ == [s[p].cp[Source(p)] EXCEPT !.at = Max({r.at : r \in PageOf(p)}), !.status = "idle",
                                             !.cursor = IF next_ = 0 THEN @ ELSE next_]
           last_ == next_ = 0 \/ s[p].page = MaxPages
<1>1. /\ s' = [s EXCEPT ![p].add = @ \cup fresh, ![p].locks = @ \cup locks_,
                        ![p].cp[Source(p)] = cp_, ![p].cursor = next_, ![p].page = @ + 1,
                        ![p].pc = IF last_ THEN "load" ELSE "pull",
                        ![p].todo = IF last_ THEN Tail(@) ELSE @]
      /\ Free(p, locks_)
  BY DEF Pull
<1>2. fresh = NewRows(p)
  BY DEF NewRows
<1>3. PICK new, locks, next, cp, last, src :
         new = fresh /\ locks = locks_ /\ next = next_ /\ cp = cp_ /\ last = last_ /\ src = Source(p)
  OBVIOUS
<1>4. last \in BOOLEAN /\ RowLocks(new) \subseteq locks
  BY <1>3 DEF RowLocks
<1> HIDE DEF fresh, locks_, next_, cp_, last_
<1>5. s' = [s EXCEPT ![p].add = @ \cup new, ![p].locks = @ \cup locks,
                     ![p].cp[src] = cp, ![p].cursor = next, ![p].page = @ + 1,
                     ![p].pc = IF last THEN "load" ELSE "pull",
                     ![p].todo = IF last THEN Tail(@) ELSE @]
  BY <1>1, <1>3
<1>6. s'[p] = [s[p] EXCEPT !.add = @ \cup new, !.locks = @ \cup locks,
                           !.cp[src] = cp, !.cursor = next, !.page = @ + 1,
                           !.pc = IF last THEN "load" ELSE "pull",
                           !.todo = IF last THEN Tail(@) ELSE @]
  BY <1>5
<1>7. /\ s'[p].add = s[p].add \cup new /\ s'[p].locks = s[p].locks \cup locks
      /\ s'[p].pc = (IF last THEN "load" ELSE "pull")
  BY <1>6 DEF Bounds
<1>8. /\ s'[p].token = s[p].token /\ s'[p].hours = s[p].hours /\ s'[p].drop = s[p].drop
      /\ s'[p].candles = s[p].candles
  BY <1>6 DEF Bounds
<1>9. \A q \in Procs \ {p} : s'[q] = s[q]
  BY <1>5
<1> QED
  BY <1>1, <1>2, <1>3, <1>4, <1>7, <1>8, <1>9

\* A new row is none of those in sight, and no two of a page are of one trade.
LEMMA PullUnique ==
    ASSUME StoredInv, TellInv, UniqueInv, NEW p \in Procs, Pull(p) PROVE UniqueInv'
<1>1. s[p].pc = "pull" /\ UNCHANGED <<now, rows, candles>>
  BY DEF Pull, tables
<1>2. CASE PageOf(p) = {}
  <2>1. SourceDone(p, "idle")
    BY <1>2 DEF Pull
  <2> QED
    BY <1>1, <2>1, DoneUnique
<1>3. CASE PageOf(p) # {}
  <2>1. /\ DOMAIN s = Procs /\ Bounds \subseteq DOMAIN s[p] /\ Keeps(s[p], rows, candles)
        /\ \A q \in Procs \ {p} : s[p].locks \cap s[q].locks = {}
    BY <1>1, InSync DEF Resting
  <2>2. Source(p) \in Sources /\ now \in Nat
    <3>1. Holds(s[p], ever, cps) /\ now \in Nat
      BY <1>1 DEF StoredInv, SessionsHold, Resting
    <3>2. s[p].todo \in Seq(Sources) /\ s[p].todo # <<>>
      BY <1>1, <3>1 DEF Holds, AtSource, InOrder
    <3> QED
      BY <3>1, <3>2 DEF Source
  <2>3. PICK a, b, new, more :
           /\ a = s[p] /\ b = s'[p] /\ new = NewRows(p) /\ Free(p, more) /\ RowLocks(new) \subseteq more
           /\ b.locks = a.locks \cup more /\ b.add = a.add \cup new /\ b.pc \in {"load", "pull"}
           /\ b.token = a.token /\ b.hours = a.hours /\ b.drop = a.drop /\ b.candles = a.candles
           /\ \A q \in Procs \ {p} : s'[q] = s[q]
    <3>1. /\ s'[p].pc \in {"load", "pull"} /\ s'[p].add = s[p].add \cup NewRows(p)
          /\ s'[p].token = s[p].token /\ s'[p].hours = s[p].hours /\ s'[p].drop = s[p].drop
          /\ s'[p].candles = s[p].candles
          /\ \A q \in Procs \ {p} : s'[q] = s[q]
      BY <1>3, <2>1, PullFrame
    <3>2. PICK more : /\ Free(p, more) /\ RowLocks(NewRows(p)) \subseteq more
                      /\ s'[p].locks = s[p].locks \cup more
      BY <1>3, <2>1, PullFrame
    <3> QED
      BY <3>1, <3>2
  <2>4. IsFiniteSet(PageOf(p)) /\ Distinct(PageOf(p)) /\ \A r \in PageOf(p) : IsTrade(r) /\ r.token = s[p].token
    BY <2>2, PageRows
  <2>5. /\ new \in SUBSET PageOf(p) /\ IsFiniteSet(new) /\ \A r \in new : IsTrade(r)
        /\ \A r \in new : \A x \in Seen(a, rows) : <<r.token, r.key>> # <<x.token, x.key>>
    <3>1. new = {r \in PageOf(p) : RowLocks({r}) \cap RowLocks(Visible(p)) = {}}
      BY <2>3 DEF NewRows
    <3>2. Visible(p) = Seen(a, rows)
      BY <2>3 DEF Visible, Seen
    <3>3. ASSUME NEW r \in new, NEW x \in Seen(a, rows), r.token = x.token, r.key = x.key PROVE FALSE
      <4>1. <<"row", r.token, r.key>> \in RowLocks({r}) /\ <<"row", x.token, x.key>> \in RowLocks(Seen(a, rows))
        BY DEF RowLocks
      <4> QED
        BY <3>1, <3>2, <3>3, <4>1
    <3>4. new \in SUBSET PageOf(p)
      BY <3>1
    <3> QED
      BY <2>4, <3>3, <3>4, FS_Subset
  <2>6. Keeps(a, rows, candles)
    BY <2>1, <2>3
  <2>7. IsFiniteSet(b.add) /\ \A x \in b.add : IsTrade(x)
    <3>1. IsFiniteSet(a.add) /\ \A x \in a.add : IsTrade(x)
      BY <2>6 DEF Keeps
    <3>2. IsFiniteSet(a.add \cup new)
      BY <2>5, <3>1, FS_Union
    <3> QED
      BY <2>3, <2>5, <3>1, <3>2
  <2>8. Distinct(Seen(b, rows))
    <3>1. Seen(b, rows) = Seen(a, rows) \cup new
      BY <2>3 DEF Seen
    <3>2. Distinct(Seen(a, rows)) /\ Distinct(new)
      BY <2>4, <2>5, <2>6 DEF Keeps, Distinct
    <3>3. ASSUME NEW x \in Seen(b, rows), NEW y \in Seen(b, rows), x.token = y.token, x.key = y.key PROVE x = y
      <4>1. CASE x \in Seen(a, rows) /\ y \in Seen(a, rows)
        BY <3>2, <3>3, <4>1 DEF Distinct
      <4>2. CASE x \in new /\ y \in new
        BY <3>2, <3>3, <4>2 DEF Distinct
      <4> QED
        BY <2>5, <3>1, <3>3, <4>1, <4>2
    <3> QED
      BY <3>3 DEF Distinct
  <2>9. RowLocks(b.add) \subseteq b.locks /\ CandleLocks(b.token, b.candles) \subseteq b.locks
    <3>1. RowLocks(b.add) = RowLocks(a.add) \cup RowLocks(new)
      BY <2>3 DEF RowLocks
    <3> QED
      BY <2>3, <2>6, <3>1 DEF Keeps
  <2>10. Keeps(b, rows, candles)
    BY <2>3, <2>6, <2>7, <2>8, <2>9 DEF Keeps
  <2>11. \A q \in Procs \ {p} : s'[p].locks \cap s[q].locks = {} /\ Alike(s'[q], s[q])
    BY <2>1, <2>3 DEF Free, Alike
  <2>12. s'[p].token \in Tokens
    BY <2>3, <2>10 DEF Keeps
  <2> QED
    BY <1>1, <2>3, <2>10, <2>11, <2>12, UniqueByOne
<1> QED
  BY <1>2, <1>3

\* What session p commits leaves what session q sees without a row twice: the
\* rows and the candles both have added were locked by each.
LEMMA KeepsBeside ==
    ASSUME NEW a, NEW b, NEW table, NEW charts, NEW charts2,
           Keeps(a, table, charts), Keeps(b, table, charts), a.locks \cap b.locks = {},
           charts2[b.token] \in {charts[b.token], charts[b.token] \cup a.candles},
           charts2[b.token] = charts[b.token] \/ a.token = b.token
    PROVE  Keeps(b, Seen(a, table), charts2)
<1>1. PICK T, U, V : T = Seen(a, table) /\ U = Seen(b, table) /\ V = Seen(b, T)
  OBVIOUS
<1>2. T = (table \ a.drop) \cup a.add /\ U = (table \ b.drop) \cup b.add /\ V = (T \ b.drop) \cup b.add
  BY <1>1 DEF Seen
<1>3. Distinct(T) /\ Distinct(U)
  BY <1>1 DEF Keeps
<1>4. ASSUME NEW x \in a.add, NEW y \in b.add, x.token = y.token, x.key = y.key PROVE FALSE
  <2>1. <<"row", x.token, x.key>> \in a.locks /\ <<"row", y.token, y.key>> \in b.locks
    BY DEF Keeps, RowLocks
  <2> QED
    BY <1>4, <2>1
<1>5. Distinct(V)
  <2>1. ASSUME NEW x \in V, NEW y \in V, x.token = y.token, x.key = y.key PROVE x = y
    <3>1. CASE x \in T /\ y \in T
      BY <1>3, <2>1, <3>1 DEF Distinct
    <3>2. CASE x \in U /\ y \in U
      BY <1>3, <2>1, <3>2 DEF Distinct
    <3>3. \/ x \in T /\ y \in T
          \/ x \in U /\ y \in U
          \/ x \in a.add /\ y \in b.add
          \/ y \in a.add /\ x \in b.add
      BY <1>2
    <3> QED
      BY <1>4, <2>1, <3>1, <3>2, <3>3
  <2> QED
    BY <2>1 DEF Distinct
<1>6. AreCandles(charts2[b.token] \cup b.candles)
  <2>1. CASE charts2[b.token] = charts[b.token]
    BY <2>1 DEF Keeps
  <2>2. CASE charts2[b.token] = charts[b.token] \cup a.candles /\ a.token = b.token
    <3>1. PICK old, A, B : old = charts[b.token] /\ A = a.candles /\ B = b.candles
      OBVIOUS
    <3>2. AreCandles(old \cup A) /\ AreCandles(old \cup B)
      BY <2>2, <3>1 DEF Keeps
    <3>3. ASSUME NEW c \in A, NEW d \in B, Slot(c) = Slot(d) PROVE FALSE
      <4>1. <<"candle", a.token, Slot(c)>> \in a.locks /\ <<"candle", b.token, Slot(d)>> \in b.locks
        BY <3>1 DEF Keeps, CandleLocks
      <4> QED
        BY <2>2, <3>3, <4>1
    <3>4. PICK W : W = (old \cup A) \cup B
      OBVIOUS
    <3>5. IsFiniteSet(W)
      <4>1. IsFiniteSet(old \cup A) /\ IsFiniteSet(old \cup B)
        BY <3>2 DEF AreCandles
      <4>2. IsFiniteSet(B)
        BY <4>1, FS_Subset
      <4> QED
        BY <3>4, <4>1, <4>2, FS_Union
    <3>6. \A c \in W : IsCandle(c)
      BY <3>2, <3>4 DEF AreCandles
    <3>7. ASSUME NEW c \in W, NEW d \in W, Slot(c) = Slot(d) PROVE c = d
      <4>1. CASE c \in old \cup A /\ d \in old \cup A
        BY <3>2, <3>7, <4>1 DEF AreCandles
      <4>2. CASE c \in old \cup B /\ d \in old \cup B
        BY <3>2, <3>7, <4>2 DEF AreCandles
      <4>3. \/ c \in old \cup A /\ d \in old \cup A
            \/ c \in old \cup B /\ d \in old \cup B
            \/ c \in A /\ d \in B
            \/ c \in B /\ d \in A
        BY <3>4
      <4> QED
        BY <3>3, <3>7, <4>1, <4>2, <4>3
    <3>8. AreCandles(W)
      BY <3>5, <3>6, <3>7 DEF AreCandles
    <3> QED
      BY <2>2, <3>1, <3>4, <3>8
  <2> QED
    BY <2>1, <2>2
<1> QED
  BY <1>1, <1>5, <1>6 DEF Keeps

LEMMA CommitUnique ==
    ASSUME TellInv, UniqueInv, NEW p \in Procs, Commit(p) PROVE UniqueInv'
<1>1. s[p].pc = "commit" /\ now' = now /\ rows' = Visible(p)
  BY DEF Commit
<1>2. /\ DOMAIN s = Procs /\ Bounds \subseteq DOMAIN s[p] /\ Keeps(s[p], rows, candles)
      /\ \A q \in Procs \ {p} : s[p].locks \cap s[q].locks = {}
  BY <1>1, InSync DEF Resting
<1>3. PICK t, a : t = s[p].token /\ a = s[p]
  OBVIOUS
<1>4. t \in Tokens /\ DOMAIN candles = Tokens /\ Keeps(a, rows, candles) /\ a.token = t
  BY <1>2, <1>3 DEF Keeps, TellInv, PeopleInv
<1>5. /\ candles' = [candles EXCEPT ![t] = @ \cup a.candles]
      /\ rows' = Seen(a, rows)
  BY <1>1, <1>3 DEF Commit, Visible, Seen
<1>6. /\ s'[p].pc \in Resting /\ s'[p].locks = {}
      /\ Open(s'[p]) => s'[p].token = t
      /\ \A q \in Procs \ {p} : s'[q] = s[q]
  <2>1. CASE p = "admin"
    <3>1. s' = [s EXCEPT ![p] = NewSession]
      BY <2>1 DEF Commit
    <3>2. NewSession.pc = "idle" /\ NewSession.locks = {}
      BY DEF NewSession
    <3> QED
      BY <1>2, <3>1, <3>2 DEF Resting, Open
  <2>2. CASE p = "job"
    <3>1. s' = [s EXCEPT ![p] = [@ EXCEPT !.pc = IF s[p].signals = <<>> THEN "next" ELSE "announce",
                               !.locks = {}, !.add = {}, !.drop = {}, !.candles = {}, !.stats = <<>>,
                               !.smart = {}, !.cp = <<>>, !.loaded = <<>>, !.stat = None, !.wallet = None]]
      BY <2>2 DEF Commit
    <3> QED
      BY <1>2, <1>3, <2>2, <3>1 DEF Bounds, Resting
  <2> QED
    BY <2>1, <2>2 DEF Procs
<1>7. now' \in Instants
  BY <1>1 DEF UniqueInv
<1>8. IsFiniteSet(rows') /\ (\A r \in rows' : IsTrade(r)) /\ Distinct(rows')
  <2>1. PICK kept : kept = rows \ a.drop
    OBVIOUS
  <2>2. IsFiniteSet(kept) /\ \A r \in kept : IsTrade(r)
    <3>1. IsFiniteSet(rows) /\ \A r \in rows : IsTrade(r)
      BY DEF UniqueInv
    <3> QED
      BY <2>1, <3>1, FS_Subset
  <2>3. IsFiniteSet(a.add) /\ (\A r \in a.add : IsTrade(r)) /\ Distinct(Seen(a, rows))
    BY <1>4 DEF Keeps
  <2>4. IsFiniteSet(kept \cup a.add)
    BY <2>2, <2>3, FS_Union
  <2>5. rows' = kept \cup a.add
    BY <1>5, <2>1 DEF Seen
  <2> QED
    BY <1>5, <2>2, <2>3, <2>4, <2>5
<1>9. ASSUME NEW u \in Tokens PROVE AreCandles(candles'[u])
  <2>1. AreCandles(candles[u]) /\ AreCandles(candles[t] \cup a.candles)
    BY <1>4 DEF UniqueInv, Keeps
  <2> QED
    BY <1>4, <1>5, <2>1
<1>10. \A q \in Procs : Open(s'[q]) => s'[q].token \in Tokens
  BY <1>4, <1>6 DEF UniqueInv, Open
<1>11. ASSUME NEW q \in Procs, s'[q].pc \notin Resting PROVE Keeps(s'[q], rows', candles')
  <2>1. q # p /\ s'[q] = s[q]
    BY <1>6, <1>11
  <2>2. Keeps(s[q], rows, candles) /\ a.locks \cap s[q].locks = {}
    BY <1>2, <1>3, <1>11, <2>1 DEF UniqueInv
  <2>3. s[q].token \in Tokens
    BY <2>2 DEF Keeps
  <2>4. /\ candles'[s[q].token] \in {candles[s[q].token], candles[s[q].token] \cup a.candles}
        /\ candles'[s[q].token] = candles[s[q].token] \/ a.token = s[q].token
    BY <1>4, <1>5, <2>3
  <2>5. Keeps(s[q], Seen(a, rows), candles')
    BY <1>4, <2>2, <2>4, KeepsBeside
  <2> QED
    BY <1>5, <2>1, <2>5
<1>12. ASSUME NEW x \in Procs, NEW y \in Procs \ {x} PROVE s'[x].locks \cap s'[y].locks = {}
  BY <1>6, <1>12 DEF UniqueInv, Apart
<1>13. (IsFiniteSet(rows) /\ (\A r \in rows : IsTrade(r)) /\ Distinct(rows))'
  BY <1>8 DEF Distinct
<1>14. (\A q \in Procs : Open(s[q]) => s[q].token \in Tokens)'
  BY <1>10 DEF Open
<1>15. (\A q \in Procs : s[q].pc \notin Resting => Keeps(s[q], rows, candles))'
  BY <1>11 DEF Resting
<1>16. (\A x \in Procs : \A y \in Procs \ {x} : Apart(s[x], s[y]))'
  BY <1>12 DEF Apart
<1>17. (\A u \in Tokens : AreCandles(candles[u]))'
  BY <1>9
<1> QED
  BY <1>7, <1>13, <1>14, <1>15, <1>16, <1>17 DEF UniqueInv

LEMMA UniqueAtRest ==
    ASSUME UniqueInv, NEW p \in Procs, UNCHANGED <<now, rows, candles>>,
           \A q \in Procs \ {p} : s'[q] = s[q],
           s'[p].pc \in Resting, s'[p].locks \subseteq s[p].locks,
           Open(s'[p]) => Open(s[p]) /\ s'[p].token = s[p].token
    PROVE  UniqueInv'
<1>1. \A q \in Procs \ {p} : Alike(s'[q], s[q])
  BY DEF Alike
<1>2. \A q \in Procs \ {p} : s'[p].locks \cap s[q].locks = {}
  BY DEF UniqueInv, Apart
<1>3. Open(s'[p]) => s'[p].token \in Tokens
  BY DEF UniqueInv
<1> QED
  BY <1>1, <1>2, <1>3, UniqueByOne

LEMMA FailedUnique ==
    ASSUME TellInv, UniqueInv, NEW p \in Procs, Failed(p) PROVE UniqueInv'
<1>1. PICK new : new = [NewSession EXCEPT !.pc = IF p = "job" THEN "next" ELSE "idle", !.queue = s[p].queue]
  OBVIOUS
<1>2. s' = [s EXCEPT ![p] = new] /\ UNCHANGED <<now, rows, candles>>
  BY <1>1 DEF Failed, tables
<1>3. new.pc \in {"next", "idle"} /\ new.locks = {}
  BY <1>1 DEF NewSession
<1>4. DOMAIN s = Procs
  BY DEF TellInv, FieldsInv
<1> QED
  BY <1>2, <1>3, <1>4, UniqueAtRest DEF Resting, Open

LEMMA StartUnique ==
    ASSUME TellInv, UniqueInv, NEW p \in Procs, NEW t \in Tokens, NEW queue, NEW hours \in {1, 4},
           Start(p, t, queue, hours), UNCHANGED <<now, rows, candles>>
    PROVE  UniqueInv'
<1>1. PICK new, others : /\ new = [NewSession EXCEPT !.pc = "ohlcv", !.token = t, !.queue = queue, !.start = now,
                                       !.hours = hours, !.broken = s[p].broken, !.lapped = others]
                         /\ s' = [q \in Procs |-> IF q = p THEN new
                                     ELSE [s[q] EXCEPT !.lapped = @ \/ s[q].pc \notin {"idle", "next"}]]
  BY DEF Start
<1>2. /\ new.pc = "ohlcv" /\ new.add = {} /\ new.drop = {} /\ new.candles = {} /\ new.locks = {}
      /\ new.token = t /\ new.hours = hours
  BY <1>1 DEF NewSession
<1>3. s'[p] = new
  BY <1>1
<1>4. ASSUME NEW q \in Procs \ {p} PROVE Alike(s'[q], s[q])
  <2>1. DOMAIN s[q] = DOMAIN NewSession
    BY DEF TellInv, FieldsInv
  <2>2. {"pc", "token", "hours", "add", "drop", "candles", "locks", "lapped"} \subseteq DOMAIN s[q]
    BY <2>1, SessionFields
  <2>3. s'[q] = [s[q] EXCEPT !.lapped = @ \/ s[q].pc \notin {"idle", "next"}]
    BY <1>1
  <2> QED
    BY <2>2, <2>3 DEF Alike
<1>5. Keeps(new, rows, candles)
  <2>1. Seen(new, rows) = rows /\ candles[new.token] \cup new.candles = candles[t]
    BY <1>2 DEF Seen
  <2>2. RowLocks(new.add) = {} /\ CandleLocks(new.token, new.candles) = {}
    BY <1>2 DEF RowLocks, CandleLocks
  <2>3. Distinct(rows) /\ AreCandles(candles[t])
    BY DEF UniqueInv
  <2> QED
    BY <1>2, <2>1, <2>2, <2>3, FS_EmptySet DEF Keeps
<1> QED
  BY <1>2, <1>3, <1>4, <1>5, UniqueByOne

LEMMA JobUnique ==
    ASSUME SyncInv, TellInv, UniqueInv, RunJob \/ NextToken \/ Announce \/ Alert \/ AlertFails PROVE UniqueInv'
<1>1. /\ DOMAIN s = Procs /\ "job" \in Procs /\ DOMAIN s["job"] = DOMAIN NewSession
      /\ s["job"].queue \in Seq(Tokens) /\ UNCHANGED <<now, rows, candles>>
  BY DEF TellInv, FieldsInv, SyncInv, SessionsInv, Session, Procs, RunJob, NextToken, Announce, Alert,
         AlertFails, tables
<1>2. {"pc", "token", "locks", "alerts", "broken"} \subseteq DOMAIN s["job"]
  BY <1>1, SessionFields
<1> DEFINE Rests == /\ \A q \in Procs \ {"job"} : s'[q] = s[q]
                    /\ s'["job"].pc \in Resting /\ s'["job"].locks \subseteq s["job"].locks
                    /\ Open(s'["job"]) => Open(s["job"]) /\ s'["job"].token = s["job"].token
<1>3. Rests => UniqueInv'
  BY <1>1, UniqueAtRest
<1>4. CASE RunJob
  <2>1. PICK new : new = [NewSession EXCEPT !.pc = "next", !.queue = Tracked]
    OBVIOUS
  <2>2. s' = [s EXCEPT !["job"] = new]
    BY <1>4, <2>1 DEF RunJob
  <2>3. new.pc = "next" /\ new.locks = {}
    BY <2>1 DEF NewSession
  <2>4. Rests
    BY <1>1, <2>2, <2>3 DEF Open, Resting
  <2> QED
    BY <1>3, <2>4
<1>5. CASE NextToken /\ s["job"].queue = <<>>
  <2>1. s' = [s EXCEPT !["job"] = NewSession]
    BY <1>5 DEF NextToken
  <2>2. NewSession.pc = "idle" /\ NewSession.locks = {}
    BY DEF NewSession
  <2>3. Rests
    BY <1>1, <2>1, <2>2 DEF Open, Resting
  <2> QED
    BY <1>3, <2>3
<1>6. CASE NextToken /\ s["job"].queue # <<>>
  <2>1. Start("job", Head(s["job"].queue), Tail(s["job"].queue), 4)
    BY <1>6 DEF NextToken
  <2>2. Head(s["job"].queue) \in Tokens
    BY <1>1, <1>6, QueueRange
  <2> QED
    BY <1>1, <2>1, <2>2, StartUnique
<1>7. CASE Announce
  <2>1. s["job"].pc = "announce"
        /\ s' = [s EXCEPT !["job"].pc = "alert", !["job"].alerts = FirstN(SelectSeq(s["job"].signals, Alerting), 5)]
    BY <1>7 DEF Announce
  <2>2. Rests
    BY <1>1, <1>2, <2>1 DEF Open, Resting
  <2> QED
    BY <1>3, <2>2
<1>8. CASE Alert /\ s["job"].alerts # <<>>
  <2>1. s' = [s EXCEPT !["job"].alerts = Tail(@)] /\ s["job"].pc = "alert"
    BY <1>8 DEF Alert
  <2>2. Rests
    BY <1>1, <1>2, <2>1 DEF Open, Resting
  <2> QED
    BY <1>3, <2>2
<1>9. CASE Alert /\ s["job"].alerts = <<>>
  <2>1. s' = [s EXCEPT !["job"].pc = "next"]
    BY <1>9 DEF Alert
  <2>2. Rests
    BY <1>1, <1>2, <2>1 DEF Open, Resting
  <2> QED
    BY <1>3, <2>2
<1>10. CASE AlertFails
  <2>1. s' = [s EXCEPT !["job"].pc = "next", !["job"].broken = TRUE]
    BY <1>10 DEF AlertFails
  <2>2. Rests
    BY <1>1, <1>2, <2>1 DEF Open, Resting
  <2> QED
    BY <1>3, <2>2
<1> QED
  BY <1>4, <1>5, <1>6, <1>7, <1>8, <1>9, <1>10

LEMMA OthersUnique ==
    ASSUME UniqueInv, Tick \/ Restart \/ UNCHANGED vars PROVE UniqueInv'
<1>1. CASE UNCHANGED vars
  BY <1>1 DEF vars, tables, UniqueInv, Distinct, Keeps, Seen, RowLocks, CandleLocks, Apart, Open
<1>2. CASE Tick
  <2>1. PICK later : later = {t \in Instants : t > now}
    OBVIOUS
  <2>2. later \in SUBSET Nat /\ later # {} /\ now' = Min(later)
    <3>1. Instants \subseteq Nat
      BY TimesOf
    <3> QED
      BY <1>2, <2>1, <3>1 DEF Tick
  <2>3. now' \in Instants
    BY <2>1, <2>2, MinIsIn
  <2>4. UNCHANGED <<s, rows, candles>>
    BY <1>2 DEF Tick, tables
  <2> QED
    BY <2>3, <2>4 DEF UniqueInv, Distinct, Keeps, Seen, RowLocks, CandleLocks, Apart, Open
<1>3. CASE Restart
  <2>1. PICK again : again = [NewSession EXCEPT !.pc = "next", !.queue = Tracked]
    OBVIOUS
  <2>2. (\A p \in Procs : s'[p] \in {again, NewSession}) /\ UNCHANGED <<now, rows, candles>>
    BY <1>3, <2>1 DEF Restart, tables
  <2>3. again.pc = "next" /\ NewSession.pc = "idle" /\ again.locks = {} /\ NewSession.locks = {}
    BY <2>1 DEF NewSession
  <2>4. \A p \in Procs : s'[p].pc \in {"next", "idle"} /\ s'[p].locks = {}
    BY <2>2, <2>3
  <2>5. (\A p \in Procs : Open(s[p]) => s[p].token \in Tokens)'
    BY <2>4 DEF Open
  <2>6. (\A p \in Procs : s[p].pc \notin Resting => Keeps(s[p], rows, candles))'
    BY <2>4 DEF Resting
  <2>7. (\A p \in Procs : \A q \in Procs \ {p} : Apart(s[p], s[q]))'
    BY <2>4 DEF Apart
  <2> QED
    BY <2>2, <2>5, <2>6, <2>7 DEF UniqueInv, Distinct
<1> QED
  BY <1>1, <1>2, <1>3

LEMMA UniqueAtFirst == OnchainInit => UniqueInv
<1> SUFFICES ASSUME OnchainInit PROVE UniqueInv
  OBVIOUS
<1>1. /\ now \in Instants /\ rows = {} /\ \A p \in Procs : s[p] = NewSession
      /\ \A t \in Tokens : candles[t] = {}
  BY MarketAssumption DEF OnchainInit
<1>2. NewSession.pc = "idle" /\ NewSession.locks = {}
  BY DEF NewSession
<1>3. AreCandles({}) /\ IsFiniteSet({})
  BY FS_EmptySet DEF AreCandles
<1> QED
  BY <1>1, <1>2, <1>3 DEF UniqueInv, Distinct, Open, Resting, Apart

LEMMA UniqueStep ==
    ASSUME SyncInv, StoredInv, TellInv, UniqueInv, [OnchainNext]_vars PROVE UniqueInv'
<1>1. ASSUME NEW t \in Tokens, NEW hours \in {1, 4}, RequestSync(t, hours) PROVE UniqueInv'
  <2>1. Start("admin", t, <<>>, hours) /\ "admin" \in Procs /\ UNCHANGED <<now, rows, candles>>
    BY <1>1 DEF RequestSync, tables, Procs
  <2> QED
    BY <2>1, StartUnique
<1>2. ASSUME NEW p \in Procs, SyncStep(p) PROVE UniqueInv'
  <2>1. CASE Refused(p) \/ CommitClashes(p) \/ Deadlock(p)
    BY <2>1, FailedUnique DEF Refused, CommitClashes, Deadlock
  <2>2. CASE Ohlcv(p) \/ Load(p) \/ Clear(p) \/ Pull(p)
    BY <2>2, OhlcvUnique, LoadUnique, ClearUnique, PullUnique
  <2>3. CASE Liquidity(p) \/ ScoreRead(p) \/ ScoreWrite(p) \/ Analyse(p) \/ Commit(p)
    BY <2>3, LiquidityUnique, ScoreReadUnique, ScoreWriteUnique, AnalyseUnique, CommitUnique
  <2> QED
    BY <1>2, <2>1, <2>2, <2>3 DEF SyncStep
<1>3. ASSUME NEW p \in Procs, PullFails(p) PROVE UniqueInv'
  <2>1. PICK status \in {"idle", "error"} : SourceDone(p, status)
    BY <1>3 DEF PullFails
  <2>2. s[p].pc = "pull" /\ UNCHANGED <<now, rows, candles>>
    BY <1>3 DEF PullFails, tables
  <2> QED
    BY <2>1, <2>2, DoneUnique
<1>4. ASSUME NEW p \in Procs, Fault(p) PROVE UniqueInv'
  BY <1>4, FailedUnique DEF Fault
<1>5. "job" \in Procs /\ "admin" \in Procs
  BY DEF Procs
<1> QED
  BY <1>1, <1>2, <1>3, <1>4, <1>5, JobUnique, OthersUnique DEF OnchainNext, JobStep

\* A window is a pair of instants, the first not after the second.
LEMMA WindowType ==
    ASSUME now \in Int, NEW start, start \in Int \/ start = Absent, NEW hours \in Int
    PROVE  \E a, b \in Int : a <= b /\ Window(start, Absent, hours, 24, now) = <<a, b>>
<1>1. PICK rolling : rolling = QueryHours(start, Absent, hours, 24)
  OBVIOUS
<1>2. rolling \in Int
  BY <1>1 DEF QueryHours
<1>3. PICK first : first = IF start # Absent THEN start
                           ELSE now - Hour * (IF rolling = Absent THEN 24 ELSE rolling)
  OBVIOUS
<1>4. first \in Int
  BY <1>2, <1>3 DEF Hour
<1>5. Window(start, Absent, hours, 24, now) = Ordered(first, now)
  BY <1>1, <1>3 DEF Window
<1>6. CASE first > now
  BY <1>4, <1>5, <1>6 DEF Ordered
<1>7. CASE ~(first > now)
  BY <1>4, <1>5, <1>7 DEF Ordered
<1> QED
  BY <1>6, <1>7

\* When nothing overlapped the job's sync, what it is about to announce is
\* what the committed rows say; and over any window up to now the figures of
\* the API's pages of the token agree with one another, whatever the sources
\* answered and however the syncs before it ended or overlapped.
THEOREM PagesTellTheSame == OnchainSpec => []CommittedTellsTheSame
<1>1. ASSUME TellInv, UniqueInv PROVE CommittedTellsTheSame
  <2> DEFINE j == s["job"]
             t == j.token
             mine == OfToken(rows, t)
             hours == IF j.hours = 4 THEN 1 ELSE 24
             db == [trades |-> mine, candles |-> candles[t], liquidity |-> liq[t], smart |-> smart[t], whales |-> {}]
  <2>1. ASSUME j.pc = "announce", NEW start \in {i \in Instants : i <= now} \cup {Absent}
        PROVE  LET w == Window(start, Absent, hours, 24, now)
               IN  FiguresAgree(mine, candles[t], liq[t], w[1], w[2]) /\ PagesAgree(db, w, 2)
    <3>1. t \in Tokens
      BY <1>1, <2>1 DEF UniqueInv, Open, Procs
    <3>2. AreTrades(mine)
      <4>1. IsFiniteSet(rows) /\ (\A r \in rows : IsTrade(r)) /\ Distinct(rows)
        BY <1>1 DEF UniqueInv
      <4>2. mine \in SUBSET rows /\ \A r \in mine : r.token = t
        BY DEF OfToken
      <4>3. IsFiniteSet(mine)
        BY <4>1, <4>2, FS_Subset
      <4> HIDE DEF mine
      <4> QED
        BY <4>1, <4>2, <4>3 DEF AreTrades, Distinct
    <3>3. AreCandles(candles[t])
      BY <1>1, <3>1 DEF UniqueInv
    <3>4. now \in Int /\ (start \in Int \/ start = Absent) /\ hours \in Int
      BY <1>1, TimesOf DEF UniqueInv
    <3>5. PICK w : w = Window(start, Absent, hours, 24, now)
      OBVIOUS
    <3>6. PICK a \in Int, b \in Int : a <= b /\ w = <<a, b>>
      BY <3>4, <3>5, WindowType
    <3>7. PICK S, C, base : S = mine /\ C = candles[t] /\ base = db
      OBVIOUS
    <3>8. base.trades = S /\ base.candles = C /\ base.whales = {} /\ AreTrades(S) /\ AreCandles(C)
      BY <3>2, <3>3, <3>7
    <3>9. PagesAgree(base, w, 2)
      BY <3>6, <3>8, PagesHold
    <3>10. FiguresAgree(S, C, liq[t], w[1], w[2])
      <4>1. FiguresAgree(S, C, liq[t], a, b)
        BY <3>6, <3>8, FiguresHold
      <4>2. w[1] = a /\ w[2] = b
        BY <3>6
      <4> QED
        BY <4>1, <4>2
    <3> HIDE DEF mine, db, hours
    <3> QED
      BY <3>5, <3>7, <3>9, <3>10
  <2>2. ToldFromTheTables
    BY <1>1, AnnouncedFromTheTables
  <2> QED
    BY <2>1, <2>2 DEF CommittedTellsTheSame
<1> QED
  BY <1>1, OnchainInitInv, StoredAtFirst, ToldAtFirst, UniqueAtFirst, SyncKept, StoredStep, TellStep, UniqueStep, PTL
     DEF OnchainSpec
=============================================================================
