------------------------------ MODULE Discovery -------------------------------
(***************************************************************************)
(* The token discovery: scans of four categories, made by discovery_scan_job, *)
(* by an administrator's POST /discover/scan and by anybody's GET with       *)
(* refresh=true, and the readers, who are answered from a memory cache over  *)
(* the snapshots in discovery_snapshots.  One asyncio lock orders the scans' *)
(* writes to both; a reader that finds nothing in memory loads the table's   *)
(* row and puts it there.  Code between two awaits is one step.              *)
(***************************************************************************)
EXTENDS DiscoveryScoring

CONSTANTS
    Listed,         \* tokens: the fields of DiscoveryScoring, from (when it is listed) and grown (its later volume)
    Providers,      \* [Categories -> the sequences of sources a scan asks], new_pools among them
    Chains,         \* the chains a request may name
    Refreshes,      \* what is refreshed: [category, chain, limit]
    Readers, Asking,    \* who reads, and what: <<category, chain>>
    TtlTicks, KeepTicks, Ticks,     \* the cache's and the table's time to live, and a bound
    MaxScans, MaxUpsets,            \* bounds
    Nothing

Categories == {"new_dex", "new_cex", "surging", "trending"}
FullScan == <<"new_dex", "new_cex", "surging", "trending">>
Scanners == {"job", "admin", "refresh"}
Spots == Categories \X (Chains \cup {""})

ASSUME RequestsAssumption ==
    /\ \A q \in Refreshes : q.category \in Categories /\ q.limit \in Nat
    /\ Asking \subseteq Spots

\* What the providers list: finitely many tokens, whose figures are integers.
ASSUME ListedAssumption ==
    /\ IsFiniteSet(Listed)
    /\ \A t \in Listed, f \in {"volume", "liquidity", "change", "txs", "age", "from", "grown"} :
          f \in DOMAIN t /\ t[f] \in Int
    /\ \A c \in Categories : Providers[c] \in Seq(Range(Providers[c]))
    /\ Ticks \in Nat

VARIABLES
    clock,
    stored,     \* [Spots -> entry of the memory cache, or Nothing]
    snapshots,  \* [Categories -> the row with chain "" of discovery_snapshots, or Nothing]
    volumes,    \* [token ids -> volume recorded by the last scan, with its expiry, or Nothing]
    seen,       \* [pairs of the exchange -> when a scan saw it first, or Nothing]
    scan,       \* [Scanners -> a scan]
    line,       \* the scans at the lock of set_cached_discovery, its holder first
    reader,     \* [Readers -> a request that loads from the table, or Nothing]
    made, upsets, tries,    \* results built, kinds of failures so far, categories tried by a full scan (ghosts)
    parted      \* categories of which a save failed or a load overlapped a scan (ghost)

discoveryVars == <<clock, stored, snapshots, volumes, seen, scan, line, reader, made, upsets, tries, parted>>

NoScan == [pc |-> "idle", todo |-> <<>>, chain |-> "", limit |-> 50, result |-> Nothing]
Ids == {t.id : t \in Listed}

DiscoveryInit ==
    /\ clock = 0
    /\ stored = [spot \in Spots |-> Nothing]
    /\ snapshots = [c \in Categories |-> Nothing]
    /\ volumes = [i \in Ids |-> Nothing]
    /\ seen = [i \in Ids |-> Nothing]
    /\ scan = [p \in Scanners |-> NoScan]
    /\ line = <<>>
    /\ reader = [r \in Readers |-> Nothing]
    /\ made = 0 /\ upsets = {} /\ tries = [p \in Scanners |-> {}] /\ parted = {}

\* One more failure.
Upset(kind) ==
    /\ kind \notin upsets /\ Cardinality(upsets) < MaxUpsets
    /\ upsets' = upsets \cup {kind}

Live(entry) == entry # Nothing /\ entry.until >= clock

(********************************** A scan *********************************)
(* A refresh's limit stands for its minimum score too: both leave off the    *)
(* lower end of the ranking.                                                 *)
SourcesOf(c) == Range(Providers[c])

Begin(p, todo, chain, limit) ==
    /\ scan[p].pc = "idle" /\ made + Len(todo) <= MaxScans
    /\ scan' = [scan EXCEPT ![p] = [NoScan EXCEPT !.pc = "fetch", !.todo = todo, !.chain = chain, !.limit = limit]]
    /\ tries' = [tries EXCEPT ![p] = {}]
    /\ UNCHANGED <<clock, stored, snapshots, volumes, line, reader, made, parted>>

Now == {t \in Listed : t.from <= clock}
Pairs == {t.id : t \in {x \in Now : Cex(x)}}
SeenNow(ids) == [i \in Ids |-> IF i \in ids /\ seen[i] = Nothing THEN clock ELSE seen[i]]

\* The job is skipped while it still runs; the administrator's scan is not.
\* Both first see all pairs of the exchange, unless its catalog cannot be read.
BeginFull(p) ==
    /\ p \in {"job", "admin"}
    /\ Begin(p, FullScan, "", 50)
    /\ \/ seen' = SeenNow(Pairs) /\ UNCHANGED upsets
       \/ Upset("catalog") /\ UNCHANGED seen

BeginRefresh(c, chain, limit) ==
    /\ Begin("refresh", <<c>>, IF c = "new_cex" THEN "" ELSE chain, limit)
    /\ UNCHANGED <<seen, upsets>>

Category(p) == Head(scan[p].todo)

\* The category is done with or has failed.  A full scan goes on with the next.
RestOf(x) ==
    IF Len(x.todo) = 1 THEN NoScan
    ELSE [x EXCEPT !.pc = "fetch", !.todo = Tail(@), !.result = Nothing]

NextCategory(p) == [scan EXCEPT ![p] = RestOf(@)]

Today(t) == [t EXCEPT !.volume = IF clock > t.from THEN t.grown ELSE @, !.age = @ + 8 * (clock - t.from)]

\* Volumes are compared with those of the last scan that stored the token.
SurgeOf(t) ==
    LET was == volumes[t.id]
    IN  IF Cex(t) \/ ~ Live(was) \/ was.volume <= 0 THEN 0
        ELSE ((t.volume - was.volume) * 100) \div was.volume

\* The pairs of the exchange seen first within a week, however old they are.
Recent(pairs, since) ==
    {[t EXCEPT !.age = 8 * (clock - since[t.id])] : t \in {x \in pairs : 8 * (clock - since[x.id]) <= 168}}

FetchRecent(since) ==
    LET pairs == Recent({t \in Now : Cex(t)}, since)
    IN  Sorted(pairs, {p \in pairs \X pairs : p[1].age < p[2].age})

\* The new pools come youngest first, the lists of others busiest first.
ListOf(source) == {Today(t) : t \in {x \in Now : x.source = source}}
FetchNewPools(source) ==
    LET pools == ListOf(source)
    IN  Sorted(pools, {p \in pools \X pools :
                          \/ p[1].age < p[2].age
                          \/ p[1].age = p[2].age /\ p[1].liquidity > p[2].liquidity})
FetchBusiest(source) ==
    LET listed == ListOf(source)
    IN  Sorted(listed, {p \in listed \X listed : p[1].volume > p[2].volume})

\* What the providers that answer list.
Raw(c, answering, since) ==
    IF c = "new_cex" THEN FetchRecent(since)
    ELSE FlattenSeq([i \in DOMAIN Providers[c] |->
            LET source == Providers[c][i]
            IN  CASE source \notin answering -> <<>>
                  [] source \in answering /\ source = "new_pools" -> FetchNewPools(source)
                  [] source \in answering /\ source # "new_pools" -> FetchBusiest(source)])

FirstOnes(seq, n) == SubSeq(seq, 1, Min({n, Len(seq)}))

\* The result is put into the memory by the scan that gets the lock.
\* A slip: an entry that still lives is kept.
MutantPutInto(memory, result) ==
    IF Live(memory[<<result.category, "">>]) THEN memory
    ELSE [memory EXCEPT ![<<result.category, "">>] = [result |-> result, until |-> clock + TtlTicks]]

PutInto(memory, result) ==
    [memory EXCEPT ![<<result.category, "">>] = [result |-> result, until |-> clock + TtlTicks]]

\* A slip: without the lock, each save may come when it likes.
MutantMayEnter(p) == TRUE

MayEnter(p) == line = <<>>

\* The providers have answered; each may fail or time out, and lists nothing
\* then.  From here to the save nothing else runs, unless the lock is held.
Build(p, silent) ==
    /\ scan[p].pc = "fetch"
    /\ IF silent = {} THEN UNCHANGED upsets ELSE Upset("provider")
    /\ LET c == Category(p)
           since == IF c = "new_cex" THEN SeenNow(Pairs) ELSE seen
           raw == Raw(c, SourcesOf(c) \ silent, since)
           ranked == Ranked(c, raw, scan[p].chain, [t \in Range(raw) |-> SurgeOf(t)])
           result == [category |-> c, items |-> FirstOnes(ranked, scan[p].limit), at |-> clock, no |-> made + 1,
                      recorded |-> IF c = "surging" THEN ranked ELSE FirstOnes(ranked, scan[p].limit)]
       IN  /\ seen' = since
           /\ line' = Append(line, p)
           /\ scan' = [scan EXCEPT ![p].pc = IF MayEnter(p) THEN "save" ELSE "wait", ![p].result = result]
           /\ stored' = IF MayEnter(p) THEN PutInto(stored, result) ELSE stored
           /\ parted' = parted \cup IF \E r \in Readers : reader[r] # Nothing /\ reader[r].category = c THEN {c} ELSE {}
    /\ made' = made + 1
    /\ tries' = [tries EXCEPT ![p] = @ \cup {Category(p)}]
    /\ UNCHANGED <<clock, snapshots, volumes, reader>>

\* The exchange's catalog cannot be read: the category fails, the scan goes on.
CatalogFails(p) ==
    /\ scan[p].pc = "fetch" /\ Category(p) = "new_cex" /\ Upset("catalog")
    /\ scan' = NextCategory(p)
    /\ tries' = [tries EXCEPT ![p] = @ \cup {"new_cex"}]
    /\ UNCHANGED <<clock, stored, snapshots, volumes, seen, line, reader, made, parted>>

Enter(p) ==
    /\ scan[p].pc = "wait" /\ Head(line) = p
    /\ scan' = [scan EXCEPT ![p].pc = "save"]
    /\ stored' = PutInto(stored, scan[p].result)
    /\ UNCHANGED <<clock, snapshots, volumes, seen, line, reader, made, upsets, tries, parted>>

Recorded(items) ==
    [i \in Ids |-> IF \E x \in Range(items) : x.token.id = i /\ ~ Cex(x.token)
                   THEN [volume |-> (CHOOSE x \in Range(items) : x.token.id = i).token.volume, until |-> clock + TtlTicks]
                   ELSE volumes[i]]

Leave(p) == RemoveAt(line, CHOOSE i \in DOMAIN line : line[i] = p)

\* The row is written and committed, the lock released, the volumes recorded.
Save(p) ==
    /\ scan[p].pc = "save"
    /\ snapshots' = [snapshots EXCEPT ![Category(p)] = scan[p].result]
    /\ volumes' = Recorded(scan[p].result.recorded)
    /\ line' = Leave(p)
    /\ scan' = NextCategory(p)
    /\ UNCHANGED <<clock, stored, seen, reader, made, upsets, tries, parted>>

\* The database refuses: logged, the memory keeps the result.  Another failure
\* than the driver's (the connection is refused) ends the category.
SaveFails(p) ==
    /\ scan[p].pc = "save" /\ Upset("save")
    /\ volumes' \in {volumes, Recorded(scan[p].result.recorded)}
    /\ line' = Leave(p)
    /\ scan' = NextCategory(p)
    /\ parted' = parted \cup {Category(p)}
    /\ UNCHANGED <<clock, stored, snapshots, seen, reader, made, tries>>

(********************************* A reader ********************************)
\* The entry of the chain, or of the category, answers at once; otherwise the
\* table is asked, and its row goes where the request looked first.
InMemory(c, chain) ==
    IF Live(stored[<<c, chain>>]) THEN stored[<<c, chain>>] ELSE stored[<<c, "">>]

Ask(r, c, chain) ==
    /\ c = "new_cex" => chain = ""
    /\ reader[r] = Nothing /\ ~ Live(InMemory(c, chain))
    /\ snapshots[c] # Nothing
    /\ reader' = [reader EXCEPT ![r] = [category |-> c, chain |-> chain, row |-> snapshots[c]]]
    /\ parted' = parted \cup IF \E p \in Scanners : scan[p].pc \in {"save", "wait"} /\ Category(p) = c THEN {c} ELSE {}
    /\ UNCHANGED <<clock, stored, snapshots, volumes, seen, scan, line, made, upsets, tries>>

OfChain(row, chain) ==
    IF chain = "" THEN row
    ELSE [row EXCEPT !.items = SelectSeq(@, LAMBDA x : x.token.chain = chain \/ Cex(x.token))]

Fill(r) ==
    /\ reader[r] # Nothing
    /\ LET q == reader[r]
       IN  stored' = [stored EXCEPT ![<<q.category, q.chain>>] =
                         [result |-> OfChain(q.row, q.chain), until |-> clock + TtlTicks]]
    /\ reader' = [reader EXCEPT ![r] = Nothing]
    /\ UNCHANGED <<clock, snapshots, volumes, seen, scan, line, made, upsets, tries, parted>>

(*************************** Time, retention, restart **********************)
Passes ==
    /\ clock < Ticks
    /\ clock' = clock + 1
    /\ stored' = [spot \in Spots |-> IF stored[spot] # Nothing /\ stored[spot].until < clock' THEN Nothing ELSE stored[spot]]
    /\ UNCHANGED <<snapshots, volumes, seen, scan, line, reader, made, upsets, tries, parted>>

DeleteStale ==
    /\ \E c \in Categories : snapshots[c] # Nothing /\ snapshots[c].at < clock - KeepTicks
    /\ snapshots' = [c \in Categories |->
                        IF snapshots[c] # Nothing /\ snapshots[c].at < clock - KeepTicks THEN Nothing ELSE snapshots[c]]
    /\ UNCHANGED <<clock, stored, volumes, seen, scan, line, reader, made, upsets, tries, parted>>

\* The process starts anew: memory, volumes and what was seen are gone, and
\* the scheduler runs the job at once.
Reboot ==
    /\ made > 0 /\ Upset("restart")
    /\ stored' = [spot \in Spots |-> Nothing]
    /\ volumes' = [i \in Ids |-> Nothing]
    /\ seen' = [i \in Ids |-> Nothing]
    /\ scan' = [p \in Scanners |-> NoScan]
    /\ line' = <<>>
    /\ reader' = [r \in Readers |-> Nothing]
    /\ tries' = [p \in Scanners |-> {}]
    /\ parted' = {}
    /\ UNCHANGED <<clock, snapshots, made>>

DiscoveryNext ==
    \/ \E p \in Scanners : BeginFull(p) \/ CatalogFails(p) \/ Enter(p) \/ Save(p) \/ SaveFails(p)
    \/ \E q \in Refreshes : BeginRefresh(q.category, q.chain, q.limit)
    \/ \E p \in Scanners : scan[p].pc = "fetch" /\ \E silent \in SUBSET SourcesOf(Category(p)) : Build(p, silent)
    \/ \E r \in Readers, spot \in Asking : Ask(r, spot[1], spot[2])
    \/ \E r \in Readers : Fill(r)
    \/ Passes \/ DeleteStale \/ Reboot

DiscoverySpec == DiscoveryInit /\ [][DiscoveryNext]_discoveryVars

(******************************** Properties *******************************)
(* The table never goes back to an older scan: however the job, the          *)
(* administrator's scan and refreshes overlap, the lock of                   *)
(* set_cached_discovery has them save in the order their results were built, *)
(* and no save is lost behind a later one's.                                 *)
SnapshotsGoForward ==
    [][\A c \in Categories : snapshots[c] # Nothing /\ snapshots'[c] # Nothing
            => snapshots'[c].no >= snapshots[c].no]_discoveryVars

(* The memory and the table tell the same of a category, but for a save at   *)
(* work or failed and for a load that a scan overlapped: what a reader gets  *)
(* from the memory is what a reader after a restart gets from the table.     *)
MemoryMatchesTable ==
    \A c \in Categories :
        LET entry == stored[<<c, "">>]
        IN  /\ Live(entry) /\ snapshots[c] # Nothing /\ c \notin parted
            /\ \A p \in Scanners : scan[p].pc = "save" => Category(p) # c
            => entry.result = snapshots[c]

(* A full scan that ends without a restart has tried all four categories,    *)
(* whichever of them failed, and a lock is never left held; what it stores   *)
(* lists no token twice and ranks none above one it must follow.             *)
ScansAreWhole ==
    /\ \A p \in {"job", "admin"} : scan[p].pc = "idle" => tries[p] \in {{}, Categories}
    /\ \A p \in Scanners : p \in Range(line) <=> scan[p].pc \in {"wait", "save"}
    /\ \A c \in Categories : snapshots[c] # Nothing =>
          LET items == snapshots[c].items
          IN  \A i, j \in DOMAIN items : i < j =>
                /\ items[i].token.id # items[j].token.id
                /\ ~ Before(c, items[j], items[i])
=============================================================================
