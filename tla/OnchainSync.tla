---------------------------- MODULE OnchainSync -----------------------------
(***************************************************************************)
(* The on-chain ETL: onchain_sync_job, which synchronises the tracked      *)
(* tokens one after the other in one database session, and the admin's     *)
(* POST /onchain/sync, which synchronises one token in the session of its  *)
(* request.  A sync stores candles, replaces or extends the stored trades  *)
(* from each source, scores the wallets of the token, registers the smart  *)
(* ones, stores a metric row and computes the signals; its one commit makes *)
(* all of it visible.  The job then announces the signals.                 *)
(*                                                                         *)
(* What PostgreSQL does is modelled as READ COMMITTED: a statement sees    *)
(* committed rows and those of its own session; a row changed by an open   *)
(* session makes another wait; two sessions waiting for each other lose    *)
(* one.  autoflush is off: an object only added to the session is unseen   *)
(* by its own queries until a flush.  All tokens are on one EVM chain.     *)
(***************************************************************************)
EXTENDS OnchainQueries

CONSTANTS
    Tracked,        \* the tracked tokens, in order
    NoPool,         \* those GeckoTerminal knows no pool of
    Market,         \* trades: [key, token, wallet, side, usd, at, shown]
    LiquidityOf,    \* the liquidity events of the chain: [key, type, usd, at]
    Price,          \* [0..the last instant -> Nat]
    Instants,       \* the times at which something happens, from 0 on
    GeckoPage, DunePage, MaxPages,      \* 300, 200 and 4 in the code
    MaxRuns, MaxFaults,                 \* bounds of an instance
    None

Tokens == Range(Tracked)
ASSUME TrackedAssumption == Tracked \in Seq(Tokens)

\* The trades of a token have different keys and are shown in the order in which
\* they were made, if not at once.  Without a checkpoint Dune is asked for the
\* last seven days: the times of an instance lie within them.  Zero is no key.
ASSUME MarketAssumption ==
    /\ IsFiniteSet(Market) /\ DunePage \in Nat
    /\ Instants \subseteq 0..(7 * Day) /\ 0 \in Instants
    /\ \A t \in Instants : \A i \in 0..t : Price[i] \in Nat
    /\ \A m \in Market : /\ m.key \in Nat \ {0} /\ m.at \in Nat /\ m.shown \in Nat /\ m.at <= m.shown
                          /\ m.side \in {"BUY", "SELL"} /\ m.usd \in Nat
    /\ \A m, n \in Market : m.token = n.token =>
          (m.key = n.key => m = n) /\ (m.shown < n.shown => m.at <= n.at)

Procs == {"job", "admin"}
Sources == {"gecko", "dune", "dexscreener"}
Replaced == {"gecko", "dexscreener"}    \* sources whose rows a sync deletes first

VARIABLES
    now,
    dune,       \* whether a Dune key is configured
    rows,       \* onchain_trades
    cps,        \* [Tokens -> [Sources \cup {"liquidity"} -> checkpoint]]
    candles,    \* [Tokens -> onchain_ohlcv_candles]
    liq,        \* [Tokens -> liquidity_events]
    stats,      \* [wallets -> wallet_stats row or None]
    smart,      \* [Tokens -> set of <<wallet, score>>]: smart_money_wallets
    metrics,    \* [Tokens -> the latest token_metrics row, or None]
    posted,     \* the alert messages committed: <<token, signal>>
    s,          \* [Procs -> a session]
    ever,       \* the keys ever committed to onchain_trades (ghost)
    tried,      \* the tokens the job's run has tried (ghost)
    failed, causes,     \* syncs that failed; faults, deadlocks and collisions (ghosts)
    runs, faults        \* counted for the bounds

tables == <<rows, cps, candles, liq, stats, smart, metrics>>
ghosts == <<ever, tried, failed, causes>>
vars == <<now, dune, tables, posted, s, ghosts, runs, faults>>

NoCheckpoint == [at |-> 0, cursor |-> 0, status |-> "none"]
People == {m.wallet : m \in Market} \cup {"aggregate"}

NewSession ==
    [pc |-> "idle", token |-> None, queue |-> <<>>, start |-> 0, hours |-> 4, todo |-> <<>>,
     page |-> 0, since |-> 0, cursor |-> 0, loaded |-> <<>>, cp |-> <<>>, add |-> {}, drop |-> {},
     candles |-> {}, liq |-> {}, toScore |-> {}, wallet |-> None, stat |-> None,
     stats |-> <<>>, smart |-> {}, metric |-> None, signals |-> <<>>, alerts |-> <<>>,
     locks |-> {}, broken |-> FALSE, lapped |-> FALSE]

OnchainInit ==
    /\ now = 0
    /\ dune \in BOOLEAN
    /\ rows = {}
    /\ cps = [t \in Tokens |-> [src \in Sources \cup {"liquidity"} |-> NoCheckpoint]]
    /\ candles = [t \in Tokens |-> {}]
    /\ liq = [t \in Tokens |-> {}]
    /\ stats = [w \in People |-> None]
    /\ smart = [t \in Tokens |-> {}]
    /\ metrics = [t \in Tokens |-> None]
    /\ posted = {}
    /\ s = [p \in Procs |-> NewSession]
    /\ ever = {} /\ tried = {} /\ failed = 0 /\ causes = 0
    /\ runs = 0 /\ faults = 0

RowLocks(set) == {<<"row", r.token, r.key>> : r \in set}
OfToken(set, t) == {r \in set : r.token = t}
Visible(p) == (rows \ s[p].drop) \cup s[p].add
Merge(f, g) == [x \in DOMAIN f |-> IF x \in DOMAIN g THEN g[x] ELSE f[x]]
Set(f, x, v) == [y \in DOMAIN f \cup {x} |-> IF y = x THEN v ELSE f[y]]

\* Rows another open session has changed: p waits until it ends.
Free(p, wanted) == \A q \in Procs \ {p} : wanted \cap s[q].locks = {}

Syncing(p) == s[p].pc \notin {"idle", "next", "announce", "alert"}

(******************************* A sync starts *****************************)
Collectors(withDex) ==
    <<"gecko">> \o (IF dune THEN <<"dune">> ELSE <<>>) \o (IF withDex THEN <<"dexscreener">> ELSE <<>>)

\* The session of p starts token t.  A session that a failed alert has broken
\* refuses its first statement.
Start(p, t, queue, hours) ==
    LET others == \E q \in Procs \ {p} : s[q].pc \notin {"idle", "next"}
    IN  s' = [q \in Procs |->
                IF q = p THEN [NewSession EXCEPT !.pc = "ohlcv", !.token = t, !.queue = queue, !.start = now,
                                    !.hours = hours, !.broken = s[p].broken, !.lapped = others]
                ELSE [s[q] EXCEPT !.lapped = @ \/ s[q].pc \notin {"idle", "next"}]]

RunJob ==
    /\ s["job"].pc = "idle" /\ runs < MaxRuns
    /\ runs' = runs + 1
    /\ tried' = {}
    /\ s' = [s EXCEPT !["job"] = [NewSession EXCEPT !.pc = "next", !.queue = Tracked]]
    /\ UNCHANGED <<now, dune, tables, posted, ever, failed, causes, faults>>

NextToken ==
    /\ s["job"].pc = "next"
    /\ IF s["job"].queue = <<>>
       THEN s' = [s EXCEPT !["job"] = NewSession] /\ UNCHANGED tried
       ELSE /\ Start("job", Head(s["job"].queue), Tail(s["job"].queue), 4)
            /\ tried' = tried \cup {Head(s["job"].queue)}
    /\ UNCHANGED <<now, dune, tables, posted, ever, failed, causes, runs, faults>>

\* A range of at most seven days is stored in candles of one hour.
RequestSync(t, hours) ==
    /\ s["admin"].pc = "idle" /\ runs < MaxRuns
    /\ runs' = runs + 1
    /\ Start("admin", t, <<>>, hours)
    /\ UNCHANGED <<now, dune, tables, posted, ghosts, faults>>

\* A slip: the job gives up on the tokens that are left.
MutantFailed(p) ==
    /\ s' = [s EXCEPT ![p] = NewSession]
    /\ failed' = failed + 1
    /\ UNCHANGED <<now, dune, tables, posted, ever, tried>>

\* The sync ends with an exception: everything is rolled back.  The job goes
\* on with the next token.
Failed(p) ==
    /\ s' = [s EXCEPT ![p] = [NewSession EXCEPT !.pc = IF p = "job" THEN "next" ELSE "idle",
                                                !.queue = s[p].queue]]
    /\ failed' = failed + 1
    /\ UNCHANGED <<now, dune, tables, posted, ever, tried>>

Fault(p) ==
    /\ Syncing(p) /\ faults < MaxFaults
    /\ Failed(p)
    /\ causes' = causes + 1
    /\ faults' = faults + 1
    /\ UNCHANGED runs

Refused(p) ==
    /\ s[p].pc = "ohlcv" /\ s[p].broken
    /\ Failed(p)
    /\ UNCHANGED <<causes, runs, faults>>

(*********************************** Candles *******************************)
HasPool(t) == t \notin NoPool
Shown(t) == {m \in Market : m.token = t /\ m.shown <= now}

\* The candles GeckoTerminal has of a token: the last one is still forming.
Candles(t, hours) ==
    LET width == hours * Hour
        begins == {m.at - (m.at % width) : m \in Shown(t)}
    IN  {[at |-> b, hours |-> hours, open |-> Price[b], close |-> Price[Min({b + width, now})],
          volume |-> Usd({m \in Shown(t) : b <= m.at /\ m.at < b + width})] : b \in begins}

Slot(c) == <<c.at, c.hours>>

\* Only candles not yet stored are added, so a candle stays as it was first
\* seen.  Without a pool, or when the API is down, there are none.
Ohlcv(p) ==
    /\ s[p].pc = "ohlcv" /\ ~s[p].broken
    /\ \E up \in BOOLEAN :
        LET t == s[p].token
            fetched == IF HasPool(t) /\ up THEN Candles(t, s[p].hours) ELSE {}
            new == {c \in fetched : Slot(c) \notin {Slot(d) : d \in candles[t]}}
            keys == {<<"candle", t, Slot(c)>> : c \in new}
        IN  /\ up \/ (HasPool(t) /\ faults < MaxFaults)
            /\ faults' = IF up THEN faults ELSE faults + 1
            /\ Free(p, keys)
            /\ s' = [s EXCEPT ![p].pc = "load", ![p].candles = new, ![p].locks = keys,
                              ![p].todo = Collectors(candles[t] \cup new = {})]
    /\ UNCHANGED <<now, dune, tables, posted, ghosts, runs>>

(********************************* Trades **********************************)
Source(p) == Head(s[p].todo)

\* The checkpoint the page requests of this source start from.
Load(p) ==
    /\ s[p].pc = "load"
    /\ IF s[p].todo = <<>> THEN s' = [s EXCEPT ![p].pc = "liquidity"]
       ELSE LET cp == cps[s[p].token][Source(p)]
            IN  s' = [s EXCEPT ![p].pc = "clear", ![p].since = cp.at, ![p].cursor = cp.cursor,
                               ![p].loaded = Set(@, Source(p), cp), ![p].page = 1,
                               ![p].cp = Set(@, Source(p), [cp EXCEPT !.status = "running"])]
    /\ UNCHANGED <<now, dune, tables, posted, ghosts, runs, faults>>

CpLock(p) == <<"checkpoint", s[p].token, Source(p)>>

\* A first checkpoint is inserted at once; of a source that only ever shows
\* the present, the rows of the token are deleted.
Clear(p) ==
    /\ s[p].pc = "clear"
    /\ LET old == IF Source(p) \in Replaced
                  THEN {r \in OfToken(Visible(p), s[p].token) : r.src = Source(p)} ELSE {}
           wanted == RowLocks(old) \cup (IF s[p].loaded[Source(p)].status = "none" THEN {CpLock(p)} ELSE {})
       IN  /\ Free(p, wanted)
           /\ s' = [s EXCEPT ![p].pc = "pull", ![p].locks = @ \cup wanted,
                             ![p].drop = @ \cup old, ![p].add = @ \ old]
    /\ UNCHANGED <<now, dune, tables, posted, ghosts, runs, faults>>

\* ORDER BY block_time DESC, with an offset and a limit.
Slice(set, from, n) == {m \in set : Cardinality({o \in set : Newer(o, m)}) \in from..(from + n - 1)}

\* A slip: rows as old as the last one stored are not asked for again.
MutantSince(set, since) == {m \in set : since = 0 \/ m.at > since}

Since(set, since) == {m \in set : since = 0 \/ m.at >= since}

\* The page a source answers with, as rows.  DexScreener has no trades: its
\* aggregate volume is stored as trades of a wallet "aggregate", under keys
\* that are the same in every sync.
PageOf(p) ==
    LET t == s[p].token
        row(m) == [key |-> m.key, token |-> t, wallet |-> m.wallet, side |-> m.side, usd |-> m.usd,
                   at |-> m.at, src |-> Source(p)]
    IN  CASE Source(p) = "gecko" ->
                IF HasPool(t) /\ s[p].cursor = 0
                THEN {row(m) : m \in Since(Slice(Shown(t), 0, GeckoPage), s[p].since)} ELSE {}
          [] Source(p) = "dune" ->
                {row(m) : m \in Slice(Since(Shown(t), s[p].since), s[p].cursor, DunePage)}
          [] Source(p) = "dexscreener" ->
                IF Shown(t) = {} THEN {}
                ELSE {[key |-> -1, token |-> t, wallet |-> "aggregate", side |-> "BUY",
                       usd |-> Usd(Shown(t)), at |-> now, src |-> "dexscreener"]}

\* The source is done with, its checkpoint idle or in error.
SourceDone(p, status) ==
    s' = [s EXCEPT ![p].pc = "load", ![p].todo = Tail(@), ![p].cp[Source(p)].status = status]

\* One page: its new rows, then the checkpoint.  The last page's newest row
\* is what the checkpoint keeps; a cursor is never emptied again.
Pull(p) ==
    /\ s[p].pc = "pull"
    /\ LET page == PageOf(p)
           new == {r \in page : RowLocks({r}) \cap RowLocks(Visible(p)) = {}}
           wanted == IF new = {} THEN {} ELSE RowLocks(new) \cup {CpLock(p)}
           next == IF Source(p) = "dune" /\ Cardinality(page) >= DunePage
                   THEN s[p].cursor + Cardinality(page) ELSE 0
           cp == [s[p].cp[Source(p)] EXCEPT !.at = Max({r.at : r \in page}), !.status = "idle",
                                            !.cursor = IF next = 0 THEN @ ELSE next]
       IN  IF page = {} THEN SourceDone(p, "idle")
           ELSE /\ Free(p, wanted)
                /\ s' = [s EXCEPT ![p].add = @ \cup new, ![p].locks = @ \cup wanted,
                                  ![p].cp[Source(p)] = cp, ![p].cursor = next, ![p].page = @ + 1,
                                  ![p].pc = IF next = 0 \/ s[p].page = MaxPages THEN "load" ELSE "pull",
                                  ![p].todo = IF next = 0 \/ s[p].page = MaxPages THEN Tail(@) ELSE @]
    /\ UNCHANGED <<now, dune, tables, posted, ghosts, runs, faults>>

\* The API is down (no trades, the checkpoint idle) or its answer cannot be
\* read (the checkpoint in error): the next source is asked all the same.
PullFails(p) ==
    /\ s[p].pc = "pull" /\ faults < MaxFaults
    /\ faults' = faults + 1
    /\ \E status \in {"idle", "error"} : SourceDone(p, status)
    /\ UNCHANGED <<now, dune, tables, posted, ghosts, runs>>

(******************************** Liquidity ********************************)
EventKey(e) == <<e.key, e.type>>
EventKeys(events) == {EventKey(e) : e \in events}

\* Only for a token without a pool.  Dune is asked for the events of the
\* whole chain; the rows are not flushed before the commit.
Liquidity(p) ==
    /\ s[p].pc = "liquidity"
    /\ LET t == s[p].token
           cp == cps[t]["liquidity"]
           events == IF HasPool(t) \/ ~dune THEN {}
                     ELSE Since({e \in LiquidityOf : e.at <= now}, cp.at)
       IN  s' = [s EXCEPT ![p].pc = "score",
                          ![p].liq = {e \in events : EventKey(e) \notin EventKeys(liq[t])},
                          ![p].loaded = Set(@, "liquidity", cp),
                          ![p].cp = IF events = {} THEN @
                                    ELSE Set(@, "liquidity", [at |-> Max({e.at : e \in events}), cursor |-> 0, status |-> "idle"]),
                          ![p].toScore = Wallets(OfToken(Visible(p), t))]
    /\ UNCHANGED <<now, dune, tables, posted, ghosts, runs, faults>>

(******************************** Analytics ********************************)
\* A slip: only the trades in the token at hand are counted.
MutantRowsOf(p, w) == {r \in OfToken(Visible(p), s[p].token) : r.wallet = w}

\* The trades of a wallet in all tokens of the chain.
RowsOf(p, w) == {r \in Visible(p) : r.wallet = w}

\* The wallets come in no particular order (at most 200 of them).  One whose
\* rows are gone by now is passed over.
ScoreRead(p) ==
    /\ s[p].pc = "score"
    /\ IF s[p].toScore = {} THEN s' = [s EXCEPT ![p].pc = "analyse"]
       ELSE \E w \in s[p].toScore :
                s' = IF RowsOf(p, w) = {} THEN [s EXCEPT ![p].toScore = @ \ {w}]
                     ELSE [s EXCEPT ![p].pc = "upsert", ![p].wallet = w, ![p].toScore = @ \ {w},
                                    ![p].stat = WalletStat(RowsOf(p, w))]
    /\ UNCHANGED <<now, dune, tables, posted, ghosts, runs, faults>>

WalletLock(p) == {<<"wallet", s[p].wallet>>}

ScoreWrite(p) ==
    /\ s[p].pc = "upsert"
    /\ Free(p, WalletLock(p))
    /\ s' = [s EXCEPT ![p].pc = "score", ![p].locks = @ \cup WalletLock(p),
                      ![p].stats = Set(@, s[p].wallet, s[p].stat)]
    /\ UNCHANGED <<now, dune, tables, posted, ghosts, runs, faults>>

\* Every smart wallet of the chain is registered for the token; one that is
\* smart no longer keeps its row.
Registered(old, now_) ==
    LET best == {<<w, now_[w].score>> : w \in {v \in DOMAIN now_ : now_[v] # None /\ now_[v].score >= SmartScore}}
    IN  best \cup {o \in old : \A b \in best : b[1] # o[1]}

Metric(trades, stored, since, until) ==
    IF Within(stored, since, until) # {}
    THEN [from |-> "candles", volumes |-> StoredCandleMetrics(stored, since, until)]
    ELSE [from |-> "trades", volumes |-> VolumeMetrics(trades, since, until)]

Analyse(p) ==
    /\ s[p].pc = "analyse"
    /\ LET t == s[p].token
           mine == OfToken(Visible(p), t)
           registered == Registered(smart[t], Merge(stats, s[p].stats))
       IN  s' = [s EXCEPT ![p].pc = "commit", ![p].smart = registered,
                          ![p].metric = Metric(mine, candles[t] \cup s[p].candles, 0, s[p].start),
                          ![p].signals = Signals(mine, {r[1] : r \in registered}, liq[t], 0, s[p].start)]
    /\ UNCHANGED <<now, dune, tables, posted, ghosts, runs, faults>>

(*********************************** Commit ********************************)
\* The columns of a checkpoint that differ from what was loaded are written.
Written(p, t, src) ==
    IF src \notin DOMAIN s[p].cp THEN cps[t][src]
    ELSE LET mine == s[p].cp[src]
             was == s[p].loaded[src]
         IN  [col \in DOMAIN mine |-> IF mine[col] # was[col] THEN mine[col] ELSE cps[t][src][col]]

Clash(p) ==
    \/ EventKeys(s[p].liq) \cap EventKeys(liq[s[p].token]) # {}
    \/ Cardinality(EventKeys(s[p].liq)) < Cardinality(s[p].liq)

Commit(p) ==
    /\ s[p].pc = "commit" /\ ~Clash(p)
    /\ LET t == s[p].token
       IN  /\ rows' = Visible(p)
           /\ cps' = [cps EXCEPT ![t] = [src \in DOMAIN @ |-> Written(p, t, src)]]
           /\ candles' = [candles EXCEPT ![t] = @ \cup s[p].candles]
           /\ liq' = [liq EXCEPT ![t] = @ \cup s[p].liq]
           /\ stats' = Merge(stats, s[p].stats)
           /\ smart' = [smart EXCEPT ![t] = s[p].smart]
           /\ metrics' = [metrics EXCEPT ![t] = s[p].metric]
    /\ ever' = ever \cup RowLocks(s[p].add)
    /\ s' = [s EXCEPT ![p] =
                IF p = "admin" THEN NewSession
                ELSE [@ EXCEPT !.pc = IF s[p].signals = <<>> THEN "next" ELSE "announce",
                               !.locks = {}, !.add = {}, !.drop = {}, !.candles = {}, !.stats = <<>>,
                               !.smart = {}, !.cp = <<>>, !.loaded = <<>>, !.stat = None, !.wallet = None]]
    /\ UNCHANGED <<now, dune, posted, tried, failed, causes, runs, faults>>

\* Two events of a transaction are of one type, or another session has stored
\* an event since: the unique constraint fails the flush of the commit.
CommitClashes(p) ==
    /\ s[p].pc = "commit" /\ Clash(p)
    /\ Failed(p)
    /\ causes' = causes + 1
    /\ UNCHANGED <<runs, faults>>

(****************************** Announcements ******************************)
AlertTypes == {"LARGE_BUY", "LARGE_SELL", "SMART_MONEY_ACCUMULATION", "LIQUIDITY_REMOVAL", "LIQUIDITY_INCREASE"}
Alerting(sig) == sig.type \in AlertTypes /\ sig.severity \in {"warning", "critical"}

\* Over the WebSocket, to everybody; then at most five alerts for Telegram.
Announce ==
    /\ s["job"].pc = "announce"
    /\ s' = [s EXCEPT !["job"].pc = "alert", !["job"].alerts = FirstN(SelectSeq(s["job"].signals, Alerting), 5)]
    /\ UNCHANGED <<now, dune, tables, posted, ghosts, runs, faults>>

Alert ==
    /\ s["job"].pc = "alert"
    /\ IF s["job"].alerts = <<>>
       THEN s' = [s EXCEPT !["job"].pc = "next"] /\ UNCHANGED posted
       ELSE /\ posted' = posted \cup {<<s["job"].token, Head(s["job"].alerts)>>}
            /\ s' = [s EXCEPT !["job"].alerts = Tail(@)]
    /\ UNCHANGED <<now, dune, tables, ghosts, runs, faults>>

\* The exception is logged, without a rollback: the session is of no use to
\* the next token.
AlertFails ==
    /\ s["job"].pc = "alert" /\ s["job"].alerts # <<>> /\ faults < MaxFaults
    /\ s' = [s EXCEPT !["job"].pc = "next", !["job"].broken = TRUE]
    /\ causes' = causes + 1
    /\ faults' = faults + 1
    /\ UNCHANGED <<now, dune, tables, posted, ever, tried, failed, runs>>

(************************* The database and the time ***********************)
\* What p waits for.
Wants(p) ==
    CASE s[p].pc = "upsert" -> WalletLock(p)
      [] s[p].pc = "pull" -> RowLocks(PageOf(p)) \cup {CpLock(p)}
      [] s[p].pc = "clear" -> {CpLock(p)} \cup RowLocks({r \in OfToken(rows, s[p].token) : r.src = Source(p)})
      [] OTHER -> {}

\* Two sessions wait for each other: PostgreSQL ends one of them.
Deadlock(p) ==
    /\ \A q \in Procs : \A r \in Procs \ {q} : Wants(q) \cap s[r].locks # {}
    /\ Failed(p)
    /\ causes' = causes + 1
    /\ UNCHANGED <<runs, faults>>

Tick ==
    /\ \E t \in Instants : t > now
    /\ now' = Min({t \in Instants : t > now})
    /\ UNCHANGED <<dune, tables, posted, s, ghosts, runs, faults>>

\* The process ends; the scheduler of the next one runs the job at once.
Restart ==
    /\ faults < MaxFaults /\ \E p \in Procs : s[p].pc # "idle"
    /\ faults' = faults + 1
    /\ s' = [p \in Procs |-> IF p = "job" /\ s[p].pc # "idle"
                             THEN [NewSession EXCEPT !.pc = "next", !.queue = Tracked] ELSE NewSession]
    /\ tried' = {}
    /\ UNCHANGED <<now, dune, tables, posted, ever, failed, causes, runs>>

SyncStep(p) ==
    \/ Ohlcv(p) \/ Refused(p) \/ Load(p) \/ Clear(p) \/ Pull(p) \/ Liquidity(p)
    \/ ScoreRead(p) \/ ScoreWrite(p) \/ Analyse(p) \/ Commit(p) \/ CommitClashes(p) \/ Deadlock(p)

JobStep == NextToken \/ SyncStep("job") \/ Announce \/ Alert

OnchainNext ==
    \/ RunJob \/ JobStep \/ SyncStep("admin") \/ AlertFails
    \/ \E t \in Tokens, hours \in {1, 4} : RequestSync(t, hours)
    \/ \E p \in Procs : Fault(p) \/ PullFails(p)
    \/ Tick \/ Restart

OnchainSpec == OnchainInit /\ [][OnchainNext]_vars

(********************************* Properties ******************************)
(* As long as Dune's pages were never full (a full page leaves a cursor that *)
(* the next syncs skip behind), every trade older than the checkpoint was    *)
(* stored once, whatever failed, was rolled back or overlapped in between:   *)
(* sync_token_trades asks from the checkpoint's time on, that time included. *)
(* It may be gone since: GeckoTerminal's rows are deleted by the next sync.  *)
EveryTradeWasStored ==
    \A t \in Tokens :
        LET cp == cps[t]["dune"]
        IN  cp.cursor = 0 =>
              \A m \in Market : m.token = t /\ m.at < cp.at => <<"row", t, m.key>> \in ever

\* What the job is about to announce was computed from what is committed now.
ToldFromTheTables ==
    LET j == s["job"]
        t == j.token
        mine == OfToken(rows, t)
    IN  j.pc = "announce" /\ ~j.lapped =>
          /\ \A w \in Wallets(mine) : stats[w] = WalletStat({r \in rows : r.wallet = w})
          /\ metrics[t] = Metric(mine, candles[t], 0, j.start)
          /\ j.signals = Signals(mine, {r[1] : r \in smart[t]}, liq[t] \ j.liq, 0, j.start)

(* When the job has committed a token and nothing overlapped its sync, what  *)
(* it is about to announce, the metric row and the score of every wallet of  *)
(* the token are those of the committed trades and candles; and the figures  *)
(* of the API's pages agree with one another over any window up to now.      *)
CommittedTellsTheSame ==
    /\ ToldFromTheTables
    /\ LET j == s["job"]
           t == j.token
           mine == OfToken(rows, t)
           hours == IF j.hours = 4 THEN 1 ELSE 24
           db == [trades |-> mine, candles |-> candles[t], liquidity |-> liq[t], smart |-> smart[t], whales |-> {}]
       IN  j.pc = "announce" /\ ~j.lapped =>
             \A start \in {i \in Instants : i <= now} \cup {Absent} :
                LET w == Window(start, Absent, hours, 24, now)
                IN  FiguresAgree(mine, candles[t], liq[t], w[1], w[2]) /\ PagesAgree(db, w, 2)

(* A fault costs one sync: no more syncs fail than there were faults,        *)
(* deadlocks and clashes, the failure of an alert included, which breaks the *)
(* session for the token after it; and a run of the job ends only when it    *)
(* has tried every tracked token.                                            *)
EveryTokenIsTried ==
    /\ failed <= causes
    /\ s["job"].pc = "idle" => tried \in {{}, Tokens}
=============================================================================
