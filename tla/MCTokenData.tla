---------------------------- MODULE MCTokenData -----------------------------
(* Small instances of OnchainSync, Discovery and TokenSearch, the three       *)
(* sources of data of tokens.  They share no state: a behaviour is of one.    *)
EXTENDS OnchainSync, Discovery, TokenSearch, TLC

(* On-chain: two tokens of one chain, one without a pool, two traders, and    *)
(* five trades shown at four instants.                                        *)
Trade(key, token, wallet, side, usd, at, shown) ==
    [key |-> key, token |-> token, wallet |-> wallet, side |-> side, usd |-> usd, at |-> at, shown |-> shown]

Trades == {
    Trade(1, "X", "w1", "BUY", 30, 1, 1),
    Trade(2, "Y", "w1", "BUY", 20, 1, 1),
    Trade(3, "X", "w1", "SELL", 60, 2, 2),
    Trade(4, "X", "w2", "BUY", 120, 2, 17),
    Trade(5, "X", "w1", "BUY", 50, 17, 17)}

Event(key, type, usd, at) == [key |-> key, type |-> type, usd |-> usd, at |-> at]
Events == {Event(1, "REMOVE", 20, 1), Event(2, "ADD", 5, 17), Event(2, "ADD", 6, 17)}
Prices == [i \in 0..40 |-> IF i < 2 THEN 10 ELSE IF i < 17 THEN 12 ELSE 9]
TwoTokens == <<"X", "Y">>

(* Discovery: token a is listed by two sources, b appears later on another    *)
(* chain, c is too small; two pairs of the exchange, one of them new.         *)
Listing(id, chain, source, volume, liquidity, change, txs, age, from, grown) ==
    [id |-> id, chain |-> chain, source |-> source, volume |-> volume, liquidity |-> liquidity, change |-> change,
     txs |-> txs, age |-> age, verified |-> chain = "cex", from |-> from, grown |-> grown]

Listings == {
    Listing("a", "eth", "new_pools", 30000, 60000, 2, 60, 8, 0, 60000),
    Listing("a", "eth", "trend", 20000, 60000, 2, 60, 8, 0, 20000),
    Listing("b", "sol", "trend", 8000, 1000, 15, 70, 40, 0, 90000),
    Listing("c", "eth", "new_pools", 500, 0, 0, 1, 8, 0, 5000),
    Listing("p", "cex", "cex", 900, 0, 3, 0, 0, 0, 900),
    Listing("q", "cex", "cex", 700, 0, 9, 0, 0, 1, 700)}

Asked == [c \in Categories |->
    CASE c = "new_dex"  -> <<"new_pools">>
      [] c = "new_cex"  -> <<>>
      [] c = "surging"  -> <<"trend", "new_pools">>
      [] c = "trending" -> <<"trend">>]

\* A category for all, or for one chain and its best token.
Refreshing == {[category |-> "surging", chain |-> "eth", limit |-> 1],
               [category |-> "surging", chain |-> "", limit |-> 50],
               [category |-> "new_cex", chain |-> "", limit |-> 50]}
Questions == {<<"surging", "eth">>, <<"surging", "">>}

(* Search: a token that both providers list, one more of the same symbol on   *)
(* another chain, which only CoinGecko knows.                                 *)
Searched(id, chain, source, liquidity, volume, verified, logo) ==
    [id |-> id, chain |-> chain, source |-> source, liquidity |-> liquidity, volume |-> volume, cap |-> 100000,
     verified |-> verified, logo |-> logo, dex |-> IF source = "dexscreener" THEN "other" ELSE "",
     symbol |-> [q |-> "exact"], name |-> [q |-> "within"]]

Known == {
    Searched("t", "eth", "dexscreener", 400, 900, FALSE, ""),
    Searched("t", "eth", "coingecko", 0, 900, TRUE, "url"),
    Searched("u", "sol", "coingecko", 0, 50, TRUE, "")}

Searching == {[query |-> "q", chain |-> "", limit |-> 20], [query |-> "q", chain |-> "eth", limit |-> 1]}

Init == OnchainInit /\ DiscoveryInit /\ SearchInit

\* Time is read by the requests to the providers and when a sync starts: it
\* passes between syncs and before a page of trades, and not while two sessions
\* are open.
TimePasses ==
    now' # now =>
        /\ \A p \in Procs : s[p].pc \in {"idle", "next", "pull"}
        /\ \E p \in Procs : s[p].pc = "idle"

\* The syncs of a behaviour: the job runs twice, with one fault, or once, with
\* an admin's sync that starts while it runs and overlaps it, and a fault of
\* the admin's.
FewSyncs ==
    LET a == s["admin"]
    IN  /\ a.pc # "idle" => dune /\ (runs = 1 \/ faults = 0) /\ (a.lapped \/ s["job"].pc = "next")
        /\ a.pc # "idle" => a.hours = IF a.token = "X" THEN 1 ELSE 4

\* Time passes too while no scan saves.
ClockPasses == clock' # clock => line = <<>>

\* The scans of a behaviour: the job's, and an administrator's that overlaps
\* it while only a save may fail, or a refresh, or the job's once more after a
\* restart.
FewScans ==
    LET r == scan["refresh"]
        admin == scan["admin"].pc # "idle" \/ tries["admin"] # {}
        full == Cardinality(tries["job"]) + Cardinality(tries["admin"])
    IN  /\ admin => upsets \subseteq {"save"} /\ r = NoScan /\ made <= full /\ tries["job"] # {}
        /\ r # NoScan => made <= full
        /\ IF "restart" \in upsets THEN ~ admin /\ r = NoScan ELSE made <= full + 1

\* Details are asked for of the token both providers list, by one caller.
FewSearches == call[1].key = Unknown /\ call[2].key # <<"sol", "u">>

Few == FewSyncs /\ FewScans /\ FewSearches

Unsynced == dune /\ OnchainInit

Next ==
    \/ DiscoveryInit /\ SearchInit /\ OnchainNext /\ UNCHANGED <<discoveryVars, searchVars>>
    \/ Unsynced /\ SearchInit /\ DiscoveryNext /\ UNCHANGED <<vars, searchVars>>
    \/ Unsynced /\ DiscoveryInit /\ SearchNext /\ UNCHANGED <<vars, discoveryVars>>

Spec == Init /\ [][Next]_<<vars, discoveryVars, searchVars>>
=============================================================================
