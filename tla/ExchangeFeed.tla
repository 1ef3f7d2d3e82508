---------------------------- MODULE ExchangeFeed ----------------------------
(***************************************************************************)
(* The market feed of a process: build_ws_client makes the client of the   *)
(* provider that is configured, and only that one runs.                    *)
(***************************************************************************)
CONSTANTS
    Products,     \* products
    Defaults      \* settings.default_product_list

ASSUME DefaultsAssumption == Defaults \subseteq Products

VARIABLES provider, pc, subscribed, pending, sending, remote, wanted, lost

Gate     == INSTANCE GateStream
Coinbase == INSTANCE CoinbaseStream

feedVars == <<provider, pc, subscribed, pending, sending, remote, wanted, lost>>

FeedInit ==
    \/ provider = "gate" /\ Gate!Init
    \/ provider = "coinbase" /\ Coinbase!Init

FeedNext ==
    /\ UNCHANGED provider
    /\ \/ provider = "gate" /\ Gate!Next
       \/ provider = "coinbase" /\ Coinbase!Next

FeedFairness ==
    /\ provider = "gate" => Gate!Fairness
    /\ provider = "coinbase" => Coinbase!Fairness

FeedSpec == FeedInit /\ [][FeedNext]_feedVars

FeedFairSpec == FeedSpec /\ FeedFairness

-----------------------------------------------------------------------------
\* What the listening client believes to be subscribed is, whichever it is.
ListenerIsRight ==
    /\ provider = "gate" => Gate!RemoteIsSubscribed
    /\ provider = "coinbase" => Coinbase!SubscribedIsServed

\* A product that was asked for is never forgotten: not when the request falls
\* between a send and its return, nor when the connection is lost; only a
\* failing send of the Gate.io client loses products.
OnlyFailuresLose ==
    IF provider = "gate" THEN Gate!OnlyFailuresLose ELSE wanted = subscribed

\* A product that was asked for is subscribed at the exchange in the end.
WantedIsServed == \A p \in Products : p \in wanted ~> p \in remote \cup lost
=============================================================================
