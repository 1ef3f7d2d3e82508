--------------------------- MODULE DiscoveryScoring ---------------------------
(***************************************************************************)
(* How the discovery ranks tokens: the filters, the growth score, the test *)
(* for a surge, and what is left of a list of tokens that repeats some.    *)
(*                                                                         *)
(* A token is a record with id, chain ("cex" for a pair of the exchange,   *)
(* which has no contract), source, volume and liquidity in dollars, change *)
(* (of the price, in percent), txs, age (hours) and verified.  Logarithms  *)
(* are taken down to whole decades, scores are in hundredths of a point.   *)
(* Left out: entries without an address, points for a known exchange, and   *)
(* for more buys than sells where the number of trades is not known.        *)
(***************************************************************************)
EXTENDS Integers, FiniteSets, Sequences, FiniteSetsExt, SequencesExt, Ordering

Clamp(x, low, high) == Max({low, Min({high, x})})
Decades(v) == Cardinality({n \in 1..9 : 10 ^ n <= v + 1})
LogNorm(v, scale) == IF v <= 0 THEN 0 ELSE Clamp(scale * Decades(v), 0, 100)
Cex(t) == t.chain = "cex"

Distance(a, b) == Max({a - b, b - a})

\* In tenths of a point, with its peak between 6 and 72 hours.
Freshness(age) ==
    CASE age <= 0                -> 400
      [] age > 0 /\ age < 6      -> 200 + 30 * age
      [] age >= 6 /\ age <= 72   -> 1000 - 12 * Distance(age, 36)
      [] age > 72 /\ age <= 168  -> 700 - 3 * (age - 72)
      [] age > 168               -> Max({0, 300 - (age - 168) \div 2})

PassesHardFilters(t, category) ==
    CASE Cex(t) -> TRUE
      [] ~ Cex(t) /\ category = "new_dex" ->
            t.age <= 720 /\ (t.volume >= 2000 \/ t.liquidity >= 1000)
      [] ~ Cex(t) /\ category # "new_dex" ->
            t.volume >= 1000 \/ t.liquidity >= 1000 \/ t.txs >= 10 \/ t.change >= 5

Safety(t) == (IF t.verified THEN 8 ELSE 0) + (IF t.liquidity >= 50000 THEN 5 ELSE 0)
Rise(t) == Max({0, t.change})

GrowthScore(t, surge) ==
    IF Cex(t)
    THEN 35 * LogNorm(t.volume, 25) + 35 * Clamp((5 * Rise(t)) \div 2, 0, 25)
         + (2 * Freshness(t.age)) \div 5 + (IF t.verified THEN 100 ELSE 0)
    ELSE 2 * Freshness(t.age) + 25 * LogNorm(t.volume, 22) + 20 * LogNorm(t.liquidity, 18)
         + 15 * Clamp((3 * Rise(t)) \div 2, 0, 20) + 10 * Clamp((3 * surge) \div 20, 0, 25)
         + 5 * LogNorm(t.txs, 12) + 5 * Safety(t)

RiskLevel(t, score) ==
    IF Cex(t) THEN "low"
    ELSE IF (t.verified /\ t.liquidity >= 100000) \/ (score >= 7000 /\ t.liquidity >= 50000)
         THEN "medium" ELSE "high"

\* A surge is recognised on a first scan too, without a volume to compare with.
IsSurgingCandidate(t, surge) ==
    \/ surge >= 50 \/ t.change >= 10
    \/ t.volume >= 25000 /\ t.change > 0
    \/ t.txs >= 50 /\ t.volume >= 5000

ScoreToken(t, surge) ==
    LET score == GrowthScore(t, surge)
    IN  [token |-> t, score |-> score, surge |-> surge, risk |-> RiskLevel(t, score)]

(* A list of tokens is looked at as its positions, in the order of the list. *)

FilterByChain(seq, chain) == {i \in DOMAIN seq : chain = "" \/ seq[i].chain = chain \/ Cex(seq[i])}

\* A slip: providers are told apart, like symbols of tokens with no address.
MutantDedupeTokens(seq, listed) ==
    {i \in listed : \A j \in listed : j < i => seq[j].id # seq[i].id \/ seq[j].source # seq[i].source}

\* Of a token that several providers list, the first is kept: no score is
\* known yet when they are compared.
DedupeTokens(seq, listed) == {i \in listed : \A j \in listed : j < i => seq[j].id # seq[i].id}

\* The surging ones are ranked by surge, score and volume, others by score.
Before(category, a, b) ==
    IF category = "surging"
    THEN \/ a.surge > b.surge
         \/ a.surge = b.surge /\ a.score > b.score
         \/ a.surge = b.surge /\ a.score = b.score /\ a.token.volume > b.token.volume
    ELSE a.score > b.score

\* The sort keeps the order of tokens that rank alike.
RanksAbove(category, scored) ==
    {p \in (DOMAIN scored) \X (DOMAIN scored) :
        \/ Before(category, scored[p[1]], scored[p[2]])
        \/ p[1] < p[2] /\ ~ Before(category, scored[p[2]], scored[p[1]])}

\* What a scan makes of the tokens its providers list: surge is the change
\* of each token's volume since the last scan.
Ranked(category, seq, chain, surge) ==
    LET kept == {i \in DedupeTokens(seq, FilterByChain(seq, chain)) :
                    /\ PassesHardFilters(seq[i], category)
                    /\ category = "surging" => IsSurgingCandidate(seq[i], surge[seq[i]])}
        scored == [i \in kept |-> ScoreToken(seq[i], surge[seq[i]])]
        ranked == Sorted(kept, RanksAbove(category, scored))
    IN  [n \in DOMAIN ranked |-> scored[ranked[n]]]
=============================================================================
