------------------------------ MODULE Insights ------------------------------
(***************************************************************************)
(* The AI analysis of one symbol (app/services/ai/insight_service.py): the *)
(* copy in memory, the row in ai_summaries, the sentiment row and the      *)
(* market insights written with it, and the requests and the refresh job   *)
(* that read, generate and store analyses.  An analysis is a number: what  *)
(* OpenAI answers (external) is not told apart further.                    *)
(***************************************************************************)
EXTENDS Quotas, Integers, FiniteSetsExt

CONSTANTS
    CacheMinutes,   \* AI_CACHE_MINUTES, in ticks of the clock
    MaxTime,        \* bound: ticks
    MaxAnalyses     \* bound: answers of OpenAI


VARIABLES
    now,        \* the clock
    made,       \* analyses OpenAI has answered so far
    mem,        \* the entry ai_insight:<symbol> of the TTL cache, or None
    rows,       \* ai_summaries: [id, ver, created, expires]
    feeling,    \* coin_sentiment: the analysis it is of, or None
    drivers,    \* market_insights: [ver, expires]
    article,    \* whether the article OpenAI cites is in news_articles
    job,        \* [Requests -> the locals of an insight request, or None]
    announced,  \* the analyses the refresh job broadcast, 0 for the fallback text
    twins       \* two sessions inserted a summary at once (ghost)

insightVars == <<now, made, mem, rows, feeling, drivers, article, job, announced, twins>>
tables == <<rows, feeling, drivers, article>>

InsightOps == {"insight", "summary", "sentiment", "refresh"}

MemType == [ver : Nat, created : Nat, until : Nat]
RowType == [id : Requests, ver : Nat, created : Nat, expires : Nat]
DriverType == [ver : Nat, expires : Nat]
AnswerType == [age : Int, stale : BOOLEAN]
JobType ==
    [op : InsightOps, ver : Nat, seen : Requests \cup {None}, id : Requests \cup {None}, created : Nat,
     drops : SUBSET Requests, sweeps : SUBSET DriverType, felt : BOOLEAN, answer : AnswerType \cup {None}]

ASSUME InsightsAssumption ==
    /\ CacheMinutes \in Nat \ {0}
    /\ None \notin MemType \cup AnswerType \cup JobType

InsightsInit ==
    /\ now = 0 /\ made = 0 /\ mem = None /\ rows = {} /\ feeling = None
    /\ drivers = {} /\ article = FALSE /\ announced = {} /\ twins = FALSE
    /\ job = [r \in Requests |-> None]

Latest(S) == {x \in S : \A y \in S : y.created <= x.created}
(* A summary that has expired is still served.                              *)
MutantFresh == rows

Fresh == {x \in rows : x.expires > now}

(* _get_memory_insight and _cache_insight_response.                         *)
InMemory == mem # None /\ now <= mem.until
Cached(x) == [ver |-> x.ver, created |-> x.created, until |-> now + CacheMinutes]

Locals(op, answer) == [op |-> op, ver |-> 0, seen |-> None, id |-> None, created |-> 0,
                       drops |-> {}, sweeps |-> {}, felt |-> FALSE, answer |-> answer]

Raises(r) ==
    /\ RolledBack(r)
    /\ job' = [job EXCEPT ![r] = Locals(@.op, None)]
    /\ UNCHANGED <<now, made, mem, announced, twins>> /\ UNCHANGED tables

(* The request returns and get_optional_db commits; the refresh job has     *)
(* nothing more to commit, but broadcasts whatever text it was given.       *)
Answers(r, here, ver, created, stale) ==
    /\ at[r] = here
    /\ at' = [at EXCEPT ![r] = "ok"]
    /\ Settled(r)
    /\ job' = [job EXCEPT ![r] = Locals(@.op, [age |-> now - created, stale |-> stale])]
    /\ announced' = IF job[r].op = "refresh" THEN announced \cup {ver} ELSE announced
    /\ UNCHANGED <<tier, who, limit, overlapped, faulted, now, made, twins>>

InsightArrive(r, u, op) ==
    /\ Arrive(r, u, CASE op = "insight" -> "icharge" [] op = "summary" -> "lookup"
                      [] op = "sentiment" -> "sentiment" [] op = "refresh" -> "refresh")
    /\ job' = [job EXCEPT ![r] = Locals(op, None)]
    /\ UNCHANGED <<now, made, mem, announced, twins>> /\ UNCHANGED tables

InsightCharge(r) ==
    /\ at[r] = "icharge" /\ Charge(r, "ai_insight", "lookup")
    /\ UNCHANGED insightVars

InsightInsert(r) == job[r] # None /\ Insert(r, "lookup") /\ UNCHANGED insightVars

(* get_sentiment: the snapshot row first, whatever its age.                 *)
Sentiment(r) ==
    IF feeling # None
    THEN Answers(r, "sentiment", feeling, now, TRUE) /\ UNCHANGED <<mem>> /\ UNCHANGED tables
    ELSE Steps(r, "sentiment", "lookup") /\ UNCHANGED insightVars

(* refresh_insights_for_symbols skips a symbol whose row is still fresh.    *)
Refresh(r) ==
    /\ Steps(r, "refresh", IF Fresh = {} THEN "lookup" ELSE "ok")
    /\ UNCHANGED insightVars

(* get_insights: memory, then a row that has not expired, which is cached   *)
(* for a whole period again, then OpenAI.                                   *)
Lookup(r) ==
    \/ InMemory /\ Answers(r, "lookup", mem.ver, mem.created, FALSE)
       /\ UNCHANGED <<mem>> /\ UNCHANGED tables
    \/ /\ ~ InMemory
       /\ \E x \in Latest(Fresh) :
             /\ Answers(r, "lookup", x.ver, x.created, FALSE)
             /\ mem' = Cached(x)
       /\ UNCHANGED tables
    \/ ~ InMemory /\ Fresh = {} /\ Steps(r, "lookup", "ask") /\ UNCHANGED insightVars

(* web_search_analyze with or without a source, else chat_json, else what   *)
(* is stored however old, else the fallback text.                           *)
Ask(r) ==
    \/ \E cites \in BOOLEAN :     \* only an answer of the web search has sources
         /\ made < MaxAnalyses
         /\ Steps(r, "ask", IF cites /\ ~ article THEN "source" ELSE "save")
         /\ made' = made + 1
         /\ job' = [job EXCEPT ![r].ver = made + 1]
         /\ UNCHANGED <<now, mem, announced, twins>> /\ UNCHANGED tables
    \/ /\ rows = {} /\ Answers(r, "ask", 0, 0, TRUE)
       /\ UNCHANGED <<mem>> /\ UNCHANGED tables
    \/ /\ \E x \in Latest(rows) : Answers(r, "ask", x.ver, x.created, TRUE)
       /\ UNCHANGED <<mem>> /\ UNCHANGED tables

(* upsert_articles commits what it inserted, and the charge with it; an     *)
(* article stored meanwhile violates external_id's unique index.            *)
Source(r) ==
    \/ at[r] = "source" /\ article /\ Raises(r)
    \/   /\ at[r] = "source" /\ ~ article
         /\ at' = [at EXCEPT ![r] = "save"]
         /\ Settled(r)
         /\ article' = TRUE
         /\ UNCHANGED <<tier, who, limit, overlapped, faulted, now, made, mem, rows, feeling, drivers,
                        job, announced, twins>>

(* _save_summary reads the newest row.                                      *)
Save(r) ==
    /\ Steps(r, "save", "flush")
    /\ \E seen \in IF rows = {} THEN {None} ELSE {x.id : x \in Latest(rows)} :
          job' = [job EXCEPT ![r].seen = seen]
    /\ UNCHANGED <<now, made, mem, announced, twins>> /\ UNCHANGED tables

(* It deletes the other rows and flushes its own, waiting for sessions that *)
(* hold one of them; a row that is gone by now raises StaleDataError.       *)
Holds(q) == IF at[q] \in {"feel", "store"} /\ job[q] # None
            THEN job[q].drops \cup {job[q].id} ELSE {}
Flush(r) ==
    LET drops == IF job[r].seen = None THEN {} ELSE {x.id : x \in rows} \ {job[r].seen}
        id    == IF job[r].seen = None THEN r ELSE job[r].seen
    IN  /\ at[r] = "flush"
        /\ \A q \in Requests \ {r} : Holds(q) \cap (drops \cup {id}) = {}
        /\ IF job[r].seen # None /\ job[r].seen \notin {x.id : x \in rows}
           THEN Raises(r)
           ELSE /\ Steps(r, "flush", "feel")
                /\ job' = [job EXCEPT ![r].id = id, ![r].drops = drops, ![r].created = now]
                /\ twins' = (twins \/ (job[r].seen = None /\ rows # {})
                                   \/ \E q \in Requests \ {r} : id = r /\ Holds(q) # {})
                /\ UNCHANGED <<now, made, mem, announced>> /\ UNCHANGED tables

(* The market insights of earlier analyses stay.                            *)
MutantFeel(r) ==
    /\ Steps(r, "feel", "store")
    /\ job' = [job EXCEPT ![r].felt = (feeling # None)]
    /\ UNCHANGED <<now, made, mem, announced, twins>> /\ UNCHANGED tables

(* The market insights it can see are deleted, the sentiment row looked up. *)
Feel(r) ==
    /\ Steps(r, "feel", "store")
    /\ job' = [job EXCEPT ![r].felt = (feeling # None), ![r].sweeps = drivers]
    /\ UNCHANGED <<now, made, mem, announced, twins>> /\ UNCHANGED tables

(* The commit: summary, sentiment and market insights of one analysis.  A   *)
(* sentiment row inserted meanwhile violates its unique symbol.             *)
Store(r) ==
    /\ at[r] = "store"
    /\ IF ~ job[r].felt /\ feeling # None THEN Raises(r) ELSE
       LET new == [id |-> job[r].id, ver |-> job[r].ver, created |-> job[r].created,
                     expires |-> job[r].created + CacheMinutes]
         IN /\ at' = [at EXCEPT ![r] = "reload"]
            /\ Settled(r)
            /\ rows' = {x \in rows : x.id \notin job[r].drops \cup {new.id}} \cup {new}
            /\ feeling' = new.ver
            /\ drivers' = (drivers \ job[r].sweeps)
                          \cup {[ver |-> new.ver, expires |-> new.expires]}
            /\ UNCHANGED <<tier, who, limit, overlapped, faulted, now, made, mem, article, job,
                           announced, twins>>

(* session.refresh reads the row again; it may have changed, or be gone.    *)
Reload(r) ==
    \/ /\ at[r] = "reload"
       /\ \E x \in rows :
             /\ x.id = job[r].id
             /\ Answers(r, "reload", x.ver, x.created, FALSE)
             /\ mem' = Cached(x)
       /\ UNCHANGED tables
    \/ at[r] = "reload" /\ (\A x \in rows : x.id # job[r].id) /\ Raises(r)

(* cleanup_ai_summaries: expired summaries and insights, not the sentiment; *)
(* its delete waits for a session that holds an expired row.                *)
Retention ==
    /\ \A x \in rows, q \in Requests : x.expires < now => x.id \notin Holds(q)
    /\ rows' = {x \in rows : x.expires >= now}
    /\ drivers' = {d \in drivers : d.expires >= now}
    /\ UNCHANGED <<now, made, mem, feeling, article, job, announced, twins>>
    /\ UNCHANGED quotaVars

(* A restart also empties the memory.                                       *)
Restart ==
    /\ Restarted
    /\ mem' = None
    /\ UNCHANGED <<now, made, job, announced, twins>> /\ UNCHANGED tables

(* Time; a save from its flush to its answer takes less than a tick.        *)
Tick ==
    /\ now < MaxTime
    /\ \A r \in Requests : at[r] \notin {"feel", "store", "reload"}
    /\ now' = now + 1
    /\ UNCHANGED <<made, mem, job, announced, twins>> /\ UNCHANGED tables
    /\ UNCHANGED quotaVars

InsightFault(r) ==
    /\ job[r] # None /\ Fault(r)
    /\ job' = [job EXCEPT ![r] = Locals(@.op, None)]
    /\ UNCHANGED <<now, made, mem, announced, twins>> /\ UNCHANGED tables

InsightsNext ==
    \/ \E r \in Requests :
         \/ \E u \in Users, op \in InsightOps : InsightArrive(r, u, op)
         \/ InsightCharge(r) \/ InsightInsert(r) \/ Sentiment(r) \/ Refresh(r) \/ Lookup(r)
         \/ Ask(r) \/ Source(r) \/ Save(r) \/ Flush(r) \/ Feel(r) \/ Store(r) \/ Reload(r)
         \/ InsightFault(r)
    \/ Retention \/ Restart \/ Tick

InsightsTypeOK ==
    /\ now \in Nat /\ made \in Nat
    /\ mem \in MemType \cup {None}
    /\ rows \subseteq RowType
    /\ feeling \in Nat \cup {None}
    /\ drivers \subseteq DriverType
    /\ article \in BOOLEAN
    /\ job \in [Requests -> JobType \cup {None}]
    /\ announced \subseteq Nat
    /\ twins \in BOOLEAN

Quiet == \A r \in Requests : at[r] \in Ended

(* An answer that does not call itself stale is of an analysis made less    *)
(* than two cache periods ago, although both caches restart the period      *)
(* (get_insights, _cache_insight_response).                                 *)
AnswersAreFresh ==
    \A r \in Requests :
        job[r] # None /\ job[r].answer # None =>
            \/ job[r].answer.stale
            \/ job[r].answer.age < 2 * CacheMinutes

(* Between requests the three tables are of one analysis, of which there is *)
(* one summary, whatever saves overlapped, failed or were cut off; only two *)
(* first saves at once can break this (_save_summary, cleanup_ai_summaries).*)
TablesTellOneStory ==
    Quiet /\ ~ twins =>
        /\ Cardinality(rows) <= 1
        /\ \A x \in rows : feeling = x.ver /\ drivers = {[ver |-> x.ver, expires |-> x.expires]}
        /\ rows = {} => drivers = {}
=============================================================================
