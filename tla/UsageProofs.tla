---------------------------- MODULE UsageProofs -----------------------------
(***************************************************************************)
(* Proofs about the requests that are charged to a quota: what the counters *)
(* say, what a script request leaves behind, and what the analyses of a    *)
(* symbol are; and about the back-test that a request runs.                *)
(***************************************************************************)
EXTENDS Usage, PineStrategy, FiniteSetTheorems, SequenceTheorems, NaturalsInduction, WellFoundedInduction, TLAPS

-----------------------------------------------------------------------------
(* Where the requests are.  A request is on a script or on the symbol, and   *)
(* the place it has reached tells which and what it is doing.                *)

\* Places before the counter is read, and those after it or without one.
Before == {"idle", "load", "charge", "icharge"}
Onward == Places \ (Before \cup {"inserting"})

ScriptPaths(r) ==
    /\ at[r] \in ScriptPlaces => mine[r] # None
    /\ mine[r] # None =>
          /\ at[r] \in ScriptPlaces \cup {"inserting", "ok", "failed"}
          /\ job[r] = None
          /\ at[r] = "number" => mine[r].op = "update"
          /\ at[r] \in {"send", "commit"} => mine[r].op \in {"update", "delete"}
          /\ at[r] \in {"charge", "inserting", "execute", "log"} => mine[r].op \in Charged
          /\ at[r] = "persist" => mine[r].op \in {"run", "run_unsaved", "backtest"}
          /\ at[r] = "result" => mine[r].op = "backtest" /\ runs[r] # None
          /\ at[r] = "broadcast" => mine[r].op = "run"

InsightPaths(r) ==
    /\ at[r] \in InsightPlaces => job[r] # None
    /\ job[r] # None =>
          /\ at[r] \in InsightPlaces \cup {"inserting", "ok", "failed"}
          /\ mine[r] = None
          /\ at[r] \in {"feel", "store", "reload"} => job[r].id # None

PathsOf(r) ==
    /\ ScriptPaths(r) /\ InsightPaths(r)
    /\ at[r] # "idle" => who[r] \in Users
    /\ at[r] = "inserting" => charge[r] # None

Paths == \A r \in Requests : PathsOf(r)

-----------------------------------------------------------------------------
(* What a step of any request does to the quotas.  The counters are reasoned *)
(* about once, in terms of QuotaStep; that every step of a script request    *)
(* and of an insight request is one is shown by going through the actions.   *)

Moves(r) ==
    /\ at[r] \in Places \ {"idle", "inserting"}
    /\ \E next \in Places \ {"idle", "inserting"} :
          /\ at' = [at EXCEPT ![r] = next]
          /\ next \in Before => at[r] \in Before
    /\ UNCHANGED <<tier, count, who, limit, charge, settled, overlapped>>
    /\ faulted' \in SUBSET Requests

Commits(r) ==
    /\ at[r] \in Onward
    /\ \E next \in Onward : at' = [at EXCEPT ![r] = next]
    /\ Settled(r)
    /\ UNCHANGED <<tier, who, limit, overlapped, faulted>>

QuotaStep ==
    \/ \E r \in Requests :
          \/ \E u \in Users, next \in Places \ {"idle", "inserting"} : Arrive(r, u, next)
          \/ \E key \in Keys, next \in Onward : at[r] \in {"charge", "icharge"} /\ Charge(r, key, next)
          \/ \E next \in Onward : Insert(r, next)
          \/ Moves(r) \/ Commits(r) \/ RolledBack(r) \/ Fault(r)
    \/ Restarted
    \/ \E u \in Users, t \in Tiers : ChangeTier(u, t)
    \/ UNCHANGED quotaVars

\* The steps of ScriptsNext and InsightsNext, for proofs by cases.
ScriptStep(r) ==
    \/ \E u \in Users, op \in Ops, source \in Sources, flag \in BOOLEAN : ScriptArrive(r, u, op, source, flag)
    \/ Load(r) \/ Number(r) \/ FlushEdit(r) \/ CommitEdit(r)
    \/ ScriptCharge(r) \/ ScriptInsert(r) \/ Execute(r) \/ Persist(r)
    \/ StoreResult(r) \/ (\E fault \in BOOLEAN : BroadcastRun(r, fault))
    \/ LogRun(r) \/ ScriptFault(r)

InsightStep(r) ==
    \/ \E u \in Users, op \in InsightOps : InsightArrive(r, u, op)
    \/ InsightCharge(r) \/ InsightInsert(r) \/ Sentiment(r) \/ Refresh(r) \/ Lookup(r)
    \/ Ask(r) \/ Source(r) \/ Save(r) \/ Flush(r) \/ Feel(r) \/ Store(r) \/ Reload(r)
    \/ InsightFault(r)

LEMMA ScriptsSteps == ScriptsNext => \E r \in Requests : ScriptStep(r)
BY DEF ScriptsNext, ScriptStep

LEMMA InsightsSteps == InsightsNext => (\E r \in Requests : InsightStep(r)) \/ Retention \/ Restart \/ Tick
BY DEF InsightsNext, InsightStep

\* A step that neither reads nor writes a quota, by the places it is between.
LEMMA StepsMove ==
    ASSUME UsageTypeOK, NEW r \in Requests,
           NEW here \in Places \ {"idle", "inserting"}, NEW next \in Places \ {"idle", "inserting"},
           next \in Before => here \in Before, Steps(r, here, next)
    PROVE  QuotaStep
BY DEF Steps, Moves, QuotaStep, UsageTypeOK, QuotasTypeOK

LEMMA ScriptStepQuotas ==
    ASSUME UsageTypeOK, Paths, NEW r \in Requests, ScriptStep(r)
    PROVE  QuotaStep
<1> USE DEF Places, Onward, Before, ScriptPlaces, InsightPlaces
<1>1. CASE RolledBack(r)
  BY <1>1 DEF QuotaStep
<1>2. CASE \E u \in Users, op \in Ops, source \in Sources, flag \in BOOLEAN :
              ScriptArrive(r, u, op, source, flag)
  BY <1>2 DEF ScriptArrive, QuotaStep
<1>3. CASE Load(r) \/ Execute(r)
  BY <1>3, <1>1, StepsMove DEF Load, Execute, Fails
<1>4. CASE Number(r) \/ FlushEdit(r) \/ CommitEdit(r) \/ StoreResult(r)
  BY <1>4, <1>1, StepsMove DEF Number, FlushEdit, CommitEdit, StoreResult, Fails
<1>5. CASE ScriptCharge(r)
  <2>1. KeyOf[mine[r].op] \in Keys
    BY <1>5 DEF ScriptCharge, Paths, PathsOf, ScriptPaths, KeyOf, Keys, Charged, Ops
  <2> QED
    BY <1>5, <2>1 DEF ScriptCharge, QuotaStep
<1>6. CASE ScriptInsert(r)
  BY <1>6 DEF ScriptInsert, QuotaStep
<1>7. CASE Persist(r)
  BY <1>7, <1>1 DEF Persist, Fails, Commits, QuotaStep
<1>8. CASE \E fault \in BOOLEAN : BroadcastRun(r, fault)
  BY <1>8 DEF BroadcastRun, Moves, QuotaStep, UsageTypeOK, QuotasTypeOK
<1>9. CASE LogRun(r)
  BY <1>9, <1>1 DEF LogRun, Fails, Commits, QuotaStep
<1>10. CASE ScriptFault(r)
  BY <1>10 DEF ScriptFault, QuotaStep
<1> QED
  BY <1>2, <1>3, <1>4, <1>5, <1>6, <1>7, <1>8, <1>9, <1>10 DEF ScriptStep

LEMMA InsightStepQuotas ==
    ASSUME UsageTypeOK, Paths, NEW r \in Requests, InsightStep(r)
    PROVE  QuotaStep
<1> USE DEF Places, Onward, Before, ScriptPlaces, InsightPlaces
<1>1. CASE RolledBack(r)
  BY <1>1 DEF QuotaStep
<1>2. ASSUME NEW here \in Onward, NEW ver, NEW created, NEW stale, Answers(r, here, ver, created, stale)
      PROVE  QuotaStep
  BY <1>2 DEF Answers, Commits, QuotaStep
<1>3. CASE \E u \in Users, op \in InsightOps : InsightArrive(r, u, op)
  BY <1>3 DEF InsightArrive, QuotaStep, InsightOps
<1>4. CASE InsightCharge(r)
  BY <1>4 DEF InsightCharge, QuotaStep, Keys
<1>5. CASE InsightInsert(r)
  BY <1>5 DEF InsightInsert, QuotaStep
<1>6. CASE Sentiment(r) \/ Refresh(r)
  BY <1>6, <1>2, StepsMove DEF Sentiment, Refresh
<1>7. CASE Lookup(r)
  BY <1>7, <1>2, StepsMove DEF Lookup
<1>8. CASE Ask(r)
  BY <1>8, <1>2, StepsMove DEF Ask
<1>9. CASE Save(r) \/ Feel(r)
  BY <1>9, StepsMove DEF Save, Feel
<1>10. CASE Flush(r)
  BY <1>10, <1>1, StepsMove DEF Flush, Raises
<1>11. CASE Source(r) \/ Store(r)
  BY <1>11, <1>1 DEF Source, Store, Raises, Commits, QuotaStep
<1>12. CASE Reload(r)
  BY <1>12, <1>1, <1>2 DEF Reload, Raises
<1>13. CASE InsightFault(r)
  BY <1>13 DEF InsightFault, QuotaStep
<1> QED
  BY <1>3, <1>4, <1>5, <1>6, <1>7, <1>8, <1>9, <1>10, <1>11, <1>12, <1>13 DEF InsightStep

LEMMA StepQuotas ==
    ASSUME UsageTypeOK, Paths, [UsageNext]_usageVars
    PROVE  QuotaStep
<1>1. CASE ScriptsNext
  BY <1>1, ScriptsSteps, ScriptStepQuotas
<1>2. CASE InsightsNext
  <2>1. CASE Retention \/ Restart \/ Tick
    BY <2>1 DEF Retention, Restart, Tick, QuotaStep
  <2> QED
    BY <1>2, <2>1, InsightsSteps, InsightStepQuotas
<1>3. CASE \E u \in Users, t \in Tiers : ChangeTier(u, t)
  BY <1>3 DEF QuotaStep
<1>4. CASE UNCHANGED usageVars
  BY <1>4 DEF usageVars, QuotaStep
<1> QED
  BY <1>1, <1>2, <1>3, <1>4 DEF UsageNext

-----------------------------------------------------------------------------
(* Type correctness.                                                         *)

LEMMA QuotasTyped ==
    ASSUME UsageTypeOK, Paths, QuotaStep
    PROVE  at' \in [Requests -> Places] /\ QuotasTypeOK'
<1> USE DEF UsageTypeOK, QuotasTypeOK
<1>1. ASSUME NEW r \in Requests, NEW u \in Users, NEW next \in Places, Arrive(r, u, next)
      PROVE  at' \in [Requests -> Places] /\ QuotasTypeOK'
  BY <1>1, QuotasAssumption DEF Arrive, TierLimit
<1>2. ASSUME NEW r \in Requests PROVE "failed" \in Places /\ "inserting" \in Places
  BY DEF Places
<1>3. ASSUME NEW r \in Requests, RolledBack(r) \/ Fault(r)
      PROVE  at' \in [Requests -> Places] /\ QuotasTypeOK'
  BY <1>3, <1>2 DEF RolledBack, Fault
<1>4. ASSUME NEW r \in Requests, NEW key \in Keys, NEW next \in Onward,
             at[r] \in {"charge", "icharge"}, Charge(r, key, next)
      PROVE  at' \in [Requests -> Places] /\ QuotasTypeOK'
  <2>1. <<who[r], key>> \in Users \X Keys
    BY <1>4 DEF Paths, PathsOf
  <2>2. next \in Places
    BY DEF Onward
  <2>3. CASE who[r] \in Admins
    BY <1>4, <2>2, <2>3 DEF Charge
  <2>4. CASE RolledBack(r)
    BY <1>3, <2>4
  <2>5. CASE /\ who[r] \notin Admins
             /\ ~ (count[<<who[r], key>>] # None /\ count[<<who[r], key>>] >= limit[r])
    <3> DEFINE row == <<who[r], key>>
               new == [key |-> key, inserted |-> FALSE, count |-> IF count[row] = None THEN None ELSE count[row] + 1]
    <3>1. new \in ChargeType
      BY <2>1 DEF ChargeType
    <3>2. charge' = [charge EXCEPT ![r] = new]
      BY <1>4, <2>5 DEF Charge
    <3>3. overlapped' \subseteq Users \X Keys /\ at' \in [Requests -> Places]
      BY <1>4, <2>1, <2>2, <2>5, <1>2 DEF Charge
    <3>4. UNCHANGED <<tier, count, who, limit, settled, faulted>>
      BY <1>4, <2>5 DEF Charge
    <3> QED
      BY <3>1, <3>2, <3>3, <3>4
  <2> QED
    BY <1>4, <2>3, <2>4, <2>5 DEF Charge
<1>5. ASSUME NEW r \in Requests, NEW next \in Onward, Insert(r, next)
      PROVE  at' \in [Requests -> Places] /\ QuotasTypeOK'
  <2>1. next \in Places
    BY DEF Onward
  <2>2. CASE RolledBack(r)
    BY <1>3, <2>2
  <2>3. CASE /\ charge' = [charge EXCEPT ![r].count = 1, ![r].inserted = TRUE]
             /\ at' = [at EXCEPT ![r] = next]
             /\ UNCHANGED <<tier, count, who, limit, settled, overlapped, faulted>>
    <3> DEFINE new == [charge[r] EXCEPT !.count = 1, !.inserted = TRUE]
    <3>1. charge[r] \in ChargeType
      BY <1>5 DEF Insert, Paths, PathsOf
    <3>2. new \in ChargeType
      BY <3>1 DEF ChargeType
    <3>3. charge' = [charge EXCEPT ![r] = new]
      BY <2>3
    <3> QED
      BY <2>1, <2>3, <3>2, <3>3
  <2> QED
    BY <1>5, <2>2, <2>3 DEF Insert
<1>6. ASSUME NEW r \in Requests, Moves(r) PROVE at' \in [Requests -> Places] /\ QuotasTypeOK'
  BY <1>6 DEF Moves
<1>7. ASSUME NEW r \in Requests, Commits(r) PROVE at' \in [Requests -> Places] /\ QuotasTypeOK'
  BY <1>7 DEF Commits, Settled, Onward, ChargeType
<1>8. CASE Restarted
  BY <1>8, <1>2 DEF Restarted
<1>9. CASE (\E u \in Users, t \in Tiers : ChangeTier(u, t)) \/ UNCHANGED quotaVars
  BY <1>9 DEF ChangeTier, quotaVars
<1> QED
  BY <1>1, <1>3, <1>4, <1>5, <1>6, <1>7, <1>8, <1>9 DEF QuotaStep

LEMMA ScriptsTyped ==
    ASSUME UsageTypeOK, Paths, NEW r \in Requests, ScriptStep(r)
    PROVE  ScriptsTypeOK'
<1> USE DEF UsageTypeOK, ScriptsTypeOK
<1>1. CASE UNCHANGED scriptVars
  BY <1>1 DEF scriptVars
<1>2. CASE \E u \in Users, op \in Ops, source \in Sources, flag \in BOOLEAN :
              ScriptArrive(r, u, op, source, flag)
  BY <1>2 DEF ScriptArrive, MineType
<1>m. at[r] \in ScriptPlaces => mine[r] \in MineType
  BY DEF Paths, PathsOf, ScriptPaths
<1>3. CASE Load(r)
  BY <1>3, <1>1, <1>m DEF Load, Fails, Steps, MineType, ScriptPlaces
<1>4. CASE Number(r)
  <2> DEFINE new == [mine[r] EXCEPT !.version = Len(versions) + 1]
  <2>1. Len(versions) + 1 \in Nat /\ mine[r] \in MineType
    BY <1>4, <1>m DEF Number, Steps, ScriptPlaces
  <2>2. new \in MineType
    BY <2>1 DEF MineType
  <2>3. mine' = [mine EXCEPT ![r] = new] /\ UNCHANGED <<script, versions, runs, told, resubmitted>>
    BY <1>4 DEF Number
  <2> QED
    BY <2>2, <2>3
<1>5. CASE CommitEdit(r)
  <2>1. mine[r].source \in Sources
    BY <1>5, <1>m DEF CommitEdit, Steps, ScriptPlaces, MineType
  <2>2. CASE mine[r].op = "delete"
    BY <1>5, <2>2 DEF CommitEdit
  <2>3. CASE mine[r].op # "delete"
    <3>1. script' \in [active : BOOLEAN, source : Sources]
      BY <1>5, <2>1, <2>3 DEF CommitEdit
    <3>2. versions' = Append(versions, mine[r].source)
      BY <1>5, <2>3 DEF CommitEdit
    <3>3. versions' \in Seq(Sources) /\ versions' # <<>>
      BY <2>1, <3>2
    <3> QED
      BY <1>5, <2>3, <3>1, <3>3 DEF CommitEdit
  <2> QED
    BY <2>2, <2>3
<1>6. CASE Execute(r)
  BY <1>6, <1>1, <1>m DEF Execute, Fails, Steps, MineType, ScriptPlaces
<1>7. CASE Persist(r)
  <2> DEFINE new == [type |-> IF mine[r].op = "run" THEN "historical" ELSE "backtest",
                     status |-> IF mine[r].good THEN "completed" ELSE "failed", result |-> FALSE]
  <2>1. new \in RunType
    BY DEF RunType
  <2>2. CASE runs' = [runs EXCEPT ![r] = new] /\ UNCHANGED <<script, versions, mine, told, resubmitted>>
    BY <2>1, <2>2
  <2> QED
    BY <1>7, <1>1, <2>2 DEF Persist, Fails
<1>8. CASE StoreResult(r)
  BY <1>8 DEF StoreResult, Steps, Paths, PathsOf, ScriptPaths, ScriptPlaces, RunType
<1>9. CASE \E fault \in BOOLEAN : BroadcastRun(r, fault)
  <2>1. [mine[r] EXCEPT !.broken = TRUE] \in MineType
    BY <1>9, <1>m DEF BroadcastRun, MineType, ScriptPlaces
  <2>2. mine' \in [Requests -> MineType \cup {None}]
    <3>1. mine' \in {mine, [mine EXCEPT ![r] = [mine[r] EXCEPT !.broken = TRUE]]}
      BY <1>9 DEF BroadcastRun
    <3> QED
      BY <2>1, <3>1
  <2>3. told' \subseteq Requests /\ UNCHANGED <<script, versions, runs, resubmitted>>
    BY <1>9 DEF BroadcastRun
  <2> QED
    BY <2>2, <2>3
<1>10. CASE FlushEdit(r) \/ ScriptCharge(r) \/ ScriptInsert(r) \/ LogRun(r) \/ ScriptFault(r)
  BY <1>10, <1>1 DEF FlushEdit, Fails, ScriptCharge, ScriptInsert, LogRun, ScriptFault
<1> QED
  BY <1>2, <1>3, <1>4, <1>5, <1>6, <1>7, <1>8, <1>9, <1>10 DEF ScriptStep

LEMMA InsightsTyped ==
    ASSUME UsageTypeOK, Paths, NEW r \in Requests, InsightStep(r)
    PROVE  InsightsTypeOK'
<1> USE InsightsAssumption DEF UsageTypeOK, InsightsTypeOK
<1>1. CASE UNCHANGED insightVars
  BY <1>1 DEF insightVars, tables
<1>j. at[r] \in InsightPlaces => job[r] \in JobType
  BY DEF Paths, PathsOf, InsightPaths
<1>2. CASE Raises(r) /\ job[r] # None
  BY <1>2 DEF Raises, Locals, JobType, tables
<1>3. ASSUME NEW here \in InsightPlaces, NEW ver \in Nat, NEW created \in Nat, NEW stale \in BOOLEAN,
             Answers(r, here, ver, created, stale), UNCHANGED tables, mem' \in MemType \cup {None}
      PROVE  InsightsTypeOK'
  BY <1>3, <1>j DEF Answers, Locals, JobType, AnswerType, tables
<1>c. ASSUME NEW x \in rows PROVE x.ver \in Nat /\ x.created \in Nat /\ x.id \in Requests /\ Cached(x) \in MemType
  BY <1>c DEF RowType, Cached, MemType
<1>4. CASE \E u \in Users, op \in InsightOps : InsightArrive(r, u, op)
  BY <1>4 DEF InsightArrive, Locals, JobType, tables
<1>5. CASE InsightCharge(r) \/ InsightInsert(r) \/ Refresh(r)
  BY <1>5, <1>1 DEF InsightCharge, InsightInsert, Refresh
<1>6. CASE Sentiment(r)
  BY <1>6, <1>1, <1>3 DEF Sentiment, InsightPlaces
<1>7. CASE Lookup(r)
  <2>1. InMemory => mem.ver \in Nat /\ mem.created \in Nat
    BY DEF InMemory, MemType
  <2>2. \A x \in Latest(Fresh) : x \in rows
    BY DEF Latest, Fresh
  <2> QED
    BY <1>7, <1>1, <1>3, <1>c, <2>1, <2>2 DEF Lookup, InsightPlaces
<1>8. CASE Ask(r)
  <2>1. \A x \in Latest(rows) : x \in rows
    BY DEF Latest
  <2>2. CASE \E x \in Latest(rows) : Answers(r, "ask", x.ver, x.created, TRUE) /\ UNCHANGED mem /\ UNCHANGED tables
    BY <2>1, <2>2, <1>3, <1>c DEF InsightPlaces
  <2>3. CASE Answers(r, "ask", 0, 0, TRUE) /\ UNCHANGED mem /\ UNCHANGED tables
    BY <2>3, <1>3 DEF InsightPlaces
  <2>4. CASE /\ at[r] = "ask" /\ made' = made + 1 /\ job' = [job EXCEPT ![r].ver = made + 1]
             /\ UNCHANGED <<now, mem, announced, twins>> /\ UNCHANGED tables
    BY <2>4, <1>j DEF InsightPlaces, JobType, tables
  <2> QED
    BY <1>8, <2>2, <2>3, <2>4 DEF Ask, Steps
<1>9. CASE Source(r)
  BY <1>9, <1>2, <1>j DEF Source, InsightPlaces, Paths, PathsOf, InsightPaths
<1>10. CASE Save(r)
  <2>1. \A seen \in (IF rows = {} THEN {None} ELSE {x.id : x \in Latest(rows)}) : seen \in Requests \cup {None}
    BY <1>c DEF Latest
  <2> QED
    BY <1>10, <1>j, <2>1 DEF Save, Steps, InsightPlaces, JobType, tables
<1>11. CASE Flush(r)
  <2> DEFINE drops == IF job[r].seen = None THEN {} ELSE {x.id : x \in rows} \ {job[r].seen}
             id    == IF job[r].seen = None THEN r ELSE job[r].seen
  <2>1. job[r] \in JobType /\ job[r] # None
    BY <1>11, <1>j DEF Flush, InsightPlaces
  <2>2. CASE Raises(r)
    BY <2>1, <2>2, <1>2
  <2>3. CASE /\ job' = [job EXCEPT ![r].id = id, ![r].drops = drops, ![r].created = now]
             /\ twins' \in BOOLEAN /\ UNCHANGED <<now, made, mem, announced>> /\ UNCHANGED tables
    <3>1. id \in Requests /\ drops \subseteq Requests
      BY <2>1, <1>c DEF JobType
    <3> QED
      BY <2>1, <2>3, <3>1 DEF JobType, tables
  <2> QED
    BY <1>11, <2>2, <2>3 DEF Flush
<1>12. CASE Feel(r)
  BY <1>12, <1>j DEF Feel, Steps, InsightPlaces, JobType, tables
<1>13. CASE Store(r)
  <2> DEFINE new == [id |-> job[r].id, ver |-> job[r].ver, created |-> job[r].created,
                     expires |-> job[r].created + CacheMinutes]
  <2>1. job[r] \in JobType /\ job[r] # None /\ job[r].id # None
    BY <1>13, <1>j, InsightsAssumption DEF Store, InsightPlaces, Paths, PathsOf, InsightPaths
  <2>2. new \in RowType /\ [ver |-> new.ver, expires |-> new.expires] \in DriverType
    BY <2>1 DEF JobType, RowType, DriverType
  <2>3. CASE Raises(r)
    BY <2>1, <2>3, <1>2
  <2>4. CASE /\ rows' = {x \in rows : x.id \notin job[r].drops \cup {new.id}} \cup {new}
             /\ feeling' = new.ver
             /\ drivers' = (drivers \ job[r].sweeps) \cup {[ver |-> new.ver, expires |-> new.expires]}
             /\ UNCHANGED <<now, made, mem, article, job, announced, twins>>
    BY <2>2, <2>4 DEF RowType
  <2> QED
    BY <1>13, <2>3, <2>4 DEF Store
<1>14. CASE Reload(r)
  <2>1. CASE Raises(r)
    BY <1>14, <2>1, <1>2, <1>j DEF Reload, InsightPlaces, Paths, PathsOf, InsightPaths
  <2> QED
    BY <1>14, <2>1, <1>3, <1>c DEF Reload, InsightPlaces
<1>15. CASE InsightFault(r)
  BY <1>15 DEF InsightFault, Locals, JobType, tables
<1> QED
  BY <1>4, <1>5, <1>6, <1>7, <1>8, <1>9, <1>10, <1>11, <1>12, <1>13, <1>14, <1>15 DEF InsightStep

-----------------------------------------------------------------------------
(* No step takes a request off its path.  A step of one request leaves what  *)
(* the paths of the others are about alone.                                  *)

Alone(r) ==
    \A q \in Requests \ {r} :
        /\ at'[q] = at[q] /\ who'[q] = who[q] /\ charge'[q] = charge[q]
        /\ mine'[q] = mine[q] /\ job'[q] = job[q] /\ runs'[q] = runs[q]
        /\ settled'[q] = settled[q] /\ (q \in faulted => q \in faulted')

LEMMA AloneKeepsPaths ==
    ASSUME Paths, NEW r \in Requests, Alone(r), PathsOf(r)'
    PROVE  Paths'
<1>1. ASSUME NEW q \in Requests \ {r} PROVE PathsOf(q)'
  BY <1>1 DEF Alone, Paths, PathsOf, ScriptPaths, InsightPaths
<1> QED
  BY <1>1 DEF Paths

LEMMA ScriptStepAlone ==
    ASSUME UsageTypeOK, NEW r \in Requests, ScriptStep(r), UNCHANGED insightVars
    PROVE  Alone(r)
<1> USE DEF UsageTypeOK, QuotasTypeOK, ScriptsTypeOK, InsightsTypeOK, insightVars, Alone
<1>1. CASE Fails(r)
  BY <1>1 DEF Fails, RolledBack, scriptVars
<1>2. CASE \E u \in Users, op \in Ops, source \in Sources, flag \in BOOLEAN :
              ScriptArrive(r, u, op, source, flag)
  BY <1>2 DEF ScriptArrive, Arrive
<1>3. CASE Load(r) \/ Number(r) \/ FlushEdit(r) \/ CommitEdit(r)
  BY <1>3, <1>1 DEF Load, Number, FlushEdit, CommitEdit, Steps, scriptVars
<1>4. CASE ScriptCharge(r)
  BY <1>4 DEF ScriptCharge, Charge, RolledBack, scriptVars
<1>5. CASE ScriptInsert(r)
  BY <1>5 DEF ScriptInsert, Insert, RolledBack, scriptVars
<1>6. CASE Execute(r) \/ StoreResult(r)
  BY <1>6, <1>1 DEF Execute, StoreResult, Steps
<1>7. CASE Persist(r)
  BY <1>7, <1>1 DEF Persist, Settled
<1>8. CASE \E fault \in BOOLEAN : BroadcastRun(r, fault)
  BY <1>8 DEF BroadcastRun
<1>9. CASE LogRun(r)
  BY <1>9, <1>1 DEF LogRun, Settled, scriptVars
<1>10. CASE ScriptFault(r)
  BY <1>10 DEF ScriptFault, Fault, scriptVars
<1> QED
  BY <1>2, <1>3, <1>4, <1>5, <1>6, <1>7, <1>8, <1>9, <1>10 DEF ScriptStep

LEMMA ScriptPathsKept ==
    ASSUME UsageTypeOK, Paths, NEW r \in Requests, ScriptStep(r), UNCHANGED insightVars
    PROVE  Paths'
<1>1. /\ at \in [Requests -> Places] /\ who \in [Requests -> Users \cup {None}]
      /\ charge \in [Requests -> ChargeType \cup {None}] /\ mine \in [Requests -> MineType \cup {None}]
      /\ runs \in [Requests -> RunType \cup {None}] /\ job' = job /\ PathsOf(r)
  BY DEF UsageTypeOK, QuotasTypeOK, ScriptsTypeOK, Paths, insightVars
<1>2. SUFFICES PathsOf(r)'
  BY ScriptStepAlone, AloneKeepsPaths
<1> USE <1>1 DEF PathsOf, ScriptPaths, InsightPaths, ScriptPlaces, InsightPlaces
<1>n. None \notin MineType /\ None \notin RunType
  BY ScriptsAssumption
<1>m. at[r] \in ScriptPlaces => mine[r] \in MineType
  BY DEF MineType
<1>3. CASE Fails(r) /\ at[r] # "idle"
  BY <1>3 DEF Fails, RolledBack, scriptVars
<1>4. ASSUME NEW u \in Users, NEW op \in Ops, NEW source \in Sources, NEW flag \in BOOLEAN,
             ScriptArrive(r, u, op, source, flag)
      PROVE  PathsOf(r)'
  <2> DEFINE new == [op |-> op, source |-> source, loaded |-> None, version |-> 0,
                     good |-> FALSE, flag |-> flag, broken |-> FALSE]
  <2>1. new \in MineType
    BY DEF MineType
  <2>2. mine'[r] = new /\ mine'[r] # None /\ who'[r] = u
    BY <1>4, <2>1, ScriptsAssumption DEF ScriptArrive, Arrive
  <2>3. at[r] = "idle" /\ at'[r] = IF op \in Saved THEN "load" ELSE "charge"
    BY <1>4 DEF ScriptArrive, Arrive
  <2> QED
    BY <2>2, <2>3 DEF Charged, Saved, Ops
<1>5. CASE Load(r)
  <2>1. CASE /\ at' = [at EXCEPT ![r] = CASE mine[r].op = "update" -> "number"
                                          [] mine[r].op = "delete" -> "send"
                                          [] OTHER -> "charge"]
             /\ at[r] = "load" /\ mine'[r] = [mine[r] EXCEPT !.loaded = script.source]
             /\ who' = who /\ charge' = charge /\ runs' = runs
    <3>1. mine[r] \in MineType /\ mine'[r].op = mine[r].op /\ mine'[r] # None
      <4>1. mine[r] \in MineType /\ script.source \in Sources
        BY <2>1 DEF UsageTypeOK, ScriptsTypeOK
      <4>2. mine'[r] \in MineType /\ mine'[r].op = mine[r].op
        BY <4>1, <2>1 DEF MineType
      <4> QED
        BY <4>1, <4>2, <1>n
    <3>2. /\ mine[r].op = "update" => at'[r] = "number"
          /\ mine[r].op = "delete" => at'[r] = "send"
          /\ mine[r].op \notin {"update", "delete"} => at'[r] = "charge"
      BY <2>1
    <3> QED
      BY <2>1, <3>1, <3>2 DEF Charged, MineType
  <2> QED
    BY <1>5, <1>3, <2>1 DEF Load, Fails, Steps
<1>6. CASE Number(r)
  <2>1. at[r] = "number" /\ at'[r] = "send" /\ mine'[r] = [mine[r] EXCEPT !.version = Len(versions) + 1]
    BY <1>6 DEF Number, Steps
  <2>2. mine'[r].op = mine[r].op /\ mine'[r] # None
    <3>1. mine[r] \in MineType /\ Len(versions) + 1 \in Nat
      BY <2>1 DEF UsageTypeOK, ScriptsTypeOK
    <3>2. mine'[r] \in MineType /\ mine'[r].op = mine[r].op
      BY <3>1, <2>1 DEF MineType
    <3> QED
      BY <3>2, <1>n
  <2>3. who' = who /\ charge' = charge /\ runs' = runs
    BY <1>6 DEF Number, Steps
  <2> QED
    BY <2>1, <2>2, <2>3
<1>7. CASE FlushEdit(r) \/ CommitEdit(r)
  BY <1>7, <1>3 DEF FlushEdit, CommitEdit, Steps, scriptVars
<1>8. CASE ScriptCharge(r)
  <2>1. at[r] = "charge" /\ UNCHANGED <<who, mine, runs>>
    BY <1>8 DEF ScriptCharge, Charge, RolledBack, scriptVars
  <2>2. at'[r] \in {"inserting", "execute", "failed"}
    BY <1>8 DEF ScriptCharge, Charge, RolledBack
  <2>3. at'[r] = "inserting" => charge'[r] # None
    <3> DEFINE row == <<who[r], KeyOf[mine[r].op]>>
    <3>1. [key |-> KeyOf[mine[r].op], inserted |-> FALSE, count |-> IF count[row] = None THEN None ELSE count[row] + 1]
             \in ChargeType
      <4>1. row \in Users \X Keys
        BY <2>1 DEF KeyOf, Keys, Charged, Ops
      <4> QED
        BY <4>1 DEF ChargeType, UsageTypeOK, QuotasTypeOK
    <3> QED
      BY <3>1, <1>8, ChargeAssumption DEF ScriptCharge, Charge, RolledBack
  <2> QED
    BY <2>1, <2>2, <2>3
<1>9. CASE ScriptInsert(r)
  BY <1>9 DEF ScriptInsert, Insert, RolledBack, scriptVars
<1>10. CASE Execute(r)
  <2>1. ASSUME NEW good \in BOOLEAN, NEW next \in {"persist", "log"}, at[r] = "execute", at'[r] = next,
               next = "persist" => mine[r].op \in {"run", "run_unsaved", "backtest"},
               mine'[r] = [mine[r] EXCEPT !.good = good], UNCHANGED <<who, charge, runs>>
        PROVE  PathsOf(r)'
    <3>1. mine'[r] \in MineType /\ mine'[r].op = mine[r].op
      BY <2>1, <1>m DEF MineType
    <3> QED
      BY <2>1, <3>1, <1>n
  <2> QED
    BY <1>10, <1>3, <2>1 DEF Execute, Steps
<1>11. CASE Persist(r)
  <2>1. CASE ~ Fails(r)
    <3> DEFINE next == CASE mine[r].op = "backtest" -> "result"
                         [] mine[r].op = "run" /\ mine[r].good /\ mine[r].flag /\ who[r] \in Admins -> "broadcast"
                         [] OTHER -> "log"
               new  == [type |-> IF mine[r].op = "run" THEN "historical" ELSE "backtest",
                        status |-> IF mine[r].good THEN "completed" ELSE "failed", result |-> FALSE]
    <3>1. /\ at[r] = "persist" /\ mine' = mine /\ who' = who /\ mine[r].op \in {"run", "backtest"}
          /\ runs' = [runs EXCEPT ![r] = new] /\ at' = [at EXCEPT ![r] = next]
      BY <1>11, <2>1 DEF Persist
    <3>2. \/ next = "result" /\ mine[r].op = "backtest"
          \/ next \in {"broadcast", "log"} /\ mine[r].op = "run"
      BY <3>1
    <3>3. new \in RunType
      BY DEF RunType
    <3>4. at'[r] = next /\ runs'[r] # None
      BY <3>1, <3>3, <1>n
    <3> QED
      BY <3>1, <3>2, <3>4, <1>n DEF Charged, Ops
  <2> QED
    BY <1>11, <1>3, <2>1 DEF Persist
<1>12. CASE StoreResult(r)
  BY <1>12 DEF StoreResult, Steps, Charged, Ops
<1>13. CASE \E fault \in BOOLEAN : BroadcastRun(r, fault)
  <2>1. mine'[r] \in MineType /\ mine'[r].op = mine[r].op
    <3>1. mine'[r] \in {mine[r], [mine[r] EXCEPT !.broken = TRUE]} /\ mine[r] \in MineType
      BY <1>13, <1>m DEF BroadcastRun
    <3> QED
      BY <3>1 DEF MineType
  <2>2. at[r] = "broadcast" /\ at'[r] = "log" /\ UNCHANGED <<who, charge, runs>>
    BY <1>13 DEF BroadcastRun
  <2> QED
    BY <2>1, <2>2, <1>n DEF Charged, Ops
<1>14. CASE LogRun(r)
  BY <1>14, <1>3 DEF LogRun, Settled, scriptVars
<1>15. CASE ScriptFault(r)
  BY <1>15 DEF ScriptFault, Fault, scriptVars, Ended
<1> QED
  BY <1>4, <1>5, <1>6, <1>7, <1>8, <1>9, <1>10, <1>11, <1>12, <1>13, <1>14, <1>15 DEF ScriptStep

LEMMA InsightStepAlone ==
    ASSUME UsageTypeOK, NEW r \in Requests, InsightStep(r), UNCHANGED scriptVars
    PROVE  Alone(r)
<1> USE DEF UsageTypeOK, QuotasTypeOK, ScriptsTypeOK, InsightsTypeOK, scriptVars, Alone
<1>1. CASE Raises(r)
  BY <1>1 DEF Raises, RolledBack
<1>2. ASSUME NEW here, NEW ver, NEW created, NEW stale, Answers(r, here, ver, created, stale)
      PROVE  Alone(r)
  BY <1>2 DEF Answers, Settled
<1>3. CASE \E u \in Users, op \in InsightOps : InsightArrive(r, u, op)
  BY <1>3 DEF InsightArrive, Arrive
<1>4. CASE InsightCharge(r)
  BY <1>4 DEF InsightCharge, Charge, RolledBack, insightVars
<1>5. CASE InsightInsert(r)
  BY <1>5 DEF InsightInsert, Insert, RolledBack, insightVars
<1>6. CASE Sentiment(r) \/ Refresh(r) \/ Lookup(r)
  BY <1>6, <1>2 DEF Sentiment, Refresh, Lookup, Steps, insightVars
<1>7. CASE Ask(r)
  BY <1>7, <1>2 DEF Ask, Steps
<1>8. CASE Source(r) \/ Store(r)
  BY <1>8, <1>1 DEF Source, Store, Settled
<1>9. CASE Save(r) \/ Feel(r)
  BY <1>9 DEF Save, Feel, Steps
<1>10. CASE Flush(r)
  BY <1>10, <1>1 DEF Flush, Steps
<1>11. CASE Reload(r)
  BY <1>11, <1>1, <1>2 DEF Reload
<1>12. CASE InsightFault(r)
  BY <1>12 DEF InsightFault, Fault
<1> QED
  BY <1>3, <1>4, <1>5, <1>6, <1>7, <1>8, <1>9, <1>10, <1>11, <1>12 DEF InsightStep

LEMMA InsightPathsKept ==
    ASSUME UsageTypeOK, Paths, NEW r \in Requests, InsightStep(r), UNCHANGED scriptVars
    PROVE  Paths'
<1>1. /\ at \in [Requests -> Places] /\ who \in [Requests -> Users \cup {None}]
      /\ charge \in [Requests -> ChargeType \cup {None}] /\ job \in [Requests -> JobType \cup {None}]
      /\ mine' = mine /\ runs' = runs /\ PathsOf(r)
  BY DEF UsageTypeOK, QuotasTypeOK, InsightsTypeOK, Paths, scriptVars
<1>2. SUFFICES PathsOf(r)'
  BY InsightStepAlone, AloneKeepsPaths
<1> USE <1>1 DEF PathsOf, ScriptPaths, InsightPaths, ScriptPlaces, InsightPlaces
<1>n. None \notin JobType
  BY InsightsAssumption
<1>3. CASE Raises(r) /\ at[r] # "idle" /\ job[r] # None
  BY <1>3 DEF Raises, RolledBack
<1>4. ASSUME NEW here \in InsightPlaces, NEW ver, NEW created, NEW stale, Answers(r, here, ver, created, stale)
      PROVE  PathsOf(r)'
  <2>1. at[r] = here /\ at'[r] = "ok" /\ who' = who
    BY <1>4 DEF Answers
  <2> QED
    BY <2>1
<1>5. ASSUME NEW u \in Users, NEW op \in InsightOps, InsightArrive(r, u, op)
      PROVE  PathsOf(r)'
  <2>1. Locals(op, None) \in JobType
    BY DEF Locals, JobType
  <2>2. job'[r] # None /\ who'[r] = u /\ at[r] = "idle"
    BY <1>5, <2>1, <1>n DEF InsightArrive, Arrive
  <2>3. at'[r] \in {"icharge", "lookup", "sentiment", "refresh"}
    BY <1>5 DEF InsightArrive, Arrive, InsightOps
  <2> QED
    BY <2>2, <2>3
<1>6. CASE InsightCharge(r)
  <2>1. at[r] = "icharge" /\ UNCHANGED <<who, job>>
    BY <1>6 DEF InsightCharge, Charge, RolledBack, insightVars
  <2>2. at'[r] \in {"inserting", "lookup", "failed"}
    BY <1>6 DEF InsightCharge, Charge, RolledBack
  <2>3. at'[r] = "inserting" => charge'[r] # None
    <3> DEFINE row == <<who[r], "ai_insight">>
    <3>1. [key |-> "ai_insight", inserted |-> FALSE, count |-> IF count[row] = None THEN None ELSE count[row] + 1]
             \in ChargeType
      <4>1. row \in Users \X Keys
        BY <2>1 DEF Keys
      <4> QED
        BY <4>1 DEF ChargeType, UsageTypeOK, QuotasTypeOK, Keys
    <3> QED
      BY <3>1, <1>6, ChargeAssumption DEF InsightCharge, Charge, RolledBack
  <2> QED
    BY <2>1, <2>2, <2>3
<1>7. CASE InsightInsert(r)
  BY <1>7 DEF InsightInsert, Insert, RolledBack, insightVars
<1>8. CASE Sentiment(r) \/ Refresh(r) \/ Lookup(r)
  BY <1>8, <1>4 DEF Sentiment, Refresh, Lookup, Steps, insightVars
<1>j. ASSUME NEW new \in JobType, job' = [job EXCEPT ![r] = new] PROVE job'[r] # None /\ job'[r] = new
  BY <1>j, <1>n
<1>9. CASE Ask(r)
  <2>1. CASE /\ at[r] = "ask" /\ at'[r] \in {"source", "save"} /\ who' = who /\ made' = made + 1
             /\ job' = [job EXCEPT ![r].ver = made + 1]
    <3>1. [job[r] EXCEPT !.ver = made + 1] \in JobType
      BY <2>1 DEF JobType, UsageTypeOK, InsightsTypeOK
    <3> QED
      BY <2>1, <3>1, <1>j
  <2> QED
    BY <1>9, <1>4, <2>1 DEF Ask, Steps
<1>10. CASE Source(r)
  BY <1>10, <1>3 DEF Source, Settled
<1>11. CASE Save(r)
  <2>1. PICK seen \in IF rows = {} THEN {None} ELSE {x.id : x \in Latest(rows)} :
                job' = [job EXCEPT ![r].seen = seen]
    BY <1>11 DEF Save
  <2>2. at[r] = "save" /\ at'[r] = "flush" /\ who' = who /\ job[r] \in JobType
    BY <1>11 DEF Save, Steps
  <2>3. seen \in Requests \cup {None}
    BY <2>1 DEF Latest, RowType, UsageTypeOK, InsightsTypeOK
  <2>4. [job[r] EXCEPT !.seen = seen] \in JobType
    BY <2>2, <2>3 DEF JobType
  <2> QED
    BY <2>1, <2>2, <2>4, <1>j
<1>12. CASE Flush(r)
  <2> DEFINE drops == IF job[r].seen = None THEN {} ELSE {x.id : x \in rows} \ {job[r].seen}
             id    == IF job[r].seen = None THEN r ELSE job[r].seen
  <2>1. job[r] \in JobType /\ job[r] # None /\ at[r] = "flush"
    BY <1>12 DEF Flush
  <2>2. CASE Raises(r)
    BY <2>1, <2>2, <1>3
  <2>3. CASE /\ job' = [job EXCEPT ![r].id = id, ![r].drops = drops, ![r].created = now]
             /\ Steps(r, "flush", "feel")
    <3>1. id \in Requests /\ drops \subseteq Requests /\ now \in Nat
      BY <2>1 DEF JobType, RowType, UsageTypeOK, InsightsTypeOK
    <3>2. id # None
      BY <3>1, QuotasAssumption
    <3>3. [job[r] EXCEPT !.id = id, !.drops = drops, !.created = now] \in JobType
      BY <2>1, <3>1 DEF JobType
    <3>4. job'[r] # None /\ job'[r].id = id
      BY <2>1, <2>3, <3>3, <1>n DEF JobType
    <3>5. at'[r] = "feel" /\ who' = who
      BY <2>3 DEF Steps
    <3> QED
      BY <2>1, <3>2, <3>4, <3>5
  <2> QED
    BY <1>12, <2>2, <2>3 DEF Flush
<1>13. CASE Feel(r)
  <2>1. [job[r] EXCEPT !.felt = (feeling # None), !.sweeps = drivers] \in JobType
    BY <1>13 DEF Feel, Steps, JobType, UsageTypeOK, InsightsTypeOK
  <2>2. at[r] = "feel" /\ at'[r] = "store" /\ who' = who /\ job[r] \in JobType /\ job[r].id # None
    BY <1>13 DEF Feel, Steps
  <2>3. job'[r] = [job[r] EXCEPT !.felt = (feeling # None), !.sweeps = drivers]
    BY <1>13 DEF Feel
  <2>4. job'[r].id = job[r].id
    BY <2>2, <2>3 DEF JobType
  <2> QED
    BY <2>1, <2>2, <2>3, <2>4, <1>n
<1>14. CASE Store(r)
  BY <1>14, <1>3 DEF Store, Settled
<1>15. CASE Reload(r)
  BY <1>15, <1>3, <1>4 DEF Reload
<1>16. CASE InsightFault(r)
  <2>1. at[r] # "idle" /\ at'[r] = "failed" /\ who' = who /\ job[r] # None
    BY <1>16 DEF InsightFault, Fault, Ended
  <2> QED
    BY <2>1
<1> QED
  BY <1>5, <1>6, <1>7, <1>8, <1>9, <1>10, <1>11, <1>12, <1>13, <1>14, <1>15, <1>16 DEF InsightStep

LEMMA UsageInitTyped == UsageInit => UsageTypeOK /\ Paths
<1> SUFFICES ASSUME UsageInit PROVE UsageTypeOK /\ Paths
  OBVIOUS
<1> USE DEF UsageInit, QuotasInit, ScriptsInit, InsightsInit
<1>1. at \in [Requests -> Places] /\ QuotasTypeOK
  BY DEF Places, QuotasTypeOK
<1>2. ScriptsTypeOK
  <2>1. <<First>> \in Seq(Sources) /\ <<First>> # <<>>
    BY ScriptsAssumption
  <2> QED
    BY <2>1, ScriptsAssumption DEF ScriptsTypeOK
<1>3. InsightsTypeOK
  BY DEF InsightsTypeOK
<1>4. Paths
  BY DEF Paths, PathsOf, ScriptPaths, InsightPaths, ScriptPlaces, InsightPlaces
<1> QED
  BY <1>1, <1>2, <1>3, <1>4 DEF UsageTypeOK

LEMMA UsageStepTyped ==
    ASSUME UsageTypeOK, Paths, [UsageNext]_usageVars
    PROVE  UsageTypeOK' /\ Paths'
<1>1. at' \in [Requests -> Places] /\ QuotasTypeOK'
  BY StepQuotas, QuotasTyped
<1>2. CASE ScriptsNext /\ UNCHANGED insightVars
  <2>1. PICK r \in Requests : ScriptStep(r)
    BY <1>2, ScriptsSteps
  <2>2. InsightsTypeOK'
    BY <1>2 DEF insightVars, UsageTypeOK, InsightsTypeOK
  <2> QED
    BY <1>1, <1>2, <2>1, <2>2, ScriptsTyped, ScriptPathsKept DEF UsageTypeOK
<1>3. CASE (\E r \in Requests : InsightStep(r)) /\ UNCHANGED scriptVars
  <2>1. PICK r \in Requests : InsightStep(r)
    BY <1>3
  <2>2. ScriptsTypeOK'
    BY <1>3 DEF scriptVars, UsageTypeOK, ScriptsTypeOK
  <2> QED
    BY <1>1, <1>3, <2>1, <2>2, InsightsTyped, InsightPathsKept DEF UsageTypeOK
<1> USE DEF UsageTypeOK, ScriptsTypeOK, InsightsTypeOK, Paths, PathsOf, ScriptPaths, InsightPaths,
            scriptVars, insightVars, tables
<1>4. CASE Retention /\ UNCHANGED scriptVars
  BY <1>1, <1>4 DEF Retention, quotaVars
<1>5. CASE Restart /\ UNCHANGED scriptVars
  BY <1>1, <1>5 DEF Restart, Restarted, QuotasTypeOK, ScriptPlaces, InsightPlaces, Ended
<1>6. CASE Tick /\ UNCHANGED scriptVars
  BY <1>1, <1>6 DEF Tick, quotaVars
<1>7. CASE (\E u \in Users, t \in Tiers : ChangeTier(u, t)) /\ UNCHANGED <<scriptVars, insightVars>>
  BY <1>1, <1>7 DEF ChangeTier
<1>8. CASE UNCHANGED usageVars
  BY <1>1, <1>8 DEF usageVars, quotaVars
<1> QED
  BY <1>2, <1>3, <1>4, <1>5, <1>6, <1>7, <1>8, InsightsSteps DEF UsageNext

(* Every variable keeps its type and no request leaves its path, whatever    *)
(* requests overlap, fail or are cut off by a restart (scripts.py, ai.py).   *)
THEOREM UsageTypeCorrect == UsageSpec => [](UsageTypeOK /\ Paths)
BY UsageInitTyped, UsageStepTyped, PTL DEF UsageSpec

-----------------------------------------------------------------------------
(* The counters.  A request that has read its row carries the value it will  *)
(* write: at most one more than the uses there are, exactly one more than    *)
(* the row says when nobody else holds the row, and within the plan's limit. *)

RowOf(r) == <<who[r], charge[r].key>>

ChargesOnce ==
    \A r \in Requests :
        /\ at[r] \in Before => charge[r] = None /\ settled[r] = None
        /\ charge[r] # None => settled[r] = None
        /\ charge[r] # None => (charge[r].count = None <=> at[r] = "inserting")

ChargesFit ==
    \A r \in Requests :
        /\ limit[r] = 0 \/ \E t \in Tiers : limit[r] = Limits[t]
        /\ charge[r] # None /\ charge[r].count # None =>
              /\ 0 < charge[r].count /\ charge[r].count <= limit[r]
              /\ charge[r].count <= Uses(RowOf(r)) + 1
              /\ RowOf(r) \notin overlapped => charge[r].count = Counted(RowOf(r)) + 1

SharersOverlap ==
    \A q, r \in Requests :
        q # r /\ charge[q] # None /\ charge[r] # None /\ RowOf(q) = RowOf(r) => RowOf(r) \in overlapped

QuotaInv == ChargesOnce /\ ChargesFit /\ SharersOverlap /\ EveryUseIsCounted

UsedBy(row) == {r \in Requests : <<who[r], settled[r]>> = row}

LEMMA UsesType == \A row : IsFiniteSet(UsedBy(row)) /\ Uses(row) = Cardinality(UsedBy(row)) /\ Uses(row) \in Nat
<1> SUFFICES ASSUME NEW row
             PROVE  IsFiniteSet(UsedBy(row)) /\ Uses(row) = Cardinality(UsedBy(row)) /\ Uses(row) \in Nat
  OBVIOUS
<1>1. IsFiniteSet(UsedBy(row))
  BY QuotasAssumption, FS_Subset DEF UsedBy
<1>2. Uses(row) = Cardinality(UsedBy(row))
  BY DEF Uses, UsedBy
<1> QED
  BY <1>1, <1>2, FS_CardinalityType

\* A step that settles nothing changes neither the uses nor what is counted.
LEMMA UsesKept ==
    ASSUME UNCHANGED <<count, settled>>,
           \A r \in Requests : who'[r] = who[r] \/ settled[r] = None
    PROVE  \A row \in Users \X Keys : Uses(row)' = Uses(row) /\ Counted(row)' = Counted(row)
<1>1. ASSUME NEW row \in Users \X Keys
      PROVE  Uses(row)' = Uses(row) /\ Counted(row)' = Counted(row)
  <2>1. UsedBy(row)' = UsedBy(row)
    BY QuotasAssumption DEF UsedBy
  <2> QED
    BY <2>1 DEF Uses, UsedBy, Counted
<1> QED
  BY <1>1

\* A settled charge is one more use of its row and of no other.
LEMMA UsesGrow ==
    ASSUME NEW r \in Requests, settled[r] = None, UNCHANGED who, NEW key \in Keys,
           settled \in [Requests -> Keys \cup {None}], settled' = [settled EXCEPT ![r] = key]
    PROVE  \A row \in Users \X Keys : Uses(row)' = IF row = <<who[r], key>> THEN Uses(row) + 1 ELSE Uses(row)
<1>1. ASSUME NEW row \in Users \X Keys
      PROVE  Uses(row)' = IF row = <<who[r], key>> THEN Uses(row) + 1 ELSE Uses(row)
  <2>1. r \notin UsedBy(row)
    BY QuotasAssumption DEF UsedBy
  <2>2. UsedBy(row)' = IF row = <<who[r], key>> THEN UsedBy(row) \cup {r} ELSE UsedBy(row)
    BY <2>1 DEF UsedBy
  <2>3. Cardinality(UsedBy(row) \cup {r}) = Cardinality(UsedBy(row)) + 1
    BY <2>1, UsesType, FS_AddElement
  <2> QED
    BY <2>2, <2>3, UsesType DEF Uses, UsedBy
<1> QED
  BY <1>1

LEMMA ChargedRow ==
    ASSUME UsageTypeOK, Paths, ChargesOnce, NEW r \in Requests, charge[r] # None
    PROVE  /\ charge[r] \in ChargeType /\ RowOf(r) \in Users \X Keys
           /\ at[r] \in Onward \cup {"inserting"} /\ who[r] \in Users
BY DEF UsageTypeOK, QuotasTypeOK, Paths, PathsOf, ChargesOnce, RowOf, ChargeType, Onward, Before, Places

\* What a step that settles nothing and takes no new row keeps.
LEMMA QuietStep ==
    ASSUME UsageTypeOK, Paths, QuotaInv, UNCHANGED <<count, settled, overlapped>>,
           \A r \in Requests :
              \/ charge'[r] = None
              \/ charge'[r] = charge[r] /\ who'[r] = who[r] /\ limit'[r] = limit[r],
           \A r \in Requests : who'[r] = who[r] \/ settled[r] = None,
           \A r \in Requests : limit'[r] = limit[r] \/ \E t \in Tiers : limit'[r] = Limits[t]
    PROVE  ChargesFit' /\ SharersOverlap' /\ EveryUseIsCounted'
<1>1. \A row \in Users \X Keys : Uses(row)' = Uses(row) /\ Counted(row)' = Counted(row)
  BY UsesKept
<1>2. EveryUseIsCounted'
  BY <1>1 DEF QuotaInv, EveryUseIsCounted
<1>3. SharersOverlap'
  BY DEF QuotaInv, SharersOverlap, RowOf
<1>4. ASSUME NEW r \in Requests, charge'[r] # None, charge'[r].count # None
      PROVE  /\ 0 < charge'[r].count /\ charge'[r].count <= limit'[r]
             /\ charge'[r].count <= (Uses(RowOf(r)) + 1)'
             /\ RowOf(r)' \notin overlapped' => charge'[r].count = (Counted(RowOf(r)) + 1)'
  <2>1. charge'[r] = charge[r] /\ who'[r] = who[r] /\ limit'[r] = limit[r]
    BY <1>4
  <2>2. RowOf(r)' = RowOf(r) /\ RowOf(r) \in Users \X Keys
    BY <1>4, <2>1, ChargedRow DEF QuotaInv, RowOf
  <2>3. Uses(RowOf(r))' = Uses(RowOf(r)) /\ Counted(RowOf(r))' = Counted(RowOf(r))
    BY <1>1, <2>1, <2>2 DEF Uses, Counted, RowOf
  <2> QED
    BY <1>4, <2>1, <2>2, <2>3 DEF QuotaInv, ChargesFit
<1>5. ChargesFit'
  BY <1>4 DEF QuotaInv, ChargesFit
<1> QED
  BY <1>2, <1>3, <1>5

\* check_and_increment_quota: the row read now, the value to be written carried.
LEMMA ChargeKeepsQuota ==
    ASSUME UsageTypeOK, Paths, QuotaInv, NEW r \in Requests, NEW key \in Keys, NEW next \in Onward,
           at[r] \in {"charge", "icharge"}, Charge(r, key, next), ~ RolledBack(r), who[r] \notin Admins
    PROVE  QuotaInv'
<1> DEFINE row == <<who[r], key>>
           new == [key |-> key, inserted |-> FALSE, count |-> IF count[row] = None THEN None ELSE count[row] + 1]
<1> USE DEF UsageTypeOK, QuotasTypeOK
<1>1. /\ charge' = [charge EXCEPT ![r] = new]
      /\ at' = [at EXCEPT ![r] = IF count[row] = None THEN "inserting" ELSE next]
      /\ count[row] # None => ~ (count[row] >= limit[r])
      /\ overlapped \subseteq overlapped'
      /\ (\E q \in Requests \ {r} : charge[q] # None /\ RowOf(q) = row) => row \in overlapped'
      /\ UNCHANGED <<tier, count, who, limit, settled, faulted>>
  BY DEF Charge, RowOf
<1>2. row \in Users \X Keys /\ charge[r] = None /\ settled[r] = None
  BY DEF Paths, PathsOf, QuotaInv, ChargesOnce, Before
<1>3. new \in ChargeType /\ charge'[r] = new /\ charge'[r] # None /\ charge'[r].key = key
  <2>1. new \in ChargeType
    BY <1>2 DEF ChargeType
  <2> QED
    BY <1>1, <2>1, ChargeAssumption
<1>4. RowOf(r)' = row
  BY <1>1, <1>3 DEF RowOf
<1>5. \A q \in Requests \ {r} : charge'[q] = charge[q] /\ at'[q] = at[q] /\ RowOf(q)' = RowOf(q)
  BY <1>1 DEF RowOf
<1>6. \A s \in Users \X Keys : Uses(s)' = Uses(s) /\ Counted(s)' = Counted(s)
  BY <1>1, UsesKept
<1>7. ChargesOnce'
  <2>1. ASSUME NEW q \in Requests
        PROVE  /\ at'[q] \in Before => charge'[q] = None /\ settled'[q] = None
               /\ charge'[q] # None => settled'[q] = None
               /\ charge'[q] # None => (charge'[q].count = None <=> at'[q] = "inserting")
    <3>1. CASE q = r
      <4>1. at'[r] \notin Before
        BY <1>1 DEF Before, Onward
      <4>2. charge'[r].count = None <=> at'[r] = "inserting"
        BY <1>1, <1>2, <1>3, QuotasAssumption DEF Onward
      <4> QED
        BY <3>1, <4>1, <4>2, <1>1, <1>2
    <3>2. CASE q # r
      BY <3>2, <1>1, <1>5 DEF QuotaInv, ChargesOnce
    <3> QED
      BY <3>1, <3>2
  <2> QED
    BY <2>1 DEF ChargesOnce
<1>8. EveryUseIsCounted'
  BY <1>1, <1>6 DEF QuotaInv, EveryUseIsCounted
<1>9. SharersOverlap'
  <2>1. ASSUME NEW p \in Requests, NEW q \in Requests, p # q, charge'[p] # None, charge'[q] # None,
               RowOf(p)' = RowOf(q)'
        PROVE  RowOf(q)' \in overlapped'
    BY <2>1, <1>1, <1>4, <1>5 DEF QuotaInv, SharersOverlap
  <2> QED
    BY <2>1 DEF SharersOverlap
<1>10. ChargesFit'
  <2>1. ASSUME NEW q \in Requests, charge'[q] # None, charge'[q].count # None
        PROVE  /\ 0 < charge'[q].count /\ charge'[q].count <= limit'[q]
               /\ charge'[q].count <= (Uses(RowOf(q)) + 1)'
               /\ RowOf(q)' \notin overlapped' => charge'[q].count = (Counted(RowOf(q)) + 1)'
    <3>1. CASE q = r
      <4>1. count[row] \in Nat /\ charge'[r].count = count[row] + 1
        BY <2>1, <3>1, <1>1, <1>2, <1>3
      <4>2. count[row] <= Uses(row) /\ Uses(row) \in Nat /\ Counted(row) = count[row]
        BY <4>1, <1>2, UsesType, QuotasAssumption DEF QuotaInv, EveryUseIsCounted, Counted
      <4>3. (Uses(RowOf(r)))' = Uses(row) /\ (Counted(RowOf(r)))' = Counted(row)
        BY <1>1, <1>2, <1>4, <1>6 DEF Uses, Counted
      <4>4. limit[r] \in Nat /\ count[row] < limit[r] /\ limit'[r] = limit[r]
        <5>1. count[row] # None
          BY <4>1, QuotasAssumption
        <5>2. ~ (count[row] >= limit[r]) /\ limit' = limit
          BY <5>1, <1>1
        <5> QED
          BY <4>1, <5>2
      <4> QED
        BY <3>1, <4>1, <4>2, <4>3, <4>4
    <3>2. CASE q # r
      <4>1. charge[q] # None /\ charge'[q] = charge[q] /\ RowOf(q)' = RowOf(q) /\ RowOf(q) \in Users \X Keys
        BY <2>1, <3>2, <1>5, ChargedRow DEF QuotaInv
      <4>2. (Uses(RowOf(q)))' = Uses(RowOf(q)) /\ (Counted(RowOf(q)))' = Counted(RowOf(q))
        BY <4>1, <1>6, <1>1 DEF Uses, Counted
      <4> QED
        BY <2>1, <4>1, <4>2, <1>1 DEF QuotaInv, ChargesFit
    <3> QED
      BY <3>1, <3>2
  <2> QED
    BY <2>1, <1>1 DEF ChargesFit, QuotaInv
<1> QED
  BY <1>7, <1>8, <1>9, <1>10 DEF QuotaInv

LEMMA InsertKeepsQuota ==
    ASSUME UsageTypeOK, Paths, QuotaInv, NEW r \in Requests, NEW next \in Onward,
           Insert(r, next), ~ RolledBack(r)
    PROVE  QuotaInv'
<1> DEFINE row == RowOf(r)
           new == [charge[r] EXCEPT !.count = 1, !.inserted = TRUE]
<1> USE DEF UsageTypeOK, QuotasTypeOK
<1>1. /\ charge' = [charge EXCEPT ![r] = new] /\ at' = [at EXCEPT ![r] = next]
      /\ count[row] = None /\ limit[r] # 0 /\ at[r] = "inserting"
      /\ UNCHANGED <<tier, count, who, limit, settled, overlapped, faulted>>
  BY DEF Insert, RowOf
<1>2. charge[r] # None /\ settled[r] = None
  BY <1>1 DEF Paths, PathsOf, QuotaInv, ChargesOnce
<1>3. row \in Users \X Keys /\ charge[r] \in ChargeType
  BY <1>2, ChargedRow DEF QuotaInv
<1>4. new \in ChargeType /\ charge'[r] = new /\ charge'[r] # None /\ charge'[r].key = charge[r].key
      /\ charge'[r].count = 1
  <2>1. new \in ChargeType
    BY <1>3 DEF ChargeType
  <2> QED
    BY <1>1, <1>3, <2>1, ChargeAssumption DEF ChargeType
<1>5. \A q \in Requests : RowOf(q)' = RowOf(q)
  BY <1>1, <1>4 DEF RowOf
<1>6. \A q \in Requests \ {r} : charge'[q] = charge[q] /\ at'[q] = at[q]
  BY <1>1
<1>7. \A s \in Users \X Keys : Uses(s)' = Uses(s) /\ Counted(s)' = Counted(s)
  BY <1>1, UsesKept
<1>8. ChargesOnce'
  <2>1. ASSUME NEW q \in Requests
        PROVE  /\ at'[q] \in Before => charge'[q] = None /\ settled'[q] = None
               /\ charge'[q] # None => settled'[q] = None
               /\ charge'[q] # None => (charge'[q].count = None <=> at'[q] = "inserting")
    <3>1. CASE q = r
      <4>1. at'[r] \notin Before \cup {"inserting"} /\ charge'[r].count # None
        BY <1>1, <1>4, QuotasAssumption DEF Onward
      <4> QED
        BY <3>1, <4>1, <1>1, <1>2
    <3>2. CASE q # r
      BY <3>2, <1>1, <1>6 DEF QuotaInv, ChargesOnce
    <3> QED
      BY <3>1, <3>2
  <2> QED
    BY <2>1 DEF ChargesOnce
<1>9. EveryUseIsCounted'
  BY <1>1, <1>7 DEF QuotaInv, EveryUseIsCounted
<1>10. SharersOverlap'
  BY <1>1, <1>2, <1>5, <1>6 DEF QuotaInv, SharersOverlap
<1>11. ChargesFit'
  <2>1. ASSUME NEW q \in Requests, charge'[q] # None, charge'[q].count # None
        PROVE  /\ 0 < charge'[q].count /\ charge'[q].count <= limit'[q]
               /\ charge'[q].count <= (Uses(RowOf(q)) + 1)'
               /\ RowOf(q)' \notin overlapped' => charge'[q].count = (Counted(RowOf(q)) + 1)'
    <3>1. charge[q] # None /\ RowOf(q) \in Users \X Keys /\ RowOf(q)' = RowOf(q)
      BY <2>1, <1>2, <1>5, <1>6, ChargedRow DEF QuotaInv
    <3>2. (Uses(RowOf(q)))' = Uses(RowOf(q)) /\ (Counted(RowOf(q)))' = Counted(RowOf(q))
      BY ONLY <3>1, <1>7 DEF Uses, Counted
    <3>3. CASE q = r
      <4>1. Counted(row) = 0 /\ Uses(row) \in Nat
        BY <1>1, UsesType DEF Counted
      <4>2. limit[r] \in Nat /\ limit[r] > 0
        BY <1>1
      <4> QED
        BY <3>2, <3>3, <4>1, <4>2, <1>1, <1>4
    <3>4. CASE q # r
      BY <2>1, <3>1, <3>2, <3>4, <1>1, <1>5, <1>6 DEF QuotaInv, ChargesFit
    <3> QED
      BY <3>3, <3>4
  <2> QED
    BY <2>1, <1>1 DEF ChargesFit, QuotaInv
<1> QED
  BY <1>8, <1>9, <1>10, <1>11 DEF QuotaInv

\* The commit writes the value carried, which is one more than the row said
\* unless another session wrote it meanwhile.
LEMMA CommitKeepsQuota ==
    ASSUME UsageTypeOK, Paths, QuotaInv, NEW r \in Requests, Commits(r), charge[r] # None
    PROVE  QuotaInv'
<1> DEFINE row == RowOf(r)
           written == charge[r].count
<1> USE DEF UsageTypeOK, QuotasTypeOK
<1>1. /\ charge[r] \in ChargeType /\ row \in Users \X Keys /\ at[r] \in Onward /\ settled[r] = None
      /\ at[r] # "inserting" /\ written \in Nat /\ written # None
  BY ChargedRow, QuotasAssumption DEF QuotaInv, ChargesOnce, Commits, Onward, ChargeType
<1>2. /\ count' = [count EXCEPT ![row] = written] /\ settled' = [settled EXCEPT ![r] = charge[r].key]
      /\ charge' = [charge EXCEPT ![r] = None]
      /\ UNCHANGED <<tier, who, limit, overlapped, faulted>>
  BY DEF Commits, Settled, RowOf
<1>3. PICK next \in Onward : at' = [at EXCEPT ![r] = next]
  BY DEF Commits
<1>4. \A s \in Users \X Keys : Uses(s)' = IF s = row THEN Uses(s) + 1 ELSE Uses(s)
  <2>1. charge[r].key \in Keys
    BY <1>1 DEF ChargeType
  <2> QED
    BY <2>1, <1>1, <1>2, UsesGrow DEF RowOf
<1>5. \A s \in Users \X Keys : Counted(s)' = IF s = row THEN written ELSE Counted(s)
  BY <1>1, <1>2 DEF Counted
<1>6. /\ 0 < written /\ written <= limit[r] /\ written <= Uses(row) + 1
      /\ row \notin overlapped => written = Counted(row) + 1
  BY <1>1 DEF QuotaInv, ChargesFit
<1>7. ChargesOnce'
  BY <1>2, <1>3 DEF QuotaInv, ChargesOnce, Onward
<1>8. SharersOverlap'
  BY <1>2 DEF QuotaInv, SharersOverlap, RowOf
<1>9. EveryUseIsCounted'
  <2>1. ASSUME NEW s \in Users \X Keys
        PROVE  /\ Counted(s)' <= Uses(s)'
               /\ s \notin overlapped' => Counted(s)' = Uses(s)'
               /\ \E t \in Tiers : Counted(s)' <= Limits[t]'
    <3>1. CASE s = row
      <4>1. Counted(s)' = written /\ Uses(s)' = Uses(row) + 1 /\ Uses(row) \in Nat
        BY <3>1, <1>1, <1>4, <1>5, UsesType
      <4>2. s \notin overlapped' => written = Uses(row) + 1
        BY <3>1, <1>2, <1>6, <1>1 DEF QuotaInv, EveryUseIsCounted
      <4>3. \E t \in Tiers : limit[r] = Limits[t]
        BY <1>1, <1>6 DEF QuotaInv, ChargesFit
      <4> QED
        BY <4>1, <4>2, <4>3, <1>6
    <3>2. CASE s # row
      BY <3>2, <1>2, <1>4, <1>5 DEF QuotaInv, EveryUseIsCounted
    <3> QED
      BY <3>1, <3>2
  <2> QED
    BY <2>1 DEF EveryUseIsCounted
<1>10. ChargesFit'
  <2>1. ASSUME NEW q \in Requests, charge'[q] # None, charge'[q].count # None
        PROVE  /\ 0 < charge'[q].count /\ charge'[q].count <= limit'[q]
               /\ charge'[q].count <= (Uses(RowOf(q)) + 1)'
               /\ RowOf(q)' \notin overlapped' => charge'[q].count = (Counted(RowOf(q)) + 1)'
    <3>1. q # r /\ charge'[q] = charge[q] /\ RowOf(q)' = RowOf(q) /\ charge[q] # None
      BY <2>1, <1>2 DEF RowOf
    <3>2. RowOf(q) \in Users \X Keys /\ charge[q] \in ChargeType /\ charge[q].count \in Nat
      BY <2>1, <3>1, ChargedRow DEF QuotaInv, ChargeType
    <3>3. /\ 0 < charge[q].count /\ charge[q].count <= limit[q] /\ charge[q].count <= Uses(RowOf(q)) + 1
          /\ RowOf(q) \notin overlapped => charge[q].count = Counted(RowOf(q)) + 1
      BY <2>1, <3>1 DEF QuotaInv, ChargesFit
    <3>4. RowOf(q) = row => row \in overlapped
      BY <3>1 DEF QuotaInv, SharersOverlap
    <3>5. (Uses(RowOf(q)))' = (IF RowOf(q) = row THEN Uses(RowOf(q)) + 1 ELSE Uses(RowOf(q)))
          /\ (Counted(RowOf(q)))' = (IF RowOf(q) = row THEN written ELSE Counted(RowOf(q)))
      BY <3>1, <3>2, <1>4, <1>5 DEF Uses, Counted
    <3>6. Uses(RowOf(q)) \in Nat
      BY UsesType
    <3> QED
      BY <3>1, <3>2, <3>3, <3>4, <3>5, <3>6, <1>2
  <2> QED
    BY <2>1, <1>2 DEF ChargesFit, QuotaInv
<1> QED
  BY <1>7, <1>8, <1>9, <1>10 DEF QuotaInv

LEMMA QuotaStepKeeps ==
    ASSUME UsageTypeOK, Paths, QuotaInv, QuotaStep
    PROVE  QuotaInv'
<1> USE DEF UsageTypeOK, QuotasTypeOK
<1>1. ASSUME NEW r \in Requests, NEW u \in Users, NEW next \in Places \ {"idle", "inserting"}, Arrive(r, u, next)
      PROVE  QuotaInv'
  <2>1. charge[r] = None /\ settled[r] = None
    BY <1>1 DEF Arrive, QuotaInv, ChargesOnce, Before
  <2>2. ChargesFit' /\ SharersOverlap' /\ EveryUseIsCounted'
    BY <1>1, <2>1, QuietStep DEF Arrive, TierLimit
  <2>3. ChargesOnce'
    BY <1>1, <2>1 DEF Arrive, QuotaInv, ChargesOnce
  <2> QED
    BY <2>2, <2>3 DEF QuotaInv
<1>2. ASSUME NEW r \in Requests, RolledBack(r) \/ Fault(r)
      PROVE  QuotaInv'
  <2>1. ChargesFit' /\ SharersOverlap' /\ EveryUseIsCounted'
    BY <1>2, QuietStep DEF RolledBack, Fault
  <2>2. ChargesOnce'
    BY <1>2 DEF RolledBack, Fault, QuotaInv, ChargesOnce, Before
  <2> QED
    BY <2>1, <2>2 DEF QuotaInv
<1>3. ASSUME NEW r \in Requests, NEW key \in Keys, NEW next \in Onward,
             at[r] \in {"charge", "icharge"}, Charge(r, key, next)
      PROVE  QuotaInv'
  <2>1. CASE who[r] \in Admins
    <3>1. ChargesFit' /\ SharersOverlap' /\ EveryUseIsCounted'
      BY <1>3, <2>1, QuietStep DEF Charge
    <3>2. charge[r] = None /\ settled[r] = None
      BY <1>3 DEF QuotaInv, ChargesOnce, Before
    <3>3. ChargesOnce'
      BY <1>3, <2>1, <3>2 DEF Charge, QuotaInv, ChargesOnce
    <3> QED
      BY <3>1, <3>3 DEF QuotaInv
  <2> QED
    BY <1>2, <1>3, <2>1, ChargeKeepsQuota
<1>4. ASSUME NEW r \in Requests, NEW next \in Onward, Insert(r, next)
      PROVE  QuotaInv'
  BY <1>2, <1>4, InsertKeepsQuota
<1>5. ASSUME NEW r \in Requests, Moves(r)
      PROVE  QuotaInv'
  <2>1. ChargesFit' /\ SharersOverlap' /\ EveryUseIsCounted'
    BY <1>5, QuietStep DEF Moves
  <2>2. ChargesOnce'
    BY <1>5 DEF Moves, QuotaInv, ChargesOnce
  <2> QED
    BY <2>1, <2>2 DEF QuotaInv
<1>6. ASSUME NEW r \in Requests, Commits(r)
      PROVE  QuotaInv'
  <2>1. CASE charge[r] = None
    <3>1. ChargesFit' /\ SharersOverlap' /\ EveryUseIsCounted'
      BY <1>6, <2>1, QuietStep DEF Commits, Settled
    <3>2. ChargesOnce'
      BY <1>6, <2>1 DEF Commits, Settled, QuotaInv, ChargesOnce, Onward
    <3> QED
      BY <3>1, <3>2 DEF QuotaInv
  <2> QED
    BY <1>6, <2>1, CommitKeepsQuota
<1>7. CASE Restarted
  <2>1. ChargesFit' /\ SharersOverlap' /\ EveryUseIsCounted'
    BY <1>7, QuietStep DEF Restarted
  <2>2. ChargesOnce'
    BY <1>7 DEF Restarted, QuotaInv, ChargesOnce, Before
  <2> QED
    BY <2>1, <2>2 DEF QuotaInv
<1>8. CASE (\E u \in Users, t \in Tiers : ChangeTier(u, t)) \/ UNCHANGED quotaVars
  <2>1. UNCHANGED <<count, at, who, limit, charge, settled, overlapped, faulted>>
    BY <1>8 DEF ChangeTier, quotaVars
  <2>2. ChargesFit' /\ SharersOverlap' /\ EveryUseIsCounted'
    BY <2>1, QuietStep
  <2>3. ChargesOnce'
    BY <2>1 DEF QuotaInv, ChargesOnce
  <2> QED
    BY <2>2, <2>3 DEF QuotaInv
<1> QED
  BY <1>1, <1>2, <1>3, <1>4, <1>5, <1>6, <1>7, <1>8 DEF QuotaStep

LEMMA QuotaInitially == UsageInit => QuotaInv
<1> SUFFICES ASSUME UsageInit PROVE QuotaInv
  OBVIOUS
<1> USE DEF UsageInit, QuotasInit
<1>1. ChargesOnce /\ ChargesFit /\ SharersOverlap
  BY DEF ChargesOnce, ChargesFit, SharersOverlap
<1>2. ASSUME NEW row \in Users \X Keys
      PROVE  Counted(row) = 0 /\ Uses(row) = 0 /\ \E t \in Tiers : 0 <= Limits[t]
  <2>1. UsedBy(row) = {}
    BY QuotasAssumption DEF UsedBy
  <2>2. Uses(row) = 0
    BY <2>1, UsesType, FS_EmptySet
  <2>3. tier[row[1]] \in Tiers /\ Limits[tier[row[1]]] \in Nat
    BY QuotasAssumption
  <2> QED
    BY <2>2, <2>3 DEF Counted
<1>3. EveryUseIsCounted
  BY <1>2 DEF EveryUseIsCounted
<1> QED
  BY <1>1, <1>3 DEF QuotaInv

(* Every request that went through is in its counter unless two held the row *)
(* at once, and the counter stays within the plans (check_and_increment_quota). *)
THEOREM UsesAreCounted == UsageSpec => []EveryUseIsCounted
<1>1. UsageInit => QuotaInv
  BY QuotaInitially
<1>2. UsageTypeOK /\ Paths /\ QuotaInv /\ [UsageNext]_usageVars => QuotaInv'
  BY StepQuotas, QuotaStepKeeps
<1>3. QuotaInv => EveryUseIsCounted
  BY DEF QuotaInv
<1> QED
  BY <1>1, <1>2, <1>3, UsageTypeCorrect, PTL DEF UsageSpec

-----------------------------------------------------------------------------
(* What a script request leaves behind.  A request that has stored its run   *)
(* has settled its charge with it, and can only fail by a fault.             *)

Unstored == {"load", "number", "send", "commit", "charge", "inserting", "execute", "persist"}

\* The charge the request holds or has settled, that of an administrator aside.
Owes(r)  == who[r] \notin Admins => charge[r] # None /\ charge[r].key = KeyOf[mine[r].op]
Owned(r) == who[r] \notin Admins => charge[r] = None /\ settled[r] = KeyOf[mine[r].op]

StoredAsSaid(r) ==
    /\ mine[r].op = "run" => runs[r] # None
    /\ mine[r].op = "backtest" => (mine[r].good <=> (runs[r] # None /\ runs[r].result))

DoneSoFar(r) ==
    /\ mine[r] = None => runs[r] = None /\ r \notin told
    /\ mine[r] # None =>
          /\ at[r] \in Unstored => runs[r] = None /\ settled[r] = None
          /\ at[r] \in {"inserting", "execute", "persist"} => Owes(r)
          /\ at[r] = "persist" /\ mine[r].op = "backtest" => mine[r].good
          /\ at[r] = "result" => Owned(r) /\ mine[r].good
          /\ at[r] = "broadcast" => who[r] \in Admins /\ runs[r] # None /\ runs[r].status = "completed"
          /\ at[r] = "log" => (Owes(r) \/ Owned(r)) /\ StoredAsSaid(r)
          /\ mine[r].broken => r \in faulted
          /\ at[r] = "failed" /\ r \notin faulted => runs[r] = None /\ settled[r] = None
          /\ at[r] = "ok" /\ mine[r].op \in Charged =>
                (who[r] \notin Admins => settled[r] = KeyOf[mine[r].op]) /\ StoredAsSaid(r)
    /\ r \in told => who[r] \in Admins /\ runs[r] # None /\ runs[r].status = "completed"

ScriptsInv == (\A r \in Requests : DoneSoFar(r)) /\ HistoryEndsInTheSource

LEMMA ScriptStepKeepsDone ==
    ASSUME UsageTypeOK, Paths, ChargesOnce, NEW r \in Requests, DoneSoFar(r), ScriptStep(r)
    PROVE  DoneSoFar(r)'
<1>1. /\ at \in [Requests -> Places] /\ who \in [Requests -> Users \cup {None}]
      /\ charge \in [Requests -> ChargeType \cup {None}] /\ mine \in [Requests -> MineType \cup {None}]
      /\ runs \in [Requests -> RunType \cup {None}] /\ settled \in [Requests -> Keys \cup {None}]
      /\ PathsOf(r)
  BY DEF UsageTypeOK, QuotasTypeOK, ScriptsTypeOK, Paths
<1>n. None \notin MineType /\ None \notin RunType
  BY ScriptsAssumption
<1>m. at[r] \in ScriptPlaces \cup {"inserting"} /\ mine[r] # None =>
          mine[r] \in MineType /\ mine[r].op \in Ops
  BY <1>1 DEF MineType
<1>p. at[r] \in ScriptPlaces => mine[r] # None
  BY <1>1 DEF PathsOf, ScriptPaths
<1> USE <1>1 DEF DoneSoFar, Unstored, Owes, Owned, StoredAsSaid
\* Nothing but the session ends.
<1>2. CASE /\ RolledBack(r) /\ UNCHANGED scriptVars /\ mine[r] # None
           /\ at[r] \in Unstored \/ r \in faulted
  <2>1. at'[r] = "failed" /\ UNCHANGED <<runs, settled, mine, told, faulted, who>>
    BY <1>2 DEF RolledBack, scriptVars
  <2> QED
    BY <1>2, <2>1
<1>3. ASSUME NEW u \in Users, NEW op \in Ops, NEW source \in Sources, NEW flag \in BOOLEAN,
             ScriptArrive(r, u, op, source, flag)
      PROVE  DoneSoFar(r)'
  <2> DEFINE new == [op |-> op, source |-> source, loaded |-> None, version |-> 0,
                     good |-> FALSE, flag |-> flag, broken |-> FALSE]
  <2>1. /\ at[r] = "idle" /\ at'[r] \in {"load", "charge"} /\ mine'[r] = new
        /\ UNCHANGED <<runs, settled, told, faulted>>
    BY <1>3 DEF ScriptArrive, Arrive
  <2>2. settled[r] = None /\ mine[r] = None
    BY <2>1 DEF ChargesOnce, Before, PathsOf, ScriptPaths, ScriptPlaces
  <2>3. new \in MineType
    BY DEF MineType
  <2> QED
    BY <2>1, <2>2, <2>3
<1>4. CASE Load(r) \/ Number(r)
  <2>1. CASE Fails(r)
    BY <1>2, <1>4, <1>p, <2>1 DEF Load, Number, Steps, Fails, ScriptPlaces
  <2>2. CASE ~ Fails(r)
    <3>1. at[r] \in {"load", "number"} /\ at'[r] \in {"number", "send", "charge"}
      <4>1. CASE Load(r)
        <5>1. (CASE mine[r].op = "update" -> "number" [] mine[r].op = "delete" -> "send" [] OTHER -> "charge")
                 \in {"number", "send", "charge"}
          OBVIOUS
        <5> QED
          BY <2>2, <4>1, <5>1 DEF Load, Steps
      <4> QED
        BY <1>4, <4>1 DEF Number, Steps
    <3>2. UNCHANGED <<runs, settled, charge, told, faulted, who>>
      BY <1>4, <2>2 DEF Load, Number, Steps
    <3>3. mine[r] \in MineType /\ mine[r] # None
      BY <3>1, <1>m, <1>p DEF ScriptPlaces
    <3>4. mine'[r].broken = mine[r].broken
      <4>1. \/ mine'[r] = [mine[r] EXCEPT !.loaded = script.source]
            \/ mine'[r] = [mine[r] EXCEPT !.version = Len(versions) + 1]
        BY <1>4, <2>2 DEF Load, Number
      <4> QED
        BY <3>3, <4>1 DEF MineType
    <3> QED
      BY <3>1, <3>2, <3>3, <3>4
  <2> QED
    BY <2>1, <2>2
<1>5. CASE FlushEdit(r) \/ CommitEdit(r)
  <2>1. CASE Fails(r)
    BY <1>2, <1>5, <1>p, <2>1 DEF FlushEdit, CommitEdit, Steps, Fails, ScriptPlaces
  <2>2. CASE ~ Fails(r)
    <3>1. /\ (at[r] = "send" /\ at'[r] = "commit") \/ (at[r] = "commit" /\ at'[r] = "ok")
          /\ UNCHANGED <<runs, settled, charge, told, faulted, who, mine>>
      BY <1>5, <2>2 DEF FlushEdit, CommitEdit, Steps, scriptVars
    <3>2. mine[r] # None /\ mine[r].op \notin Charged
      BY <3>1, <1>p DEF PathsOf, ScriptPaths, Charged, ScriptPlaces
    <3> QED
      BY <3>1, <3>2
  <2> QED
    BY <2>1, <2>2
<1>6. CASE ScriptCharge(r)
  <2>0. at[r] = "charge" /\ mine[r] # None /\ UNCHANGED scriptVars
    BY <1>6, <1>p DEF ScriptCharge, ScriptPlaces
  <2>1. CASE RolledBack(r)
    BY <1>2, <2>0, <2>1
  <2>2. CASE who[r] \in Admins
    BY <1>6, <2>0, <2>2 DEF ScriptCharge, Charge, scriptVars
  <2>3. CASE who[r] \notin Admins /\ ~ RolledBack(r)
    <3> DEFINE key == KeyOf[mine[r].op]
               row == <<who[r], key>>
               new == [key |-> key, inserted |-> FALSE, count |-> IF count[row] = None THEN None ELSE count[row] + 1]
    <3>1. /\ charge'[r] = new /\ at'[r] \in {"inserting", "execute"}
          /\ UNCHANGED <<runs, settled, told, faulted, who, mine>>
      BY <1>6, <2>3 DEF ScriptCharge, Charge, scriptVars
    <3>2. row \in Users \X Keys
      BY <2>0 DEF PathsOf, ScriptPaths, KeyOf, Keys, Charged, Ops
    <3>3. new \in ChargeType
      BY <3>2 DEF ChargeType, UsageTypeOK, QuotasTypeOK
    <3>4. charge'[r] # None
      BY ONLY <3>1, <3>3, ChargeAssumption
    <3>5. charge'[r].key = KeyOf[mine[r].op]
      BY <3>1
    <3> QED
      BY <2>0, <2>3, <3>1, <3>4, <3>5
  <2> QED
    BY <2>1, <2>2, <2>3
<1>7. CASE ScriptInsert(r)
  <2>0. at[r] = "inserting" /\ mine[r] # None /\ charge[r] \in ChargeType /\ UNCHANGED scriptVars
    BY <1>7 DEF ScriptInsert, Insert, PathsOf
  <2>1. CASE RolledBack(r)
    BY <1>2, <2>0, <2>1
  <2>2. CASE ~ RolledBack(r)
    <3> DEFINE new == [charge[r] EXCEPT !.count = 1, !.inserted = TRUE]
    <3>1. new \in ChargeType /\ new.key = charge[r].key
      BY <2>0 DEF ChargeType
    <3>2. /\ charge'[r] = new /\ at'[r] = "execute"
          /\ UNCHANGED <<runs, settled, told, faulted, who, mine>>
      BY <1>7, <2>2 DEF ScriptInsert, Insert, scriptVars
    <3> QED
      BY <2>0, <3>1, <3>2, ChargeAssumption
  <2> QED
    BY <2>1, <2>2
<1>8. CASE Execute(r)
  <2>0. at[r] = "execute" /\ mine[r] # None /\ mine[r] \in MineType
    BY <1>8, <1>m, <1>p DEF Execute, Fails, ScriptPlaces
  <2>1. CASE Fails(r)
    BY <1>2, <2>0, <2>1 DEF Fails
  <2>2. ASSUME NEW good \in BOOLEAN, mine' = [mine EXCEPT ![r].good = good],
               Steps(r, "execute",
                    IF mine[r].op \in {"run", "run_unsaved"} \/ (mine[r].op = "backtest" /\ good)
                    THEN "persist" ELSE "log"),
               UNCHANGED <<script, versions, runs, told, resubmitted>>
        PROVE  DoneSoFar(r)'
    <3>1. mine'[r] = [mine[r] EXCEPT !.good = good]
      BY <2>2
    <3>2. mine'[r] # None /\ mine'[r].op = mine[r].op /\ mine'[r].broken = mine[r].broken /\ mine'[r].good = good
      <4>1. [mine[r] EXCEPT !.good = good] \in MineType
        BY <2>0 DEF MineType
      <4> QED
        BY <2>0, <3>1, <4>1, <1>n DEF MineType
    <3>3. UNCHANGED <<runs, settled, charge, told, faulted, who>>
      BY <2>2 DEF Steps
    <3>4. /\ at'[r] \in {"persist", "log"}
          /\ at'[r] = "persist" /\ mine[r].op = "backtest" => good
          /\ at'[r] = "log" => mine[r].op # "run" /\ (mine[r].op = "backtest" => ~ good)
      BY <2>2 DEF Steps
    <3> QED
      BY <2>0, <3>2, <3>3, <3>4
  <2> QED
    BY <1>8, <2>1, <2>2 DEF Execute
\* The session's first commit settles the charge it holds.
<1>s. ASSUME Settled(r), Owes(r), who' = who, mine' = mine, ChargesOnce
      PROVE  Owned(r)'
  BY <1>s DEF Settled
<1>9. CASE Persist(r)
  <2>0. at[r] = "persist" /\ mine[r] # None /\ mine[r] \in MineType
    BY <1>9, <1>m, <1>p DEF Persist, ScriptPlaces
  <2>1. CASE Fails(r)
    BY <1>2, <2>0, <2>1 DEF Fails
  <2>2. CASE ~ Fails(r)
    <3> DEFINE next == CASE mine[r].op = "backtest" -> "result"
                         [] mine[r].op = "run" /\ mine[r].good /\ mine[r].flag /\ who[r] \in Admins -> "broadcast"
                         [] OTHER -> "log"
               new  == [type |-> IF mine[r].op = "run" THEN "historical" ELSE "backtest",
                        status |-> IF mine[r].good THEN "completed" ELSE "failed", result |-> FALSE]
    <3>1. /\ mine' = mine /\ who' = who /\ mine[r].op \in {"run", "backtest"} /\ Settled(r)
          /\ runs' = [runs EXCEPT ![r] = new] /\ at' = [at EXCEPT ![r] = next]
          /\ UNCHANGED <<told, faulted>>
      BY <1>9, <2>0, <2>2 DEF Persist, PathsOf, ScriptPaths
    <3>2. \/ next = "result" /\ mine[r].op = "backtest"
          \/ next = "broadcast" /\ mine[r].op = "run" /\ mine[r].good /\ who[r] \in Admins
          \/ next = "log" /\ mine[r].op = "run"
      BY <3>1
    <3>3. new \in RunType
      BY DEF RunType
    <3>4. at'[r] = next /\ runs'[r] = new /\ runs'[r] # None
      BY <3>1, <3>3, <1>n
    <3>5. Owned(r)'
      BY <2>0, <3>1, <1>s
    <3>6. r \notin told /\ (mine[r].op = "backtest" => mine[r].good)
      BY <2>0
    <3>7. mine[r].good => runs'[r].status = "completed"
      BY <3>4
    <3> HIDE DEF next, new
    <3> QED
      BY <2>0, <3>1, <3>2, <3>4, <3>5, <3>6, <3>7
  <2> QED
    BY <2>1, <2>2
<1>10. CASE StoreResult(r)
  <2>1. /\ at[r] = "result" /\ at'[r] = "log" /\ runs' = [runs EXCEPT ![r].result = TRUE]
        /\ UNCHANGED <<settled, charge, told, faulted, who, mine>> /\ mine[r] # None
    BY <1>10, <1>p DEF StoreResult, Steps, ScriptPlaces
  <2>2. mine[r].op = "backtest" /\ runs[r] # None /\ runs[r] \in RunType
    BY <2>1 DEF PathsOf, ScriptPaths
  <2>3. [runs[r] EXCEPT !.result = TRUE] \in RunType /\ runs'[r] = [runs[r] EXCEPT !.result = TRUE]
    BY <2>1, <2>2 DEF RunType
  <2>4. runs'[r] # None /\ runs'[r].result /\ runs'[r].status = runs[r].status
    BY <2>2, <2>3, <1>n DEF RunType
  <2> QED
    BY <2>1, <2>2, <2>4
<1>11. ASSUME NEW fault \in BOOLEAN, BroadcastRun(r, fault)
       PROVE  DoneSoFar(r)'
  <2>1. /\ at[r] = "broadcast" /\ at'[r] = "log" /\ UNCHANGED <<settled, charge, who, runs>>
        /\ mine[r] # None /\ mine[r] \in MineType /\ mine[r].op = "run"
    BY <1>11, <1>p, <1>m DEF BroadcastRun, ScriptPlaces, PathsOf, ScriptPaths
  <2>2. CASE fault
    <3>1. mine'[r] = [mine[r] EXCEPT !.broken = TRUE] /\ r \in faulted' /\ told' = told
      BY <1>11, <2>2 DEF BroadcastRun, UsageTypeOK, QuotasTypeOK
    <3>2. mine'[r] \in MineType /\ mine'[r].op = mine[r].op
      BY <2>1, <3>1 DEF MineType
    <3> QED
      BY <2>1, <3>1, <3>2, <1>n
  <2>3. CASE ~ fault
    <3>1. mine' = mine /\ faulted' = faulted /\ told' = told \cup {r}
      BY <1>11, <2>3 DEF BroadcastRun
    <3> QED
      BY <2>1, <3>1
  <2> QED
    BY <2>2, <2>3
<1>12. CASE LogRun(r)
  <2>0. at[r] = "log" /\ mine[r] # None /\ mine[r].op \in Charged
    BY <1>12, <1>p DEF LogRun, ScriptPlaces, PathsOf, ScriptPaths
  <2>1. CASE mine[r].broken
    BY <1>2, <1>12, <2>0, <2>1 DEF LogRun, Fails
  <2>2. CASE ~ mine[r].broken
    <3>1. at'[r] = "ok" /\ Settled(r) /\ UNCHANGED <<who, faulted, runs, told, mine>>
      BY <1>12, <2>2 DEF LogRun, scriptVars
    <3>2. who[r] \notin Admins => settled'[r] = KeyOf[mine[r].op]
      BY <2>0, <3>1 DEF Settled
    <3> QED
      BY <2>0, <2>2, <3>1, <3>2
  <2> QED
    BY <2>1, <2>2
<1>13. CASE ScriptFault(r)
  <2>1. at'[r] = "failed" /\ r \in faulted' /\ UNCHANGED <<runs, settled, mine, told, who>> /\ mine[r] # None
    BY <1>13 DEF ScriptFault, Fault, scriptVars
  <2> QED
    BY <2>1
<1> QED
  BY <1>3, <1>4, <1>5, <1>6, <1>7, <1>8, <1>9, <1>10, <1>11, <1>12, <1>13 DEF ScriptStep

\* The steps of one request leave what the others have done alone.
LEMMA AloneKeepsDone ==
    ASSUME NEW r \in Requests, Alone(r), \A q \in Requests \ {r} : q \in told' <=> q \in told,
           \A q \in Requests : DoneSoFar(q), DoneSoFar(r)'
    PROVE  \A q \in Requests : DoneSoFar(q)'
<1>1. ASSUME NEW q \in Requests \ {r} PROVE DoneSoFar(q)'
  BY <1>1 DEF Alone, DoneSoFar, Owes, Owned, StoredAsSaid
<1> QED
  BY <1>1

\* A step of an insight request finds no script request.
LEMMA InsightsApart ==
    ASSUME Paths, NEW r \in Requests, InsightStep(r)
    PROVE  mine[r] = None
<1>1. at[r] \in InsightPlaces \cup {"idle"} \/ job[r] # None
  <2>1. CASE \E u \in Users, op \in InsightOps : InsightArrive(r, u, op)
    BY <2>1 DEF InsightArrive, Arrive
  <2>2. CASE InsightCharge(r) \/ InsightInsert(r) \/ InsightFault(r)
    BY <2>2 DEF InsightCharge, InsightInsert, InsightFault, InsightPlaces
  <2>3. CASE Sentiment(r) \/ Refresh(r) \/ Lookup(r)
    BY <2>3 DEF Sentiment, Refresh, Lookup, Steps, Answers, InsightPlaces
  <2>4. CASE Ask(r) \/ Source(r) \/ Save(r)
    BY <2>4 DEF Ask, Source, Save, Steps, Answers, InsightPlaces
  <2>5. CASE Flush(r) \/ Feel(r) \/ Store(r) \/ Reload(r)
    BY <2>5 DEF Flush, Feel, Store, Reload, Steps, Answers, InsightPlaces
  <2> QED
    BY <2>1, <2>2, <2>3, <2>4, <2>5 DEF InsightStep
<1> QED
  BY <1>1 DEF Paths, PathsOf, InsightPaths, ScriptPaths, ScriptPlaces, InsightPlaces

\* The newest version is appended with the source it is of.
LEMMA EditKeepsHistory ==
    ASSUME UsageTypeOK, Paths, HistoryEndsInTheSource, NEW r \in Requests, ScriptStep(r)
    PROVE  HistoryEndsInTheSource'
<1>1. CASE UNCHANGED <<script, versions, resubmitted>>
  BY <1>1 DEF HistoryEndsInTheSource, Last
<1>2. CASE CommitEdit(r)
  <2>1. CASE mine[r].op = "delete"
    BY <1>2, <2>1 DEF CommitEdit, HistoryEndsInTheSource, Last, UsageTypeOK, ScriptsTypeOK
  <2>2. CASE mine[r].op # "delete"
    <3>1. mine[r] \in MineType
      BY <1>2 DEF CommitEdit, Steps, Paths, PathsOf, ScriptPaths, ScriptPlaces, UsageTypeOK, ScriptsTypeOK
    <3>2. mine[r].source \in Sources /\ versions \in Seq(Sources) /\ script \in [active : BOOLEAN, source : Sources]
      BY <3>1 DEF MineType, UsageTypeOK, ScriptsTypeOK
    <3>3. versions' = Append(versions, mine[r].source)
      BY <1>2, <2>2 DEF CommitEdit
    <3>4. Last(versions)' = mine[r].source
      BY <3>2, <3>3 DEF Last
    <3>5. /\ script'.source = IF mine[r].source = mine[r].loaded THEN script.source ELSE mine[r].source
          /\ resubmitted' = (script.source # mine[r].loaded /\ mine[r].source = mine[r].loaded)
      BY <1>2, <2>2, <3>2 DEF CommitEdit
    <3> QED
      BY <3>4, <3>5 DEF HistoryEndsInTheSource
  <2> QED
    BY <2>1, <2>2
<1> QED
  <2>1. ScriptStep(r) => CommitEdit(r) \/ UNCHANGED <<script, versions, resubmitted>>
    BY DEF ScriptStep, ScriptArrive, Load, Fails, Number, FlushEdit, ScriptCharge, ScriptInsert, Execute,
           Persist, StoreResult, BroadcastRun, LogRun, ScriptFault, scriptVars
  <2> QED
    BY <1>1, <1>2, <2>1

LEMMA ScriptsInitially == UsageInit => ScriptsInv
<1>1. ASSUME UsageInit PROVE HistoryEndsInTheSource
  <2>1. <<First>> \in Seq(Sources)
    BY ScriptsAssumption
  <2> QED
    BY <1>1, <2>1 DEF UsageInit, ScriptsInit, HistoryEndsInTheSource, Last
<1> QED
  BY <1>1 DEF ScriptsInv, DoneSoFar, UsageInit, QuotasInit, ScriptsInit

LEMMA ScriptsInvKept ==
    ASSUME UsageTypeOK, Paths, QuotaInv, ScriptsInv, [UsageNext]_usageVars
    PROVE  ScriptsInv'
<1>1. CASE ScriptsNext /\ UNCHANGED insightVars
  <2>1. PICK r \in Requests : ScriptStep(r)
    BY <1>1, ScriptsSteps
  <2>2. DoneSoFar(r)'
    BY <2>1, ScriptStepKeepsDone DEF ScriptsInv, QuotaInv
  <2>3. told' \in {told, told \cup {r}}
    BY <2>1 DEF ScriptStep, ScriptArrive, Load, Fails, Number, FlushEdit, CommitEdit, ScriptCharge, ScriptInsert,
                Execute, Persist, StoreResult, BroadcastRun, LogRun, ScriptFault, scriptVars
  <2> QED
    BY <1>1, <2>1, <2>2, <2>3, ScriptStepAlone, AloneKeepsDone, EditKeepsHistory DEF ScriptsInv
<1>2. CASE (\E r \in Requests : InsightStep(r)) /\ UNCHANGED scriptVars
  <2>1. PICK r \in Requests : InsightStep(r)
    BY <1>2
  <2>2. mine[r] = None
    BY <2>1, InsightsApart
  <2>3. DoneSoFar(r)'
    BY <1>2, <2>2 DEF DoneSoFar, ScriptsInv, scriptVars
  <2>4. HistoryEndsInTheSource'
    BY <1>2 DEF scriptVars, ScriptsInv, HistoryEndsInTheSource, Last
  <2> QED
    BY <1>2, <2>1, <2>3, <2>4, InsightStepAlone, AloneKeepsDone DEF ScriptsInv, scriptVars
<1>3. CASE UNCHANGED scriptVars /\ UNCHANGED <<at, who, charge, settled, faulted>>
  BY <1>3 DEF ScriptsInv, DoneSoFar, Owes, Owned, StoredAsSaid, scriptVars, HistoryEndsInTheSource, Last
<1>4. CASE Restart /\ UNCHANGED scriptVars
  <2>1. ASSUME NEW r \in Requests PROVE DoneSoFar(r)'
    <3>1. \/ at[r] \notin Ended /\ at'[r] = "failed" /\ r \in faulted'
          \/ at[r] \in Ended /\ at'[r] = at[r] /\ (r \in faulted => r \in faulted')
      BY <1>4 DEF Restart, Restarted
    <3>2. UNCHANGED <<runs, settled, mine, told, who>>
      BY <1>4 DEF Restart, Restarted, scriptVars
    <3>3. DoneSoFar(r)
      BY DEF ScriptsInv
    <3>4. (r \in faulted => r \in faulted')
      BY <1>4 DEF Restart, Restarted
    <3> QED
      BY <3>1, <3>2, <3>3, <3>4 DEF DoneSoFar, StoredAsSaid, Ended, Unstored
  <2> QED
    BY <1>4, <2>1 DEF ScriptsInv, HistoryEndsInTheSource, Last, scriptVars
<1> QED
  <2>1. Retention \/ Tick => UNCHANGED <<at, who, charge, settled, faulted>>
    BY DEF Retention, Tick, quotaVars
  <2>2. (\E u \in Users, t \in Tiers : ChangeTier(u, t)) \/ UNCHANGED quotaVars
           => UNCHANGED <<at, who, charge, settled, faulted>>
    BY DEF ChangeTier, quotaVars
  <2> QED
    BY <1>1, <1>2, <1>3, <1>4, <2>1, <2>2, InsightsSteps DEF UsageNext, usageVars

(* After any overlap of updates the newest version is the script's source,   *)
(* but for an update that resubmits what it had loaded (update_script).      *)
THEOREM VersionsFollowTheScript == UsageSpec => []HistoryEndsInTheSource
<1>1. UsageTypeOK /\ Paths /\ QuotaInv /\ ScriptsInv /\ [UsageNext]_usageVars => QuotaInv' /\ ScriptsInv'
  BY StepQuotas, QuotaStepKeeps, ScriptsInvKept
<1>2. UsageInit => QuotaInv /\ ScriptsInv
  BY QuotaInitially, ScriptsInitially
<1>3. ScriptsInv => HistoryEndsInTheSource
  BY DEF ScriptsInv
<1> QED
  BY <1>1, <1>2, <1>3, UsageTypeCorrect, PTL DEF UsageSpec

(* A request on a script leaves all of its work or none: no run and no       *)
(* charge after a failure that is not a fault, and after a success the charge *)
(* and the run or result it reports (run_saved_script, _persist_run).        *)
THEOREM RequestsAreWhole == UsageSpec => []NothingHalfDone
<1>1. UsageTypeOK /\ Paths /\ QuotaInv /\ ScriptsInv /\ [UsageNext]_usageVars => QuotaInv' /\ ScriptsInv'
  BY StepQuotas, QuotaStepKeeps, ScriptsInvKept
<1>2. UsageInit => QuotaInv /\ ScriptsInv
  BY QuotaInitially, ScriptsInitially
<1>3. ScriptsInv => NothingHalfDone
  BY DEF ScriptsInv, NothingHalfDone, DoneSoFar, StoredAsSaid
<1> QED
  BY <1>1, <1>2, <1>3, UsageTypeCorrect, PTL DEF UsageSpec

-----------------------------------------------------------------------------
(* The analyses.  Time stands while one is saved, so what a save reads back  *)
(* is of this moment; and the memory's second period begins before the first *)
(* has ended.                                                                *)

FreshMemory == mem # None => mem.until < mem.created + 2 * CacheMinutes
RowsExpire == \A x \in rows : x.expires = x.created + CacheMinutes
SavedNow ==
    \A r \in Requests :
        /\ at[r] \in {"feel", "store", "reload"} => job[r].created = now
        /\ at[r] = "reload" => \A x \in rows : x.id = job[r].id => x.created = now

FreshInv == FreshMemory /\ RowsExpire /\ SavedNow /\ AnswersAreFresh

(* Unless two first saves overlapped, one session at a time holds the        *)
(* summary, and the tables agree in every state.                             *)
OneStory ==
    /\ \A x, y \in rows : x = y
    /\ \A x \in rows : feeling = x.ver /\ drivers = {[ver |-> x.ver, expires |-> x.expires]}
    /\ rows = {} => drivers = {}

OneSaver ==
    /\ \A q, r \in Requests : at[q] \in {"feel", "store"} /\ at[r] \in {"feel", "store"} => q = r
    /\ \A r \in Requests :
          /\ at[r] \in {"feel", "store"} => \A x \in rows : x.id = job[r].id
          /\ at[r] = "store" => drivers \subseteq job[r].sweeps

TablesInv == ~ twins => OneStory /\ OneSaver

AnswerIsFresh(r) ==
    job[r] # None /\ job[r].answer # None => job[r].answer.stale \/ job[r].answer.age < 2 * CacheMinutes

SavesNow(r) ==
    /\ at[r] \in {"feel", "store", "reload"} => job[r].created = now
    /\ at[r] = "reload" => \A x \in rows : x.id = job[r].id => x.created = now

\* What a step of one request has to keep, for itself and of what is shared.
LEMMA FreshKept ==
    ASSUME FreshInv, NEW r \in Requests, Alone(r), now' = now, FreshMemory', RowsExpire',
           \A x \in rows' : x \in rows \/ x.created = now, SavesNow(r)', AnswerIsFresh(r)'
    PROVE  FreshInv'
<1>1. ASSUME NEW q \in Requests \ {r} PROVE SavesNow(q)' /\ AnswerIsFresh(q)'
  <2>1. SavesNow(q) /\ AnswerIsFresh(q)
    BY DEF FreshInv, SavedNow, AnswersAreFresh, SavesNow, AnswerIsFresh
  <2>2. at'[q] = at[q] /\ job'[q] = job[q]
    BY <1>1 DEF Alone
  <2> QED
    BY <2>1, <2>2 DEF SavesNow, AnswerIsFresh
<1>2. \A q \in Requests : SavesNow(q)' /\ AnswerIsFresh(q)'
  BY <1>1
<1> QED
  BY <1>2 DEF FreshInv, SavedNow, AnswersAreFresh, SavesNow, AnswerIsFresh

LEMMA InsightStepFresh ==
    ASSUME UsageTypeOK, Paths, FreshInv, NEW r \in Requests, InsightStep(r), UNCHANGED scriptVars
    PROVE  FreshInv'
<1>1. /\ at \in [Requests -> Places] /\ job \in [Requests -> JobType \cup {None}]
      /\ now \in Nat /\ rows \subseteq RowType /\ mem \in MemType \cup {None} /\ made \in Nat
      /\ CacheMinutes \in Nat \ {0}
  BY InsightsAssumption DEF UsageTypeOK, InsightsTypeOK
<1>2. Alone(r) /\ FreshMemory /\ RowsExpire /\ SavesNow(r) /\ AnswerIsFresh(r)
  BY InsightStepAlone DEF FreshInv, SavedNow, AnswersAreFresh, SavesNow, AnswerIsFresh
<1>j. at[r] \in InsightPlaces => job[r] \in JobType /\ job[r] # None
  BY <1>1 DEF Paths, PathsOf, InsightPaths
<1>n. None \notin JobType
  BY InsightsAssumption
\* The tables and the memory are not written.
<1>3. ASSUME UNCHANGED <<now, rows, mem>>, at'[r] \notin {"feel", "store", "reload"}, AnswerIsFresh(r)'
      PROVE  FreshInv'
  BY <1>2, <1>3, FreshKept DEF FreshMemory, RowsExpire, SavesNow
<1>4. CASE Raises(r)
  <2>1. at'[r] = "failed" /\ job'[r] = Locals(job[r].op, None) /\ UNCHANGED <<now, rows, mem>>
    BY <1>1, <1>4 DEF Raises, RolledBack, tables
  <2> QED
    BY <1>3, <2>1 DEF AnswerIsFresh, Locals
<1>5. ASSUME NEW here \in InsightPlaces, NEW ver, NEW created, NEW stale,
             Answers(r, here, ver, created, stale), rows' = rows, FreshMemory',
             stale \/ now - created < 2 * CacheMinutes
      PROVE  FreshInv'
  <2>1. at'[r] = "ok" /\ now' = now /\ job'[r].answer = [age |-> now - created, stale |-> stale]
    BY <1>1, <1>5 DEF Answers, Locals
  <2>2. AnswerIsFresh(r)' /\ SavesNow(r)' /\ RowsExpire'
    BY <1>2, <1>5, <2>1 DEF AnswerIsFresh, SavesNow, RowsExpire
  <2> QED
    BY <1>2, <1>5, <2>1, <2>2, FreshKept
\* A row that is cached again when it is fresh, or when it was just saved.
<1>6. ASSUME NEW x \in rows, mem' = Cached(x), now - x.created < CacheMinutes
      PROVE  FreshMemory' /\ now - x.created < 2 * CacheMinutes
  <2>1. x.created \in Nat /\ x.ver \in Nat
    BY <1>1 DEF RowType
  <2> QED
    BY <1>1, <1>6, <2>1 DEF Cached, FreshMemory
<1>7. ASSUME NEW u \in Users, NEW op \in InsightOps, InsightArrive(r, u, op)
      PROVE  FreshInv'
  <2>1. job'[r] = Locals(op, None) /\ UNCHANGED <<now, rows, mem>>
    BY <1>1, <1>7 DEF InsightArrive, tables
  <2>2. at'[r] \in {"icharge", "lookup", "sentiment", "refresh"}
    BY <1>7, <1>1 DEF InsightArrive, Arrive, InsightOps
  <2> QED
    BY <1>3, <2>1, <2>2 DEF AnswerIsFresh, Locals
<1>8. CASE UNCHANGED insightVars /\ at'[r] \notin {"feel", "store", "reload"}
  BY <1>2, <1>3, <1>8 DEF insightVars, tables, AnswerIsFresh
<1>9. CASE InsightCharge(r) \/ InsightInsert(r) \/ Refresh(r)
  BY <1>1, <1>8, <1>9 DEF InsightCharge, InsightInsert, Refresh, Charge, Insert, RolledBack, Steps
<1>10. CASE Sentiment(r)
  BY <1>1, <1>2, <1>5, <1>8, <1>10 DEF Sentiment, Steps, InsightPlaces, tables, FreshMemory
<1>11. CASE Lookup(r)
  <2>1. CASE InMemory /\ Answers(r, "lookup", mem.ver, mem.created, FALSE) /\ UNCHANGED mem /\ UNCHANGED tables
    <3>1. now - mem.created < 2 * CacheMinutes
      BY <1>1, <1>2, <2>1 DEF InMemory, FreshMemory, MemType
    <3> QED
      BY <1>2, <1>5, <2>1, <3>1 DEF InsightPlaces, tables, FreshMemory
  <2>2. ASSUME NEW x \in Latest(Fresh), Answers(r, "lookup", x.ver, x.created, FALSE), mem' = Cached(x), UNCHANGED tables
        PROVE  FreshInv'
    <3>1. x \in rows /\ x.expires > now
      BY DEF Latest, Fresh
    <3>2. now - x.created < CacheMinutes
      BY <1>1, <1>2, <3>1 DEF RowsExpire, RowType
    <3>3. FreshMemory' /\ now - x.created < 2 * CacheMinutes
      BY <1>6, <2>2, <3>1, <3>2
    <3> QED
      BY <1>5, <2>2, <3>3 DEF InsightPlaces, tables
  <2>3. CASE Steps(r, "lookup", "ask") /\ UNCHANGED insightVars
    BY <1>1, <1>8, <2>3 DEF Steps
  <2> QED
    BY <1>11, <2>1, <2>2, <2>3 DEF Lookup
<1>12. CASE Ask(r)
  <2>1. ASSUME NEW ver, NEW created, Answers(r, "ask", ver, created, TRUE), UNCHANGED mem, UNCHANGED tables
        PROVE  FreshInv'
    BY <1>2, <1>5, <2>1 DEF InsightPlaces, tables, FreshMemory
  <2>2. CASE /\ at[r] = "ask" /\ at'[r] \in {"source", "save"} /\ made' = made + 1
             /\ job' = [job EXCEPT ![r].ver = made + 1] /\ UNCHANGED <<now, mem>> /\ UNCHANGED tables
    <3>1. job'[r] = [job[r] EXCEPT !.ver = made + 1] /\ job[r] \in JobType /\ job[r] # None
      BY <1>1, <1>j, <2>2 DEF InsightPlaces
    <3>2. job'[r].answer = job[r].answer
      BY <3>1 DEF JobType
    <3> QED
      BY <1>2, <1>3, <2>2, <3>1, <3>2 DEF AnswerIsFresh, tables
  <2> QED
    BY <1>1, <1>12, <2>1, <2>2 DEF Ask, Steps
<1>13. CASE Source(r)
  BY <1>1, <1>2, <1>3, <1>4, <1>13 DEF Source, AnswerIsFresh
<1>14. CASE Save(r)
  <2>1. PICK seen : job' = [job EXCEPT ![r].seen = seen]
    BY <1>14 DEF Save
  <2>2. at[r] = "save" /\ at'[r] = "flush" /\ UNCHANGED <<now, rows, mem>>
    BY <1>1, <1>14 DEF Save, Steps, tables
  <2>3. job'[r] = [job[r] EXCEPT !.seen = seen] /\ job[r] \in JobType /\ job[r] # None
    BY <1>1, <1>j, <2>1, <2>2 DEF InsightPlaces
  <2>4. job'[r].answer = job[r].answer
    BY <2>3 DEF JobType
  <2> QED
    BY <1>2, <1>3, <2>2, <2>3, <2>4 DEF AnswerIsFresh
<1>15. CASE Flush(r)
  <2> DEFINE drops == IF job[r].seen = None THEN {} ELSE {x.id : x \in rows} \ {job[r].seen}
             id    == IF job[r].seen = None THEN r ELSE job[r].seen
  <2>1. CASE /\ Steps(r, "flush", "feel") /\ UNCHANGED <<now, mem>> /\ UNCHANGED tables
             /\ job' = [job EXCEPT ![r].id = id, ![r].drops = drops, ![r].created = now]
    <3>1. at[r] = "flush" /\ at'[r] = "feel" /\ UNCHANGED <<now, rows, mem>>
      BY <1>1, <2>1 DEF Steps, tables
    <3>2. job[r] \in JobType /\ job[r] # None
      BY <1>j, <3>1 DEF InsightPlaces
    <3>3. job'[r] = [job[r] EXCEPT !.id = id, !.drops = drops, !.created = now]
      BY <1>1, <2>1
    <3>4. job'[r].created = now /\ job'[r].answer = job[r].answer
      BY <3>2, <3>3 DEF JobType
    <3>5. SavesNow(r)' /\ AnswerIsFresh(r)' /\ FreshMemory' /\ RowsExpire'
      BY <1>2, <3>1, <3>2, <3>4 DEF SavesNow, AnswerIsFresh, FreshMemory, RowsExpire
    <3> QED
      BY <1>2, <3>1, <3>5, FreshKept
  <2> QED
    BY <1>4, <1>15, <2>1 DEF Flush
<1>16. CASE Feel(r)
  <2>1. at[r] = "feel" /\ at'[r] = "store" /\ UNCHANGED <<now, rows, mem>>
    BY <1>1, <1>16 DEF Feel, Steps, tables
  <2>2. job[r] \in JobType /\ job[r] # None
    BY <1>j, <2>1 DEF InsightPlaces
  <2>3. job'[r] = [job[r] EXCEPT !.felt = (feeling # None), !.sweeps = drivers]
    BY <1>1, <1>16 DEF Feel
  <2>4. job'[r].created = job[r].created /\ job'[r].answer = job[r].answer
    BY <2>2, <2>3 DEF JobType
  <2>5. SavesNow(r)' /\ AnswerIsFresh(r)' /\ FreshMemory' /\ RowsExpire'
    BY <1>2, <2>1, <2>2, <2>4 DEF SavesNow, AnswerIsFresh, FreshMemory, RowsExpire
  <2> QED
    BY <1>2, <2>1, <2>5, FreshKept
<1>17. CASE Store(r)
  <2> DEFINE new == [id |-> job[r].id, ver |-> job[r].ver, created |-> job[r].created,
                     expires |-> job[r].created + CacheMinutes]
  <2>1. CASE /\ at[r] = "store" /\ at' = [at EXCEPT ![r] = "reload"]
             /\ rows' = {x \in rows : x.id \notin job[r].drops \cup {new.id}} \cup {new}
             /\ UNCHANGED <<now, mem, job>>
    <3>1. new.created = now /\ new.expires = new.created + CacheMinutes
      BY <1>2, <2>1 DEF SavesNow
    <3>2. \A x \in rows' : x = new \/ (x \in rows /\ x.id # new.id)
      BY <2>1
    <3>3. RowsExpire' /\ (\A x \in rows' : x \in rows \/ x.created = now)
      BY <1>2, <3>1, <3>2 DEF RowsExpire
    <3>4. \A x \in rows' : x.id = job[r].id => x.created = now
      BY <3>1, <3>2
    <3>5. SavesNow(r)' /\ AnswerIsFresh(r)' /\ FreshMemory'
      BY <1>1, <1>2, <2>1, <3>4 DEF SavesNow, AnswerIsFresh, FreshMemory
    <3> QED
      BY <1>2, <2>1, <3>3, <3>5, FreshKept
  <2> QED
    BY <1>4, <1>17, <2>1 DEF Store
<1>18. CASE Reload(r)
  <2>1. ASSUME NEW x \in rows, x.id = job[r].id, Answers(r, "reload", x.ver, x.created, FALSE), mem' = Cached(x),
               UNCHANGED tables
        PROVE  FreshInv'
    <3>1. x.created = now
      BY <1>2, <2>1 DEF Answers, SavesNow
    <3>2. now - x.created < CacheMinutes
      BY <1>1, <3>1
    <3> QED
      BY <1>5, <1>6, <2>1, <3>2 DEF InsightPlaces, tables
  <2> QED
    BY <1>4, <1>18, <2>1 DEF Reload
<1>19. CASE InsightFault(r)
  <2>1. at'[r] = "failed" /\ job'[r] = Locals(job[r].op, None) /\ UNCHANGED <<now, rows, mem>>
    BY <1>1, <1>19 DEF InsightFault, Fault, tables
  <2> QED
    BY <1>3, <2>1 DEF AnswerIsFresh, Locals
<1> QED
  BY <1>7, <1>9, <1>10, <1>11, <1>12, <1>13, <1>14, <1>15, <1>16, <1>17, <1>18, <1>19 DEF InsightStep

\* A step of a script request moves no insight request and starts no save.
LEMMA ScriptsApart ==
    ASSUME UsageTypeOK, Paths, NEW r \in Requests, ScriptStep(r), UNCHANGED insightVars
    PROVE  \A q \in Requests : at'[q] \in {"feel", "store", "reload"} => at'[q] = at[q]
<1>1. at[r] \in ScriptPlaces \cup {"idle"} \/ mine[r] # None
  <2>1. CASE \E u \in Users, op \in Ops, source \in Sources, flag \in BOOLEAN : ScriptArrive(r, u, op, source, flag)
    BY <2>1 DEF ScriptArrive, Arrive
  <2>2. CASE ScriptInsert(r) \/ ScriptFault(r)
    BY <2>2 DEF ScriptInsert, ScriptFault
  <2>3. CASE Load(r) \/ Number(r) \/ FlushEdit(r) \/ CommitEdit(r) \/ ScriptCharge(r)
    BY <2>3 DEF Load, Number, FlushEdit, CommitEdit, ScriptCharge, Steps, ScriptPlaces
  <2>4. CASE Execute(r) \/ Persist(r) \/ StoreResult(r) \/ LogRun(r)
             \/ \E fault \in BOOLEAN : BroadcastRun(r, fault)
    BY <2>4 DEF Execute, Persist, StoreResult, LogRun, BroadcastRun, Steps, ScriptPlaces
  <2> QED
    BY <2>1, <2>2, <2>3, <2>4 DEF ScriptStep
<1>2. job[r] = None
  BY <1>1 DEF Paths, PathsOf, InsightPaths, ScriptPaths, ScriptPlaces, InsightPlaces
<1>3. at'[r] \notin {"feel", "store", "reload"}
  <2>1. Paths'
    BY ScriptPathsKept
  <2> QED
    BY <1>2, <2>1 DEF Paths, PathsOf, InsightPaths, InsightPlaces, insightVars
<1> QED
  BY <1>3, ScriptStepAlone DEF Alone

LEMMA FreshInvKept ==
    ASSUME UsageTypeOK, Paths, FreshInv, [UsageNext]_usageVars
    PROVE  FreshInv'
\* Nothing but places and the tables moves, and no save begins or ends.
<1>1. ASSUME UNCHANGED <<now, job>>, mem' \in {mem, None}, rows' \subseteq rows,
             \A q \in Requests : at'[q] \in {"feel", "store", "reload"} => at'[q] = at[q]
      PROVE  FreshInv'
  BY <1>1 DEF FreshInv, FreshMemory, RowsExpire, SavedNow, AnswersAreFresh
<1>2. CASE ScriptsNext /\ UNCHANGED insightVars
  BY <1>1, <1>2, ScriptsSteps, ScriptsApart DEF insightVars
<1>3. CASE (\E r \in Requests : InsightStep(r)) /\ UNCHANGED scriptVars
  BY <1>3, InsightStepFresh
<1>4. CASE Retention
  BY <1>1, <1>4 DEF Retention, quotaVars
<1>5. CASE Restart
  <2>1. \A q \in Requests : at'[q] \in {"feel", "store", "reload"} => at'[q] = at[q]
    BY <1>5 DEF Restart, Restarted
  <2> QED
    BY <1>1, <1>5, <2>1 DEF Restart, tables
<1>6. CASE Tick
  BY <1>6 DEF Tick, tables, quotaVars, FreshInv, FreshMemory, RowsExpire, SavedNow, AnswersAreFresh
<1>7. CASE (\E u \in Users, t \in Tiers : ChangeTier(u, t)) /\ UNCHANGED <<scriptVars, insightVars>>
  BY <1>1, <1>7 DEF ChangeTier, insightVars
<1>8. CASE UNCHANGED usageVars
  BY <1>1, <1>8 DEF usageVars, insightVars, quotaVars
<1> QED
  BY <1>2, <1>3, <1>4, <1>5, <1>6, <1>7, <1>8, InsightsSteps DEF UsageNext

(* An answer not marked stale is of an analysis less than two cache periods  *)
(* old, however the two caches were filled (get_insights, _cache_insight_response). *)
THEOREM FreshAnswers == UsageSpec => []AnswersAreFresh
<1>1. UsageInit => FreshInv
  BY DEF UsageInit, QuotasInit, InsightsInit, FreshInv, FreshMemory, RowsExpire, SavedNow, AnswersAreFresh
<1>2. UsageTypeOK /\ Paths /\ FreshInv /\ [UsageNext]_usageVars => FreshInv'
  BY FreshInvKept
<1>3. FreshInv => AnswersAreFresh
  BY DEF FreshInv
<1> QED
  BY <1>1, <1>2, <1>3, UsageTypeCorrect, PTL DEF UsageSpec

\* A step of one request that leaves the tables alone and starts no save.
LEMMA TablesKept ==
    ASSUME TablesInv, ~ twins' => ~ twins, UNCHANGED tables, NEW r \in Requests, Alone(r),
           at'[r] \in {"feel", "store"} => at[r] \in {"feel", "store"} /\ job'[r].id = job[r].id,
           at'[r] = "store" => drivers \subseteq job'[r].sweeps
    PROVE  TablesInv'
<1> SUFFICES ASSUME ~ twins' PROVE OneStory' /\ OneSaver'
  BY DEF TablesInv
<1>1. OneStory /\ OneSaver
  BY DEF TablesInv
<1>2. OneStory'
  BY <1>1 DEF OneStory, tables
<1>3. \A q \in Requests : at'[q] \in {"feel", "store"} => at[q] \in {"feel", "store"} /\ job'[q].id = job[q].id
  BY DEF Alone
<1>4. \A q \in Requests : at'[q] = "store" => drivers' \subseteq job'[q].sweeps
  BY <1>1 DEF Alone, tables, OneSaver
<1> QED
  BY <1>1, <1>2, <1>3, <1>4 DEF OneSaver, tables

LEMMA InsightStepTables ==
    ASSUME UsageTypeOK, Paths, TablesInv, NEW r \in Requests, InsightStep(r), UNCHANGED scriptVars
    PROVE  TablesInv'
<1>1. /\ at \in [Requests -> Places] /\ job \in [Requests -> JobType \cup {None}]
      /\ rows \subseteq RowType /\ twins \in BOOLEAN
  BY DEF UsageTypeOK, InsightsTypeOK
<1>2. Alone(r)
  BY InsightStepAlone
<1>j. \A q \in Requests : at[q] \in InsightPlaces => job[q] \in JobType /\ job[q] # None
  BY <1>1 DEF Paths, PathsOf, InsightPaths
<1>3. ASSUME twins' = twins, UNCHANGED tables, at'[r] \notin {"feel", "store"}
      PROVE  TablesInv'
  BY <1>2, <1>3, TablesKept
<1>4. CASE Raises(r) \/ InsightFault(r)
  BY <1>1, <1>3, <1>4 DEF Raises, RolledBack, InsightFault, Fault
<1>5. ASSUME NEW here, NEW ver, NEW created, NEW stale, Answers(r, here, ver, created, stale), UNCHANGED tables
      PROVE  TablesInv'
  BY <1>1, <1>3, <1>5 DEF Answers
<1>6. ASSUME NEW u \in Users, NEW op \in InsightOps, InsightArrive(r, u, op)
      PROVE  TablesInv'
  <2>1. at'[r] \in {"icharge", "lookup", "sentiment", "refresh"}
    BY <1>6, <1>1 DEF InsightArrive, Arrive, InsightOps
  <2> QED
    BY <1>3, <1>6, <2>1 DEF InsightArrive
<1>7. CASE InsightCharge(r) \/ InsightInsert(r) \/ Refresh(r)
  BY <1>1, <1>3, <1>7 DEF InsightCharge, InsightInsert, Refresh, Charge, Insert, RolledBack, Steps, insightVars, tables
<1>8. CASE Sentiment(r) \/ Lookup(r) \/ Ask(r)
  <2>1. ASSUME NEW next \in {"lookup", "ask", "source", "save"}, NEW here, Steps(r, here, next),
               twins' = twins, UNCHANGED tables
        PROVE  TablesInv'
    BY <1>1, <1>3, <2>1 DEF Steps
  <2> QED
    BY <1>5, <1>8, <2>1 DEF Sentiment, Lookup, Ask, insightVars, tables
<1>9. CASE Save(r)
  BY <1>1, <1>3, <1>9 DEF Save, Steps
<1>10. CASE Reload(r)
  BY <1>4, <1>5, <1>10 DEF Reload
<1>11. CASE Source(r)
  <2>1. CASE /\ at' = [at EXCEPT ![r] = "save"] /\ UNCHANGED <<rows, feeling, drivers, job, twins>>
    BY <1>1, <1>2, <2>1 DEF TablesInv, OneStory, OneSaver
  <2> QED
    BY <1>4, <1>11, <2>1 DEF Source
<1>12. CASE Feel(r)
  <2>1. at[r] = "feel" /\ UNCHANGED tables /\ twins' = twins
    BY <1>12 DEF Feel, Steps
  <2>2. job[r] \in JobType
    BY <1>j, <2>1 DEF InsightPlaces
  <2>3. job'[r] = [job[r] EXCEPT !.felt = (feeling # None), !.sweeps = drivers]
    BY <1>1, <1>12 DEF Feel
  <2>4. job'[r].id = job[r].id /\ job'[r].sweeps = drivers
    BY <2>2, <2>3 DEF JobType
  <2> QED
    BY <1>2, <2>1, <2>4, TablesKept
\* The session flushes alone, or another holds the summary or is to insert one.
<1>13. CASE Flush(r)
  <2> DEFINE drops == IF job[r].seen = None THEN {} ELSE {x.id : x \in rows} \ {job[r].seen}
             id    == IF job[r].seen = None THEN r ELSE job[r].seen
  <2>1. CASE /\ Steps(r, "flush", "feel") /\ UNCHANGED tables
             /\ job' = [job EXCEPT ![r].id = id, ![r].drops = drops, ![r].created = now]
             /\ ~ (job[r].seen # None /\ job[r].seen \notin {x.id : x \in rows})
             /\ twins' = (twins \/ (job[r].seen = None /\ rows # {})
                                \/ \E q \in Requests \ {r} : id = r /\ Holds(q) # {})
             /\ \A q \in Requests \ {r} : Holds(q) \cap (drops \cup {id}) = {}
    <3> SUFFICES ASSUME ~ twins' PROVE OneStory' /\ OneSaver'
      BY DEF TablesInv
    <3>1. ~ twins /\ (job[r].seen = None => rows = {} /\ \A q \in Requests \ {r} : Holds(q) = {})
      BY <2>1
    <3>2. OneStory /\ OneSaver
      BY <3>1 DEF TablesInv
    <3>3. at[r] = "flush" /\ at'[r] = "feel" /\ at' = [at EXCEPT ![r] = "feel"] /\ job[r] \in JobType
      BY <1>1, <1>j, <2>1 DEF Steps, InsightPlaces
    <3>4. job'[r] = [job[r] EXCEPT !.id = id, !.drops = drops, !.created = now]
      BY <1>1, <2>1
    <3>5. job'[r].id = id
      BY <3>3, <3>4 DEF JobType
    <3>6. \A x \in rows : x.id = id
      BY <2>1, <3>1, <3>2 DEF OneStory
    <3>7. ASSUME NEW q \in Requests \ {r}, at[q] \in {"feel", "store"} PROVE FALSE
      <4>1. job[q].id \in Holds(q)
        BY <1>j, <3>7 DEF Holds, InsightPlaces
      <4>2. \A x \in rows : x.id = job[q].id
        BY <3>2, <3>7 DEF OneSaver
      <4> QED
        BY <2>1, <3>1, <3>6, <4>1, <4>2
    <3>8. OneStory'
      BY <2>1, <3>2 DEF OneStory, tables
    <3>9. \A q \in Requests : at'[q] \in {"feel", "store"} => q = r
      BY <1>1, <3>3, <3>7
    <3>10. OneSaver'
      <4>1. \A x \in rows' : x.id = job'[r].id
        BY <2>1, <3>5, <3>6 DEF tables
      <4>2. at'[r] # "store"
        BY <3>3
      <4> QED
        BY ONLY <3>9, <4>1, <4>2 DEF OneSaver
    <3> QED
      BY <3>8, <3>10
  <2> QED
    BY <1>4, <1>13, <2>1 DEF Flush
<1>14. CASE Store(r)
  <2> DEFINE new == [id |-> job[r].id, ver |-> job[r].ver, created |-> job[r].created,
                     expires |-> job[r].created + CacheMinutes]
  <2>1. CASE /\ at[r] = "store" /\ at' = [at EXCEPT ![r] = "reload"]
             /\ rows' = {x \in rows : x.id \notin job[r].drops \cup {new.id}} \cup {new}
             /\ feeling' = new.ver
             /\ drivers' = (drivers \ job[r].sweeps) \cup {[ver |-> new.ver, expires |-> new.expires]}
             /\ UNCHANGED <<job, twins>>
    <3> SUFFICES ASSUME ~ twins PROVE OneStory' /\ OneSaver'
      BY <2>1 DEF TablesInv
    <3>1. OneStory /\ OneSaver
      BY DEF TablesInv
    <3>2. \A x \in rows : x.id = job[r].id
      BY <2>1, <3>1 DEF OneSaver
    <3>3. rows' = {new}
      BY <2>1, <3>2
    <3>4. drivers' = {[ver |-> new.ver, expires |-> new.expires]}
      BY <2>1, <3>1 DEF OneSaver
    <3>5. OneStory'
      BY <2>1, <3>3, <3>4 DEF OneStory
    <3>6. \A q \in Requests : at'[q] \notin {"feel", "store"}
      BY <1>1, <2>1, <3>1 DEF OneSaver
    <3>7. OneSaver'
      BY <3>6 DEF OneSaver
    <3> QED
      BY <3>5, <3>7
  <2> QED
    BY <1>4, <1>14, <2>1 DEF Store
<1>15. CASE InsightFault(r)
  BY <1>4, <1>15
<1> QED
  BY <1>6, <1>7, <1>8, <1>9, <1>10, <1>11, <1>12, <1>13, <1>14, <1>15 DEF InsightStep

LEMMA TablesInvKept ==
    ASSUME UsageTypeOK, Paths, RowsExpire, TablesInv, [UsageNext]_usageVars
    PROVE  TablesInv'
\* No save begins or ends and the tables stay.
<1>1. ASSUME UNCHANGED <<job, rows, feeling, drivers, twins>>,
             \A q \in Requests : at'[q] \in {"feel", "store", "reload"} => at'[q] = at[q]
      PROVE  TablesInv'
  BY <1>1 DEF TablesInv, OneStory, OneSaver
<1>2. CASE ScriptsNext /\ UNCHANGED insightVars
  BY <1>1, <1>2, ScriptsSteps, ScriptsApart DEF insightVars
<1>3. CASE (\E r \in Requests : InsightStep(r)) /\ UNCHANGED scriptVars
  BY <1>3, InsightStepTables
<1>4. CASE Retention
  <2> SUFFICES ASSUME ~ twins PROVE OneStory' /\ OneSaver'
    BY <1>4 DEF Retention, TablesInv
  <2>1. OneStory /\ OneSaver
    BY DEF TablesInv
  <2>2. /\ rows' = {x \in rows : x.expires >= now} /\ drivers' = {d \in drivers : d.expires >= now}
        /\ UNCHANGED <<feeling, job, at>>
    BY <1>4 DEF Retention, quotaVars
  <2>3. CASE rows = {}
    BY <2>1, <2>2, <2>3 DEF OneStory, OneSaver
  <2>4. CASE rows # {}
    <3>1. PICK x \in rows : rows = {x} /\ feeling = x.ver /\ drivers = {[ver |-> x.ver, expires |-> x.expires]}
      BY <2>1, <2>4 DEF OneStory
    <3>2. \/ rows' = rows /\ drivers' = drivers
          \/ rows' = {} /\ drivers' = {}
      BY <2>2, <3>1
    <3> QED
      BY <2>1, <2>2, <3>2 DEF OneStory, OneSaver
  <2> QED
    BY <2>3, <2>4
<1>5. CASE Restart
  <2>1. \A q \in Requests : at'[q] \in {"feel", "store", "reload"} => at'[q] = at[q]
    BY <1>5 DEF Restart, Restarted
  <2> QED
    BY <1>1, <1>5, <2>1 DEF Restart, tables
<1>6. CASE Tick
  BY <1>1, <1>6 DEF Tick, tables, quotaVars
<1>7. CASE (\E u \in Users, t \in Tiers : ChangeTier(u, t)) /\ UNCHANGED <<scriptVars, insightVars>>
  BY <1>1, <1>7 DEF ChangeTier, insightVars
<1>8. CASE UNCHANGED usageVars
  BY <1>1, <1>8 DEF usageVars, insightVars, quotaVars
<1> QED
  BY <1>2, <1>3, <1>4, <1>5, <1>6, <1>7, <1>8, InsightsSteps DEF UsageNext

(* Between requests summary, sentiment and drivers are of one analysis, unless *)
(* two first saves overlapped (_save_summary, cleanup_ai_summaries).          *)
THEOREM OneAnalysisIsStored == UsageSpec => []TablesTellOneStory
<1>1. UsageInit => TablesInv
  BY DEF UsageInit, QuotasInit, InsightsInit, TablesInv, OneStory, OneSaver
<1>2. UsageInit => RowsExpire
  BY DEF UsageInit, InsightsInit, RowsExpire
<1>3. UsageTypeOK /\ Paths /\ FreshInv /\ TablesInv /\ [UsageNext]_usageVars => FreshInv' /\ TablesInv'
  BY FreshInvKept, TablesInvKept DEF FreshInv
<1>4. UsageInit => FreshInv
  BY DEF UsageInit, QuotasInit, InsightsInit, FreshInv, FreshMemory, RowsExpire, SavedNow, AnswersAreFresh
<1>5. TablesInv => TablesTellOneStory
  <2> SUFFICES ASSUME TablesInv, ~ twins PROVE TablesTellOneStory
    BY DEF TablesTellOneStory
  <2>1. OneStory
    BY DEF TablesInv
  <2>2. Cardinality(rows) <= 1
    <3>1. CASE rows = {}
      BY <3>1, FS_EmptySet
    <3>2. CASE rows # {}
      <4>1. PICK x \in rows : rows = {x}
        BY <2>1, <3>2 DEF OneStory
      <4>2. Cardinality({x}) = 1
        BY FS_Singleton
      <4> QED
        BY <4>1, <4>2
    <3> QED
      BY <3>1, <3>2
  <2> QED
    BY <2>1, <2>2 DEF OneStory, TablesTellOneStory
<1> QED
  BY <1>1, <1>3, <1>4, <1>5, UsageTypeCorrect, PTL DEF UsageSpec

-----------------------------------------------------------------------------
(* The backtest.  It folds the signals of a run into trades, and the orders  *)
(* of the run gave those signals: at every moment the fold of the signals so *)
(* far has the trades of the strategy, and as its one open entry that of the *)
(* position.                                                                 *)

\* Among the subsets of a finite set that have a property one is minimal.
LEMMA MinimalSubset ==
    ASSUME NEW S, IsFiniteSet(S), NEW Bad \in SUBSET SUBSET S, Bad # {}
    PROVE  \E T \in Bad : \A U \in Bad : U \subseteq T => U = T
<1>1. FiniteSubsetsOf(S) = SUBSET S
  BY FS_FiniteSubsetsOfFinite
<1>2. IsWellFoundedOn(StrictSubsetOrdering(S), SUBSET S)
  BY <1>1, FS_StrictSubsetOrderingWellFounded
<1>3. PICK T \in Bad : \A U \in Bad : ~ (<<U, T>> \in StrictSubsetOrdering(S))
  BY <1>2, WFMin
<1> QED
  BY <1>3 DEF StrictSubsetOrdering

LEMMA LeastNat ==
    ASSUME NEW S \in SUBSET Nat, S # {} PROVE \E m \in S : \A k \in S : m <= k
<1>1. PICK R : R = {ss \in Nat \X Nat : ss[1] < ss[2]}
  OBVIOUS
<1>2. IsWellFoundedOn(R, Nat)
  BY <1>1, NatLessThanWellFounded DEF OpToRel
<1>3. PICK x \in S : \A y \in S : ~ (<<y, x>> \in R)
  BY <1>2, WFMin
<1>4. \A y \in S : x <= y
  <2>1. ASSUME NEW y \in S, y < x PROVE FALSE
    <3>1. <<y, x>> \in R
      BY <1>1, <2>1
    <3> QED
      BY <1>3, <3>1
  <2> QED
    BY <2>1
<1> QED
  BY <1>4

\* Some places of a list.
SomePlaces(T) == \E n \in Nat : T \subseteq 1 .. n

LEMMA SomePlacesAre ==
    /\ \A S : SomePlaces(S) => IsFiniteSet(S)
    /\ \A S, T : SomePlaces(S) /\ T \subseteq S => SomePlaces(T)
<1>1. ASSUME NEW S, SomePlaces(S) PROVE IsFiniteSet(S)
  <2>1. PICK n \in Nat : S \subseteq 1 .. n
    BY <1>1 DEF SomePlaces
  <2>2. IsFiniteSet(1 .. n)
    BY FS_Interval
  <2> QED
    BY <2>1, <2>2, FS_Subset
<1>2. ASSUME NEW S, NEW T, SomePlaces(S), T \subseteq S PROVE SomePlaces(T)
  BY <1>2 DEF SomePlaces
<1> QED
  BY <1>1, <1>2

LEMMA LastPlace ==
    ASSUME NEW T, SomePlaces(T), T # {}
    PROVE  Max(T) \in T /\ \A y \in T : Max(T) >= y
<1>1. PICK n \in Nat : T \subseteq 1 .. n
  BY DEF SomePlaces
<1>2. PICK Above : Above = {k \in Nat : \A y \in T : y <= k}
  OBVIOUS
<1>3. Above \in SUBSET Nat /\ n \in Above
  BY <1>1, <1>2
<1>4. PICK m \in Above : \A k \in Above : m <= k
  BY <1>3, LeastNat
<1>5. m \in T
  <2> SUFFICES ASSUME m \notin T PROVE FALSE
    OBVIOUS
  <2>1. m \in Nat
    BY <1>3
  <2>2. ASSUME NEW y \in T PROVE y \in Nat /\ y >= 1 /\ y < m
    <3>1. y \in 1 .. n /\ y # m /\ y <= m
      BY <1>1, <1>2
    <3> QED
      BY <2>1, <3>1
  <2>3. PICK z : z \in T
    OBVIOUS
  <2>4. m - 1 \in Nat /\ \A y \in T : y <= m - 1
    BY <2>1, <2>2, <2>3
  <2>5. m - 1 \in Above
    BY <1>2, <2>4
  <2> QED
    BY <1>4, <2>1, <2>5
<1>6. \A y \in T : m >= y
  <2> SUFFICES ASSUME NEW y \in T PROVE m >= y
    OBVIOUS
  <2>1. y \in Nat /\ m \in Nat /\ y <= m
    BY <1>1, <1>2
  <2> QED
    BY <2>1
<1> QED
  BY <1>5, <1>6 DEF Max

Unread == [open |-> <<>>, trades |-> <<>>]

\* Reading the signals seq at the places of S.
Reads(g, seq, S) ==
    g = [T \in SUBSET S |-> IF T = {} THEN Unread ELSE Pair(g[T \ {Max(T)}], seq[Max(T)])]
Read(seq) == (CHOOSE g : Reads(g, seq, DOMAIN seq))[DOMAIN seq]

LEMMA TradesAreRead == \A seq : BuildTrades(seq) = Read(seq).trades
BY DEF BuildTrades, FoldLeft, MapThenFoldSet, Read, Reads, Unread

\* Two lists that begin alike are read alike as far.
LEMMA OneReading ==
    ASSUME NEW S, NEW R, NEW seq1, NEW seq2, NEW g, NEW h, SomePlaces(S), S \subseteq R,
           Reads(g, seq1, S), Reads(h, seq2, R), \A i \in S : seq1[i] = seq2[i]
    PROVE  \A T \in SUBSET S : g[T] = h[T]
<1> DEFINE Bad == {T \in SUBSET S : g[T] # h[T]}
<1> SUFFICES ASSUME Bad # {} PROVE FALSE
  OBVIOUS
<1>1. PICK T \in Bad : \A U \in Bad : U \subseteq T => U = T
  <2>1. Bad \in SUBSET SUBSET S
    OBVIOUS
  <2>2. IsFiniteSet(S)
    BY SomePlacesAre
  <2> HIDE DEF Bad
  <2> QED
    BY <2>1, <2>2, MinimalSubset
<1>2. PICK m : m = Max(T)
  OBVIOUS
<1>3. g[T] = IF T = {} THEN Unread ELSE Pair(g[T \ {m}], seq1[m])
  BY <1>1, <1>2 DEF Reads
<1>4. h[T] = IF T = {} THEN Unread ELSE Pair(h[T \ {m}], seq2[m])
  <2>1. T \in SUBSET R
    BY <1>1
  <2> QED
    BY <1>2, <2>1 DEF Reads
<1>5. T # {} => m \in T
  <2>1. SomePlaces(T)
    BY <1>1, SomePlacesAre
  <2> QED
    BY <1>2, <2>1, LastPlace
<1>6. T # {} => g[T \ {m}] = h[T \ {m}] /\ seq1[m] = seq2[m]
  BY <1>1, <1>5
<1> QED
  BY <1>1, <1>3, <1>4, <1>6

LEMMA ReadingExists ==
    ASSUME NEW S, SomePlaces(S), NEW seq PROVE \E g : Reads(g, seq, S)
<1> DEFINE Bad == {T \in SUBSET S : ~ \E g : Reads(g, seq, T)}
<1> SUFFICES ASSUME Bad # {} PROVE FALSE
  <2>1. S \in SUBSET S
    OBVIOUS
  <2> QED
    BY <2>1
<1>1. PICK U \in Bad : \A V \in Bad : V \subseteq U => V = U
  <2>1. Bad \in SUBSET SUBSET S
    OBVIOUS
  <2>2. IsFiniteSet(S)
    BY SomePlacesAre
  <2> HIDE DEF Bad
  <2> QED
    BY <2>1, <2>2, MinimalSubset
<1> DEFINE Some(V) == CHOOSE g : Reads(g, seq, V)
           Rest(V) == V \ {Max(V)}
           h == [T \in SUBSET U |-> IF T = {} THEN Unread ELSE Pair(Some(Rest(T))[Rest(T)], seq[Max(T)])]
<1>2. ASSUME NEW V \in SUBSET U
      PROVE  /\ SomePlaces(V)
             /\ V # U => Reads(Some(V), seq, V)
             /\ V # {} => Rest(V) \in SUBSET V /\ Rest(V) \in SUBSET U /\ Rest(V) # U
  <2>1. V \in SUBSET S /\ SomePlaces(V)
    BY <1>1, SomePlacesAre
  <2>2. V # U => \E g : Reads(g, seq, V)
    BY <1>1, <2>1
  <2>3. V # {} => Max(V) \in V
    BY <2>1, LastPlace
  <2> QED
    BY <2>1, <2>2, <2>3
<1>3. ASSUME NEW V \in SUBSET U, V # U PROVE h[V] = Some(V)[V]
  <2>1. Reads(Some(V), seq, V)
    BY <1>2, <1>3
  <2>2. Some(V)[V] = IF V = {} THEN Unread ELSE Pair(Some(V)[Rest(V)], seq[Max(V)])
    <3> HIDE DEF Some
    <3> QED
      BY <2>1 DEF Reads
  <2>3. h[V] = IF V = {} THEN Unread ELSE Pair(Some(Rest(V))[Rest(V)], seq[Max(V)])
    OBVIOUS
  <2>4. ASSUME V # {} PROVE Some(Rest(V))[Rest(V)] = Some(V)[Rest(V)]
    <3>1. PICK W : W = Rest(V)
      OBVIOUS
    <3>2. W \in SUBSET U /\ W # U /\ W \subseteq V /\ W \in SUBSET W /\ SomePlaces(W)
      BY <1>2, <2>4, <3>1
    <3>3. Reads(Some(W), seq, W)
      BY <1>2, <3>2
    <3> HIDE DEF Some, h, Rest
    <3>4. PICK g1, g2 : g1 = Some(W) /\ g2 = Some(V)
      OBVIOUS
    <3>5. Reads(g1, seq, W) /\ Reads(g2, seq, V) /\ \A i \in W : seq[i] = seq[i]
      BY <2>1, <3>3, <3>4
    <3>6. g1[W] = g2[W]
      BY <3>2, <3>5, OneReading
    <3> QED
      BY <3>1, <3>4, <3>6
  <2> HIDE DEF Some, h, Rest
  <2> QED
    BY <2>2, <2>3, <2>4
<1>4. \A T \in SUBSET U : h[T] = IF T = {} THEN Unread ELSE Pair(h[Rest(T)], seq[Max(T)])
  <2> SUFFICES ASSUME NEW T \in SUBSET U
               PROVE  h[T] = IF T = {} THEN Unread ELSE Pair(h[Rest(T)], seq[Max(T)])
    OBVIOUS
  <2>1. h[T] = IF T = {} THEN Unread ELSE Pair(Some(Rest(T))[Rest(T)], seq[Max(T)])
    <3> HIDE DEF Some, Rest
    <3> QED
      OBVIOUS
  <2>2. T # {} => Rest(T) \in SUBSET U /\ Rest(T) # U
    BY <1>2
  <2> HIDE DEF h, Some, Rest
  <2> QED
    BY <1>3, <2>1, <2>2
<1>5. h = [T \in SUBSET U |-> IF T = {} THEN Unread ELSE Pair(h[Rest(T)], seq[Max(T)])]
  <2>1. h = [T \in SUBSET U |-> h[T]]
    OBVIOUS
  <2> HIDE DEF h, Rest
  <2> QED
    BY <1>4, <2>1
<1>6. Reads(h, seq, U)
  <2> HIDE DEF h
  <2> QED
    BY <1>5 DEF Reads
<1> QED
  BY <1>1, <1>6

\* One signal more is read after the others.
LEMMA ReadNext ==
    ASSUME NEW A, NEW seq \in Seq(A), NEW sig \in A
    PROVE  Read(Append(seq, sig)) = Pair(Read(seq), sig)
<1>1. PICK n, more : n = Len(seq) /\ more = Append(seq, sig)
  <2>1. \E n, more : n = Len(seq) /\ more = Append(seq, sig)
    OBVIOUS
  <2> QED
    BY <2>1
<1>2. /\ n \in Nat /\ DOMAIN seq = 1 .. n /\ DOMAIN more = 1 .. (n + 1)
      /\ more[n + 1] = sig /\ \A i \in 1 .. n : more[i] = seq[i]
  BY <1>1, LenProperties, AppendProperties
<1>3. PICK S, R : S = 1 .. n /\ R = 1 .. (n + 1)
  <2>1. \E S, R : S = 1 .. n /\ R = 1 .. (n + 1)
    OBVIOUS
  <2> QED
    BY <2>1
<1>4. PICK g : g = CHOOSE g1 : Reads(g1, seq, S)
  OBVIOUS
<1>5. PICK h : h = CHOOSE h1 : Reads(h1, more, R)
  OBVIOUS
<1>6. Reads(g, seq, S) /\ Reads(h, more, R)
  <2>1. SomePlaces(S) /\ SomePlaces(R)
    <3>1. n + 1 \in Nat
      BY <1>2
    <3> QED
      BY <1>2, <1>3, <3>1 DEF SomePlaces
  <2>2. \E g1 : Reads(g1, seq, S)
    BY <2>1, ReadingExists
  <2>3. \E h1 : Reads(h1, more, R)
    BY <2>1, ReadingExists
  <2>4. Reads(g, seq, S)
    BY <1>4, <2>2
  <2>5. Reads(h, more, R)
    BY <1>5, <2>3
  <2> QED
    BY <2>4, <2>5
<1>7. S \subseteq R /\ n + 1 \in R /\ R \in SUBSET R /\ S \in SUBSET S
  <2>1. n + 1 \in Nat /\ n + 1 >= 1
    BY <1>2
  <2>2. n + 1 \in 1 .. (n + 1)
    BY <2>1
  <2>3. \A i \in 1 .. n : i \in 1 .. (n + 1)
    BY <1>2
  <2> QED
    BY <1>3, <2>2, <2>3
<1>8. Max(R) = n + 1 /\ R \ {n + 1} = S
  <2>1. SomePlaces(R) /\ R # {}
    <3>1. n + 1 \in Nat
      BY <1>2
    <3>2. SomePlaces(R)
      BY <1>3, <3>1 DEF SomePlaces
    <3> QED
      BY <1>7, <3>2
  <2>2. Max(R) \in R /\ Max(R) >= n + 1
    BY <1>7, <2>1, LastPlace
  <2>3. Max(R) \in 1 .. (n + 1)
    BY <1>3, <2>2
  <2>4. Max(R) = n + 1
    BY <1>2, <2>2, <2>3
  <2> QED
    BY <1>2, <1>3, <2>4
<1>9. h[S] = g[S]
  <2>1. SomePlaces(S)
    BY <1>2, <1>3 DEF SomePlaces
  <2>2. \A i \in S : seq[i] = more[i]
    BY <1>2, <1>3
  <2>3. Reads(g, seq, S) /\ Reads(h, more, R) /\ S \subseteq R
    BY <1>6, <1>7
  <2>4. \A T \in SUBSET S : g[T] = h[T]
    BY ONLY <2>1, <2>2, <2>3, OneReading
  <2> QED
    BY <1>7, <2>4
<1>10. h[R] = Pair(h[R \ {Max(R)}], more[Max(R)])
  <2>1. R # {}
    BY <1>7
  <2> QED
    BY <1>6, <1>7, <2>1 DEF Reads
<1>11. Read(seq) = g[S] /\ Read(more) = h[R]
  BY <1>2, <1>3, <1>4, <1>5 DEF Read
<1> QED
  BY <1>1, <1>2, <1>8, <1>9, <1>10, <1>11

LEMMA ReadNone == Read(<<>>) = Unread
<1>1. PICK g : g = CHOOSE g1 : Reads(g1, <<>>, {})
  OBVIOUS
<1>2. DOMAIN <<>> = {}
  OBVIOUS
<1>3. Reads(g, <<>>, {})
  <2>1. SomePlaces({})
    BY DEF SomePlaces
  <2>2. \E g1 : Reads(g1, <<>>, {})
    BY <2>1, ReadingExists
  <2> QED
    BY <1>1, <2>2
<1>4. g[{}] = Unread
  BY <1>3 DEF Reads
<1> QED
  BY <1>1, <1>2, <1>4 DEF Read

IsList(seq) == \E A : seq \in Seq(A)

LEMMA ListGrows ==
    ASSUME NEW seq, IsList(seq), NEW x
    PROVE  /\ IsList(Append(seq, x))
           /\ Len(seq) \in Nat /\ DOMAIN seq = 1 .. Len(seq)
           /\ DOMAIN Append(seq, x) = 1 .. (Len(seq) + 1)
           /\ Append(seq, x)[Len(seq) + 1] = x
           /\ \A i \in 1 .. Len(seq) : Append(seq, x)[i] = seq[i]
<1>1. PICK A : seq \in Seq(A)
  BY DEF IsList
<1>2. PICK B : B = A \cup {x}
  OBVIOUS
<1>3. x \in B /\ A \subseteq B
  BY <1>2
<1>4. seq \in Seq(B)
  BY <1>1, <1>3
<1>5. Append(seq, x) \in Seq(B)
  BY <1>3, <1>4
<1>6. Len(Append(seq, x)) = Len(seq) + 1
  BY <1>3, <1>4
<1>7. Append(seq, x)[Len(seq) + 1] = x /\ \A i \in 1 .. Len(seq) : Append(seq, x)[i] = seq[i]
  BY <1>3, <1>4, AppendProperties
<1> QED
  BY <1>4, <1>5, <1>6, <1>7, LenProperties DEF IsList

LEMMA ReadMore ==
    ASSUME NEW seq, IsList(seq), NEW sig PROVE Read(Append(seq, sig)) = Pair(Read(seq), sig)
<1>1. PICK A : seq \in Seq(A)
  BY DEF IsList
<1>2. PICK B : B = A \cup {sig}
  OBVIOUS
<1>3. sig \in B /\ seq \in Seq(B)
  BY <1>1, <1>2
<1> QED
  BY <1>3, ReadNext

\* An entry that is read when none is open is open, and an exit closes the one
\* that is.
LEMMA EntryRead ==
    ASSUME NEW trades, NEW sig, sig.type = "entry"
    PROVE  Pair([open |-> <<>>, trades |-> trades], sig) = [open |-> <<sig>>, trades |-> trades]
<1>1. PICK acc : acc = [open |-> <<>>, trades |-> trades]
  OBVIOUS
<1> DEFINE Named == {i \in DOMAIN acc.open : acc.open[i].label = sig.label}
<1>2. Named = {}
  <2>1. DOMAIN acc.open = {}
    BY <1>1
  <2> QED
    BY <2>1
<1>3. Pair(acc, sig) = [acc EXCEPT !.open = Append(acc.open, sig)]
  <2>1. (sig.type = "entry" /\ Named # {}) = FALSE /\ (sig.type = "entry") = TRUE
    BY <1>2
  <2> QED
    BY <1>2, <2>1 DEF Pair
<1>4. Append(acc.open, sig) = <<sig>>
  BY <1>1
<1> QED
  BY <1>1, <1>3, <1>4

LEMMA OnlyOneLeaves == \A e : RemoveAt(<<e>>, 1) = <<>>
<1> SUFFICES ASSUME NEW e PROVE RemoveAt(<<e>>, 1) = <<>>
  OBVIOUS
<1>1. SubSeq(<<e>>, 1, 0) = <<>>
  OBVIOUS
<1>2. SubSeq(<<e>>, 2, 1) = <<>>
  OBVIOUS
<1>3. <<>> \o <<>> = <<>>
  OBVIOUS
<1>4. Len(<<e>>) = 1 /\ 1 - 1 = 0 /\ 1 + 1 = 2
  OBVIOUS
<1> QED
  BY <1>1, <1>2, <1>3, <1>4 DEF RemoveAt

LEMMA ExitRead ==
    ASSUME NEW trades, NEW e, NEW sig, sig.type = "exit"
    PROVE  Pair([open |-> <<e>>, trades |-> trades], sig)
              = [open |-> <<>>,
                 trades |-> Append(trades, [label |-> e.label, entryBar |-> e.bar, exitBar |-> sig.bar,
                                            entryPrice |-> e.price, exitPrice |-> sig.price,
                                            long |-> e.side = "buy"])]
<1>1. PICK acc : acc = [open |-> <<e>>, trades |-> trades]
  OBVIOUS
<1> DEFINE Named == {i \in DOMAIN acc.open : acc.open[i].label = sig.label}
           place == IF Named # {} THEN CHOOSE i \in Named : TRUE ELSE 1
<1>2. DOMAIN acc.open = {1} /\ acc.open[1] = e /\ acc.open # <<>>
  <2>1. DOMAIN <<e>> = {1} /\ <<e>>[1] = e /\ <<e>> # <<>>
    OBVIOUS
  <2> QED
    BY <1>1, <2>1
<1>3. place = 1
  <2>1. Named \subseteq {1}
    BY <1>2
  <2>2. CASE Named = {}
    BY <2>2
  <2>3. CASE Named # {}
    <3>1. (CHOOSE i \in Named : TRUE) \in Named
      BY <2>3
    <3> QED
      BY <2>1, <2>3, <3>1
  <2> QED
    BY <2>2, <2>3
<1>4. sig.type # "entry"
  OBVIOUS
<1>5. Pair(acc, sig) = [open   |-> RemoveAt(acc.open, place),
                        trades |-> Append(acc.trades,
                           [label |-> acc.open[place].label, entryBar |-> acc.open[place].bar, exitBar |-> sig.bar,
                            entryPrice |-> acc.open[place].price, exitPrice |-> sig.price,
                            long |-> acc.open[place].side = "buy"])]
  BY <1>2, <1>4 DEF Pair
<1> HIDE DEF place
<1>6. RemoveAt(acc.open, 1) = <<>>
  BY <1>1, OnlyOneLeaves
<1> QED
  BY <1>1, <1>2, <1>3, <1>5, <1>6

\* One order of a run at a bar, or the bracket's check at its end.
Order(s, t, bar) ==
    \/ \E label, price : label # NoPrice /\ t = EmitEntry(s, label, price, bar)
    \/ \E label, price : t = EmitExit(s, label, price, bar)
    \/ \E price : t = EmitClose(s, price, bar)
    \/ \E stop, take : t = SetBracket(s, stop, take)
    \/ \E low, high : t = CheckBarExits(s, low, high, bar)

\* The entry of the position a strategy holds.
EntryOf(s) ==
    [bar |-> s.bar, type |-> "entry", label |-> s.position, price |-> s.price,
     side |-> IF IsShort(s.position) THEN "sell" ELSE "buy"]

\* What the signals tell is what the strategy knows.
Told(s) ==
    /\ DOMAIN s = {"position", "price", "bar", "stop", "target", "signals", "trades"}
    /\ IsList(s.signals) /\ IsList(s.trades)
    /\ Read(s.signals) = [open |-> IF Flat(s) THEN <<>> ELSE <<EntryOf(s)>>, trades |-> s.trades]

\* The trades were closed in the order of their bars, none after the one given.
InBars(s, bar) ==
    /\ \A i \in DOMAIN s.trades : s.trades[i].exitBar \in Nat /\ s.trades[i].exitBar <= bar
    /\ \A i, j \in DOMAIN s.trades : i <= j => s.trades[i].exitBar <= s.trades[j].exitBar

LEMMA EmptyList == IsList(<<>>) /\ DOMAIN <<>> = {}
<1>1. <<>> \in Seq({})
  OBVIOUS
<1> QED
  BY <1>1 DEF IsList

LEMMA ToldAtFirst == Told(NewStrategy) /\ InBars(NewStrategy, 0)
<1>1. Flat(NewStrategy) /\ NewStrategy.trades = <<>> /\ NewStrategy.signals = <<>>
  BY DEF NewStrategy, Flat
<1>2. Read(<<>>) = [open |-> <<>>, trades |-> <<>>]
  BY ReadNone DEF Unread
<1>3. DOMAIN NewStrategy = {"position", "price", "bar", "stop", "target", "signals", "trades"}
  BY DEF NewStrategy
<1> QED
  BY <1>1, <1>2, <1>3, EmptyList DEF Told, InBars

LEMMA ToldAfterEntry ==
    ASSUME NEW s, Told(s), NEW label, label # NoPrice, NEW price, NEW bar
    PROVE  Told(EmitEntry(s, label, price, bar)) /\ EmitEntry(s, label, price, bar).trades = s.trades
<1>1. CASE ~ Flat(s)
  BY <1>1 DEF EmitEntry
<1>2. CASE Flat(s)
  <2>1. PICK t : t = EmitEntry(s, label, price, bar)
    OBVIOUS
  <2>2. PICK sig : sig = [bar |-> bar, type |-> "entry", label |-> label, price |-> price,
                          side |-> IF IsShort(label) THEN "sell" ELSE "buy"]
    OBVIOUS
  <2>3. t = [s EXCEPT !.position = label, !.price = price, !.bar = bar, !.signals = Append(@, sig)]
    BY <1>2, <2>1, <2>2 DEF EmitEntry
  <2>4. /\ t.position = label /\ t.price = price /\ t.bar = bar /\ t.signals = Append(s.signals, sig)
        /\ t.trades = s.trades /\ DOMAIN t = DOMAIN s
    BY <2>3 DEF Told
  <2>5. ~ Flat(t) /\ EntryOf(t) = sig
    BY <2>2, <2>4 DEF Flat, EntryOf
  <2>6. Read(s.signals) = [open |-> <<>>, trades |-> s.trades]
    BY <1>2 DEF Told
  <2>7. sig.type = "entry"
    BY <2>2
  <2>8. Read(t.signals) = [open |-> <<sig>>, trades |-> s.trades]
    <3>1. Read(t.signals) = Pair(Read(s.signals), sig)
      BY <2>4, ReadMore DEF Told
    <3> QED
      BY <2>6, <2>7, <3>1, EntryRead
  <2>9. IsList(t.signals)
    BY <2>4, ListGrows DEF Told
  <2> QED
    BY <2>1, <2>4, <2>5, <2>8, <2>9 DEF Told
<1> QED
  BY <1>1, <1>2

LEMMA ToldAfterExit ==
    ASSUME NEW s, Told(s), NEW label, NEW price, NEW bar, NEW t, t = EmitExit(s, label, price, bar)
    PROVE  /\ Told(t)
           /\ Flat(s) => t.trades = s.trades
           /\ ~ Flat(s) => t.trades = Append(s.trades, ClosedTrade(s, price, bar))
<1>1. CASE Flat(s)
  BY <1>1 DEF EmitExit
<1>2. CASE ~ Flat(s)
  <2>1. PICK sig : sig = [bar |-> bar, type |-> "exit", label |-> label, price |-> price,
                          side |-> IF IsShort(s.position) THEN "buy" ELSE "sell"]
    OBVIOUS
  <2>2. PICK trade : trade = ClosedTrade(s, price, bar)
    OBVIOUS
  <2>3. t = [s EXCEPT !.position = NoPrice, !.stop = NoPrice, !.target = NoPrice,
                      !.trades = Append(@, trade), !.signals = Append(@, sig)]
    BY <1>2, <2>1, <2>2 DEF EmitExit
  <2>4. /\ t.position = NoPrice /\ t.signals = Append(s.signals, sig)
        /\ t.trades = Append(s.trades, trade) /\ DOMAIN t = DOMAIN s
    BY <2>3 DEF Told
  <2>5. Flat(t)
    BY <2>4 DEF Flat
  <2>6. PICK e : e = EntryOf(s)
    OBVIOUS
  <2>7. Read(s.signals) = [open |-> <<e>>, trades |-> s.trades]
    BY <1>2, <2>6 DEF Told
  <2>8. sig.type = "exit"
    BY <2>1
  <2>9. Read(t.signals) = Pair([open |-> <<e>>, trades |-> s.trades], sig)
    BY <2>4, <2>7, ReadMore DEF Told
  <2>10. [label |-> e.label, entryBar |-> e.bar, exitBar |-> sig.bar, entryPrice |-> e.price,
          exitPrice |-> sig.price, long |-> e.side = "buy"] = trade
    <3>1. (e.side = "buy") = ~ IsShort(s.position)
      <4>1. CASE IsShort(s.position)
        BY <2>6, <4>1 DEF EntryOf
      <4>2. CASE ~ IsShort(s.position)
        BY <2>6, <4>2 DEF EntryOf
      <4> QED
        BY <4>1, <4>2
    <3>2. e.label = s.position /\ e.bar = s.bar /\ e.price = s.price /\ sig.bar = bar /\ sig.price = price
      BY <2>1, <2>6 DEF EntryOf
    <3> QED
      BY <2>2, <3>1, <3>2 DEF ClosedTrade
  <2>11. Read(t.signals) = [open |-> <<>>, trades |-> Append(s.trades, trade)]
    BY <2>8, <2>9, <2>10, ExitRead
  <2>12. IsList(t.signals) /\ IsList(t.trades)
    BY <2>4, ListGrows DEF Told
  <2> QED
    BY <1>2, <2>2, <2>4, <2>5, <2>11, <2>12 DEF Told
<1> QED
  BY <1>1, <1>2

LEMMA ToldAfterBracket ==
    ASSUME NEW s, Told(s), NEW stop, NEW take
    PROVE  Told(SetBracket(s, stop, take)) /\ SetBracket(s, stop, take).trades = s.trades
<1>1. PICK t : t = SetBracket(s, stop, take)
  OBVIOUS
<1>2. /\ t.position = s.position /\ t.price = s.price /\ t.bar = s.bar
      /\ t.signals = s.signals /\ t.trades = s.trades /\ DOMAIN t = DOMAIN s
  BY <1>1 DEF SetBracket, Told
<1>3. EntryOf(t) = EntryOf(s) /\ (Flat(t) <=> Flat(s))
  BY <1>2 DEF EntryOf, Flat
<1> QED
  BY <1>1, <1>2, <1>3 DEF Told

\* Whatever the order, it is told, and at most closes a trade at its bar.
LEMMA OrderIsTold ==
    ASSUME NEW s, Told(s), NEW t, NEW bar, Order(s, t, bar)
    PROVE  /\ Told(t)
           /\ t.trades = s.trades \/ \E price : t.trades = Append(s.trades, ClosedTrade(s, price, bar))
<1>1. ASSUME NEW label, NEW price, t = EmitExit(s, label, price, bar)
      PROVE  /\ Told(t)
             /\ t.trades = s.trades \/ \E p : t.trades = Append(s.trades, ClosedTrade(s, p, bar))
  BY <1>1, ToldAfterExit
<1>2. CASE \E label, price : label # NoPrice /\ t = EmitEntry(s, label, price, bar)
  BY <1>2, ToldAfterEntry
<1>3. CASE \E label, price : t = EmitExit(s, label, price, bar)
  BY <1>1, <1>3
<1>4. CASE \E price : t = EmitClose(s, price, bar)
  <2>1. PICK price, label : t = EmitExit(s, label, price, bar)
    BY <1>4 DEF EmitClose
  <2> QED
    BY <1>1, <2>1
<1>5. CASE \E stop, take : t = SetBracket(s, stop, take)
  BY <1>5, ToldAfterBracket
<1>6. CASE \E low, high : t = CheckBarExits(s, low, high, bar)
  <2>1. t = s \/ \E label, price : t = EmitExit(s, label, price, bar)
    BY <1>6 DEF CheckBarExits
  <2> QED
    BY <1>1, <2>1
<1> QED
  BY <1>2, <1>3, <1>4, <1>5, <1>6 DEF Order

LEMMA OrderInBars ==
    ASSUME NEW s, Told(s), NEW t, NEW last \in Nat, NEW bar \in Nat, last <= bar,
           InBars(s, last), Order(s, t, bar)
    PROVE  InBars(t, bar)
<1>1. CASE t.trades = s.trades
  <2>1. \A i \in DOMAIN s.trades : s.trades[i].exitBar \in Nat /\ s.trades[i].exitBar <= bar
    BY DEF InBars
  <2> QED
    BY <1>1, <2>1 DEF InBars
<1>2. ASSUME NEW price, t.trades = Append(s.trades, ClosedTrade(s, price, bar)) PROVE InBars(t, bar)
  <2>1. PICK n, trade : n = Len(s.trades) /\ trade = ClosedTrade(s, price, bar)
    <3>1. \E n, trade : n = Len(s.trades) /\ trade = ClosedTrade(s, price, bar)
      OBVIOUS
    <3> QED
      BY <3>1
  <2>2. /\ n \in Nat /\ DOMAIN s.trades = 1 .. n /\ DOMAIN t.trades = 1 .. (n + 1)
        /\ t.trades[n + 1] = trade /\ \A i \in 1 .. n : t.trades[i] = s.trades[i]
    BY <1>2, <2>1, ListGrows DEF Told
  <2>3. trade.exitBar = bar
    BY <2>1 DEF ClosedTrade
  <2>4. ASSUME NEW i \in 1 .. n
        PROVE  t.trades[i].exitBar \in Nat /\ t.trades[i].exitBar <= bar /\ t.trades[i].exitBar = s.trades[i].exitBar
    BY <2>2 DEF InBars
  <2>5. \A i \in 1 .. (n + 1) : i = n + 1 \/ i \in 1 .. n
    BY <2>2
  <2>6. \A i \in 1 .. (n + 1) : t.trades[i].exitBar \in Nat /\ t.trades[i].exitBar <= bar
    BY <2>2, <2>3, <2>4, <2>5
  <2>7. ASSUME NEW i \in 1 .. (n + 1), NEW j \in 1 .. (n + 1), i <= j
        PROVE  t.trades[i].exitBar <= t.trades[j].exitBar
    <3>1. CASE j = n + 1
      BY <2>2, <2>3, <2>6, <3>1
    <3>2. CASE j # n + 1
      <4>1. i \in 1 .. n /\ j \in 1 .. n
        BY <2>2, <2>5, <2>7, <3>2
      <4> QED
        BY <2>2, <2>4, <2>7, <4>1 DEF InBars
    <3> QED
      BY <3>1, <3>2
  <2> QED
    BY <2>2, <2>6, <2>7 DEF InBars
<1> QED
  BY <1>1, <1>2, OrderIsTold

\* A bar's equity contains the profits of the trades closed by then, and these
\* are the first ones.
LEMMA CurveIsInitial ==
    ASSUME NEW s, Told(s), NEW last \in Nat, InBars(s, last), NEW bars \in Nat, NEW b \in 1 .. bars
    PROVE  \E k \in 0 .. Len(s.trades) : EquityCurve(s.trades, bars)[b] = 1 .. k
<1>1. PICK n, C : n = Len(s.trades) /\ C = EquityCurve(s.trades, bars)[b]
  <2>1. \E n, C : n = Len(s.trades) /\ C = EquityCurve(s.trades, bars)[b]
    OBVIOUS
  <2> QED
    BY <2>1
<1>2. n \in Nat /\ DOMAIN s.trades = 1 .. n
  BY <1>1, ListGrows DEF Told
<1>3. C = {i \in 1 .. n : s.trades[i].exitBar <= b}
  BY <1>1, <1>2 DEF EquityCurve
<1>4. CASE C = {}
  <2>1. C = 1 .. 0 /\ 0 \in 0 .. n
    BY <1>2, <1>4
  <2> QED
    BY <1>1, <2>1
<1>5. CASE C # {}
  <2>1. SomePlaces(C)
    BY <1>2, <1>3 DEF SomePlaces
  <2>2. PICK k \in C : \A i \in C : k >= i
    BY <1>5, <2>1, LastPlace
  <2>3. k \in 1 .. n /\ s.trades[k].exitBar <= b
    BY <1>3, <2>2
  <2>4. ASSUME NEW i \in 1 .. k PROVE i \in C
    <3>1. i \in 1 .. n /\ i <= k
      BY <1>2, <2>3
    <3>2. s.trades[i].exitBar <= s.trades[k].exitBar /\ s.trades[i].exitBar \in Nat /\ s.trades[k].exitBar \in Nat
      BY <1>2, <2>3, <3>1 DEF InBars
    <3>3. s.trades[i].exitBar <= b
      BY <2>3, <3>2
    <3> QED
      BY <1>3, <3>1, <3>3
  <2>5. \A i \in C : i \in 1 .. k
    <3> SUFFICES ASSUME NEW i \in C PROVE i \in 1 .. k
      OBVIOUS
    <3>1. i \in 1 .. n /\ k >= i
      BY <1>3, <2>2
    <3> QED
      BY <1>2, <2>3, <3>1
  <2>6. C = 1 .. k /\ k \in 0 .. n
    <3>1. k \in 0 .. n
      BY <1>2, <2>3
    <3>2. C \subseteq 1 .. k /\ 1 .. k \subseteq C
      BY <2>4, <2>5
    <3> QED
      BY <3>1, <3>2
  <2> QED
    BY <1>1, <2>6
<1> QED
  BY <1>4, <1>5

(* A run of any number of orders, at bars that never go back: the back-test  *)
(* of its signals has the strategy's own trades, sides and prices included,  *)
(* and the equity after a bar is that of the first trades, those closed by   *)
(* then (_build_trades and _compute_equity_curve against StrategyState).     *)
THEOREM BacktestRebuildsTheTrades ==
    ASSUME NEW n \in Nat, NEW run, NEW when,
           run[0] = NewStrategy, when[0] = 0, \A i \in 0 .. n : when[i] \in Nat,
           \A i \in 1 .. n : when[i - 1] <= when[i] /\ Order(run[i - 1], run[i], when[i])
    PROVE  /\ BuildTrades(run[n].signals) = run[n].trades
           /\ \A bars \in Nat : \A b \in 1 .. bars :
                 \E k \in 0 .. Len(run[n].trades) : EquityCurve(run[n].trades, bars)[b] = 1 .. k
<1> DEFINE Good(i) == Told(run[i]) /\ InBars(run[i], when[i])
           Bad == {i \in 0 .. n : ~ Good(i)}
<1>1. Good(0)
  BY ToldAtFirst
<1>2. ASSUME NEW i \in 1 .. n, Good(i - 1) PROVE Good(i)
  <2>1. i \in 0 .. n /\ i - 1 \in 0 .. n
    OBVIOUS
  <2>2. when[i - 1] \in Nat /\ when[i] \in Nat /\ when[i - 1] <= when[i] /\ Order(run[i - 1], run[i], when[i])
    BY <2>1
  <2>3. Told(run[i])
    BY <1>2, <2>2, OrderIsTold
  <2>4. InBars(run[i], when[i])
    BY <1>2, <2>2, OrderInBars
  <2> QED
    BY <2>3, <2>4
<1>3. Good(n)
  <2> SUFFICES ASSUME ~ Good(n) PROVE FALSE
    OBVIOUS
  <2>1. Bad \in SUBSET Nat /\ n \in Bad
    OBVIOUS
  <2>2. PICK m \in Bad : \A k \in Bad : m <= k
    <3> HIDE DEF Bad
    <3> QED
      BY <2>1, LeastNat
  <2>3. m \in 0 .. n /\ ~ Good(m)
    BY <2>2
  <2> HIDE DEF Good
  <2>4. m # 0
    BY <1>1, <2>3
  <2>5. m \in 1 .. n /\ m - 1 \in 0 .. n
    BY <2>3, <2>4
  <2>6. m - 1 \notin Bad
    BY <2>2, <2>5
  <2>7. Good(m - 1)
    BY <2>5, <2>6
  <2> QED
    BY <1>2, <2>3, <2>5, <2>7
<1>4. BuildTrades(run[n].signals) = run[n].trades
  BY <1>3, TradesAreRead DEF Told
<1>5. when[n] \in Nat
  OBVIOUS
<1> QED
  BY <1>3, <1>4, <1>5, CurveIsInitial
=============================================================================
