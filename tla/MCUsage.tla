------------------------------ MODULE MCUsage -------------------------------
(* Small instances of Scripts and Insights over the quotas they share, and   *)
(* the executions of small scripts, which share no state with the requests:  *)
(* a behaviour is of requests or of one execution.                           *)
EXTENDS Usage, MCPine, TLC

AllLimits == [t \in Tiers |-> IF t = "free" THEN 1 ELSE 2]

\* Nothing executes: of the executions that could begin one stands for all.
AtRest == /\ status = "new"
          /\ chosen = Len(Programs)
          /\ candles = [i \in 1 .. 1 |-> Spike]

Scripted == {r \in Requests : mine[r] # None}
Asked == {r \in Requests : job[r] # None}

Open == {r \in Requests : at[r] \notin Ended}

\* The requests of a behaviour are all on the script or all on the symbol:
\* they share nothing but quota rows of different keys.  The first two may
\* overlap, the third follows them and is not an administrator's.  At most one
\* fault, on the first request, and then on the symbol no third follows.
\* On the script: the second request alone may be a stranger's, the owner's
\* plan changes once it has been charged.  On the symbol: the plan stays, the
\* refresh job runs under the administrator's name, the second request may be
\* any, the others are for the whole analysis.
Few ==
    /\ Scripted = {} \/ (Asked = {} /\ now = 0 /\ mem = None)
    /\ \A q, r \in Requests : q < r /\ at[q] = "idle" => at[r] = "idle"
    /\ at[3] # "idle" => Open \subseteq {3}
    /\ faulted \subseteq {1}
    /\ who[3] # "admin"
    /\ Asked # {} => faulted = {} \/ who[3] = None
    /\ \A r \in Requests : who[r] = "stranger" => r = 2 /\ r \in Scripted
    /\ \A r \in Asked : (who[r] = "admin") <=> (job[r].op = "refresh")
    /\ \A r \in Asked : job[r].op # "insight" => r = 2
    /\ at[2] \in {"idle", "flush", "feel", "store", "reload"} => now <= 2
    /\ \A r \in Scripted : mine[r].flag => who[r] = "admin"
    /\ tier["admin"] = "pro" /\ tier["stranger"] = "free"
    /\ tier["owner"] = "pro" =>
          \/ Scripted = {} /\ \A r \in Asked : limit[r] # 1
          \/ \E r \in Scripted : limit[r] = 1 /\ settled[r] # None

Init == UsageInit /\ RunInit /\ Few

Next ==
    \/ AtRest /\ UsageNext /\ Few' /\ UNCHANGED runVars
    \/ UsageInit /\ RunNext /\ UNCHANGED usageVars

Spec == Init /\ [][Next]_<<usageVars, runVars>>
=============================================================================
