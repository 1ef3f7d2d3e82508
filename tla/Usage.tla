------------------------------- MODULE Usage --------------------------------
(***************************************************************************)
(* The requests that are charged to a quota, together: those on a script   *)
(* and those for the AI analysis of a symbol.  They share the counters, and *)
(* a restart of the process ends them all.                                 *)
(***************************************************************************)
EXTENDS Scripts, Insights

usageVars == <<quotaVars, scriptVars, insightVars>>

UsageInit == QuotasInit /\ ScriptsInit /\ InsightsInit

UsageNext ==
    \/ ScriptsNext /\ UNCHANGED insightVars
    \/ InsightsNext /\ UNCHANGED scriptVars
    \/ \E u \in Users, t \in Tiers : ChangeTier(u, t) /\ UNCHANGED <<scriptVars, insightVars>>

ScriptPlaces == {"load", "number", "send", "commit", "charge", "execute", "persist", "result", "broadcast", "log"}
InsightPlaces == {"icharge", "sentiment", "refresh", "lookup", "ask", "source", "save", "flush", "feel", "store",
                  "reload"}
Places == ScriptPlaces \cup InsightPlaces \cup {"idle", "inserting", "ok", "failed"}

UsageTypeOK ==
    /\ at \in [Requests -> Places]
    /\ QuotasTypeOK /\ ScriptsTypeOK /\ InsightsTypeOK

UsageSpec == UsageInit /\ [][UsageNext]_usageVars
=============================================================================
