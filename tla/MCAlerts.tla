------------------------------ MODULE MCAlerts ------------------------------
(* Small instances of Alerts.                                               *)
EXTENDS Alerts, FiniteSets, TLC

Symmetry == Permutations(Alerts)

\* At most one PATCH at a time, one alert that is switched on again, and no
\* change to who is told; the alerts may differ in everything.
Few ==
    /\ Cardinality({a \in Alerts : edit[a] # None}) <= 1
    /\ Cardinality({a \in Alerts : activations[a] > 1}) <= 1
    /\ \A a \in Alerts : edit[a] # None => edit[a].telegram = None
=============================================================================
