------------------------------ MODULE Scripts -------------------------------
(***************************************************************************)
(* The requests of app/api/routes/scripts.py on one saved script: update,  *)
(* delete, run, backtest, and run or backtest of a source that is not      *)
(* saved.  A request is one session; its commits in mid-request (the run,  *)
(* the backtest's result) stay when a later step raises.                   *)
(***************************************************************************)
EXTENDS Quotas, SequencesExt

CONSTANTS
    Owner,          \* scripts.user_id
    Sources,        \* what a script may say
    First,          \* the source it is created with
    MaxVersions     \* bound: versions of the script

VARIABLES
    script,     \* [active, source]: the row in scripts
    versions,   \* script_versions, a sequence of sources
    runs,       \* strategy_runs with what hangs on them, by request
    mine,       \* [Requests -> the locals of a script request, or None]
    told,       \* runs whose signals were handed to the broadcast
    resubmitted \* the last update submitted the source it had loaded, not the current one (ghost)

scriptVars == <<script, versions, runs, mine, told, resubmitted>>

Ops == {"update", "delete", "run", "backtest", "run_unsaved", "backtest_unsaved"}
Saved == Ops \ {"run_unsaved", "backtest_unsaved"}
Charged == Ops \ {"update", "delete"}
KeyOf == [op \in Charged |->
             IF op \in {"run", "run_unsaved"} THEN "script_run" ELSE "script_backtest"]

MineType ==
    [op : Ops, source : Sources, loaded : Sources \cup {None},
     version : Nat, good : BOOLEAN, flag : BOOLEAN, broken : BOOLEAN]
RunType == [type : {"historical", "backtest"}, status : {"completed", "failed"}, result : BOOLEAN]

ASSUME ScriptsAssumption ==
    /\ First \in Sources
    /\ None \notin Sources \cup MineType \cup RunType

(* create_script: the script and its version 1 are committed together.      *)
ScriptsInit ==
    /\ script = [active |-> TRUE, source |-> First]
    /\ versions = <<First>>
    /\ runs = [r \in Requests |-> None]
    /\ mine = [r \in Requests |-> None]
    /\ told = {}
    /\ resubmitted = FALSE

Fails(r) == RolledBack(r) /\ UNCHANGED scriptVars

(* A request arrives with its body: the source and broadcast_telegram.      *)
ScriptArrive(r, u, op, source, flag) ==
    /\ Arrive(r, u, IF op \in Saved THEN "load" ELSE "charge")
    /\ mine' = [mine EXCEPT ![r] =
           [op |-> op, source |-> source, loaded |-> None, version |-> 0,
            good |-> FALSE, flag |-> flag, broken |-> FALSE]]
    /\ UNCHANGED <<script, versions, runs, told, resubmitted>>

(* _get_or_404 and require_script_access.                                   *)
Load(r) ==
    \/ /\ ~ script.active \/ who[r] \notin Admins \cup {Owner}
       /\ at[r] = "load" /\ Fails(r)
    \/ /\ script.active /\ who[r] \in Admins \cup {Owner}
       /\ Steps(r, "load", CASE mine[r].op = "update" -> "number"
                                 [] mine[r].op = "delete" -> "send"
                                 [] OTHER -> "charge")
       /\ mine' = [mine EXCEPT ![r].loaded = script.source]
       /\ UNCHANGED <<script, versions, runs, told, resubmitted>>

(* update_script: the largest version plus one, read before the insert.     *)
Number(r) ==
    /\ Steps(r, "number", "send")
    /\ mine' = [mine EXCEPT ![r].version = Len(versions) + 1]
    /\ UNCHANGED <<script, versions, runs, told, resubmitted>>

(* The flush in log_activity sends the request's inserts and updates.  It   *)
(* waits for the script's row and the version's unique key while another    *)
(* session holds them; a version taken meanwhile raises IntegrityError.     *)
FlushEdit(r) ==
    /\ at[r] = "send"
    /\ \A q \in Requests \ {r} : at[q] # "commit"
    /\ \/ /\ mine[r].op = "update" /\ mine[r].version <= Len(versions)
          /\ Fails(r)
       \/ /\ (mine[r].op = "update" => mine[r].version > Len(versions))
          /\ Steps(r, "send", "commit") /\ UNCHANGED scriptVars

(* The version keeps the source the update replaces.                        *)
MutantCommitEdit(r) ==
    /\ Steps(r, "commit", "ok")
    /\ IF mine[r].op = "delete"
       THEN script' = [script EXCEPT !.active = FALSE] /\ UNCHANGED versions
       ELSE /\ versions' = Append(versions, mine[r].loaded)
            /\ script' = [script EXCEPT !.source = mine[r].source]
    /\ UNCHANGED <<runs, mine, told, resubmitted>>

(* The commit.  The ORM writes the columns that differ from what was        *)
(* loaded: a source equal to the loaded one is not written.                 *)
CommitEdit(r) ==
    /\ Steps(r, "commit", "ok")
    /\ IF mine[r].op = "delete"
       THEN script' = [script EXCEPT !.active = FALSE] /\ UNCHANGED <<versions, resubmitted>>
       ELSE /\ versions' = Append(versions, mine[r].source)
            /\ script' = [script EXCEPT !.source =
                   IF mine[r].source = mine[r].loaded THEN @ ELSE mine[r].source]
            /\ resubmitted' = (script.source # mine[r].loaded /\ mine[r].source = mine[r].loaded)
    /\ UNCHANGED <<runs, mine, told>>

ScriptCharge(r) ==
    /\ at[r] = "charge"
    /\ Charge(r, KeyOf[mine[r].op], "execute")
    /\ UNCHANGED scriptVars

ScriptInsert(r) == mine[r] # None /\ Insert(r, "execute") /\ UNCHANGED scriptVars

(* The charge is committed on its own before anything runs.                 *)
MutantExecute(r) ==
    /\ at[r] = "execute"
    /\ Settled(r)
    /\ at' = [at EXCEPT ![r] = "failed"]
    /\ UNCHANGED <<tier, who, limit, overlapped, faulted>> /\ UNCHANGED scriptVars

(* _resolve_source looks a saved script up again; no candles is a 404; then *)
(* execute_script or run_backtest ends with or without errors.              *)
Execute(r) ==
    \/ /\ at[r] = "execute"
       /\ \/ mine[r].op \in Saved /\ ~ script.active
          \/ TRUE       \* get_candles answers nothing
       /\ Fails(r)
    \/ /\ at[r] = "execute"
       /\ mine[r].op \in Saved => script.active
       /\ \E good \in BOOLEAN :
             /\ mine' = [mine EXCEPT ![r].good = good]
             /\ Steps(r, "execute",
                    IF mine[r].op \in {"run", "run_unsaved"} \/ (mine[r].op = "backtest" /\ good)
                    THEN "persist" ELSE "log")
       /\ UNCHANGED <<script, versions, runs, told, resubmitted>>

(* _persist_run: the run and its signals, committed together with the       *)
(* charge.  A run without a script violates script_id's NOT NULL.           *)
Persist(r) ==
    /\ at[r] = "persist"
    /\ IF mine[r].op = "run_unsaved" THEN Fails(r)
       ELSE /\ runs' = [runs EXCEPT ![r] =
                  [type |-> IF mine[r].op = "run" THEN "historical" ELSE "backtest",
                   status |-> IF mine[r].good THEN "completed" ELSE "failed",
                   result |-> FALSE]]
            /\ at' = [at EXCEPT ![r] =
                  CASE mine[r].op = "backtest" -> "result"
                    [] mine[r].op = "run" /\ mine[r].good /\ mine[r].flag /\ who[r] \in Admins -> "broadcast"
                    [] OTHER -> "log"]
            /\ Settled(r)
            /\ UNCHANGED <<tier, who, limit, overlapped, faulted, script, versions, mine, told, resubmitted>>

(* _execute_backtest: the result's row, in a commit of its own.             *)
StoreResult(r) ==
    /\ Steps(r, "result", "log")
    /\ runs' = [runs EXCEPT ![r].result = TRUE]
    /\ UNCHANGED <<script, versions, mine, told, resubmitted>>

(* _maybe_broadcast_run_signals.  broadcast_strategy_signal catches what it *)
(* raises, which leaves the session unusable for what follows.              *)
BroadcastRun(r, fault) ==
    /\ at[r] = "broadcast"
    /\ at' = [at EXCEPT ![r] = "log"]
    /\ IF fault THEN /\ mine' = [mine EXCEPT ![r].broken = TRUE]
                     /\ faulted' = faulted \cup {r}
                     /\ UNCHANGED told
       ELSE told' = told \cup {r} /\ UNCHANGED <<mine, faulted>>
    /\ UNCHANGED <<tier, count, who, limit, charge, settled, overlapped>>
    /\ UNCHANGED <<script, versions, runs, resubmitted>>

(* log_activity and the last commit.                                        *)
LogRun(r) ==
    /\ at[r] = "log"
    /\ IF mine[r].broken THEN Fails(r)
       ELSE /\ at' = [at EXCEPT ![r] = "ok"]
            /\ Settled(r)
            /\ UNCHANGED <<tier, who, limit, overlapped, faulted>> /\ UNCHANGED scriptVars

(* Any database error while a request is open.                              *)
ScriptFault(r) == mine[r] # None /\ Fault(r) /\ UNCHANGED scriptVars

ScriptsNext ==
    \E r \in Requests :
        \/ \E u \in Users, op \in Ops, source \in Sources, flag \in BOOLEAN :
              /\ op = "update" => Len(versions) < MaxVersions
              /\ op # "update" => source = First
              /\ op \notin {"run", "run_unsaved"} => ~ flag
              /\ ScriptArrive(r, u, op, source, flag)
        \/ Load(r) \/ Number(r) \/ FlushEdit(r) \/ CommitEdit(r)
        \/ ScriptCharge(r) \/ ScriptInsert(r) \/ Execute(r) \/ Persist(r)
        \/ StoreResult(r) \/ (\E fault \in BOOLEAN : BroadcastRun(r, fault))
        \/ LogRun(r) \/ ScriptFault(r)

ScriptsTypeOK ==
    /\ script \in [active : BOOLEAN, source : Sources]
    /\ versions \in Seq(Sources) /\ versions # <<>>
    /\ runs \in [Requests -> RunType \cup {None}]
    /\ mine \in [Requests -> MineType \cup {None}]
    /\ told \subseteq Requests
    /\ resubmitted \in BOOLEAN

(* The newest version is what the script says, unless an update whose       *)
(* source equals what it had loaded overlapped another update, which leaves *)
(* the column alone (update_script).                                        *)
HistoryEndsInTheSource == resubmitted \/ Last(versions) = script.source

(* A request that fails without a fault leaves no run and no charge; one    *)
(* that succeeds has charged every non-administrator, has stored what it    *)
(* says it stored, and only completed runs of administrators are told       *)
(* (run_saved_script, backtest_saved_script, _persist_run).                 *)
NothingHalfDone ==
    \A r \in Requests :
        /\ at[r] = "failed" /\ mine[r] # None /\ r \notin faulted =>
              runs[r] = None /\ settled[r] = None
        /\ at[r] = "ok" /\ mine[r] # None /\ mine[r].op \in Charged =>
              /\ who[r] \notin Admins => settled[r] = KeyOf[mine[r].op]
              /\ mine[r].op = "run" => runs[r] # None
              /\ mine[r].op = "backtest" => (mine[r].good <=> (runs[r] # None /\ runs[r].result))
        /\ r \in told => who[r] \in Admins /\ runs[r] # None /\ runs[r].status = "completed"
=============================================================================
