----------------------------- MODULE WhaleScan -----------------------------
(***************************************************************************)
(* The whale scanner: runs started through the API, whose progress the web *)
(* page shows, and runs of the scheduled job, each of which records itself *)
(* in whale_scan_runs, stores the candidates discovery finds, scans a      *)
(* batch of them, tells Telegram about those with whale activity that were *)
(* not told today, and notes whom it told.                                 *)
(*                                                                         *)
(* The job does not start beside a run of the API, but a run of the API    *)
(* may start beside the job.                                               *)
(***************************************************************************)
EXTENDS Naturals, FiniteSets

CONSTANTS
    Runs,        \* ids of whale_scan_runs rows
    Candidates,  \* tokens discovery can find
    Volume,      \* the 24-hour volume of each candidate
    Limits,      \* values of MAX_TOKENS_PER_RUN; the configured one among them
    Configured,  \* MAX_TOKENS_PER_RUN at the start of the process
    MaxListed,   \* MAX_TELEGRAM_ALERTS
    MaxFaults,   \* bound: failed operations and restarts
    None         \* no task

ASSUME WhaleAssumption ==
    /\ None \notin Runs
    /\ IsFiniteSet(Candidates)
    /\ Volume \in [Candidates -> Nat]
    /\ Limits \subseteq Nat
    /\ Configured \in Limits
    /\ MaxListed \in Nat
    /\ MaxFaults \in Nat

VARIABLES
    run,        \* the coroutine of each run
    row,        \* status in whale_scan_runs, as committed
    known,      \* whale_scan_candidates
    noted,      \* candidates with a notification dated today
    progress,   \* progress._state.status
    task,       \* runner._task
    callbacks,  \* finished tasks whose done callback has not run yet
    dryRun,     \* whale_scan_settings.DRY_RUN
    maxTokens,  \* whale_scan_settings.MAX_TOKENS_PER_RUN
    told,       \* history: how many digests of today listed a candidate
    listed,     \* history: candidates that were in some digest
    leftOut,    \* history: hits that a digest had no place for
    unmarked,   \* history: runs that could not record how they ended
    overlap,    \* history: a run was started while another was working
    early,      \* history: one was started before the callback of the last
    faults      \* history: failed operations and restarts

history  == <<told, listed, leftOut, unmarked, overlap, early, faults>>
settings == <<dryRun, maxTokens>>
tasks    == <<task, callbacks>>
vars     == <<run, row, known, noted, progress, tasks, settings, history>>

Phases == {"started", "discovering", "upserting", "scanning", "checking",
           "noting", "concluding"}
Over   == {"failing", "raising", "closing", "ended"}
Going  == {"discovering", "scanning", "notifying"}

Unused == [pc |-> "unused", api |-> FALSE, todo |-> {}, found |-> {}]

TypeOK ==
    /\ run \in [Runs -> [pc : Phases \cup Over \cup {"unused"}, api : BOOLEAN,
                         todo : SUBSET Candidates, found : SUBSET Candidates]]
    /\ row \in [Runs -> {"none", "running", "ok", "failed"}]
    /\ known \subseteq Candidates
    /\ noted \subseteq Candidates
    /\ progress \in Going \cup {"idle", "ok", "failed"}
    /\ task \in Runs \cup {None}
    /\ callbacks \subseteq Runs
    /\ dryRun \in BOOLEAN
    /\ maxTokens \in Limits
    /\ told \in [Candidates -> Nat]
    /\ listed \subseteq Candidates
    /\ leftOut \subseteq Candidates
    /\ unmarked \subseteq Runs
    /\ overlap \in BOOLEAN
    /\ early \in BOOLEAN
    /\ faults \in Nat

Init ==
    /\ run = [r \in Runs |-> Unused]
    /\ row = [r \in Runs |-> "none"]
    /\ known = {}
    /\ noted = {}
    /\ progress = "idle"
    /\ task = None
    /\ callbacks = {}
    /\ dryRun = FALSE
    /\ maxTokens = Configured
    /\ told = [c \in Candidates |-> 0]
    /\ listed = {}
    /\ leftOut = {}
    /\ unmarked = {}
    /\ overlap = FALSE
    /\ early = FALSE
    /\ faults = 0

-----------------------------------------------------------------------------
Working(r) == run[r].pc \in Phases
Active(r)  == run[r].pc \notin {"unused", "ended"}

\* progress.is_running
IsRunning == progress \in Going

\* runner.background_task_running
TaskRunning == task # None /\ run[task].pc # "ended"

MutantJobReports(r, p) == p

\* The status after run r reports p: run_daily reports only with track_progress.
Reported(r, p) == IF run[r].api THEN p ELSE progress

Goto(r, pc) == run' = [run EXCEPT ![r].pc = pc]

Starts(r) ==
    /\ run[r].pc = "unused"
    /\ ~IsRunning /\ ~TaskRunning
    /\ overlap' = (overlap \/ \E s \in Runs : Working(s))

\* start_background_scan
StartApi(r, dry) ==
    /\ Starts(r)
    /\ run' = [run EXCEPT ![r] = [Unused EXCEPT !.pc = "started", !.api = TRUE]]
    /\ dryRun' = (dryRun \/ dry)
    /\ progress' = "discovering"
    /\ task' = r
    /\ early' = (early \/ callbacks # {})
    /\ UNCHANGED <<row, known, noted, callbacks, maxTokens, told, listed, leftOut,
                   unmarked, faults>>

\* whale_scan_job
StartJob(r) ==
    /\ Starts(r)
    /\ \A s \in Runs : Active(s) => run[s].api
    /\ run' = [run EXCEPT ![r] = [Unused EXCEPT !.pc = "started"]]
    /\ UNCHANGED <<row, known, noted, progress, tasks, settings, told, listed,
                   leftOut, unmarked, early, faults>>

-----------------------------------------------------------------------------
(* run_daily *)

\* Given or not, a limit stays set for the runs that come after.
Begin(r, limit) ==
    /\ run[r].pc = "started"
    /\ maxTokens' = limit
    /\ row' = [row EXCEPT ![r] = "running"]
    /\ Goto(r, "discovering")
    /\ UNCHANGED <<known, noted, progress, tasks, dryRun, history>>

\* upsert_candidates up to its flush: found are the candidates it will insert.
Upsert(r, raw) ==
    /\ run[r].pc = "discovering"
    /\ run' = [run EXCEPT ![r].pc = "upserting", ![r].found = raw \ known]
    /\ UNCHANGED <<row, known, noted, progress, tasks, settings, history>>

\* Another run has inserted one of them: the unique constraint is violated.
Conflict(r) == run[r].pc = "upserting" /\ run[r].found \cap known # {}

\* select_scan_batch.  A candidate's last_scanned_at is set on an object of a
\* closed session and never stored, so what decides is the volume.
Batch(all) ==
    {c \in all : Cardinality({d \in all : Volume[d] > Volume[c]}) < maxTokens}

UpsertCommits(r) ==
    /\ run[r].pc = "upserting" /\ ~Conflict(r)
    /\ known' = known \cup run[r].found
    /\ run' = [run EXCEPT ![r].pc = "scanning", ![r].found = {},
                          ![r].todo = Batch(known')]
    /\ progress' = Reported(r, "scanning")
    /\ UNCHANGED <<row, noted, tasks, settings, history>>

\* One scan is over, in any order.  One that fails after detecting something
\* keeps what it detected.
Scan(r, c, hit) ==
    /\ run[r].pc = "scanning" /\ c \in run[r].todo
    /\ run' = [run EXCEPT ![r].todo = @ \ {c},
                          ![r].found = IF hit THEN @ \cup {c} ELSE @]
    /\ progress' = Reported(r, "scanning")
    /\ UNCHANGED <<row, known, noted, tasks, settings, told, listed, leftOut,
                   unmarked, overlap, early, faults>>

\* set_notifying, and the beginning of send_digest.
Notify(r) ==
    /\ run[r].pc = "scanning" /\ run[r].todo = {}
    /\ progress' = Reported(r, "notifying")
    /\ LET hits == IF dryRun THEN {} ELSE run[r].found IN
       run' = [run EXCEPT ![r].pc = IF hits = {} THEN "concluding" ELSE "checking",
                          ![r].todo = hits, ![r].found = {}]
    /\ UNCHANGED <<row, known, noted, tasks, settings, history>>

MutantTellAgain(r, c) ==
    /\ run[r].pc = "checking" /\ c \in run[r].todo
    /\ run' = [run EXCEPT ![r].todo = @ \ {c}, ![r].found = @ \cup {c}]
    /\ UNCHANGED <<row, known, noted, progress, tasks, settings, history>>

\* _already_notified_today, one candidate after the other.
CheckNotified(r, c) ==
    /\ run[r].pc = "checking" /\ c \in run[r].todo
    /\ run' = [run EXCEPT ![r].todo = @ \ {c},
                          ![r].found = IF c \in noted THEN @ ELSE @ \cup {c}]
    /\ UNCHANGED <<row, known, noted, progress, tasks, settings, history>>

\* All of the hits were told today.
NothingFresh(r) ==
    /\ run[r].pc = "checking" /\ run[r].todo = {} /\ run[r].found = {}
    /\ Goto(r, "concluding")
    /\ UNCHANGED <<row, known, noted, progress, tasks, settings, history>>

\* The digests there are for the fresh hits: the best MaxListed of them.
Digests(fresh) == {l \in SUBSET fresh : /\ Cardinality(l) <= MaxListed
                                        /\ l # fresh => Cardinality(l) = MaxListed}

\* The digest is delivered, once, or more often if answers to it were lost.
Deliver(r, digest, copies) ==
    /\ run[r].pc = "checking" /\ run[r].todo = {} /\ run[r].found # {}
    /\ told' = [c \in Candidates |-> IF c \in digest THEN told[c] + copies ELSE told[c]]
    /\ listed' = listed \cup digest
    /\ leftOut' = leftOut \cup (run[r].found \ digest)
    /\ UNCHANGED <<row, known, noted, tasks, settings, unmarked, overlap,
                   early>>

SendDigest(r, digest, copies) ==
    /\ Deliver(r, digest, copies)
    /\ Goto(r, "noting")
    /\ IF copies = 1 THEN UNCHANGED faults
       ELSE faults < MaxFaults /\ faults' = faults + 1
    /\ UNCHANGED progress

\* The notifications are committed, also those of hits the digest left out.
NoteDigest(r) ==
    /\ run[r].pc = "noting"
    /\ noted' = noted \cup run[r].found
    /\ run' = [run EXCEPT ![r].pc = "concluding", ![r].found = {}]
    /\ UNCHANGED <<row, known, progress, tasks, settings, history>>

Conclude(r) ==
    /\ run[r].pc = "concluding"
    /\ row' = [row EXCEPT ![r] = "ok"]
    /\ progress' = Reported(r, "ok")
    /\ Goto(r, "closing")
    /\ UNCHANGED <<known, noted, tasks, settings, history>>

-----------------------------------------------------------------------------
(* Failures *)

Stops(r) == run' = [run EXCEPT ![r].pc = "failing", ![r].todo = {}, ![r].found = {}]

\* Something raises; the status page hears of it first.
Fail(r) ==
    /\ Working(r)
    /\ IF Conflict(r) THEN UNCHANGED faults
       ELSE faults < MaxFaults /\ faults' = faults + 1
    /\ Stops(r)
    /\ progress' = Reported(r, "failed")
    /\ UNCHANGED <<row, known, noted, tasks, settings, told, listed, leftOut,
                   unmarked, overlap, early>>

\* Every answer is lost: the digest is out and the run fails.
DeliverAndFail(r, digest, copies) ==
    /\ Deliver(r, digest, copies)
    /\ faults < MaxFaults /\ faults' = faults + 1
    /\ Stops(r)
    /\ progress' = Reported(r, "failed")

\* The row is marked, if the run had come to have one.
MarkFailed(r) ==
    /\ run[r].pc = "failing"
    /\ row' = [row EXCEPT ![r] = IF @ = "running" THEN "failed" ELSE @]
    /\ Goto(r, "raising")
    /\ UNCHANGED <<known, noted, progress, tasks, settings, history>>

MarkFails(r) ==
    /\ run[r].pc = "failing"
    /\ faults < MaxFaults /\ faults' = faults + 1
    /\ unmarked' = unmarked \cup {r}
    /\ Goto(r, "raising")
    /\ UNCHANGED <<row, known, noted, progress, tasks, settings, told, listed,
                   leftOut, overlap, early>>

\* The end of the finally clause.  The task of a run that failed reports the
\* failure once more.
End(r) ==
    /\ run[r].pc \in {"raising", "closing"}
    /\ Goto(r, "ended")
    /\ progress' = IF run[r].pc = "raising" THEN Reported(r, "failed") ELSE progress
    /\ callbacks' = IF run[r].api THEN callbacks \cup {r} ELSE callbacks
    /\ UNCHANGED <<row, known, noted, task, settings, history>>

\* _clear_task: the callback of a task forgets whatever task there is.
ClearTask(r) ==
    /\ r \in callbacks
    /\ callbacks' = callbacks \ {r}
    /\ task' = None
    /\ UNCHANGED <<run, row, known, noted, progress, settings, history>>

-----------------------------------------------------------------------------
NewDay ==
    /\ noted' = {}
    /\ told' = [c \in Candidates |-> 0]
    /\ UNCHANGED <<run, row, known, progress, tasks, settings, listed, leftOut,
                   unmarked, overlap, early, faults>>

\* The process stops and starts again.
Restart ==
    /\ faults < MaxFaults /\ faults' = faults + 1
    /\ run' = [r \in Runs |-> IF Active(r) THEN [Unused EXCEPT !.pc = "ended"]
                              ELSE run[r]]
    /\ unmarked' = unmarked \cup {r \in Runs : Active(r)}
    /\ progress' = "idle"
    /\ task' = None /\ callbacks' = {}
    /\ dryRun' = FALSE /\ maxTokens' = Configured
    /\ UNCHANGED <<row, known, noted, told, listed, leftOut, overlap, early>>

Start(r) == (\E dry \in BOOLEAN : StartApi(r, dry)) \/ StartJob(r)

RunDaily(r) ==
    \/ \E limit \in Limits : Begin(r, limit)
    \/ \E raw \in SUBSET Candidates : Upsert(r, raw)
    \/ UpsertCommits(r)
    \/ \E c \in run[r].todo :
          \/ \E hit \in BOOLEAN : Scan(r, c, hit)
          \/ CheckNotified(r, c)
    \/ Notify(r)
    \/ NothingFresh(r)
    \/ \E digest \in Digests(run[r].found), copies \in {1, 2} :
          SendDigest(r, digest, copies) \/ DeliverAndFail(r, digest, copies)
    \/ NoteDigest(r)
    \/ Conclude(r)
    \/ Fail(r)
    \/ MarkFailed(r)
    \/ MarkFails(r)
    \/ End(r)

Next == \/ \E r \in Runs : Start(r) \/ RunDaily(r) \/ ClearTask(r)
        \/ NewDay
        \/ Restart

Spec == Init /\ [][Next]_vars

-----------------------------------------------------------------------------
\* Without a failure, and as long as no run works beside another, no candidate
\* is in two digests of one day (_already_notified_today).
ToldOncePerDay ==
    \A c \in Candidates : told[c] > 1 => faults > 0 \/ overlap

\* A candidate is noted as told only if it was in a digest, or was one of more
\* hits than a digest has places for.
NotedWasTold == noted \subseteq listed \cup leftOut

\* The status page is right and the second of two requests is refused: a run of
\* the API that works is the one the runner knows and is shown as running,
\* unless it was started before the callback of the run before it.
OneApiRun ==
    early \/ \A r \in Runs : Working(r) /\ run[r].api => task = r /\ IsRunning

\* A run that is over does not stay "running" in the table, unless the table
\* could not be written.
RunIsConcluded ==
    \A r \in Runs : run[r].pc = "ended" /\ row[r] = "running" => r \in unmarked
=============================================================================
