---------------------------- MODULE WhaleProofs ----------------------------
(***************************************************************************)
(* What holds of every instance of WhaleScan: whatever runs are started,   *)
(* fail and are cut off, a candidate is told once a day, what is noted was *)
(* sent, the runner knows the run of the API that works, and the table has *)
(* the end of every run.                                                   *)
(***************************************************************************)
EXTENDS WhaleScan, TLAPS

\* Until a run is started too early, the runner's task is the one run of the API
\* that is active, a finished task whose callback is due is followed by none,
\* and the status says so.
ApiInv ==
    ~early =>
       /\ \A r \in Runs : Active(r) /\ run[r].api => task = r /\ callbacks = {}
       /\ \A r \in Runs : Working(r) /\ run[r].api => IsRunning

\* What a run is about to note was in a digest or had no place in it.
NotedInv ==
    /\ noted \subseteq listed \cup leftOut
    /\ \A r \in Runs : run[r].pc = "noting" => run[r].found \subseteq listed \cup leftOut

\* A run past its last write of the table has its end in it.
ConcludedInv ==
    \A r \in Runs : run[r].pc \in {"raising", "closing", "ended"} /\ row[r] = "running"
                       => r \in unmarked

\* Without failures and overlap one run works at a time, so what it found fresh
\* stays fresh, and what was told is noted or is being noted.
ToldInv ==
    faults = 0 /\ ~overlap =>
       /\ \A r, s \in Runs : Working(r) /\ Working(s) => r = s
       /\ \A c \in Candidates : told[c] <= 1
       /\ \A c \in Candidates : told[c] > 0 =>
             c \in noted \/ \E r \in Runs : run[r].pc = "noting" /\ c \in run[r].found
       /\ \A r \in Runs : run[r].pc = "checking" =>
             \A c \in run[r].found : told[c] = 0

Inv == TypeOK /\ ApiInv /\ NotedInv /\ ConcludedInv /\ ToldInv

\* What the coroutine of a run can be.
State == [pc : Phases \cup Over \cup {"unused"}, api : BOOLEAN,
          todo : SUBSET Candidates, found : SUBSET Candidates]

\* Nothing has been started, told or noted.
LEMMA InitInv == Init => Inv
<1> SUFFICES ASSUME Init PROVE Inv
  OBVIOUS
<1>1. TypeOK
  BY WhaleAssumption DEF WhaleAssumption, Init, TypeOK, Unused
<1>2. ApiInv /\ NotedInv /\ ConcludedInv /\ ToldInv
  BY DEF Init, ApiInv, NotedInv, ConcludedInv, ToldInv, Unused, Active, Working,
         Phases
<1> QED
  BY <1>1, <1>2 DEF Inv

\* A batch is chosen from the candidates, a digest from the hits.
LEMMA BatchIsKnown == \A all : Batch(all) \subseteq all
BY DEF Batch

\* The request is refused while a run of the API is active, so the new run is the
\* only one; without overlap it finds nobody at work.
LEMMA StartApiKeeps ==
    ASSUME Inv, NEW r \in Runs, NEW dry \in BOOLEAN, StartApi(r, dry)
    PROVE  Inv'
<1>1. TypeOK'
  BY DEF Inv, TypeOK, Phases, Over, Going, StartApi, Starts, Unused
<1>2. ApiInv'
  BY WhaleAssumption
  DEF Inv, TypeOK, ApiInv, Active, Working, Phases, IsRunning, Going, Over,
     WhaleAssumption, StartApi, Starts, Unused, TaskRunning
<1>3. NotedInv'
  BY DEF Inv, TypeOK, NotedInv, StartApi, Starts, Unused
<1>4. ConcludedInv'
  BY DEF Inv, TypeOK, ConcludedInv, StartApi, Starts, Unused
<1>5. ToldInv'
  BY DEF Inv, TypeOK, ToldInv, Working, Phases, StartApi, Starts, Unused
<1> QED
  BY <1>1, <1>2, <1>3, <1>4, <1>5 DEF Inv

\* The job leaves the task and the status to the API.
LEMMA StartJobKeeps ==
    ASSUME Inv, NEW r \in Runs, StartJob(r)
    PROVE  Inv'
<1>1. TypeOK'
  BY DEF Inv, TypeOK, Phases, Over, Going, StartJob, Starts, Unused, tasks,
         settings
<1>2. ApiInv'
  BY DEF Inv, TypeOK, ApiInv, Active, Working, Phases, IsRunning, Going, Over,
         StartJob, Starts, Unused, tasks, settings
<1>3. NotedInv'
  BY DEF Inv, TypeOK, NotedInv, StartJob, Starts, Unused, tasks, settings
<1>4. ConcludedInv'
  BY DEF Inv, TypeOK, ConcludedInv, StartJob, Starts, Unused, tasks, settings
<1>5. ToldInv'
  BY DEF Inv, TypeOK, ToldInv, Working, Phases, StartJob, Starts, Unused, tasks,
         settings
<1> QED
  BY <1>1, <1>2, <1>3, <1>4, <1>5 DEF Inv

\* The row is written as running; the run is not near its end.
LEMMA BeginKeeps ==
    ASSUME Inv, NEW r \in Runs, NEW limit \in Limits, Begin(r, limit)
    PROVE  Inv'
<1>1. TypeOK'
  BY DEF Inv, TypeOK, Phases, Over, Going, Begin, Goto, tasks, history
<1>2. ApiInv'
  BY DEF Inv, TypeOK, ApiInv, Active, Working, Phases, IsRunning, Going, Over,
         Begin, Goto, tasks, history
<1>3. NotedInv'
  BY DEF Inv, TypeOK, NotedInv, Begin, Goto, tasks, history
<1>4. ConcludedInv'
  BY DEF Inv, TypeOK, ConcludedInv, Begin, Goto, tasks, history
<1>5. ToldInv'
  BY DEF Inv, TypeOK, ToldInv, Working, Phases, Begin, Goto, tasks, history
<1> QED
  BY <1>1, <1>2, <1>3, <1>4, <1>5 DEF Inv

\* Reading the candidates changes nothing the invariants are about.
LEMMA UpsertKeeps ==
    ASSUME Inv, NEW r \in Runs, NEW raw \in SUBSET Candidates, Upsert(r, raw)
    PROVE  Inv'
<1>1. TypeOK'
  BY DEF Inv, TypeOK, Phases, Over, Going, Upsert, tasks, settings, history
<1>2. ApiInv'
  BY DEF Inv, TypeOK, ApiInv, Active, Working, Phases, IsRunning, Going, Over,
         Upsert, tasks, settings, history
<1>3. NotedInv'
  BY DEF Inv, TypeOK, NotedInv, Upsert, tasks, settings, history
<1>4. ConcludedInv'
  BY DEF Inv, TypeOK, ConcludedInv, Upsert, tasks, settings, history
<1>5. ToldInv'
  BY DEF Inv, TypeOK, ToldInv, Working, Phases, Upsert, tasks, settings, history
<1> QED
  BY <1>1, <1>2, <1>3, <1>4, <1>5 DEF Inv

\* The batch consists of candidates.
LEMMA UpsertCommitsKeeps ==
    ASSUME Inv, NEW r \in Runs, UpsertCommits(r)
    PROVE  Inv'
<1>1. TypeOK'
  <2>a. known' \subseteq Candidates /\ Batch(known') \subseteq Candidates
    BY BatchIsKnown DEF Inv, TypeOK, UpsertCommits
  <2> DEFINE T == Batch(known')
         F == {}
  <2>1. run[r] \in State
    BY DEF Inv, TypeOK, State
  <2>2. T \in SUBSET Candidates /\ F \in SUBSET Candidates
    BY <2>1, <2>a DEF State, Phases
  <2>3. run' = [run EXCEPT ![r] = [run[r] EXCEPT !.pc = "scanning", !.found = F, !.todo = T]]
    BY <2>1 DEF State, Inv, TypeOK, UpsertCommits
  <2>4. run' \in [Runs -> State]
    <3> HIDE DEF T, F
    <3>1. [run[r] EXCEPT !.pc = "scanning", !.found = F, !.todo = T] \in State
      BY <2>1, <2>2 DEF State, Phases
    <3> QED
      BY <2>3, <3>1 DEF Inv, TypeOK, State
  <2> QED
    BY <2>4, <2>a DEF Inv, TypeOK, State, Going, Reported, settings, tasks,
       history,
       UpsertCommits
<1>2. ApiInv'
  BY DEF Inv, TypeOK, ApiInv, Active, Working, Phases, IsRunning, Going, Over,
         UpsertCommits, Reported, tasks, settings, history
<1>3. NotedInv'
  BY DEF Inv, TypeOK, NotedInv, UpsertCommits, Reported, tasks, settings, history
<1>4. ConcludedInv'
  BY DEF Inv, TypeOK, ConcludedInv, UpsertCommits, Reported, tasks, settings,
         history
<1>5. ToldInv'
  BY DEF Inv, TypeOK, ToldInv, Working, Phases, UpsertCommits, Reported, tasks,
         settings, history
<1> QED
  BY <1>1, <1>2, <1>3, <1>4, <1>5 DEF Inv

\* A hit is a candidate of the batch.
LEMMA ScanKeeps ==
    ASSUME Inv, NEW r \in Runs, NEW c \in Candidates, NEW hit \in BOOLEAN,
           Scan(r, c, hit)
    PROVE  Inv'
<1>1. TypeOK'
  <2> DEFINE T == run[r].todo \ {c}
         F == IF hit THEN run[r].found \cup {c} ELSE run[r].found
  <2>1. run[r] \in State
    BY DEF Inv, TypeOK, State
  <2>2. T \in SUBSET Candidates /\ F \in SUBSET Candidates
    BY <2>1 DEF State, Phases
  <2>3. run' = [run EXCEPT ![r] = [run[r] EXCEPT !.todo = T, !.found = F]]
    BY <2>1 DEF State, Inv, TypeOK, Scan
  <2>4. run' \in [Runs -> State]
    <3> HIDE DEF T, F
    <3>1. [run[r] EXCEPT !.todo = T, !.found = F] \in State
      BY <2>1, <2>2 DEF State
    <3> QED
      BY <2>3, <3>1 DEF Inv, TypeOK, State
  <2> QED
    BY <2>4 DEF Inv, TypeOK, State, Going, Reported, settings, tasks, history,
       Scan
<1>2. ApiInv'
  BY DEF Inv, TypeOK, ApiInv, Active, Working, Phases, IsRunning, Going, Over,
         Scan, Reported, tasks, settings
<1>3. NotedInv'
  BY DEF Inv, TypeOK, NotedInv, Scan, Reported, tasks, settings
<1>4. ConcludedInv'
  BY DEF Inv, TypeOK, ConcludedInv, Scan, Reported, tasks, settings
<1>5. ToldInv'
  BY DEF Inv, TypeOK, ToldInv, Working, Phases, Scan, Reported, tasks, settings
<1> QED
  BY <1>1, <1>2, <1>3, <1>4, <1>5 DEF Inv

\* The digest starts with nothing found fresh.
LEMMA NotifyKeeps ==
    ASSUME Inv, NEW r \in Runs, Notify(r)
    PROVE  Inv'
<1>1. TypeOK'
  <2> DEFINE T == IF dryRun THEN {} ELSE run[r].found
         F == {}
         P == IF T = {} THEN "concluding" ELSE "checking"
  <2>1. run[r] \in State
    BY DEF Inv, TypeOK, State
  <2>2. T \in SUBSET Candidates /\ F \in SUBSET Candidates /\ P \in Phases
    BY <2>1 DEF State, Phases
  <2>3. run' = [run EXCEPT ![r] = [run[r] EXCEPT !.pc = P, !.todo = T, !.found = F]]
    BY <2>1 DEF State, Inv, TypeOK, Notify
  <2>4. run' \in [Runs -> State]
    <3> HIDE DEF T, F, P
    <3>1. [run[r] EXCEPT !.pc = P, !.todo = T, !.found = F] \in State
      BY <2>1, <2>2 DEF State
    <3> QED
      BY <2>3, <3>1 DEF Inv, TypeOK, State
  <2> QED
    BY <2>4 DEF Inv, TypeOK, State, Going, Reported, settings, tasks, history,
       Notify
<1>2. ApiInv'
  BY DEF Inv, TypeOK, ApiInv, Active, Working, Phases, IsRunning, Going, Over,
         Notify, Reported, tasks, settings, history
<1>3. NotedInv'
  BY DEF Inv, TypeOK, NotedInv, Notify, Reported, tasks, settings, history
<1>4. ConcludedInv'
  BY DEF Inv, TypeOK, ConcludedInv, Notify, Reported, tasks, settings, history
<1>5. ToldInv'
  BY DEF Inv, TypeOK, ToldInv, Working, Phases, Notify, Reported, tasks, settings,
         history
<1> QED
  BY <1>1, <1>2, <1>3, <1>4, <1>5 DEF Inv

\* A candidate that is not noted has not been told, since nobody else is noting.
LEMMA CheckKeeps ==
    ASSUME Inv, NEW r \in Runs, NEW c \in Candidates, CheckNotified(r, c)
    PROVE  Inv'
<1>1. TypeOK'
  <2> DEFINE T == run[r].todo \ {c}
         F == IF c \in noted THEN run[r].found ELSE run[r].found \cup {c}
  <2>1. run[r] \in State
    BY DEF Inv, TypeOK, State
  <2>2. T \in SUBSET Candidates /\ F \in SUBSET Candidates
    BY <2>1 DEF State, Phases
  <2>3. run' = [run EXCEPT ![r] = [run[r] EXCEPT !.todo = T, !.found = F]]
    BY <2>1 DEF State, Inv, TypeOK, CheckNotified
  <2>4. run' \in [Runs -> State]
    <3> HIDE DEF T, F
    <3>1. [run[r] EXCEPT !.todo = T, !.found = F] \in State
      BY <2>1, <2>2 DEF State
    <3> QED
      BY <2>3, <3>1 DEF Inv, TypeOK, State
  <2> QED
    BY <2>4 DEF Inv, TypeOK, State, Going, Reported, settings, tasks, history,
       CheckNotified
<1>2. ApiInv'
  BY DEF Inv, TypeOK, ApiInv, Active, Working, Phases, IsRunning, Going, Over,
         CheckNotified, tasks, settings, history
<1>3. NotedInv'
  BY DEF Inv, TypeOK, NotedInv, CheckNotified, tasks, settings, history
<1>4. ConcludedInv'
  BY DEF Inv, TypeOK, ConcludedInv, CheckNotified, tasks, settings, history
<1>5. ToldInv'
  BY DEF Inv, TypeOK, ToldInv, Working, Phases, CheckNotified, tasks, settings,
         history
<1> QED
  BY <1>1, <1>2, <1>3, <1>4, <1>5 DEF Inv

\* With nothing fresh the run goes on to its conclusion.
LEMMA NothingFreshKeeps ==
    ASSUME Inv, NEW r \in Runs, NothingFresh(r)
    PROVE  Inv'
<1>1. TypeOK'
  BY DEF Inv, TypeOK, Phases, Over, Going, NothingFresh, Goto, tasks, settings,
         history
<1>2. ApiInv'
  BY DEF Inv, TypeOK, ApiInv, Active, Working, Phases, IsRunning, Going, Over,
         NothingFresh, Goto, tasks, settings, history
<1>3. NotedInv'
  BY DEF Inv, TypeOK, NotedInv, NothingFresh, Goto, tasks, settings, history
<1>4. ConcludedInv'
  BY DEF Inv, TypeOK, ConcludedInv, NothingFresh, Goto, tasks, settings, history
<1>5. ToldInv'
  BY DEF Inv, TypeOK, ToldInv, Working, Phases, NothingFresh, Goto, tasks,
         settings, history
<1> QED
  BY <1>1, <1>2, <1>3, <1>4, <1>5 DEF Inv

\* The digest lists what was fresh, once, and the run is about to note it.
LEMMA SendKeeps ==
    ASSUME Inv, NEW r \in Runs, NEW digest \in SUBSET run[r].found,
           NEW copies \in {1, 2},
           SendDigest(r, digest, copies)
    PROVE  Inv'
<1>1. TypeOK'
  BY DEF Inv, TypeOK, Phases, Over, Going, SendDigest, Deliver, Goto, tasks,
         settings
<1>2. ApiInv'
  BY DEF Inv, TypeOK, ApiInv, Active, Working, Phases, IsRunning, Going, Over,
         SendDigest, Deliver, Goto, tasks, settings
<1>3. NotedInv'
  BY DEF Inv, TypeOK, NotedInv, SendDigest, Deliver, Goto, tasks, settings
<1>4. ConcludedInv'
  BY DEF Inv, TypeOK, ConcludedInv, SendDigest, Deliver, Goto, tasks, settings
<1>5. ToldInv'
  BY DEF Inv, TypeOK, ToldInv, Working, Phases, SendDigest, Deliver, Goto, tasks,
         settings
<1> QED
  BY <1>1, <1>2, <1>3, <1>4, <1>5 DEF Inv

\* What was to be noted is noted.
LEMMA NoteKeeps ==
    ASSUME Inv, NEW r \in Runs, NoteDigest(r)
    PROVE  Inv'
<1>1. TypeOK'
  BY DEF Inv, TypeOK, Phases, Over, Going, NoteDigest, tasks, settings, history
<1>2. ApiInv'
  BY DEF Inv, TypeOK, ApiInv, Active, Working, Phases, IsRunning, Going, Over,
         NoteDigest, tasks, settings, history
<1>3. NotedInv'
  BY DEF Inv, TypeOK, NotedInv, NoteDigest, tasks, settings, history
<1>4. ConcludedInv'
  BY DEF Inv, TypeOK, ConcludedInv, NoteDigest, tasks, settings, history
<1>5. ToldInv'
  BY DEF Inv, TypeOK, ToldInv, Working, Phases, NoteDigest, tasks, settings,
         history
<1> QED
  BY <1>1, <1>2, <1>3, <1>4, <1>5 DEF Inv

\* The row says ok, and the status with it.
LEMMA ConcludeKeeps ==
    ASSUME Inv, NEW r \in Runs, Conclude(r)
    PROVE  Inv'
<1>1. TypeOK'
  BY DEF Inv, TypeOK, Phases, Over, Going, Conclude, Goto, Reported, tasks,
         settings, history
<1>2. ApiInv'
  BY DEF Inv, TypeOK, ApiInv, Active, Working, Phases, IsRunning, Going, Over,
         Conclude, Goto, Reported, tasks, settings, history
<1>3. NotedInv'
  BY DEF Inv, TypeOK, NotedInv, Conclude, Goto, Reported, tasks, settings, history
<1>4. ConcludedInv'
  BY DEF Inv, TypeOK, ConcludedInv, Conclude, Goto, Reported, tasks, settings,
         history
<1>5. ToldInv'
  BY DEF Inv, TypeOK, ToldInv, Working, Phases, Conclude, Goto, Reported, tasks,
         settings, history
<1> QED
  BY <1>1, <1>2, <1>3, <1>4, <1>5 DEF Inv

\* A run that fails works no longer; without a fault it was not noting.
LEMMA FailKeeps ==
    ASSUME Inv, NEW r \in Runs, Fail(r)
    PROVE  Inv'
<1>1. TypeOK'
  <2>1. /\ run[r] \in State /\ run'[r] = [run[r] EXCEPT !.pc = "failing", !.todo = {}, !.found = {}]
        /\ run' = [run EXCEPT ![r] = run'[r]]
    BY DEF Inv, TypeOK, State, Fail, Stops
  <2>2. run'[r] \in State
    BY <2>1 DEF State, Phases, Over
  <2>3. run' \in [Runs -> State]
    BY <2>1, <2>2 DEF Inv, TypeOK, State
  <2> QED
    BY <2>3 DEF Inv, TypeOK, State, Going, Reported, settings, tasks, history,
       Fail, Stops
<1>2. ApiInv'
  BY DEF Inv, TypeOK, ApiInv, Active, Working, Phases, IsRunning, Going, Over,
         Fail, Stops, Reported, tasks, settings, Conflict
<1>3. NotedInv'
  BY DEF Inv, TypeOK, NotedInv, Fail, Stops, Reported, tasks, settings, Conflict
<1>4. ConcludedInv'
  BY DEF Inv, TypeOK, ConcludedInv, Fail, Stops, Reported, tasks, settings,
         Conflict
<1>5. ToldInv'
  BY DEF Inv, TypeOK, ToldInv, Working, Phases, Fail, Stops, Reported, tasks,
         settings, Conflict
<1> QED
  BY <1>1, <1>2, <1>3, <1>4, <1>5 DEF Inv

\* A digest whose answers are lost is a fault.
LEMMA DeliverAndFailKeeps ==
    ASSUME Inv, NEW r \in Runs, NEW digest \in SUBSET run[r].found,
           NEW copies \in {1, 2},
           DeliverAndFail(r, digest, copies)
    PROVE  Inv'
<1>1. TypeOK'
  BY DEF Inv, TypeOK, Phases, Over, Going, DeliverAndFail, Deliver, Stops,
         Reported, tasks, settings
<1>2. ApiInv'
  BY DEF Inv, TypeOK, ApiInv, Active, Working, Phases, IsRunning, Going, Over,
         DeliverAndFail, Deliver, Stops, Reported, tasks, settings
<1>3. NotedInv'
  BY DEF Inv, TypeOK, NotedInv, DeliverAndFail, Deliver, Stops, Reported, tasks,
         settings
<1>4. ConcludedInv'
  BY DEF Inv, TypeOK, ConcludedInv, DeliverAndFail, Deliver, Stops, Reported,
         tasks, settings
<1>5. ToldInv'
  BY DEF Inv, TypeOK, ToldInv, Working, Phases, DeliverAndFail, Deliver, Stops,
         Reported, tasks, settings
<1> QED
  BY <1>1, <1>2, <1>3, <1>4, <1>5 DEF Inv

\* The row no longer says running.
LEMMA MarkFailedKeeps ==
    ASSUME Inv, NEW r \in Runs, MarkFailed(r)
    PROVE  Inv'
<1>1. TypeOK'
  BY DEF Inv, TypeOK, Phases, Over, Going, MarkFailed, Goto, tasks, settings,
         history
<1>2. ApiInv'
  BY DEF Inv, TypeOK, ApiInv, Active, Working, Phases, IsRunning, Going, Over,
         MarkFailed, Goto, tasks, settings, history
<1>3. NotedInv'
  BY DEF Inv, TypeOK, NotedInv, MarkFailed, Goto, tasks, settings, history
<1>4. ConcludedInv'
  BY DEF Inv, TypeOK, ConcludedInv, MarkFailed, Goto, tasks, settings, history
<1>5. ToldInv'
  BY DEF Inv, TypeOK, ToldInv, Working, Phases, MarkFailed, Goto, tasks, settings,
         history
<1> QED
  BY <1>1, <1>2, <1>3, <1>4, <1>5 DEF Inv

\* A run whose failure is not recorded is among the unmarked.
LEMMA MarkFailsKeeps ==
    ASSUME Inv, NEW r \in Runs, MarkFails(r)
    PROVE  Inv'
<1>1. TypeOK'
  BY DEF Inv, TypeOK, Phases, Over, Going, MarkFails, Goto, tasks, settings
<1>2. ApiInv'
  BY DEF Inv, TypeOK, ApiInv, Active, Working, Phases, IsRunning, Going, Over,
         MarkFails, Goto, tasks, settings
<1>3. NotedInv'
  BY DEF Inv, TypeOK, NotedInv, MarkFails, Goto, tasks, settings
<1>4. ConcludedInv'
  BY DEF Inv, TypeOK, ConcludedInv, MarkFails, Goto, tasks, settings
<1>5. ToldInv'
  BY DEF Inv, TypeOK, ToldInv, Working, Phases, MarkFails, Goto, tasks, settings
<1> QED
  BY <1>1, <1>2, <1>3, <1>4, <1>5 DEF Inv

\* What ends has passed its last write of the row.
LEMMA EndKeeps ==
    ASSUME Inv, NEW r \in Runs, End(r)
    PROVE  Inv'
<1>1. TypeOK'
  BY DEF Inv, TypeOK, Phases, Over, Going, End, Goto, Reported, settings, history
<1>2. ApiInv'
  BY DEF Inv, TypeOK, ApiInv, Active, Working, Phases, IsRunning, Going, Over,
         End, Goto, Reported, settings, history
<1>3. NotedInv'
  BY DEF Inv, TypeOK, NotedInv, End, Goto, Reported, settings, history
<1>4. ConcludedInv'
  BY DEF Inv, TypeOK, ConcludedInv, End, Goto, Reported, settings, history
<1>5. ToldInv'
  BY DEF Inv, TypeOK, ToldInv, Working, Phases, End, Goto, Reported, settings,
         history
<1> QED
  BY <1>1, <1>2, <1>3, <1>4, <1>5 DEF Inv

\* A callback that is due has no active run to forget, unless one came too early.
LEMMA ClearTaskKeeps ==
    ASSUME Inv, NEW r \in Runs, ClearTask(r)
    PROVE  Inv'
<1>1. TypeOK'
  BY DEF Inv, TypeOK, Phases, Over, Going, ClearTask, settings, history
<1>2. ApiInv'
  BY DEF Inv, TypeOK, ApiInv, Active, Working, Phases, IsRunning, Going, Over,
         ClearTask, settings, history
<1>3. NotedInv'
  BY DEF Inv, TypeOK, NotedInv, ClearTask, settings, history
<1>4. ConcludedInv'
  BY DEF Inv, TypeOK, ConcludedInv, ClearTask, settings, history
<1>5. ToldInv'
  BY DEF Inv, TypeOK, ToldInv, Working, Phases, ClearTask, settings, history
<1> QED
  BY <1>1, <1>2, <1>3, <1>4, <1>5 DEF Inv

\* On a new day nothing was told.
LEMMA NewDayKeeps ==
    ASSUME Inv, NewDay
    PROVE  Inv'
<1>1. TypeOK'
  BY DEF Inv, TypeOK, Phases, Over, Going, NewDay, tasks, settings
<1>2. ApiInv'
  BY DEF Inv, TypeOK, ApiInv, Active, Working, Phases, IsRunning, Going, Over,
         NewDay, tasks, settings
<1>3. NotedInv'
  BY DEF Inv, TypeOK, NotedInv, NewDay, tasks, settings
<1>4. ConcludedInv'
  BY DEF Inv, TypeOK, ConcludedInv, NewDay, tasks, settings
<1>5. ToldInv'
  BY DEF Inv, TypeOK, ToldInv, Working, Phases, NewDay, tasks, settings
<1> QED
  BY <1>1, <1>2, <1>3, <1>4, <1>5 DEF Inv

\* A restart leaves no run active, and counts as a fault.
LEMMA RestartKeeps ==
    ASSUME Inv, Restart
    PROVE  Inv'
<1>1. TypeOK'
  <2>1. [Unused EXCEPT !.pc = "ended"] \in State
    BY DEF Unused, State, Over
  <2>2. run \in [Runs -> State]
    BY DEF Inv, TypeOK, State
  <2>3. run' \in [Runs -> State]
    BY <2>1, <2>2 DEF Restart
  <2>4. unmarked' \subseteq Runs /\ faults' \in Nat
    BY DEF Inv, TypeOK, Restart
  <2>5. /\ progress' = "idle" /\ task' = None /\ callbacks' = {}
        /\ dryRun' = FALSE /\ maxTokens' \in Limits
    BY WhaleAssumption DEF WhaleAssumption, Restart
  <2> QED
    BY <2>3, <2>4, <2>5 DEF Inv, TypeOK, State, Restart
<1>2. ApiInv'
  BY DEF Inv, TypeOK, ApiInv, Active, Working, Phases, IsRunning, Going, Over,
         Restart, Unused
<1>3. NotedInv'
  BY DEF Inv, TypeOK, NotedInv, Restart, Unused
<1>4. ConcludedInv'
  BY DEF Inv, TypeOK, ConcludedInv, Restart, Unused
<1>5. ToldInv'
  BY DEF Inv, TypeOK, ToldInv, Working, Phases, Restart, Unused
<1> QED
  BY <1>1, <1>2, <1>3, <1>4, <1>5 DEF Inv

\* Every step of a run, of the runner and of the environment keeps the invariant.
LEMMA NextKeeps ==
    ASSUME Inv, [Next]_vars
    PROVE  Inv'
<1>1. ASSUME NEW r \in Runs, Start(r)
      PROVE  Inv'
  BY <1>1, StartApiKeeps, StartJobKeeps DEF Start
<1>2. ASSUME NEW r \in Runs, RunDaily(r)
      PROVE  Inv'
  <2>1. \A digest \in Digests(run[r].found) : digest \in SUBSET run[r].found
    BY DEF Digests
  <2>2. \A c \in run[r].todo : c \in Candidates
    BY DEF Inv, TypeOK
  <2>3. CASE \E limit \in Limits : Begin(r, limit)
    BY <2>3, BeginKeeps
  <2>4. CASE \E raw \in SUBSET Candidates : Upsert(r, raw)
    BY <2>4, UpsertKeeps
  <2>5. CASE UpsertCommits(r)
    BY <2>5, UpsertCommitsKeeps
  <2>6. CASE \E c \in run[r].todo : \E hit \in BOOLEAN : Scan(r, c, hit)
    BY <2>2, <2>6, ScanKeeps
  <2>7. CASE \E c \in run[r].todo : CheckNotified(r, c)
    BY <2>2, <2>7, CheckKeeps
  <2>8. CASE Notify(r)
    BY <2>8, NotifyKeeps
  <2>9. CASE NothingFresh(r)
    BY <2>9, NothingFreshKeeps
  <2>10. CASE \E digest \in Digests(run[r].found), copies \in {1, 2} :
                 SendDigest(r, digest, copies)
    <3>1. PICK digest \in Digests(run[r].found), copies \in {1, 2} :
              SendDigest(r, digest, copies)
      BY <2>10
    <3>2. digest \in SUBSET run[r].found
      BY <2>1
    <3> QED
      BY <3>1, <3>2, SendKeeps
  <2>11. CASE \E digest \in Digests(run[r].found), copies \in {1, 2} :
                 DeliverAndFail(r, digest, copies)
    <3>1. PICK digest \in Digests(run[r].found), copies \in {1, 2} :
              DeliverAndFail(r, digest, copies)
      BY <2>11
    <3>2. digest \in SUBSET run[r].found
      BY <2>1
    <3> QED
      BY <3>1, <3>2, DeliverAndFailKeeps
  <2>12. CASE NoteDigest(r)
    BY <2>12, NoteKeeps
  <2>13. CASE Conclude(r)
    BY <2>13, ConcludeKeeps
  <2>14. CASE Fail(r)
    BY <2>14, FailKeeps
  <2>15. CASE MarkFailed(r) \/ MarkFails(r)
    BY <2>15, MarkFailedKeeps, MarkFailsKeeps
  <2>16. CASE End(r)
    BY <2>16, EndKeeps
  <2> QED
    BY <1>2, <2>3, <2>4, <2>5, <2>6, <2>7, <2>8, <2>9, <2>10, <2>11, <2>12, <2>13,
       <2>14, <2>15, <2>16 DEF RunDaily
<1>3. ASSUME NEW r \in Runs, ClearTask(r)
      PROVE  Inv'
  BY <1>3, ClearTaskKeeps
<1>4. CASE NewDay \/ Restart
  BY <1>4, NewDayKeeps, RestartKeeps
<1>5. CASE UNCHANGED vars
  <2>1. TypeOK'
    BY <1>5 DEF Inv, TypeOK, vars, tasks, settings, history
  <2>2. ApiInv'
    BY <1>5 DEF Inv, ApiInv, Active, Working, IsRunning, vars, tasks, settings,
       history
  <2>3. NotedInv' /\ ConcludedInv'
    BY <1>5 DEF Inv, NotedInv, ConcludedInv, vars, tasks, settings, history
  <2>4. ToldInv'
    BY <1>5 DEF Inv, ToldInv, Working, vars, tasks, settings, history
  <2> QED
    BY <2>1, <2>2, <2>3, <2>4 DEF Inv
<1> QED
  BY <1>1, <1>2, <1>3, <1>4, <1>5 DEF Next

\* The invariant holds throughout (all of run_daily and its callers).
THEOREM Invariant == Spec => []Inv
<1>1. Init => Inv
  BY InitInv
<1>2. Inv /\ [Next]_vars => Inv'
  BY NextKeeps
<1> QED
  BY <1>1, <1>2, PTL DEF Spec

\* Every reachable state of the scanner is well typed.
THEOREM WhaleTypes == Spec => []TypeOK
<1>1. Inv => TypeOK
  BY DEF Inv
<1> QED
  BY <1>1, Invariant, PTL

\* Without a failure or overlapping runs no candidate is in two digests of a day,
\* whatever the limits, days and dry runs (send_digest).
THEOREM NobodyIsToldTwice == Spec => []ToldOncePerDay
<1>1. Inv => ToldOncePerDay
  <2> SUFFICES ASSUME Inv, NEW c \in Candidates, told[c] > 1, ~(faults > 0), ~overlap
               PROVE  FALSE
    BY DEF Inv, TypeOK, ToldOncePerDay
  <2>1. faults = 0 /\ told[c] \in Nat
    BY DEF Inv, TypeOK
  <2> QED
    BY <2>1 DEF Inv, ToldInv
<1> QED
  BY <1>1, Invariant, PTL

\* Whatever fails, a notification in the table stands for a hit of a digest that
\* was delivered (send_digest).
THEOREM NotesAreTrue == Spec => []NotedWasTold
<1>1. Inv => NotedWasTold
  BY DEF Inv, NotedInv, NotedWasTold
<1> QED
  BY <1>1, Invariant, PTL

\* The guard of start_background_scan keeps out a second run of the API, and the
\* status page shows the one there is, unless a run starts before a callback.
THEOREM OneRunIsKnown == Spec => []OneApiRun
<1>1. Inv => OneApiRun
  BY DEF Inv, TypeOK, ApiInv, OneApiRun, Active, Working, Phases
<1> QED
  BY <1>1, Invariant, PTL

\* Every run that ends is recorded as ok or failed, unless the table could not be
\* written or the process stopped (run_daily).
THEOREM RunsAreConcluded == Spec => []RunIsConcluded
<1>1. Inv => RunIsConcluded
  BY DEF Inv, ConcludedInv, RunIsConcluded
<1> QED
  BY <1>1, Invariant, PTL
=============================================================================
