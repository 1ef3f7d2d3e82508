----------------------------- MODULE Broadcast -----------------------------
(***************************************************************************)
(* The Telegram broadcast pipeline: HTTP requests and background services  *)
(* commit a BroadcastMessage row and put it on the in-process queue, the   *)
(* scheduled-broadcast job does the same for due rows, and one worker      *)
(* dispatches the queue to the resolved channels.  Every database session  *)
(* is its own transaction (READ COMMITTED, autoflush off): what it wrote   *)
(* becomes visible at its commit, and from its first flush of a row to its *)
(* commit it holds that row's lock.                                        *)
(***************************************************************************)
EXTENDS Naturals, Sequences

CONSTANTS
    Instant,        \* manual, alert and AI messages: committed, then enqueued
    Scheduled,      \* messages created with scheduled_at
    Signals,        \* strategy-signal messages: they carry a dedup key
    Keys,           \* the dedup keys
    KeyOf,          \* the dedup key of each signal message
    NoKey,          \* the dedup_key of a message that has none
    NoItem,         \* the idle worker's item
    Channels,       \* telegram_channels rows
    Audience,       \* per message: the target ids, or the rows its type's toggle selects
    MaxQueue,       \* asyncio.Queue(maxsize)
    MaxFaults       \* bound: crashes, failed transactions and lost answers

Msgs == Instant \cup Scheduled \cup Signals

ASSUME ConstantsAssumption ==
    /\ Instant \cap Scheduled = {}
    /\ Signals \cap (Instant \cup Scheduled) = {}
    /\ KeyOf \in [Signals -> Keys]
    /\ NoKey \notin Keys
    /\ NoItem \notin [msg : Msgs, key : Keys \cup {NoKey}]
    /\ Audience \in [Msgs -> SUBSET Channels]
    /\ MaxQueue \in Nat \ {0}
    /\ MaxFaults \in 0..3        \* at most MAX_RETRIES extra copies of one send

VARIABLES
    status,     \* broadcast_messages.status as committed; "absent" before the row exists
    logs,       \* broadcast_logs.status per message and channel, as committed
    sched,      \* scheduled_broadcasts.status, as committed
    channel,    \* telegram_channels rows: active, inactive or gone
    queue,      \* BroadcastQueue._queue
    recent,     \* keys of BroadcastQueue._recent still inside the dedup window
    worker,     \* the queue worker and the session of the item it dispatches
    req,        \* per message: the session of the request that created it
    batch,      \* the session of the scheduled-broadcast job
    cancel,     \* per message: a cancel request that has read the row
    sends,      \* history: messages Telegram delivered, per message and channel
    handled,    \* history: messages whose dispatch callback has returned
    faults      \* history: crashes, failed transactions and lost answers so far

vars == <<status, logs, sched, channel, queue, recent, worker, req, batch,
          cancel, sends, handled, faults>>

MessageStatus == {"absent", "pending", "queued", "sent", "partial", "failed", "cancelled"}
LogStatus     == {"none", "sent", "failed"}
SchedStatus   == {"none", "pending", "sent", "cancelled"}
ReqStatus     == {"none", "committed", "queued", "failed", "done"}
Item          == [msg : Msgs, key : Keys \cup {NoKey}]

DedupKey(m) == IF m \in Signals THEN KeyOf[m] ELSE NoKey

IdleWork  == [pc |-> "idle", item |-> NoItem, loaded |-> "absent",
              todo |-> {}, ok |-> {}, bad |-> {}, opened |-> {}]
IdleBatch == [todo |-> {}, marked |-> {}, full |-> {}, dirty |-> {}]

TypeOK ==
    /\ status \in [Msgs -> MessageStatus]
    /\ logs \in [Msgs -> [Channels -> LogStatus]]
    /\ sched \in [Msgs -> SchedStatus]
    /\ channel \in [Channels -> {"active", "inactive", "gone"}]
    /\ queue \in Seq(Item) /\ Len(queue) <= MaxQueue
    /\ recent \subseteq Keys
    /\ worker \in [pc : {"idle", "taken", "sending", "returned"},
                   item : Item \cup {NoItem}, loaded : MessageStatus,
                   todo : SUBSET Channels, ok : SUBSET Channels,
                   bad : SUBSET Channels, opened : SUBSET Channels]
    /\ worker.pc # "idle" => worker.item \in Item
    /\ req \in [Msgs -> ReqStatus]
    /\ batch \in [todo : SUBSET Scheduled, marked : SUBSET Scheduled,
                  full : SUBSET Scheduled, dirty : SUBSET Scheduled]
    /\ cancel \subseteq Msgs
    /\ sends \in [Msgs -> [Channels -> Nat]]
    /\ handled \subseteq Msgs
    /\ faults \in 0..MaxFaults

Init ==
    /\ status = [m \in Msgs |-> "absent"]
    /\ logs = [m \in Msgs |-> [c \in Channels |-> "none"]]
    /\ sched = [m \in Msgs |-> "none"]
    /\ channel = [c \in Channels |-> "active"]
    /\ queue = <<>>
    /\ recent = {}
    /\ worker = IdleWork
    /\ req = [m \in Msgs |-> "none"]
    /\ batch = IdleBatch
    /\ cancel = {}
    /\ sends = [m \in Msgs |-> [c \in Channels |-> 0]]
    /\ handled = {}
    /\ faults = 0

-----------------------------------------------------------------------------
(* Row locks, which follow from what each open session has flushed. *)

WorkerLocks(m)    == worker.pc = "sending" /\ worker.opened # {} /\ worker.item.msg = m
SchedulerLocks(m) == m \in batch.marked \ batch.dirty   \* message row flushed
ScheduleRowLocked(m) == m \in batch.marked

(* Operators named Mutant... are not part of the specification: each is a     *)
(* plausible bug, put in the place of the definition that follows it to show  *)
(* which property notices.                                                    *)

MutantSmallerQueue(m) == DedupKey(m) \notin recent /\ Len(queue) + 1 < MaxQueue

(* BroadcastQueue.enqueue: refused when the key was dispatched recently, *)
(* dropped when the queue is full.                                       *)
Accepts(m) == DedupKey(m) \notin recent /\ Len(queue) < MaxQueue
Put(m)     == Append(queue, [msg |-> m, key |-> DedupKey(m)])

-----------------------------------------------------------------------------
(* Requests and services that create a message. *)

MutantEnqueueBeforeCommit(m) ==
    /\ m \in Instant \cup Signals
    /\ req[m] = "none"
    /\ req' = [req EXCEPT ![m] = "committed"]
    /\ UNCHANGED <<status, logs, sched, channel, queue, recent, worker, batch,
                   cancel, sends, handled, faults>>

\* send_manual without scheduled_at, send_ai_broadcast or send_signal_broadcast,
\* then db.commit().  A signal whose key was dispatched recently creates nothing.
CreateMessage(m) ==
    /\ m \in Instant \cup Signals
    /\ status[m] = "absent"
    /\ DedupKey(m) \notin recent
    /\ status' = [status EXCEPT ![m] = "pending"]
    /\ req' = [req EXCEPT ![m] = "committed"]
    /\ UNCHANGED <<logs, sched, channel, queue, recent, worker, batch, cancel,
                   sends, handled, faults>>

\* schedule_broadcast: the message and its scheduled_broadcasts row in one commit.
ScheduleMessage(m) ==
    /\ m \in Scheduled
    /\ status[m] = "absent"
    /\ status' = [status EXCEPT ![m] = "pending"]
    /\ sched' = [sched EXCEPT ![m] = "pending"]
    /\ UNCHANGED <<logs, channel, queue, recent, worker, req, batch, cancel,
                   sends, handled, faults>>

MutantIgnoreRefusal(m) ==
    /\ req[m] = "committed"
    /\ queue' = IF Accepts(m) THEN Put(m) ELSE queue
    /\ req' = [req EXCEPT ![m] = "queued"]
    /\ UNCHANGED <<status, logs, sched, channel, recent, worker, batch, cancel,
                   sends, handled, faults>>

\* enqueue_committed_message -> _enqueue: the status is set on the session's
\* object only; the row changes when that session commits again.
EnqueueCommitted(m) ==
    /\ req[m] = "committed"
    /\ IF Accepts(m)
       THEN queue' = Put(m) /\ req' = [req EXCEPT ![m] = "queued"]
       ELSE UNCHANGED queue /\ req' = [req EXCEPT ![m] = "failed"]
    /\ UNCHANGED <<status, logs, sched, channel, recent, worker, batch, cancel,
                   sends, handled, faults>>

\* The commit get_db issues when the request ends.  Its UPDATE waits while the
\* worker holds the row's lock, and does not look at the status it overwrites.
CommitRequest(m) ==
    /\ req[m] \in {"queued", "failed"}
    /\ ~WorkerLocks(m)
    /\ status' = [status EXCEPT ![m] = req[m]]
    /\ req' = [req EXCEPT ![m] = "done"]
    /\ UNCHANGED <<logs, sched, channel, queue, recent, worker, batch, cancel,
                   sends, handled, faults>>

\* A session closed without a second commit (the insight refresh job), or one
\* whose request failed after the message was enqueued.
CloseRequest(m) ==
    /\ req[m] \in {"queued", "failed"}
    /\ req' = [req EXCEPT ![m] = "done"]
    /\ UNCHANGED <<status, logs, sched, channel, queue, recent, worker, batch,
                   cancel, sends, handled, faults>>

\* The refresh between the commit and the enqueue fails.
FailRequest(m) ==
    /\ req[m] = "committed"
    /\ faults < MaxFaults
    /\ faults' = faults + 1
    /\ req' = [req EXCEPT ![m] = "done"]
    /\ UNCHANGED <<status, logs, sched, channel, queue, recent, worker, batch,
                   cancel, sends, handled>>

-----------------------------------------------------------------------------
(* cancel_broadcast: read the row, then update both rows and commit. *)

ReadForCancel(m) ==
    /\ m \notin cancel
    /\ status[m] \in {"pending", "queued"}
    /\ cancel' = cancel \cup {m}
    /\ UNCHANGED <<status, logs, sched, channel, queue, recent, worker, req,
                   batch, sends, handled, faults>>

CommitCancel(m) ==
    /\ m \in cancel
    /\ ~WorkerLocks(m)
    /\ ~ScheduleRowLocked(m)
    /\ status' = [status EXCEPT ![m] = "cancelled"]
    /\ sched' = [sched EXCEPT ![m] = IF @ = "none" THEN @ ELSE "cancelled"]
    /\ cancel' = cancel \ {m}
    /\ UNCHANGED <<logs, channel, queue, recent, worker, req, batch, sends,
                   handled, faults>>

-----------------------------------------------------------------------------
(* _process_scheduled_broadcasts, one job at a time (max_instances=1).      *)

\* The SELECT: which pending rows are due is a matter of the clock.
SelectDue ==
    /\ batch = IdleBatch
    /\ \E due \in SUBSET {m \in Scheduled : sched[m] = "pending"} :
          /\ due # {}
          /\ batch' = [IdleBatch EXCEPT !.todo = due]
    /\ UNCHANGED <<status, logs, sched, channel, queue, recent, worker, req,
                   cancel, sends, handled, faults>>

\* sched.status = "sent", flush (with the statuses the earlier rounds left
\* dirty), then dispatch_message_id -> _enqueue.
HandOver(m) ==
    /\ m \in batch.todo
    /\ \A d \in batch.dirty : ~WorkerLocks(d)
    /\ IF Accepts(m) THEN queue' = Put(m) ELSE UNCHANGED queue
    /\ batch' = [todo   |-> batch.todo \ {m},
                 marked |-> batch.marked \cup {m},
                 full   |-> IF Accepts(m) THEN batch.full ELSE batch.full \cup {m},
                 dirty  |-> {m}]
    /\ UNCHANGED <<status, logs, sched, channel, recent, worker, req, cancel,
                   sends, handled, faults>>

MutantScheduleNotMarked ==
    /\ batch.todo = {} /\ batch.marked # {}
    /\ status' = [m \in Msgs |-> IF m \in batch.marked THEN "queued" ELSE status[m]]
    /\ batch' = IdleBatch
    /\ UNCHANGED <<logs, sched, channel, queue, recent, worker, req, cancel,
                   sends, handled, faults>>

CommitBatch ==
    /\ batch.todo = {} /\ batch.marked # {}
    /\ \A d \in batch.dirty : ~WorkerLocks(d)
    /\ status' = [m \in Msgs |-> IF m \notin batch.marked THEN status[m]
                                 ELSE IF m \in batch.full THEN "failed" ELSE "queued"]
    /\ sched' = [m \in Msgs |-> IF m \in batch.marked THEN "sent" ELSE sched[m]]
    /\ batch' = IdleBatch
    /\ UNCHANGED <<logs, channel, queue, recent, worker, req, cancel, sends,
                   handled, faults>>

\* A failed statement (or losing a database deadlock against a cancel) rolls
\* the whole batch back; what it put on the queue stays there.
RollbackBatch ==
    /\ batch # IdleBatch
    /\ faults < MaxFaults
    /\ faults' = faults + 1
    /\ batch' = IdleBatch
    /\ UNCHANGED <<status, logs, sched, channel, queue, recent, worker, req,
                   cancel, sends, handled>>

-----------------------------------------------------------------------------
(* BroadcastQueue._worker and BroadcastService._process_queue_item. *)

TakeItem ==
    /\ worker.pc = "idle" /\ queue # <<>>
    /\ worker' = [IdleWork EXCEPT !.pc = "taken", !.item = Head(queue)]
    /\ queue' = Tail(queue)
    /\ UNCHANGED <<status, logs, sched, channel, recent, req, batch, cancel,
                   sends, handled, faults>>

\* _resolve_channels
Resolved(m) == {c \in Audience[m] : channel[c] = "active"}

MutantNoChannelIgnored ==
    /\ worker.pc = "taken"
    /\ LET m == worker.item.msg IN
          worker' = IF status[m] = "absent" \/ Resolved(m) = {}
                    THEN [worker EXCEPT !.pc = "returned"]
                    ELSE [worker EXCEPT !.pc = "sending", !.loaded = status[m],
                                        !.todo = Resolved(m)]
    /\ UNCHANGED <<status, logs, sched, channel, queue, recent, req, batch,
                   cancel, sends, handled, faults>>

\* The row is reloaded; its status is not examined.
LoadMessage ==
    /\ worker.pc = "taken"
    /\ LET m == worker.item.msg IN
          IF status[m] = "absent"
          THEN worker' = [worker EXCEPT !.pc = "returned"] /\ UNCHANGED status
          ELSE IF Resolved(m) = {}
          THEN /\ ~SchedulerLocks(m)
               /\ status' = [status EXCEPT ![m] = "failed"]
               /\ worker' = [worker EXCEPT !.pc = "returned"]
          ELSE /\ worker' = [worker EXCEPT !.pc = "sending", !.loaded = status[m],
                                           !.todo = Resolved(m)]
               /\ UNCHANGED status
    /\ UNCHANGED <<logs, sched, channel, queue, recent, req, batch, cancel,
                   sends, handled, faults>>

\* One round of dispatch_message.  Creating the log row flushes the session,
\* which takes the message row's lock (attempt_count is dirty).  TelegramClient
\* posts again when an answer is lost, so the channel may get extra copies, and
\* a message that was delivered may still end in an error.
SendToChannel(c) ==
    /\ worker.pc = "sending" /\ c \in worker.todo
    /\ channel[c] # "gone"
    /\ LET m == worker.item.msg
           opens == logs[m][c] = "none"
       IN
       /\ opens => ~SchedulerLocks(m)
       /\ \E copies \in 0..(1 + MaxFaults - faults), answered \in BOOLEAN :
             /\ answered => copies > 0
             /\ sends' = [sends EXCEPT ![m][c] = @ + copies]
             /\ faults' = IF copies > 1 THEN faults + copies - 1 ELSE faults
             /\ worker' = [worker EXCEPT
                    !.todo = @ \ {c},
                    !.ok   = IF answered THEN @ \cup {c} ELSE @,
                    !.bad  = IF answered THEN @ ELSE @ \cup {c},
                    !.opened = IF opens THEN @ \cup {c} ELSE @]
    /\ UNCHANGED <<status, logs, sched, channel, queue, recent, req, batch,
                   cancel, handled>>

\* A deleted channel's log can be neither inserted nor updated.
LostChannel == \E c \in worker.todo \cup worker.ok \cup worker.bad : channel[c] = "gone"

MutantSentRegardless == "sent"

DispatchStatus ==
    IF worker.bad = {} THEN "sent" ELSE IF worker.ok # {} THEN "partial" ELSE "failed"

\* The parent's status and the logs, flushed and committed together.  The ORM
\* writes the status column only if it differs from the value it loaded.
CommitDispatch ==
    /\ worker.pc = "sending" /\ worker.todo = {} /\ ~LostChannel
    /\ LET m == worker.item.msg IN
          /\ ~SchedulerLocks(m)
          /\ status' = [status EXCEPT ![m] =
                            IF DispatchStatus = worker.loaded THEN @ ELSE DispatchStatus]
          /\ logs' = [logs EXCEPT ![m] = [c \in Channels |->
                            IF c \in worker.ok THEN "sent"
                            ELSE IF c \in worker.bad THEN "failed" ELSE @[c]]]
    /\ worker' = [worker EXCEPT !.pc = "returned"]
    /\ UNCHANGED <<sched, channel, queue, recent, req, batch, cancel, sends,
                   handled, faults>>

\* A database error inside the callback: rolled back, logged and swallowed.
RollbackDispatch ==
    /\ worker.pc \in {"taken", "sending"}
    /\ IF LostChannel THEN UNCHANGED faults
       ELSE faults < MaxFaults /\ faults' = faults + 1
    /\ worker' = [worker EXCEPT !.pc = "returned"]
    /\ UNCHANGED <<status, logs, sched, channel, queue, recent, req, batch,
                   cancel, sends, handled>>

\* Back in _worker: the key counts as dispatched whatever the outcome was.
FinishItem ==
    /\ worker.pc = "returned"
    /\ recent' = recent \cup ({worker.item.key} \ {NoKey})
    /\ handled' = handled \cup {worker.item.msg}
    /\ worker' = IdleWork
    /\ UNCHANGED <<status, logs, sched, channel, queue, req, batch, cancel,
                   sends, faults>>

\* The window of a key runs out (_is_duplicate, _cleanup_dedup).
ExpireKey(k) ==
    /\ k \in recent
    /\ recent' = recent \ {k}
    /\ UNCHANGED <<status, logs, sched, channel, queue, worker, req, batch,
                   cancel, sends, handled, faults>>

-----------------------------------------------------------------------------
\* update_channel
ToggleChannel(c) ==
    /\ channel[c] # "gone"
    /\ channel' = [channel EXCEPT ![c] = IF @ = "active" THEN "inactive" ELSE "active"]
    /\ UNCHANGED <<status, logs, sched, queue, recent, worker, req, batch,
                   cancel, sends, handled, faults>>

\* delete_channel: the channel's logs are deleted with it.  A log row the worker
\* has inserted and not committed holds the channel row.
DeleteChannel(c) ==
    /\ channel[c] # "gone"
    /\ ~(worker.pc = "sending" /\ c \in worker.opened)
    /\ channel' = [channel EXCEPT ![c] = "gone"]
    /\ logs' = [m \in Msgs |-> [logs[m] EXCEPT ![c] = "none"]]
    /\ UNCHANGED <<status, sched, queue, recent, worker, req, batch, cancel,
                   sends, handled, faults>>

\* The process stops and starts again: only the committed rows survive, and
\* nothing at start-up reads them back into the queue.
Restart ==
    /\ faults < MaxFaults
    /\ faults' = faults + 1
    /\ queue' = <<>>
    /\ recent' = {}
    /\ worker' = IdleWork
    /\ req' = [m \in Msgs |-> IF req[m] = "none" THEN "none" ELSE "done"]
    /\ batch' = IdleBatch
    /\ cancel' = {}
    /\ UNCHANGED <<status, logs, sched, channel, sends, handled>>

Request(m) == CreateMessage(m) \/ ScheduleMessage(m) \/ EnqueueCommitted(m)
                \/ CommitRequest(m) \/ CloseRequest(m) \/ FailRequest(m)
Cancel(m)  == ReadForCancel(m) \/ CommitCancel(m)
Scheduler  == SelectDue \/ (\E m \in Scheduled : HandOver(m)) \/ CommitBatch
                \/ RollbackBatch
Worker     == TakeItem \/ LoadMessage \/ (\E c \in Channels : SendToChannel(c))
                \/ CommitDispatch \/ RollbackDispatch \/ FinishItem

Next ==
    \/ \E m \in Msgs : Request(m) \/ Cancel(m)
    \/ Scheduler
    \/ Worker
    \/ \E k \in Keys : ExpireKey(k)
    \/ \E c \in Channels : ToggleChannel(c) \/ DeleteChannel(c)
    \/ Restart

Spec == Init /\ [][Next]_vars

\* The event loop keeps running the worker task, an open session's coroutine and
\* the interval job; nothing obliges users, clocks or faults to act.
Fairness ==
    /\ WF_vars(TakeItem \/ LoadMessage \/ (\E c \in Channels : SendToChannel(c))
                 \/ CommitDispatch \/ (LostChannel /\ RollbackDispatch) \/ FinishItem)
    /\ \A m \in Msgs : WF_vars(EnqueueCommitted(m) \/ CommitRequest(m) \/ CloseRequest(m))
    /\ WF_vars(SelectDue \/ (\E m \in Scheduled : HandOver(m)) \/ CommitBatch)

FairSpec == Spec /\ Fairness

-----------------------------------------------------------------------------
(* Safety *)

Tracked(m) == \/ \E i \in 1..Len(queue) : queue[i].msg = m
              \/ worker.pc # "idle" /\ worker.item.msg = m

\* The worker always finds the row of what it takes from the queue: callers
\* enqueue only after their commit, and the scheduler enqueues committed rows.
QueueItemsCommitted == \A m \in Msgs : Tracked(m) => status[m] # "absent"

\* A message recorded as sent or partial, or with a log that says sent, was
\* really delivered to a channel: neither a rolled-back dispatch nor a session
\* committing late can invent a success.
SuccessWasDelivered ==
    \A m \in Msgs :
       /\ status[m] \in {"sent", "partial"} => \E c \in Channels : sends[m][c] > 0
       /\ \A c \in Channels : logs[m][c] = "sent" => sends[m][c] > 0

\* Without a crash, a failed transaction or a lost answer no channel gets a
\* message twice, whatever requests, cancellations and the scheduled job do.
DuplicateNeedsFault ==
    \A m \in Msgs, c \in Channels : sends[m][c] > 1 => faults > 0

\* Without faults, and as long as no channel is deleted under the worker, the
\* outcome of a handled message is in its row: it does not stay pending.
HandledIsRecorded ==
    faults = 0 /\ (\A c \in Channels : channel[c] # "gone")
       => \A m \in handled : status[m] # "pending"

(* Liveness *)

\* What a request put on the queue, the worker handles.
AcceptedIsHandled == \A m \in Instant \cup Signals : req[m] = "queued" ~> m \in handled

\* Suppression loses no signal: of the messages that share a key, one is handled.
SignalOrTwinHandled ==
    \A m \in Signals : status[m] = "pending"
                         ~> \E n \in handled : DedupKey(n) = DedupKey(m)
=============================================================================
