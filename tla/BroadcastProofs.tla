-------------------------- MODULE BroadcastProofs --------------------------
(***************************************************************************)
(* Proofs about the broadcast pipeline, for any messages, channels, keys,  *)
(* queue size and number of faults.                                        *)
(***************************************************************************)
EXTENDS Broadcast, SequenceTheorems, TLAPS

-----------------------------------------------------------------------------
(* Lemmas about the queue. *)

\* A key or NoKey goes with every message.
LEMMA DedupKeyType == \A m \in Msgs : DedupKey(m) \in Keys \cup {NoKey}
BY ConstantsAssumption DEF DedupKey, Msgs

\* What an enqueue adds is an item, and the bound of the queue is kept.
LEMMA PutType ==
    ASSUME TypeOK, NEW m \in Msgs, Accepts(m)
    PROVE  Put(m) \in Seq(Item) /\ Len(Put(m)) <= MaxQueue
<1>1. [msg |-> m, key |-> DedupKey(m)] \in Item
  BY DedupKeyType DEF Item
<1>2. queue \in Seq(Item) /\ Len(queue) < MaxQueue /\ MaxQueue \in Nat
  BY ConstantsAssumption DEF TypeOK, Accepts
<1> QED
  BY <1>1, <1>2 DEF Put

\* One more fault stays within the bound.
LEMMA FaultCount ==
    ASSUME faults \in 0..MaxFaults, faults < MaxFaults
    PROVE  faults + 1 \in 0..MaxFaults
BY ConstantsAssumption

-----------------------------------------------------------------------------
(* Type correctness. *)

LEMMA InitType == Init => TypeOK
BY ConstantsAssumption
DEF Init, TypeOK, IdleWork, IdleBatch, MessageStatus, LogStatus, SchedStatus,
    ReqStatus, Item

LEMMA NextType == TypeOK /\ [Next]_vars => TypeOK'
<1> SUFFICES ASSUME TypeOK, [Next]_vars PROVE TypeOK'
  OBVIOUS
<1> USE DEF MessageStatus, SchedStatus, LogStatus, ReqStatus
<1>1. ASSUME NEW m \in Msgs, CreateMessage(m) PROVE TypeOK'
  BY <1>1 DEF TypeOK, CreateMessage
<1>2. ASSUME NEW m \in Msgs, ScheduleMessage(m) PROVE TypeOK'
  BY <1>2 DEF TypeOK, ScheduleMessage
<1>3. ASSUME NEW m \in Msgs, EnqueueCommitted(m) PROVE TypeOK'
  <2>1. queue' \in Seq(Item) /\ Len(queue') <= MaxQueue
    BY <1>3, PutType DEF EnqueueCommitted, TypeOK
  <2>2. req' \in [Msgs -> ReqStatus]
    BY <1>3 DEF EnqueueCommitted, TypeOK
  <2> QED
    BY <1>3, <2>1, <2>2 DEF EnqueueCommitted, TypeOK
<1>4. ASSUME NEW m \in Msgs, CommitRequest(m) PROVE TypeOK'
  BY <1>4 DEF TypeOK, CommitRequest
<1>5. ASSUME NEW m \in Msgs, CloseRequest(m) \/ FailRequest(m) PROVE TypeOK'
  <2>1. CASE CloseRequest(m)
    BY <2>1 DEF TypeOK, CloseRequest
  <2>2. CASE FailRequest(m)
    BY <2>2, FaultCount DEF TypeOK, FailRequest
  <2> QED
    BY <1>5, <2>1, <2>2
<1>6. ASSUME NEW m \in Msgs, ReadForCancel(m) PROVE TypeOK'
  BY <1>6 DEF TypeOK, ReadForCancel
<1>7. ASSUME NEW m \in Msgs, CommitCancel(m) PROVE TypeOK'
  BY <1>7 DEF TypeOK, CommitCancel
<1>8. ASSUME SelectDue PROVE TypeOK'
  BY <1>8 DEF TypeOK, SelectDue, IdleBatch
<1>9. ASSUME NEW m \in Scheduled, HandOver(m) PROVE TypeOK'
  <2>1. m \in Msgs
    BY DEF Msgs
  <2>2. queue' \in Seq(Item) /\ Len(queue') <= MaxQueue
    BY <1>9, <2>1, PutType DEF HandOver, TypeOK
  <2> QED
    BY <1>9, <2>2 DEF HandOver, TypeOK
<1>10. ASSUME CommitBatch PROVE TypeOK'
  BY <1>10 DEF TypeOK, CommitBatch, IdleBatch
<1>11. ASSUME RollbackBatch PROVE TypeOK'
  BY <1>11, ConstantsAssumption DEF TypeOK, RollbackBatch, IdleBatch
<1>12. ASSUME TakeItem PROVE TypeOK'
  <2>1. Head(queue) \in Item /\ Tail(queue) \in Seq(Item) /\ Len(Tail(queue)) <= MaxQueue
    BY <1>12, ConstantsAssumption, HeadTailProperties DEF TakeItem, TypeOK
  <2> QED
    BY <1>12, <2>1 DEF TakeItem, TypeOK, IdleWork
<1>13. ASSUME LoadMessage PROVE TypeOK'
  <2> DEFINE m == worker.item.msg
  <2>1. m \in Msgs
    BY <1>13 DEF LoadMessage, TypeOK, Item
  <2>2. status' \in [Msgs -> MessageStatus]
    BY <1>13, <2>1 DEF LoadMessage, TypeOK
  <2>3. Resolved(m) \in SUBSET Channels
    BY <2>1, ConstantsAssumption DEF Resolved
  <2>4. /\ worker' \in [pc : {"idle", "taken", "sending", "returned"},
                        item : Item \cup {NoItem}, loaded : MessageStatus,
                        todo : SUBSET Channels, ok : SUBSET Channels,
                        bad : SUBSET Channels, opened : SUBSET Channels]
        /\ worker'.item \in Item
    <3> HIDE DEF m
    <3>1. CASE worker' = [worker EXCEPT !.pc = "returned"]
      BY <1>13, <3>1 DEF LoadMessage, TypeOK
    <3>2. CASE worker' = [worker EXCEPT !.pc = "sending", !.loaded = status[m],
                                        !.todo = Resolved(m)]
      BY <1>13, <3>2, <2>1, <2>3 DEF LoadMessage, TypeOK
    <3> QED
      BY <1>13, <3>1, <3>2 DEF LoadMessage, m
  <2> QED
    BY <1>13, <2>2, <2>4 DEF LoadMessage, TypeOK
<1>14. ASSUME NEW c \in Channels, SendToChannel(c) PROVE TypeOK'
  <2> DEFINE m == worker.item.msg
  <2>1. m \in Msgs
    BY <1>14 DEF SendToChannel, TypeOK, Item
  <2>2. PICK copies \in 0..(1 + MaxFaults - faults), answered \in BOOLEAN :
           /\ sends' = [sends EXCEPT ![m][c] = @ + copies]
           /\ faults' = IF copies > 1 THEN faults + copies - 1 ELSE faults
           /\ worker' = [worker EXCEPT
                  !.todo = @ \ {c},
                  !.ok   = IF answered THEN @ \cup {c} ELSE @,
                  !.bad  = IF answered THEN @ ELSE @ \cup {c},
                  !.opened = IF logs[m][c] = "none" THEN @ \cup {c} ELSE @]
    BY <1>14 DEF SendToChannel
  <2>3. faults' \in 0..MaxFaults
    BY <2>2, ConstantsAssumption DEF TypeOK
  <2>4. sends' \in [Msgs -> [Channels -> Nat]]
    BY <2>1, <2>2, ConstantsAssumption DEF TypeOK
  <2>5. /\ worker' \in [pc : {"idle", "taken", "sending", "returned"},
                        item : Item \cup {NoItem}, loaded : MessageStatus,
                        todo : SUBSET Channels, ok : SUBSET Channels,
                        bad : SUBSET Channels, opened : SUBSET Channels]
        /\ worker'.item \in Item
    <3> DEFINE T == worker.todo \ {c}
               O == IF answered THEN worker.ok \cup {c} ELSE worker.ok
               B == IF answered THEN worker.bad ELSE worker.bad \cup {c}
               P == IF logs[m][c] = "none" THEN worker.opened \cup {c} ELSE worker.opened
    <3>1. worker' = [worker EXCEPT !.todo = T, !.ok = O, !.bad = B, !.opened = P]
      BY <2>2
    <3>2. {T, O, B, P} \subseteq SUBSET Channels
      BY DEF TypeOK
    <3> HIDE DEF T, O, B, P
    <3> QED
      BY <1>14, <3>1, <3>2 DEF TypeOK, SendToChannel
  <2> QED
    BY <1>14, <2>3, <2>4, <2>5 DEF SendToChannel, TypeOK
<1>15. ASSUME CommitDispatch PROVE TypeOK'
  BY <1>15 DEF TypeOK, CommitDispatch, DispatchStatus, Item
<1>16. ASSUME RollbackDispatch PROVE TypeOK'
  <2>1. faults' \in 0..MaxFaults
    BY <1>16, FaultCount DEF RollbackDispatch, TypeOK
  <2> QED
    BY <1>16, <2>1 DEF TypeOK, RollbackDispatch
<1>17. ASSUME FinishItem PROVE TypeOK'
  BY <1>17, ConstantsAssumption DEF TypeOK, FinishItem, IdleWork, Item
<1>18. ASSUME NEW k \in Keys, ExpireKey(k) PROVE TypeOK'
  BY <1>18 DEF TypeOK, ExpireKey
<1>19. ASSUME NEW c \in Channels, ToggleChannel(c) \/ DeleteChannel(c) PROVE TypeOK'
  <2>1. CASE ToggleChannel(c)
    BY <2>1 DEF TypeOK, ToggleChannel
  <2>2. CASE DeleteChannel(c)
    BY <2>2 DEF TypeOK, DeleteChannel
  <2> QED
    BY <1>19, <2>1, <2>2
<1>20. ASSUME Restart PROVE TypeOK'
  BY <1>20, ConstantsAssumption DEF TypeOK, Restart, IdleWork, IdleBatch
<1>21. ASSUME UNCHANGED vars PROVE TypeOK'
  BY <1>21 DEF TypeOK, vars
<1> QED
  BY <1>1, <1>2, <1>3, <1>4, <1>5, <1>6, <1>7, <1>8, <1>9, <1>10, <1>11, <1>12,
     <1>13, <1>14, <1>15, <1>16, <1>17, <1>18, <1>19, <1>20, <1>21
  DEF Next, Request, Cancel, Scheduler, Worker

\* Every reachable state is well typed; in particular the queue never exceeds
\* its maxsize.
THEOREM TypeCorrect == Spec => []TypeOK
BY InitType, NextType, PTL DEF Spec

-----------------------------------------------------------------------------
(* The worker only gets committed messages.                                 *)
(*                                                                          *)
(* QueueItemsCommitted is not inductive: what keeps it is that a message    *)
(* reaches the queue through a request or a batch, and that both know only  *)
(* committed rows.                                                          *)

CommittedInv ==
    /\ \A m \in Msgs : status[m] = "absent" =>
          req[m] = "none" /\ sched[m] = "none" /\ m \notin batch.todo
    /\ QueueItemsCommitted

\* A row, once committed, stays.
LEMMA RowsStay ==
    ASSUME TypeOK, CommittedInv, [Next]_vars
    PROVE  \A m \in Msgs : status[m] # "absent" => status'[m] # "absent"
<1> SUFFICES ASSUME NEW m \in Msgs, status[m] # "absent" PROVE status'[m] # "absent"
  OBVIOUS
<1>1. CASE UNCHANGED status
  BY <1>1
<1>2. ASSUME NEW n \in Msgs, NEW s \in MessageStatus \ {"absent"},
             status' = [status EXCEPT ![n] = s]
      PROVE  status'[m] # "absent"
  BY <1>2 DEF TypeOK
<1>3. ASSUME NEW n \in Msgs, Request(n) \/ Cancel(n) PROVE status'[m] # "absent"
  BY <1>1, <1>2, <1>3 DEF MessageStatus, Request, Cancel, CreateMessage, ScheduleMessage,
     EnqueueCommitted, CommitRequest, CloseRequest, FailRequest, ReadForCancel, CommitCancel, TypeOK
<1>4. CASE Scheduler
  BY <1>4, <1>1 DEF Scheduler, SelectDue, HandOver, CommitBatch, RollbackBatch, TypeOK
<1>5. CASE LoadMessage \/ CommitDispatch
  <2>1. worker.item.msg \in Msgs
    BY <1>5 DEF LoadMessage, CommitDispatch, TypeOK, Item
  <2> QED
    BY <1>5, <2>1, <1>1, <1>2
    DEF LoadMessage, CommitDispatch, DispatchStatus, MessageStatus, TypeOK
<1>6. CASE \/ TakeItem \/ RollbackDispatch \/ FinishItem
           \/ \E c \in Channels : SendToChannel(c) \/ ToggleChannel(c) \/ DeleteChannel(c)
           \/ \E k \in Keys : ExpireKey(k)
           \/ Restart \/ UNCHANGED vars
  BY <1>6, <1>1 DEF TakeItem, SendToChannel, RollbackDispatch, FinishItem, ToggleChannel,
     DeleteChannel, ExpireKey, Restart, vars
<1> QED
  BY <1>3, <1>4, <1>5, <1>6 DEF Next, Worker

LEMMA CommittedInit == Init => CommittedInv
BY DEF Init, CommittedInv, QueueItemsCommitted, Tracked, IdleWork, IdleBatch

LEMMA CommittedStep == TypeOK /\ CommittedInv /\ [Next]_vars => CommittedInv'
<1> SUFFICES ASSUME TypeOK, CommittedInv, [Next]_vars PROVE CommittedInv'
  OBVIOUS
<1>r. \A m \in Msgs : status'[m] = "absent" => status[m] = "absent"
  BY RowsStay
<1>t. TypeOK'
  BY NextType
<1>a. ASSUME UNCHANGED <<req, sched>>, batch'.todo \subseteq batch.todo
      PROVE  \A m \in Msgs : status'[m] = "absent" =>
                req'[m] = "none" /\ sched'[m] = "none" /\ m \notin batch'.todo
  BY <1>a, <1>r DEF CommittedInv
<1>q. ASSUME UNCHANGED <<queue, worker>> PROVE QueueItemsCommitted'
  BY <1>q, <1>r DEF CommittedInv, QueueItemsCommitted, Tracked
<1>p. ASSUME NEW n \in Msgs, status[n] # "absent",
             \/ UNCHANGED queue
             \/ queue' = Append(queue, [msg |-> n, key |-> DedupKey(n)]),
             UNCHANGED worker
      PROVE  QueueItemsCommitted'
  <2> SUFFICES ASSUME NEW m \in Msgs, NEW i \in 1..Len(queue'), queue'[i].msg = m,
                      queue' = Append(queue, [msg |-> n, key |-> DedupKey(n)])
               PROVE  status'[m] # "absent"
    BY <1>p, <1>q, <1>r DEF QueueItemsCommitted, CommittedInv, Tracked
  <2>1. CASE i = Len(queue) + 1
    BY <2>1, <1>p, <1>r DEF TypeOK
  <2>2. CASE i \in 1..Len(queue)
    BY <2>2, <1>r DEF CommittedInv, QueueItemsCommitted, Tracked, TypeOK
  <2> QED
    BY <2>1, <2>2 DEF TypeOK
<1>1. ASSUME NEW n \in Msgs, Request(n) \/ Cancel(n) PROVE CommittedInv'
  <2>1. CASE CreateMessage(n) \/ ScheduleMessage(n)
    BY <2>1, <1>q, <1>r DEF CreateMessage, ScheduleMessage, CommittedInv, TypeOK
  <2>2. CASE EnqueueCommitted(n)
    <3>1. status[n] # "absent"
      BY <2>2 DEF EnqueueCommitted, CommittedInv
    <3>2. QueueItemsCommitted'
      BY <2>2, <3>1, <1>p DEF EnqueueCommitted, Put
    <3> QED
      BY <2>2, <3>1, <3>2, <1>r DEF EnqueueCommitted, CommittedInv, TypeOK
  <2>3. CASE CommitRequest(n) \/ CloseRequest(n) \/ FailRequest(n)
    BY <2>3, <1>q, <1>r DEF CommitRequest, CloseRequest, FailRequest, CommittedInv, TypeOK
  <2>4. CASE ReadForCancel(n)
    BY <2>4, <1>a, <1>q DEF ReadForCancel, CommittedInv
  <2>5. CASE CommitCancel(n)
    <3>1. \A m \in Msgs : sched[m] = "none" => sched'[m] = "none"
      BY <2>5 DEF CommitCancel, TypeOK
    <3> QED
      BY <2>5, <3>1, <1>q, <1>r DEF CommitCancel, CommittedInv
  <2> QED
    BY <1>1, <2>1, <2>2, <2>3, <2>4, <2>5 DEF Request, Cancel
<1>2. CASE Scheduler
  <2>1. CASE SelectDue
    BY <2>1, <1>q, <1>r DEF SelectDue, CommittedInv, IdleBatch, TypeOK
  <2>2. ASSUME NEW n \in Scheduled, HandOver(n) PROVE CommittedInv'
    <3>1. n \in Msgs /\ status[n] # "absent"
      BY <2>2 DEF HandOver, CommittedInv, Msgs
    <3>2. QueueItemsCommitted'
      BY <2>2, <3>1, <1>p DEF HandOver, Put
    <3> QED
      BY <2>2, <3>2, <1>a DEF HandOver, CommittedInv
  <2>3. CASE CommitBatch
    <3>1. \A m \in Msgs : status'[m] = "absent" => m \notin batch.marked
      BY <2>3 DEF CommitBatch
    <3> QED
      BY <2>3, <3>1, <1>q, <1>r DEF CommitBatch, CommittedInv, IdleBatch
  <2>4. CASE RollbackBatch
    BY <2>4, <1>a, <1>q DEF RollbackBatch, CommittedInv, IdleBatch
  <2> QED
    BY <1>2, <2>1, <2>2, <2>3, <2>4 DEF Scheduler
<1>3. CASE Worker
  <2>1. CASE TakeItem
    <3>1. /\ queue # <<>> /\ queue \in Seq(Item)
          /\ worker'.item = queue[1] /\ queue' = Tail(queue)
      BY <2>1 DEF TakeItem, TypeOK, IdleWork
    <3>2. 1 \in 1..Len(queue) /\ \A i \in 1..Len(queue') : i + 1 \in 1..Len(queue) /\ queue'[i] = queue[i + 1]
      BY <3>1
    <3>3. QueueItemsCommitted'
      BY <3>1, <3>2, <1>r DEF CommittedInv, QueueItemsCommitted, Tracked
    <3> QED
      BY <2>1, <3>3, <1>a DEF TakeItem, CommittedInv
  <2>2. ASSUME UNCHANGED <<queue, req, sched, batch>>,
               worker'.pc = "idle" \/ (worker.pc # "idle" /\ worker'.item = worker.item)
        PROVE  CommittedInv'
    <3>1. QueueItemsCommitted'
      BY <2>2, <1>r DEF CommittedInv, QueueItemsCommitted, Tracked
    <3> QED
      BY <2>2, <3>1, <1>a DEF CommittedInv
  <2>3. CASE LoadMessage
    BY <2>3, <2>2 DEF LoadMessage, TypeOK
  <2>4. ASSUME NEW c \in Channels, SendToChannel(c) PROVE CommittedInv'
    <3>1. worker'.item = worker.item
      BY <2>4 DEF SendToChannel, TypeOK
    <3> QED
      BY <2>4, <3>1, <2>2 DEF SendToChannel
  <2>5. CASE CommitDispatch \/ RollbackDispatch
    BY <2>5, <2>2 DEF CommitDispatch, RollbackDispatch, TypeOK
  <2>6. CASE FinishItem
    BY <2>6, <2>2 DEF FinishItem, IdleWork
  <2> QED
    BY <1>3, <2>1, <2>3, <2>4, <2>5, <2>6 DEF Worker
<1>4. CASE \/ \E k \in Keys : ExpireKey(k)
           \/ \E c \in Channels : ToggleChannel(c) \/ DeleteChannel(c)
           \/ UNCHANGED vars
  BY <1>4, <1>a, <1>q DEF ExpireKey, ToggleChannel, DeleteChannel, vars, CommittedInv
<1>5. CASE Restart
  BY <1>5, <1>r DEF Restart, CommittedInv, QueueItemsCommitted, Tracked, IdleWork, IdleBatch
<1> QED
  BY <1>1, <1>2, <1>3, <1>4, <1>5 DEF Next

\* Every message on the queue, or in the worker's hands, has its committed row.
THEOREM EnqueuedAfterCommit == Spec => []QueueItemsCommitted
<1>1. Init => TypeOK /\ CommittedInv
  BY InitType, CommittedInit
<1>2. (TypeOK /\ CommittedInv) /\ [Next]_vars => (TypeOK /\ CommittedInv)'
  BY NextType, CommittedStep
<1>3. CommittedInv => QueueItemsCommitted
  BY DEF CommittedInv
<1> QED
  BY <1>1, <1>2, <1>3, PTL DEF Spec

-----------------------------------------------------------------------------
(* A recorded success was delivered.                                        *)
(*                                                                          *)
(* The worker writes what its session has gathered, so the inductive        *)
(* invariant says that too: the channels it counts as sent got the message, *)
(* and a dispatch that is under way has at least one channel, so that "no   *)
(* failure" cannot mean "no channel at all".                                *)

DeliveredInv ==
    /\ SuccessWasDelivered
    /\ worker.pc = "taken" => worker.ok = {}
    /\ worker.pc = "sending" =>
          /\ worker.todo \cup worker.ok \cup worker.bad # {}
          /\ \A c \in worker.ok : sends[worker.item.msg][c] > 0

LEMMA DeliveredInit == Init => DeliveredInv
BY DEF Init, DeliveredInv, SuccessWasDelivered, IdleWork

\* What the step of a request, of the scheduled job or of an administrator does
\* to the tables keeps the invariant: no new success, the worker and the
\* deliveries as they were.
LEMMA NoNewSuccess ==
    ASSUME DeliveredInv, UNCHANGED <<worker, sends>>,
           \A m \in Msgs : status'[m] \in {"sent", "partial"} => status[m] \in {"sent", "partial"},
           \A m \in Msgs, c \in Channels : logs'[m][c] = "sent" => logs[m][c] = "sent"
    PROVE  DeliveredInv'
BY DEF DeliveredInv, SuccessWasDelivered

LEMMA DeliveredStep == TypeOK /\ DeliveredInv /\ [Next]_vars => DeliveredInv'
<1> SUFFICES ASSUME TypeOK, DeliveredInv, [Next]_vars PROVE DeliveredInv'
  OBVIOUS
<1>t. TypeOK'
  BY NextType
<1>1. ASSUME NEW n \in Msgs, Request(n) \/ Cancel(n) PROVE DeliveredInv'
  <2>1. CASE CreateMessage(n) \/ ScheduleMessage(n)
    BY <2>1, NoNewSuccess DEF CreateMessage, ScheduleMessage, TypeOK
  <2>2. CASE CommitRequest(n)
    BY <2>2, NoNewSuccess DEF CommitRequest, TypeOK
  <2>3. CASE EnqueueCommitted(n) \/ CloseRequest(n) \/ FailRequest(n) \/ ReadForCancel(n)
    BY <2>3, NoNewSuccess DEF EnqueueCommitted, CloseRequest, FailRequest, ReadForCancel
  <2>4. CASE CommitCancel(n)
    BY <2>4, NoNewSuccess DEF CommitCancel, TypeOK
  <2> QED
    BY <1>1, <2>1, <2>2, <2>3, <2>4 DEF Request, Cancel
<1>2. CASE Scheduler
  <2>1. CASE SelectDue \/ RollbackBatch \/ \E n \in Scheduled : HandOver(n)
    BY <2>1, NoNewSuccess DEF SelectDue, RollbackBatch, HandOver
  <2>2. CASE CommitBatch
    BY <2>2, NoNewSuccess DEF CommitBatch
  <2> QED
    BY <1>2, <2>1, <2>2 DEF Scheduler
<1>3. CASE Worker
  <2> DEFINE m == worker.item.msg
  <2>m. worker.pc # "idle" => m \in Msgs
    BY DEF TypeOK, Item
  <2>1. CASE TakeItem \/ RollbackDispatch \/ FinishItem
    <3>1. worker'.pc # "sending" /\ (worker'.pc = "taken" => worker'.ok = {})
      <4>1. CASE TakeItem
        BY <4>1 DEF TakeItem, IdleWork
      <4>2. CASE RollbackDispatch
        BY <4>2 DEF RollbackDispatch, TypeOK
      <4>3. CASE FinishItem
        BY <4>3 DEF FinishItem, IdleWork
      <4> QED
        BY <2>1, <4>1, <4>2, <4>3
    <3> QED
      BY <2>1, <3>1 DEF TakeItem, RollbackDispatch, FinishItem, DeliveredInv, SuccessWasDelivered
  <2>2. CASE LoadMessage
    <3>1. SuccessWasDelivered'
      BY <2>2, <2>m DEF LoadMessage, DeliveredInv, SuccessWasDelivered, TypeOK
    <3>2. worker'.pc = "sending" => worker'.todo # {} /\ worker'.ok = worker.ok
      BY <2>2 DEF LoadMessage, TypeOK
    <3>3. worker'.pc # "taken" /\ (worker'.pc = "sending" => worker'.ok = {})
      BY <2>2, <3>2 DEF LoadMessage, DeliveredInv, TypeOK
    <3> QED
      BY <3>1, <3>2, <3>3 DEF DeliveredInv
  <2>3. ASSUME NEW c \in Channels, SendToChannel(c) PROVE DeliveredInv'
    <3>1. PICK copies \in 0..(1 + MaxFaults - faults), answered \in BOOLEAN :
             /\ answered => copies > 0
             /\ sends' = [sends EXCEPT ![m][c] = @ + copies]
             /\ worker' = [worker EXCEPT
                    !.todo = @ \ {c},
                    !.ok   = IF answered THEN @ \cup {c} ELSE @,
                    !.bad  = IF answered THEN @ ELSE @ \cup {c},
                    !.opened = IF logs[m][c] = "none" THEN @ \cup {c} ELSE @]
      BY <2>3 DEF SendToChannel
    <3>2. m \in Msgs /\ copies \in Nat
      BY <2>3, <2>m, ConstantsAssumption DEF SendToChannel, TypeOK
    <3>3. \A n \in Msgs, d \in Channels : sends[n][d] > 0 => sends'[n][d] > 0
      BY <3>1, <3>2 DEF TypeOK
    <3>4. answered => sends'[m][c] > 0
      BY <3>1, <3>2 DEF TypeOK
    <3>5. SuccessWasDelivered'
      BY <2>3, <3>3 DEF SendToChannel, DeliveredInv, SuccessWasDelivered
    <3>6. /\ worker'.item.msg = m /\ worker'.pc = worker.pc
          /\ c \in worker'.ok \cup worker'.bad
          /\ worker'.ok \subseteq worker.ok \cup {c}
          /\ ~answered => worker'.ok = worker.ok
      BY <3>1 DEF TypeOK
    <3>7. worker.ok \subseteq Channels /\ worker.pc = "sending"
      BY <2>3 DEF TypeOK, SendToChannel
    <3>8. \A d \in worker'.ok : sends'[m][d] > 0
      BY <3>2, <3>3, <3>4, <3>6, <3>7 DEF DeliveredInv
    <3> QED
      BY <3>5, <3>6, <3>7, <3>8 DEF DeliveredInv
  <2>4. CASE CommitDispatch
    <3>0. m \in Msgs /\ worker.ok \subseteq Channels /\ worker'.pc = "returned"
      BY <2>4, <2>m DEF CommitDispatch, TypeOK
    <3>1. \A n \in Msgs, c \in Channels : logs'[n][c] = "sent" => sends[n][c] > 0
      BY <2>4, <3>0 DEF CommitDispatch, DeliveredInv, SuccessWasDelivered, TypeOK
    <3>2. DispatchStatus \in {"sent", "partial"} => worker.ok # {}
      BY <2>4 DEF CommitDispatch, DispatchStatus, DeliveredInv
    <3>3. DispatchStatus \in {"sent", "partial"} => \E c \in Channels : sends[m][c] > 0
      BY <2>4, <3>0, <3>2 DEF CommitDispatch, DeliveredInv
    <3>4. \A n \in Msgs : status'[n] \in {"sent", "partial"} => \E c \in Channels : sends[n][c] > 0
      BY <2>4, <3>0, <3>3 DEF CommitDispatch, DeliveredInv, SuccessWasDelivered, TypeOK
    <3> QED
      BY <2>4, <3>0, <3>1, <3>4 DEF CommitDispatch, DeliveredInv, SuccessWasDelivered
  <2> QED
    BY <1>3, <2>1, <2>2, <2>3, <2>4 DEF Worker
<1>4. CASE \/ \E k \in Keys : ExpireKey(k)
           \/ \E c \in Channels : ToggleChannel(c)
           \/ UNCHANGED vars
  BY <1>4, NoNewSuccess DEF ExpireKey, ToggleChannel, vars
<1>5. ASSUME NEW c \in Channels, DeleteChannel(c) PROVE DeliveredInv'
  BY <1>5, NoNewSuccess DEF DeleteChannel, TypeOK
<1>6. CASE Restart
  BY <1>6 DEF Restart, DeliveredInv, SuccessWasDelivered, IdleWork
<1> QED
  BY <1>1, <1>2, <1>3, <1>4, <1>5, <1>6 DEF Next

\* A message or a log recorded as sent was delivered.
THEOREM RecordedSuccessIsReal == Spec => []SuccessWasDelivered
<1>1. Init => TypeOK /\ DeliveredInv
  BY InitType, DeliveredInit
<1>2. (TypeOK /\ DeliveredInv) /\ [Next]_vars => (TypeOK /\ DeliveredInv)'
  BY NextType, DeliveredStep
<1>3. DeliveredInv => SuccessWasDelivered
  BY DEF DeliveredInv
<1> QED
  BY <1>1, <1>2, <1>3, PTL DEF Spec

-----------------------------------------------------------------------------
(* No message twice.                                                        *)
(*                                                                          *)
(* Without a fault a message is put on the queue once: by the request that  *)
(* created it or by one batch, after which neither hands it over again.  It *)
(* is delivered to nobody before the worker has it, and then only to the    *)
(* channels that the worker is through with.                                *)

\* Whoever hands the message over has done so, or will not.
Spent(m) ==
    /\ status[m] # "absent"
    /\ IF m \in Scheduled
       THEN m \notin batch.todo /\ (m \in batch.marked \/ sched[m] # "pending")
       ELSE req[m] \in {"queued", "done"}

Delivered(m) == \E c \in Channels : sends[m][c] > 0

Once ==
    /\ \A m \in Scheduled : req[m] = "none"
    /\ \A m \in Msgs : Tracked(m) \/ Delivered(m) => Spent(m)
    /\ \A i, j \in 1..Len(queue) : queue[i].msg = queue[j].msg => i = j
    /\ \A i \in 1..Len(queue) :
          /\ worker.pc # "idle" => queue[i].msg # worker.item.msg
          /\ ~Delivered(queue[i].msg)
    /\ worker.pc = "taken" => ~Delivered(worker.item.msg)
    /\ worker.pc = "sending" => \A c \in worker.todo : sends[worker.item.msg][c] = 0
    /\ \A m \in Msgs, c \in Channels : sends[m][c] <= 1

OnceInv == faults = 0 => Once

LEMMA OnceInit == Init => OnceInv
BY DEF Init, OnceInv, Once, Tracked, Delivered, IdleWork, Msgs

\* A step of a request, a cancellation or the job that puts nothing on the queue.
LEMMA OnceStands ==
    ASSUME Once, UNCHANGED <<queue, worker, sends>>,
           \A m \in Scheduled : req'[m] = "none",
           \A m \in Msgs : Spent(m) => Spent(m)'
    PROVE  Once'
<1>1. \A m \in Msgs : Tracked(m)' = Tracked(m) /\ Delivered(m)' = Delivered(m)
  BY DEF Tracked, Delivered
<1>2. \A m \in Msgs : (Tracked(m) \/ Delivered(m))' => Spent(m)'
  BY <1>1 DEF Once
<1>3. \A i \in 1..Len(queue) : Delivered(queue[i].msg)' = Delivered(queue[i].msg)
  BY DEF Delivered
<1>4. Delivered(worker.item.msg)' = Delivered(worker.item.msg)
  BY DEF Delivered
<1> QED
  BY <1>2, <1>3, <1>4 DEF Once

\* The one step that puts a message there.
LEMMA OncePut ==
    ASSUME TypeOK, Once, NEW n \in Msgs, ~Tracked(n), ~Delivered(n), Spent(n)',
           queue' = Append(queue, [msg |-> n, key |-> DedupKey(n)]), UNCHANGED <<worker, sends>>,
           \A m \in Scheduled : req'[m] = "none",
           \A m \in Msgs : Spent(m) => Spent(m)'
    PROVE  Once'
<1>1. /\ Len(queue) \in Nat /\ Len(queue') = Len(queue) + 1 /\ queue'[Len(queue) + 1].msg = n
      /\ \A i \in 1..Len(queue) : queue'[i] = queue[i]
  BY DEF TypeOK
<1>2. ASSUME NEW m \in Msgs, Tracked(m)' \/ Delivered(m)' PROVE Spent(m)'
  <2>1. Delivered(m)' => Delivered(m)
    BY DEF Delivered
  <2>2. Tracked(m)' => Tracked(m) \/ m = n
    BY <1>1 DEF Tracked
  <2> QED
    BY <1>2, <2>1, <2>2 DEF Once
<1>3. ASSUME NEW i \in 1..Len(queue'), NEW j \in 1..Len(queue'), queue'[i].msg = queue'[j].msg PROVE i = j
  <2>1. CASE i \in 1..Len(queue) /\ j \in 1..Len(queue)
    BY <1>1, <1>3, <2>1 DEF Once
  <2>2. \A h \in 1..Len(queue) : queue'[h].msg # n
    BY <1>1 DEF Tracked
  <2> QED
    BY <1>1, <1>3, <2>1, <2>2
<1>4. ASSUME NEW i \in 1..Len(queue')
      PROVE  /\ worker.pc # "idle" => queue'[i].msg # worker.item.msg
             /\ ~Delivered(queue'[i].msg)
  <2>1. CASE i \in 1..Len(queue)
    BY <1>1, <2>1 DEF Once
  <2>2. CASE i = Len(queue) + 1
    BY <1>1, <2>2 DEF Tracked
  <2> QED
    BY <1>1, <2>1, <2>2
<1>5. \A x : Delivered(x)' = Delivered(x)
  BY DEF Delivered
<1> QED
  BY <1>2, <1>3, <1>4, <1>5 DEF Once, Delivered

\* A step of the worker with the item it has, up to its end.
LEMMA OnceWorks ==
    ASSUME TypeOK, Once, UNCHANGED <<queue, sends, req>>,
           worker'.pc = "idle" \/ (worker.pc # "idle" /\ worker'.item = worker.item
                                   /\ worker'.pc \in {"sending", "returned"}),
           worker'.pc = "sending" => \A c \in worker'.todo : sends[worker.item.msg][c] = 0,
           \A m \in Msgs : Spent(m) => Spent(m)'
    PROVE  Once'
<1>1. \A m \in Msgs : (Tracked(m)' => Tracked(m)) /\ Delivered(m)' = Delivered(m)
  BY DEF Tracked, Delivered
<1>2. \A m \in Msgs : (Tracked(m) \/ Delivered(m))' => Spent(m)'
  BY <1>1 DEF Once
<1>3. \A i \in 1..Len(queue) : Delivered(queue[i].msg)' = Delivered(queue[i].msg)
  BY DEF Delivered
<1> QED
  BY <1>2, <1>3 DEF Once

LEMMA OnceStep == TypeOK /\ CommittedInv /\ OnceInv /\ [Next]_vars => OnceInv'
<1> SUFFICES ASSUME TypeOK, CommittedInv, OnceInv, [Next]_vars, faults' = 0 PROVE Once'
  BY DEF OnceInv
<1>r. \A m \in Msgs : status[m] # "absent" => status'[m] # "absent"
  BY RowsStay
<1>s. Scheduled \cap (Instant \cup Signals) = {} /\ Scheduled \subseteq Msgs
  BY ConstantsAssumption DEF Msgs
<1>f. faults \in Nat
  BY ConstantsAssumption DEF TypeOK
<1>c. ASSUME faults = 0 PROVE Once
  BY <1>c DEF OnceInv
<1>1. ASSUME NEW n \in Msgs, Request(n) \/ Cancel(n) PROVE Once'
  <2>1. CASE CreateMessage(n)
    <3>1. Once
      BY <2>1, <1>c DEF CreateMessage
    <3>2. \A m \in Msgs : Spent(m) => Spent(m)'
      BY <2>1, <1>r DEF CreateMessage, Spent, TypeOK
    <3> QED
      BY <2>1, <3>1, <3>2, <1>s, OnceStands DEF CreateMessage, Once, TypeOK
  <2>2. CASE ScheduleMessage(n)
    <3>1. Once
      BY <2>2, <1>c DEF ScheduleMessage
    <3>2. \A m \in Msgs : Spent(m) => Spent(m)'
      BY <2>2, <1>r DEF ScheduleMessage, Spent, TypeOK
    <3> QED
      BY <2>2, <3>1, <3>2, OnceStands DEF ScheduleMessage, Once
  <2>3. CASE EnqueueCommitted(n)
    <3>1. Once
      BY <2>3, <1>c DEF EnqueueCommitted
    <3>2. n \notin Scheduled /\ ~Spent(n)
      BY <2>3, <3>1 DEF EnqueueCommitted, Once, Spent
    <3>3. status[n] # "absent" /\ UNCHANGED <<status, sched, batch, worker, sends>>
      BY <2>3 DEF EnqueueCommitted, CommittedInv
    <3>4. /\ \A m \in Scheduled : req'[m] = "none"
          /\ \A m \in Msgs : m # n => req'[m] = req[m]
      BY <2>3, <3>1, <3>2, <1>s DEF EnqueueCommitted, Once, TypeOK
    <3>5. \A m \in Msgs : Spent(m) => Spent(m)'
      BY <3>2, <3>3, <3>4 DEF Spent
    <3>6. CASE ~Accepts(n)
      BY <2>3, <3>1, <3>3, <3>4, <3>5, <3>6, OnceStands DEF EnqueueCommitted
    <3>7. CASE Accepts(n)
      <4>1. queue' = Append(queue, [msg |-> n, key |-> DedupKey(n)]) /\ req'[n] = "queued"
        BY <2>3, <3>7 DEF EnqueueCommitted, Put, TypeOK
      <4>2. ~Tracked(n) /\ ~Delivered(n)
        BY <3>1, <3>2 DEF Once
      <4>3. Spent(n)'
        BY <3>2, <3>3, <4>1 DEF Spent
      <4> QED
        BY <3>1, <3>3, <3>4, <3>5, <4>1, <4>2, <4>3, OncePut
    <3> QED
      BY <3>6, <3>7
  <2>4. CASE CommitRequest(n) \/ CloseRequest(n)
    <3>1. Once /\ UNCHANGED <<sched, batch, queue, worker, sends>>
      BY <2>4, <1>c DEF CommitRequest, CloseRequest
    <3>2. n \notin Scheduled /\ req' = [req EXCEPT ![n] = "done"]
      BY <2>4, <3>1 DEF CommitRequest, CloseRequest, Once
    <3>3. \A m \in Msgs : Spent(m) => Spent(m)'
      BY <3>1, <3>2, <1>r DEF Spent, TypeOK
    <3>4. \A m \in Scheduled : req'[m] = "none"
      BY <3>1, <3>2, <1>s DEF Once, TypeOK
    <3> QED
      BY <3>1, <3>3, <3>4, OnceStands
  <2>5. CASE FailRequest(n)
    BY <2>5, <1>f DEF FailRequest
  <2>6. CASE ReadForCancel(n) \/ CommitCancel(n)
    <3>1. Once /\ UNCHANGED <<req, batch, queue, worker, sends>>
      BY <2>6, <1>c DEF ReadForCancel, CommitCancel
    <3>2. \A m \in Msgs : sched[m] # "pending" => sched'[m] # "pending"
      BY <2>6 DEF ReadForCancel, CommitCancel, TypeOK
    <3>3. \A m \in Msgs : Spent(m) => Spent(m)'
      BY <3>1, <3>2, <1>r DEF Spent
    <3> QED
      BY <3>1, <3>3, OnceStands DEF Once
  <2> QED
    BY <1>1, <2>1, <2>2, <2>3, <2>4, <2>5, <2>6 DEF Request, Cancel
<1>2. CASE Scheduler
  <2>1. CASE SelectDue
    <3>1. Once /\ UNCHANGED <<status, sched, req, queue, worker, sends>>
      BY <2>1, <1>c DEF SelectDue
    <3>2. batch.marked = {} /\ \A m \in batch'.todo : sched[m] = "pending"
      BY <2>1 DEF SelectDue, IdleBatch
    <3>3. \A m \in Msgs : Spent(m) => Spent(m)'
      BY <3>1, <3>2 DEF Spent
    <3> QED
      BY <3>1, <3>3, OnceStands DEF Once
  <2>2. ASSUME NEW n \in Scheduled, HandOver(n) PROVE Once'
    <3>1. Once /\ UNCHANGED <<status, sched, req, worker, sends>>
      BY <2>2, <1>c DEF HandOver
    <3>2. /\ n \in Msgs /\ n \in batch.todo /\ status[n] # "absent"
          /\ batch'.todo = batch.todo \ {n} /\ batch'.marked = batch.marked \cup {n}
      BY <2>2, <1>s DEF HandOver, CommittedInv
    <3>3. \A m \in Msgs : Spent(m) => Spent(m)'
      BY <3>1, <3>2 DEF Spent
    <3>4. CASE ~Accepts(n)
      BY <2>2, <3>1, <3>3, <3>4, OnceStands DEF HandOver, Once
    <3>5. CASE Accepts(n)
      <4>1. queue' = Append(queue, [msg |-> n, key |-> DedupKey(n)])
        BY <2>2, <3>5 DEF HandOver, Put
      <4>2. ~Tracked(n) /\ ~Delivered(n)
        BY <3>1, <3>2 DEF Once, Spent
      <4>3. Spent(n)'
        BY <3>1, <3>2 DEF Spent
      <4>4. \A m \in Scheduled : req'[m] = "none"
        BY <3>1 DEF Once
      <4> QED
        BY <3>1, <3>2, <3>3, <4>1, <4>2, <4>3, <4>4, OncePut
    <3> QED
      BY <3>4, <3>5
  <2>3. CASE CommitBatch
    <3>1. Once /\ UNCHANGED <<req, queue, worker, sends>>
      BY <2>3, <1>c DEF CommitBatch
    <3>2. /\ batch'.todo = {}
          /\ \A m \in Msgs : m \in batch.marked \/ sched[m] # "pending" => sched'[m] # "pending"
      BY <2>3 DEF CommitBatch, IdleBatch, TypeOK
    <3>3. \A m \in Msgs : Spent(m) => Spent(m)'
      BY <3>1, <3>2, <1>r DEF Spent
    <3> QED
      BY <3>1, <3>3, OnceStands DEF Once
  <2>4. CASE RollbackBatch
    BY <2>4, <1>f DEF RollbackBatch
  <2> QED
    BY <1>2, <2>1, <2>2, <2>3, <2>4 DEF Scheduler
<1>3. CASE Worker
  <2>s. ASSUME UNCHANGED <<sched, req, batch>> PROVE \A m \in Msgs : Spent(m) => Spent(m)'
    BY <2>s, <1>r DEF Spent
  <2>1. CASE TakeItem
    <3>1. Once /\ UNCHANGED <<sched, req, batch, sends>>
      BY <2>1, <1>c DEF TakeItem
    <3>2. /\ queue # <<>> /\ queue \in Seq(Item)
          /\ worker'.item = queue[1] /\ worker'.pc = "taken" /\ queue' = Tail(queue)
      BY <2>1 DEF TakeItem, TypeOK, IdleWork
    <3>3. /\ 1 \in 1..Len(queue)
          /\ \A i \in 1..Len(queue') : i \in Nat /\ i >= 1 /\ i + 1 \in 1..Len(queue) /\ queue'[i] = queue[i + 1]
      BY <3>2
    <3>4. \A x : Delivered(x)' = Delivered(x)
      BY <3>1 DEF Delivered
    <3>5. ASSUME NEW m \in Msgs, Tracked(m)' \/ Delivered(m)' PROVE Spent(m)'
      <4>1. Tracked(m)' => Tracked(m)
        BY <3>2, <3>3 DEF Tracked
      <4> QED
        BY <2>s, <3>1, <3>4, <3>5, <4>1 DEF Once
    <3>6. ~Delivered(queue[1].msg)
      BY <3>1, <3>3 DEF Once
    <3>7. ASSUME NEW i \in 1..Len(queue')
          PROVE  queue'[i].msg # queue[1].msg /\ ~Delivered(queue'[i].msg)
      BY <3>1, <3>3 DEF Once
    <3>8. ASSUME NEW i \in 1..Len(queue'), NEW j \in 1..Len(queue'), queue'[i].msg = queue'[j].msg PROVE i = j
      <4>1. i + 1 = j + 1
        BY <3>1, <3>3, <3>8 DEF Once
      <4> QED
        BY <3>3, <4>1
    <3> QED
      BY <3>1, <3>2, <3>4, <3>5, <3>6, <3>7, <3>8 DEF Once, Delivered
  <2>2. CASE LoadMessage
    <3> DEFINE m == worker.item.msg
    <3>1. Once /\ UNCHANGED <<sched, req, batch, sends, queue>> /\ worker.pc = "taken" /\ m \in Msgs
      BY <2>2, <1>c DEF LoadMessage, TypeOK, Item
    <3>2. worker'.item = worker.item /\ worker'.pc \in {"sending", "returned"}
          /\ (worker'.pc = "sending" => worker'.todo = Resolved(m))
      BY <2>2 DEF LoadMessage, TypeOK
    <3>3. \A c \in Resolved(m) : sends[m][c] = 0
      <4>1. Resolved(m) \subseteq Channels
        BY <3>1, ConstantsAssumption DEF Resolved
      <4>2. ~Delivered(m)
        BY <3>1 DEF Once
      <4> HIDE DEF m
      <4> QED
        BY <3>1, <4>1, <4>2 DEF Delivered, TypeOK
    <3> QED
      BY <2>s, <3>1, <3>2, <3>3, OnceWorks
  <2>3. ASSUME NEW c \in Channels, SendToChannel(c) PROVE Once'
    <3> DEFINE m == worker.item.msg
    <3>1. PICK copies \in 0..(1 + MaxFaults - faults), answered \in BOOLEAN :
             /\ sends' = [sends EXCEPT ![m][c] = @ + copies]
             /\ faults' = IF copies > 1 THEN faults + copies - 1 ELSE faults
             /\ worker' = [worker EXCEPT
                    !.todo = @ \ {c},
                    !.ok   = IF answered THEN @ \cup {c} ELSE @,
                    !.bad  = IF answered THEN @ ELSE @ \cup {c},
                    !.opened = IF logs[m][c] = "none" THEN @ \cup {c} ELSE @]
      BY <2>3 DEF SendToChannel
    <3>2. copies \in {0, 1} /\ faults = 0
      BY <3>1, <1>f, ConstantsAssumption
    <3>3. Once /\ UNCHANGED <<sched, req, batch, queue>> /\ worker.pc = "sending" /\ c \in worker.todo /\ m \in Msgs
      BY <2>3, <3>2, <1>c DEF SendToChannel, TypeOK, Item
    <3>4. worker'.pc = "sending" /\ worker'.item = worker.item /\ worker'.todo = worker.todo \ {c}
      BY <3>1, <3>3 DEF TypeOK
    <3>5. /\ \A n \in Msgs, d \in Channels : ~(n = m /\ d = c) => sends'[n][d] = sends[n][d]
          /\ sends'[m][c] = sends[m][c] + copies /\ sends[m][c] = 0
      BY <3>1, <3>3 DEF TypeOK, Once
    <3> HIDE DEF m
    <3>6. \A n \in Msgs, d \in Channels : sends'[n][d] <= 1
      BY <3>2, <3>3, <3>5 DEF Once
    <3>7. \A n \in Msgs : n # m => Delivered(n)' = Delivered(n)
      BY <3>5 DEF Delivered
    <3>8. \A n \in Msgs : Tracked(n)' = Tracked(n)
      BY <3>3, <3>4 DEF Tracked
    <3>9. Tracked(m)
      BY <3>3 DEF Tracked, m
    <3>10. ASSUME NEW n \in Msgs, Tracked(n)' \/ Delivered(n)' PROVE Spent(n)'
      BY <2>s, <3>3, <3>7, <3>8, <3>9, <3>10 DEF Once
    <3>11. ASSUME NEW i \in 1..Len(queue)
           PROVE  queue[i].msg # m /\ ~Delivered(queue[i].msg)'
      <4>1. queue[i].msg \in Msgs
        <5>1. queue[i] \in Item
          BY DEF TypeOK
        <5> QED
          BY <5>1 DEF Item
      <4>2. queue[i].msg # m /\ ~Delivered(queue[i].msg)
        BY <3>3 DEF Once, m
      <4> QED
        BY <3>3, <3>7, <4>1, <4>2 DEF Delivered
    <3>12. \A d \in worker'.todo : sends'[m][d] = 0
      <4>1. worker.todo \subseteq Channels
        BY DEF TypeOK
      <4> QED
        BY <3>3, <3>4, <3>5, <4>1 DEF Once, m
    <3>13. worker'.item.msg = m
      BY <3>4 DEF m
    <3> QED
      BY <3>3, <3>4, <3>6, <3>10, <3>11, <3>12, <3>13 DEF Once
  <2>4. CASE CommitDispatch \/ RollbackDispatch
    <3>1. UNCHANGED <<sched, req, batch, sends, queue>> /\ worker.pc # "idle"
          /\ worker'.pc = "returned" /\ worker'.item = worker.item
      BY <2>4 DEF CommitDispatch, RollbackDispatch, TypeOK
    <3>2. faults = 0
      BY <2>4, <1>f DEF CommitDispatch, RollbackDispatch
    <3> QED
      BY <1>c, <2>s, <3>1, <3>2, OnceWorks
  <2>5. CASE FinishItem
    <3>1. UNCHANGED <<sched, req, batch, sends, queue, faults>> /\ worker'.pc = "idle"
      BY <2>5 DEF FinishItem, IdleWork
    <3> QED
      BY <1>c, <2>s, <3>1, OnceWorks
  <2> QED
    BY <1>3, <2>1, <2>2, <2>3, <2>4, <2>5 DEF Worker
<1>4. CASE \/ \E k \in Keys : ExpireKey(k)
           \/ \E c \in Channels : ToggleChannel(c) \/ DeleteChannel(c)
           \/ UNCHANGED vars
  <2>1. UNCHANGED <<status, sched, req, batch, queue, worker, sends, faults>>
    BY <1>4 DEF ExpireKey, ToggleChannel, DeleteChannel, vars
  <2>2. \A m \in Msgs : Spent(m) => Spent(m)'
    BY <2>1 DEF Spent
  <2> QED
    BY <1>c, <2>1, <2>2, OnceStands DEF Once
<1>5. CASE Restart
  BY <1>5, <1>f DEF Restart
<1> QED
  BY <1>1, <1>2, <1>3, <1>4, <1>5 DEF Next

\* Without a crash, a failed transaction or a lost answer no channel gets a
\* message twice (dispatch_message and the callers of the queue).
THEOREM NobodyGetsItTwice == Spec => []DuplicateNeedsFault
<1>1. Init => TypeOK /\ CommittedInv /\ OnceInv
  BY InitType, CommittedInit, OnceInit
<1>2. (TypeOK /\ CommittedInv /\ OnceInv) /\ [Next]_vars => (TypeOK /\ CommittedInv /\ OnceInv)'
  BY NextType, CommittedStep, OnceStep
<1>3. TypeOK /\ OnceInv => DuplicateNeedsFault
  <2> SUFFICES ASSUME TypeOK, OnceInv, NEW m \in Msgs, NEW c \in Channels, sends[m][c] > 1
               PROVE  faults > 0
    BY DEF DuplicateNeedsFault
  <2>1. sends[m][c] \in Nat /\ faults \in Nat
    BY ConstantsAssumption DEF TypeOK
  <2>2. faults = 0 => sends[m][c] <= 1
    BY DEF OnceInv, Once
  <2> QED
    BY <2>1, <2>2
<1> QED
  BY <1>1, <1>2, <1>3, PTL DEF Spec

-----------------------------------------------------------------------------
(* What was handled is recorded.                                            *)
(*                                                                          *)
(* No step makes a row pending again.  A dispatch that ends without a fault *)
(* has written its outcome, or found that very outcome in the row it loaded.*)

Calm == faults = 0 /\ \A c \in Channels : channel[c] # "gone"

RecordedInv ==
    /\ \A m \in handled : status[m] # "absent"
    /\ Calm =>
          /\ \A m \in handled : status[m] # "pending"
          /\ worker.pc = "returned" => status[worker.item.msg] # "pending"
          /\ worker.pc = "sending" /\ worker.loaded \in {"sent", "partial", "failed"}
                => status[worker.item.msg] # "pending"

LEMMA RecordedInit == Init => RecordedInv
BY DEF Init, RecordedInv, IdleWork

\* A row that is pending was pending, or is new.
LEMMA PendingIsNew ==
    ASSUME TypeOK, [Next]_vars
    PROVE  \A m \in Msgs : status'[m] = "pending" => status[m] \in {"pending", "absent"}
<1> SUFFICES ASSUME NEW m \in Msgs, status'[m] = "pending" PROVE status[m] \in {"pending", "absent"}
  OBVIOUS
<1>1. CASE UNCHANGED status
  BY <1>1
<1>2. ASSUME NEW n \in Msgs, NEW s \in MessageStatus \ {"pending"},
             status' = [status EXCEPT ![n] = s]
      PROVE  status[m] \in {"pending", "absent"}
  BY <1>2 DEF TypeOK
<1>3. ASSUME NEW n \in Msgs, Request(n) \/ Cancel(n) PROVE status[m] \in {"pending", "absent"}
  <2>1. CASE CreateMessage(n) \/ ScheduleMessage(n)
    BY <2>1 DEF CreateMessage, ScheduleMessage, TypeOK
  <2>2. CASE CommitRequest(n) \/ CommitCancel(n)
    BY <2>2, <1>2 DEF CommitRequest, CommitCancel, MessageStatus
  <2>3. CASE EnqueueCommitted(n) \/ CloseRequest(n) \/ FailRequest(n) \/ ReadForCancel(n)
    BY <2>3, <1>1 DEF EnqueueCommitted, CloseRequest, FailRequest, ReadForCancel
  <2> QED
    BY <1>3, <2>1, <2>2, <2>3 DEF Request, Cancel
<1>4. CASE Scheduler
  BY <1>4, <1>1 DEF Scheduler, SelectDue, HandOver, CommitBatch, RollbackBatch, TypeOK
<1>5. CASE LoadMessage \/ CommitDispatch
  <2>1. worker.item.msg \in Msgs
    BY <1>5 DEF LoadMessage, CommitDispatch, TypeOK, Item
  <2> QED
    BY <1>5, <2>1, <1>1, <1>2
    DEF LoadMessage, CommitDispatch, DispatchStatus, MessageStatus, TypeOK
<1>6. CASE \/ TakeItem \/ RollbackDispatch \/ FinishItem
           \/ \E c \in Channels : SendToChannel(c) \/ ToggleChannel(c) \/ DeleteChannel(c)
           \/ \E k \in Keys : ExpireKey(k)
           \/ Restart \/ UNCHANGED vars
  BY <1>6, <1>1 DEF TakeItem, SendToChannel, RollbackDispatch, FinishItem, ToggleChannel,
     DeleteChannel, ExpireKey, Restart, vars
<1> QED
  BY <1>3, <1>4, <1>5, <1>6 DEF Next, Worker

\* Faults are counted, and a channel that is gone stays so.
LEMMA CalmBefore == TypeOK /\ [Next]_vars /\ Calm' => Calm
<1> SUFFICES ASSUME TypeOK, [Next]_vars, Calm' PROVE Calm
  OBVIOUS
<1>1. faults' = 0 /\ \A c \in Channels : channel'[c] # "gone"
  BY DEF Calm
<1>2. ASSUME NEW c \in Channels, channel[c] = "gone" PROVE channel'[c] = "gone"
  <2>1. CASE UNCHANGED channel
    BY <1>2, <2>1
  <2>2. ASSUME NEW d \in Channels, ToggleChannel(d) \/ DeleteChannel(d) PROVE channel'[c] = "gone"
    BY <1>2, <2>2 DEF ToggleChannel, DeleteChannel, TypeOK
  <2>3. ASSUME NEW m \in Msgs, Request(m) \/ Cancel(m) PROVE UNCHANGED channel
    BY <2>3 DEF Request, Cancel, CreateMessage, ScheduleMessage, EnqueueCommitted, CommitRequest,
       CloseRequest, FailRequest, ReadForCancel, CommitCancel
  <2>4. CASE Scheduler
    BY <2>1, <2>4 DEF Scheduler, SelectDue, HandOver, CommitBatch, RollbackBatch
  <2>5. CASE Worker
    BY <2>1, <2>5 DEF Worker, TakeItem, LoadMessage, SendToChannel, CommitDispatch, RollbackDispatch, FinishItem
  <2>6. CASE (\E k \in Keys : ExpireKey(k)) \/ Restart \/ UNCHANGED vars
    BY <2>1, <2>6 DEF ExpireKey, Restart, vars
  <2> QED
    BY <2>1, <2>2, <2>3, <2>4, <2>5, <2>6 DEF Next
<1>3. faults = 0
  <2>0. faults \in Nat /\ MaxFaults \in Nat
    BY ConstantsAssumption DEF TypeOK
  <2>1. CASE UNCHANGED faults
    BY <1>1, <2>1
  <2>2. CASE faults' = faults + 1
    BY <1>1, <2>0, <2>2
  <2>3. ASSUME NEW m \in Msgs, Request(m) \/ Cancel(m) PROVE faults = 0
    BY <2>1, <2>2, <2>3 DEF Request, Cancel, CreateMessage, ScheduleMessage, EnqueueCommitted, CommitRequest,
       CloseRequest, FailRequest, ReadForCancel, CommitCancel
  <2>4. CASE Scheduler
    BY <2>1, <2>2, <2>4 DEF Scheduler, SelectDue, HandOver, CommitBatch, RollbackBatch
  <2>5. ASSUME NEW c \in Channels, SendToChannel(c) PROVE faults = 0
    <3>1. PICK copies \in 0..(1 + MaxFaults - faults) :
             faults' = IF copies > 1 THEN faults + copies - 1 ELSE faults
      BY <2>5 DEF SendToChannel
    <3> QED
      BY <1>1, <2>0, <3>1
  <2>6. CASE TakeItem \/ LoadMessage \/ CommitDispatch \/ RollbackDispatch \/ FinishItem
    BY <2>1, <2>2, <2>6 DEF TakeItem, LoadMessage, CommitDispatch, RollbackDispatch, FinishItem
  <2>7. CASE \/ \E k \in Keys : ExpireKey(k)
             \/ \E c \in Channels : ToggleChannel(c) \/ DeleteChannel(c)
             \/ Restart \/ UNCHANGED vars
    BY <2>1, <2>2, <2>7 DEF ExpireKey, ToggleChannel, DeleteChannel, Restart, vars
  <2> QED
    BY <2>3, <2>4, <2>5, <2>6, <2>7 DEF Next, Worker
<1> QED
  BY <1>1, <1>2, <1>3 DEF Calm

\* A step that leaves the worker and what it has handled as they are.
LEMMA RecordedStands ==
    ASSUME TypeOK, RecordedInv, Calm' => Calm, UNCHANGED <<worker, handled>>,
           \A m \in Msgs : status[m] # "absent" => status'[m] # "absent",
           \A m \in Msgs : status'[m] = "pending" => status[m] \in {"pending", "absent"},
           worker.pc # "idle" => status[worker.item.msg] # "absent"
    PROVE  RecordedInv'
<1>1. handled \subseteq Msgs /\ (worker.pc # "idle" => worker.item.msg \in Msgs)
  BY DEF TypeOK, Item
<1> QED
  BY <1>1 DEF RecordedInv

LEMMA RecordedStep == TypeOK /\ CommittedInv /\ RecordedInv /\ [Next]_vars => RecordedInv'
<1> SUFFICES ASSUME TypeOK, CommittedInv, RecordedInv, [Next]_vars PROVE RecordedInv'
  OBVIOUS
<1>r. /\ \A m \in Msgs : status[m] # "absent" => status'[m] # "absent"
      /\ \A m \in Msgs : status'[m] = "pending" => status[m] \in {"pending", "absent"}
      /\ Calm' => Calm
  BY RowsStay, PendingIsNew, CalmBefore
<1> DEFINE m == worker.item.msg
<1>m. worker.pc # "idle" => m \in Msgs /\ status[m] # "absent"
  BY DEF TypeOK, Item, CommittedInv, QueueItemsCommitted, Tracked
<1>h. handled \subseteq Msgs
  BY DEF TypeOK
<1>u. ASSUME UNCHANGED <<worker, handled>> PROVE RecordedInv'
  BY <1>u, <1>r, <1>m, RecordedStands
<1>1. ASSUME NEW n \in Msgs, Request(n) \/ Cancel(n) PROVE RecordedInv'
  BY <1>1, <1>u DEF Request, Cancel, CreateMessage, ScheduleMessage, EnqueueCommitted, CommitRequest,
     CloseRequest, FailRequest, ReadForCancel, CommitCancel
<1>2. CASE Scheduler
  BY <1>2, <1>u DEF Scheduler, SelectDue, HandOver, CommitBatch, RollbackBatch
<1>3. CASE \/ \E k \in Keys : ExpireKey(k)
           \/ \E c \in Channels : ToggleChannel(c) \/ DeleteChannel(c)
           \/ UNCHANGED vars
  BY <1>3, <1>u DEF ExpireKey, ToggleChannel, DeleteChannel, vars
<1>4. CASE Worker
  <2>h. ASSUME UNCHANGED handled
        PROVE  /\ \A n \in handled' : status'[n] # "absent"
               /\ Calm' => \A n \in handled' : status'[n] # "pending"
    BY <1>r, <1>h, <2>h DEF RecordedInv
  <2>1. CASE TakeItem
    <3>1. UNCHANGED handled /\ worker'.pc = "taken"
      BY <2>1 DEF TakeItem, IdleWork
    <3> QED
      BY <2>h, <3>1 DEF RecordedInv
  <2>2. CASE LoadMessage
    <3>1. /\ UNCHANGED handled /\ m \in Msgs /\ status[m] # "absent" /\ worker'.item = worker.item
          /\ \/ worker'.pc = "returned" /\ status' = [status EXCEPT ![m] = "failed"]
             \/ worker'.pc = "sending" /\ worker'.loaded = status[m] /\ status' = status
      BY <2>2, <1>m DEF LoadMessage, TypeOK
    <3>2. \/ worker'.pc = "returned" /\ status'[m] = "failed"
          \/ worker'.pc = "sending" /\ worker'.loaded = status'[m]
      BY <3>1 DEF TypeOK
    <3> QED
      BY <2>h, <3>1, <3>2 DEF RecordedInv
  <2>3. ASSUME NEW c \in Channels, SendToChannel(c) PROVE RecordedInv'
    <3>1. /\ UNCHANGED <<handled, status>> /\ worker.pc = "sending"
          /\ worker'.pc = worker.pc /\ worker'.item = worker.item /\ worker'.loaded = worker.loaded
      BY <2>3 DEF SendToChannel, TypeOK
    <3> QED
      BY <1>r, <2>h, <3>1 DEF RecordedInv
  <2>4. CASE CommitDispatch
    <3>1. /\ UNCHANGED handled /\ m \in Msgs /\ worker.pc = "sending"
          /\ worker'.pc = "returned" /\ worker'.item = worker.item
          /\ status' = [status EXCEPT ![m] = IF DispatchStatus = worker.loaded THEN @ ELSE DispatchStatus]
      BY <2>4, <1>m DEF CommitDispatch, TypeOK
    <3>2. DispatchStatus \in {"sent", "partial", "failed"}
      BY DEF DispatchStatus
    <3>3. Calm' => status'[m] # "pending"
      BY <1>r, <3>1, <3>2 DEF RecordedInv, TypeOK
    <3> QED
      BY <2>h, <3>1, <3>3 DEF RecordedInv
  <2>5. CASE RollbackDispatch
    <3>1. UNCHANGED handled /\ worker'.pc = "returned" /\ worker.pc # "idle"
      BY <2>5 DEF RollbackDispatch, TypeOK
    <3>2. ~Calm'
      <4>1. CASE LostChannel
        <5>1. \E c \in Channels : channel[c] = "gone"
          BY <4>1 DEF LostChannel, TypeOK
        <5> QED
          BY <1>r, <5>1 DEF Calm
      <4>2. CASE ~LostChannel
        BY <2>5, <4>2, ConstantsAssumption DEF RollbackDispatch, Calm, TypeOK
      <4> QED
        BY <4>1, <4>2
    <3> QED
      BY <2>h, <3>1, <3>2 DEF RecordedInv
  <2>6. CASE FinishItem
    <3>1. /\ worker.pc = "returned" /\ worker'.pc = "idle" /\ UNCHANGED status
          /\ handled' = handled \cup {m} /\ status[m] # "absent"
      BY <2>6, <1>m DEF FinishItem, IdleWork
    <3> QED
      BY <1>r, <3>1 DEF RecordedInv
  <2> QED
    BY <1>4, <2>1, <2>2, <2>3, <2>4, <2>5, <2>6 DEF Worker
<1>5. CASE Restart
  <2>1. UNCHANGED <<status, handled>> /\ worker'.pc = "idle" /\ ~Calm'
    BY <1>5, ConstantsAssumption DEF Restart, IdleWork, Calm, TypeOK
  <2> QED
    BY <2>1 DEF RecordedInv
<1> QED
  BY <1>1, <1>2, <1>3, <1>4, <1>5 DEF Next

\* Without faults, and while no channel is deleted, the outcome of a message the
\* worker has handled is in its row (_process_queue_item, dispatch_message).
THEOREM OutcomesAreRecorded == Spec => []HandledIsRecorded
<1>1. Init => TypeOK /\ CommittedInv /\ RecordedInv
  BY InitType, CommittedInit, RecordedInit
<1>2. (TypeOK /\ CommittedInv /\ RecordedInv) /\ [Next]_vars
          => (TypeOK /\ CommittedInv /\ RecordedInv)'
  BY NextType, CommittedStep, RecordedStep
<1>3. RecordedInv => HandledIsRecorded
  BY DEF RecordedInv, HandledIsRecorded, Calm
<1> QED
  BY <1>1, <1>2, <1>3, PTL DEF Spec
=============================================================================
