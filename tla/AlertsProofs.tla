---------------------------- MODULE AlertsProofs ----------------------------
(***************************************************************************)
(* Proofs about the price alerts, for any alerts, prices and number of     *)
(* failures: what an alert costs each time it is switched on, and that no  *)
(* crossing is missed as long as no check fails.                           *)
(***************************************************************************)
EXTENDS Alerts, TLAPS

\* Outside the loop the check holds nothing; in it, an alert is either still
\* to come or marked, and the one being sent is marked.
CheckInv ==
    /\ check.pc # "looping" =>
          check.todo = {} /\ check.dirty = {} /\ check.sending = None
    /\ check.pc = "idle" => check = IdleCheck
    /\ check.todo \cap check.dirty = {}
    /\ check.sending # None => check.sending \in check.dirty
    /\ \A a \in check.todo \cup check.dirty : row[a] = None => a \in deleted

\* An alert that may still be posted has been posted less often than activated.
Pending(a) == Active(a) \/ a \in check.todo \/ a \in check.dirty
MessageInv ==
    \A a \in Alerts : /\ posted[a] <= activations[a]
                      /\ Pending(a) => posted[a] < activations[a]

RecordInv ==
    \A a \in Alerts : /\ recorded[a] <= announced[a]
                      /\ a \in check.dirty => recorded[a] < announced[a]

\* An alert that may still be announced has an activation or a failure to spare.
Waiting(a) == a \in check.todo \/ (Active(a) /\ a \notin check.dirty)
RepeatInv ==
    \A a \in Alerts : /\ announced[a] <= activations[a] + failures
                      /\ Waiting(a) => announced[a] < activations[a] + failures

\* An armed alert that the price has passed is one the check will come to.
Passing(a) == \/ check.pc = "opening" /\ Crossed(row[a], check.prev, check.price)
              \/ a \in check.todo
              \/ a \in check.dirty
ArmedInv ==
    \A a \in armed : /\ Active(a)
                     /\ last # None
                     /\ failures = 0 => Short(row[a], last) \/ Passing(a)

Inv == TypeOK /\ CheckInv /\ MessageInv /\ RecordInv /\ RepeatInv /\ ArmedInv

LEMMA InitInv == Init => Inv
BY AlertsAssumption
   DEF Init, Inv, TypeOK, CheckInv, MessageInv, RecordInv, RepeatInv, ArmedInv,
       AlertsAssumption, IdleCheck, Pending, Waiting, Active

\* Whatever a request makes of a row, it is a row.
LEMMA EditedIsRow ==
    ASSUME NEW r \in Row, NEW e \in Edit
    PROVE  Edited(r, e) \in Row
BY AlertsAssumption DEF AlertsAssumption, Row, Edit, Edited

LEMMA ArmIsSound ==
    ASSUME NEW a \in Alerts, NEW r \in Row, armed \subseteq Alerts
    PROVE  /\ Arm(a, r) \subseteq Alerts
           /\ \A b \in Arm(a, r) : b # a => b \in armed
           /\ a \in Arm(a, r) => r.active /\ last # None /\ Short(r, last)
BY DEF Arm

\* What a check commits are rows: an alert whose row is gone is in deleted.
LEMMA CommittedRows ==
    ASSUME TypeOK, CheckInv, CommitTriggers
    PROVE  row' \in [Alerts -> Row \cup {None}]
<1>1. \A a \in check.dirty : a \in Alerts /\ row[a] \in Row
  BY DEF TypeOK, CheckInv, CommitTriggers, Stale
<1>2. \A r \in Row : [r EXCEPT !.active = FALSE] \in Row
  BY DEF Row
<1> QED
  BY <1>1, <1>2 DEF TypeOK, CommitTriggers

\* A new alert has been neither announced nor posted more often than others.
LEMMA CreateKeeps ==
    ASSUME Inv, NEW a \in Alerts, NEW r \in Row, Create(a, r)
    PROVE  Inv'
<1>1. /\ armed' \subseteq Alerts
      /\ \A b \in armed' : b # a => b \in armed
      /\ a \in armed' => r.active /\ last # None /\ Short(r, last)
  BY ArmIsSound DEF Inv, TypeOK, Create
<1>2. TypeOK'
  BY <1>1 DEF Inv, TypeOK, Create
<1>3. CheckInv'
  BY <1>1 DEF Inv, TypeOK, CheckInv, Create
<1>4. MessageInv'
  BY <1>1 DEF Inv, TypeOK, CheckInv, MessageInv, Pending, Active, Create
<1>5. RecordInv'
  BY <1>1 DEF Inv, TypeOK, CheckInv, RecordInv, Create
<1>6. RepeatInv'
  BY <1>1 DEF Inv, TypeOK, CheckInv, RepeatInv, Waiting, Active, Create
<1>7. ArmedInv'
  <2> SUFFICES ASSUME NEW b \in armed'
               PROVE  /\ Active(b)' /\ last' # None
                      /\ failures' = 0 => Short(row'[b], last') \/ Passing(b)'
    BY DEF ArmedInv
  <2>1. CASE b = a
    <3>1. row'[b] = r /\ r # None /\ last' = last
      BY <2>1, AlertsAssumption DEF AlertsAssumption, Inv, TypeOK, Create
    <3>2. r.active /\ last # None /\ Short(r, last)
      BY <1>1, <2>1
    <3>3. Short(row'[b], last')
      BY <3>1, <3>2 DEF Short
    <3>4. Active(b)'
      BY <3>1, <3>2 DEF Active
    <3> QED
      BY <3>1, <3>2, <3>3, <3>4
  <2>2. CASE b # a
    <3>1. b \in armed
      BY <1>1, <2>2
    <3>2. row'[b] = row[b] /\ last' = last /\ check' = check /\ failures' = failures
      BY <2>2, <3>1 DEF Inv, TypeOK, Create
    <3>3. Active(b) /\ last # None /\ (failures = 0 => Short(row[b], last) \/ Passing(b))
      BY <3>1 DEF Inv, ArmedInv
    <3>4. Active(b)'
      BY <3>2, <3>3 DEF Active
    <3>5. failures = 0 => (Short(row'[b], last') \/ Passing(b)')
      BY <3>2, <3>3 DEF Passing, Short, Crossed
    <3> QED
      BY <3>2, <3>3, <3>4, <3>5
  <2> QED
    BY <2>1, <2>2
<1> QED
  BY <1>2, <1>3, <1>4, <1>5, <1>6, <1>7 DEF Inv

\* An update that has not committed changes nothing the invariant is about.
LEMMA StartUpdateKeeps ==
    ASSUME Inv, NEW a \in Alerts, NEW e \in Edit, StartUpdate(a, e)
    PROVE  Inv'
<1>1. TypeOK'
  BY DEF Inv, TypeOK, StartUpdate, history
<1>2. CheckInv'
  BY DEF Inv, TypeOK, CheckInv, StartUpdate, history
<1>3. MessageInv'
  BY DEF Inv, TypeOK, CheckInv, MessageInv, Pending, Active, StartUpdate,
     history
<1>4. RecordInv'
  BY DEF Inv, TypeOK, CheckInv, RecordInv, StartUpdate, history
<1>5. RepeatInv'
  BY DEF Inv, TypeOK, CheckInv, RepeatInv, Waiting, Active, StartUpdate,
     history
<1>6. ArmedInv'
  BY DEF Inv, TypeOK, CheckInv, ArmedInv, Passing, Active, StartUpdate,
     history
<1> QED
  BY <1>1, <1>2, <1>3, <1>4, <1>5, <1>6 DEF Inv

\* An update that switches an alert on counts as an activation.
LEMMA FinishUpdateKeeps ==
    ASSUME Inv, NEW a \in Alerts, FinishUpdate(a)
    PROVE  Inv'
<1>1. CASE row[a] = None
  BY <1>1 DEF FinishUpdate, Inv, TypeOK, CheckInv, MessageInv, RecordInv, RepeatInv,
              ArmedInv, Pending, Waiting, Passing, Active
<1>2. CASE row[a] # None
  <2> DEFINE r == Edited(row[a], edit[a])
  <2>1. row[a] \in Row /\ edit[a] \in Edit /\ r \in Row
    BY <1>2, EditedIsRow DEF FinishUpdate, Inv, TypeOK
  <2> HIDE DEF r
  <2>2. /\ row' = [row EXCEPT ![a] = r]
        /\ activations' = [activations EXCEPT ![a] = IF edit[a].active = TRUE THEN @ + 1 ELSE @]
        /\ armed' = IF [r EXCEPT !.telegram = row[a].telegram] = row[a]
                    THEN armed ELSE Arm(a, r)
        /\ edit' = [edit EXCEPT ![a] = None]
        /\ UNCHANGED <<deleted, last, check, announced, posted, recorded, faults, failures>>
    BY <1>2 DEF FinishUpdate, r
  <2>3. /\ row'[a] = r /\ r # None /\ r \in Row
        /\ \A b \in Alerts : b # a => row'[b] = row[b] /\ activations'[b] = activations[b]
        /\ \A b \in Alerts : row'[b] = None <=> row[b] = None
    BY <1>2, <2>1, <2>2, AlertsAssumption DEF AlertsAssumption, Inv, TypeOK, Row
  <2>4. /\ activations' \in [Alerts -> Nat]
        /\ \A b \in Alerts : activations'[b] >= activations[b]
        /\ (r.active /\ ~row[a].active) => activations'[a] = activations[a] + 1
    BY <2>1, <2>2 DEF Inv, TypeOK, r, Edited, Row, Edit
  <2>5. Arm(a, r) \subseteq Alerts /\ armed' \subseteq Alerts
    BY <2>1, <2>2, ArmIsSound DEF Inv, TypeOK
  <2>6. TypeOK'
    BY <2>1, <2>2, <2>4, <2>5 DEF Inv, TypeOK
  <2>7. CheckInv'
    BY <2>2, <2>3 DEF Inv, TypeOK, CheckInv
  <2>8. MessageInv'
    BY <2>2, <2>3, <2>4, <1>2 DEF Inv, TypeOK, MessageInv, Pending, Active
  <2>9. RecordInv'
    BY <2>2 DEF Inv, RecordInv
  <2>10. RepeatInv'
    BY <2>2, <2>3, <2>4, <1>2 DEF Inv, TypeOK, RepeatInv, Waiting, Active
  <2>11. ArmedInv'
    <3>1. CASE [r EXCEPT !.telegram = row[a].telegram] = row[a]
      <4>1. /\ r.active = row[a].active
            /\ r.target = row[a].target
            /\ r.above = row[a].above
        BY <2>1, <3>1 DEF Row
      <4> QED
        BY <2>2, <2>3, <3>1, <4>1, <1>2
           DEF Inv, TypeOK, ArmedInv, Passing, Active, Short, Crossed
    <3>2. CASE armed' = Arm(a, r)
      <4>1. /\ \A b \in armed' : b # a => b \in armed
            /\ a \in armed' => r.active /\ last # None /\ Short(r, last)
        BY <2>1, <3>2, ArmIsSound DEF Inv, TypeOK
      <4> QED
        BY <2>2, <2>3, <2>5, <4>1 DEF Inv, TypeOK, ArmedInv, Passing, Active
    <3> QED
      BY <2>2, <3>1, <3>2
  <2> QED
    BY <2>6, <2>7, <2>8, <2>9, <2>10, <2>11 DEF Inv
<1> QED
  BY <1>1, <1>2

\* A deleted alert is pending only in the check.
LEMMA DeleteKeeps ==
    ASSUME Inv, NEW a \in Alerts, Delete(a)
    PROVE  Inv'
<1>1. TypeOK'
  BY DEF Inv, TypeOK, Delete
<1>2. CheckInv'
  BY DEF Inv, TypeOK, CheckInv, Delete
<1>3. MessageInv'
  BY DEF Inv, TypeOK, CheckInv, MessageInv, Pending, Active, Delete
<1>4. RecordInv'
  BY DEF Inv, TypeOK, CheckInv, RecordInv, Delete
<1>5. RepeatInv'
  BY DEF Inv, TypeOK, CheckInv, RepeatInv, Waiting, Active, Delete
<1>6. ArmedInv'
  BY DEF Inv, TypeOK, CheckInv, ArmedInv, Passing, Active, Delete
<1> QED
  BY <1>1, <1>2, <1>3, <1>4, <1>5, <1>6 DEF Inv

\* An armed alert the new price is not short of is crossed.
LEMMA TickerKeeps ==
    ASSUME Inv, NEW price \in Prices, Ticker(price)
    PROVE  Inv'
<1>1. TypeOK'
  BY DEF Inv, TypeOK, Ticker, IdleCheck, Short, Crossed
<1>2. CheckInv'
  BY DEF Inv, TypeOK, CheckInv, Ticker, IdleCheck, Short, Crossed
<1>3. MessageInv'
  BY DEF Inv, TypeOK, CheckInv, MessageInv, Pending, Active, Ticker,
     IdleCheck, Short, Crossed
<1>4. RecordInv'
  BY DEF Inv, TypeOK, CheckInv, RecordInv, Ticker, IdleCheck, Short, Crossed
<1>5. RepeatInv'
  BY DEF Inv, TypeOK, CheckInv, RepeatInv, Waiting, Active, Ticker,
     IdleCheck, Short, Crossed
<1>6. ArmedInv'
  <2> SUFFICES ASSUME NEW b \in armed'
               PROVE  /\ Active(b)' /\ last' # None
                      /\ failures' = 0 => Short(row'[b], last') \/ Passing(b)'
    BY DEF ArmedInv
  <2>1. b \in Alerts /\ Active(b) /\ row[b] \in Row /\ price \in Nat
    BY AlertsAssumption DEF AlertsAssumption, Inv, TypeOK, ArmedInv, Ticker, Active
  <2>2. row' = row /\ last' = price /\ price # None /\ failures' = failures
    BY AlertsAssumption DEF AlertsAssumption, Ticker
  <2>3. /\ check'.pc = "opening"
        /\ check'.prev = last
        /\ check'.price = price
    BY DEF Ticker, IdleCheck
  <2>4. CASE Short(row[b], price)
    BY <2>1, <2>2, <2>4 DEF Active
  <2>5. CASE ~Short(row[b], price)
    <3>1. b \in armed
      BY <2>5 DEF Ticker
    <3>2. /\ last # None
          /\ failures = 0 => Short(row[b], last)
      BY <3>1 DEF Inv, CheckInv, ArmedInv, Passing, Ticker, IdleCheck
    <3>3. last \in Nat /\ row[b].target \in Nat /\ row[b].above \in BOOLEAN
      BY <2>1, <3>2, AlertsAssumption DEF AlertsAssumption, Inv, TypeOK, Row
    <3>4. failures = 0 => Crossed(row[b], last, price)
      BY <2>1, <2>5, <3>2, <3>3 DEF Short, Crossed
    <3> QED
      BY <2>1, <2>2, <2>3, <3>4 DEF Passing, Active
  <2> QED
    BY <2>4, <2>5
<1> QED
  BY <1>1, <1>2, <1>3, <1>4, <1>5, <1>6 DEF Inv

\* The alerts that trigger were waiting.
LEMMA SelectKeeps ==
    ASSUME Inv, SelectAlerts
    PROVE  Inv'
<1>1. TypeOK'
  BY DEF Inv, TypeOK, SelectAlerts, history, Triggering, IdleCheck, Active
<1>2. CheckInv'
  BY DEF Inv, TypeOK, CheckInv, SelectAlerts, history, Triggering, IdleCheck, Active
<1>3. MessageInv'
  BY DEF Inv, TypeOK, CheckInv, MessageInv, Pending, Active, SelectAlerts,
     history, Triggering, IdleCheck
<1>4. RecordInv'
  BY DEF Inv, TypeOK, CheckInv, RecordInv, SelectAlerts, history,
     Triggering, IdleCheck
<1>5. RepeatInv'
  BY DEF Inv, TypeOK, CheckInv, RepeatInv, Waiting, Active, SelectAlerts,
     history, Triggering, IdleCheck
<1>6. ArmedInv'
  BY DEF Inv, TypeOK, CheckInv, ArmedInv, Passing, Active, SelectAlerts,
     history, Triggering, IdleCheck
<1> QED
  BY <1>1, <1>2, <1>3, <1>4, <1>5, <1>6 DEF Inv

\* An announced alert is no longer waiting, and is marked.
LEMMA AnnounceKeeps ==
    ASSUME Inv, NEW a \in Alerts, Announce(a)
    PROVE  Inv'
<1>1. TypeOK'
  <2>1. announced' \in [Alerts -> Nat]
    BY DEF Inv, TypeOK, Announce
  <2>2. (IF a \in check.telegram THEN a ELSE None) \in Alerts \cup {None}
    OBVIOUS
  <2>3. check' \in [pc : {"idle", "opening", "looping"},
                    prev : Prices \cup {None}, price : Prices \cup {None},
                    todo : SUBSET Alerts, telegram : SUBSET Alerts,
                    dirty : SUBSET Alerts, sending : Alerts \cup {None}]
    BY <2>2 DEF Inv, TypeOK, Announce
  <2> QED
    BY <2>1, <2>3 DEF Inv, TypeOK, Announce
<1>2. CheckInv'
  BY DEF Inv, TypeOK, CheckInv, Announce
<1>3. MessageInv'
  BY DEF Inv, TypeOK, CheckInv, MessageInv, Pending, Active, Announce
<1>4. RecordInv'
  BY DEF Inv, TypeOK, CheckInv, RecordInv, Announce
<1>5. RepeatInv'
  BY DEF Inv, TypeOK, CheckInv, RepeatInv, Waiting, Active, Announce
<1>6. ArmedInv'
  BY DEF Inv, TypeOK, CheckInv, ArmedInv, Passing, Active, Announce
<1> QED
  BY <1>1, <1>2, <1>3, <1>4, <1>5, <1>6 DEF Inv

\* The message is committed together with the trigger of its alert.
LEMMA PostKeeps ==
    ASSUME Inv, Post
    PROVE  Inv'
<1>1. TypeOK'
  <2>1. row' \in [Alerts -> Row \cup {None}]
    BY CommittedRows DEF Post, Inv
  <2>2. check' \in [pc : {"idle", "opening", "looping"},
                    prev : Prices \cup {None}, price : Prices \cup {None},
                    todo : SUBSET Alerts, telegram : SUBSET Alerts,
                    dirty : SUBSET Alerts, sending : Alerts \cup {None}]
    BY DEF Inv, TypeOK, Post, IdleCheck
  <2>3. posted' \in [Alerts -> Nat] /\ recorded' \in [Alerts -> Nat]
    BY DEF Inv, TypeOK, Post, CommitTriggers
  <2> QED
    BY <2>1, <2>2, <2>3 DEF Inv, TypeOK, Post, CommitTriggers
<1>2. CheckInv'
  BY DEF Inv, TypeOK, CheckInv, Post, CommitTriggers, IdleCheck
<1>3. MessageInv'
  BY DEF Inv, TypeOK, CheckInv, MessageInv, Pending, Active, Post,
     CommitTriggers, IdleCheck
<1>4. RecordInv'
  BY DEF Inv, TypeOK, CheckInv, RecordInv, Post, CommitTriggers, IdleCheck
<1>5. RepeatInv'
  BY DEF Inv, TypeOK, CheckInv, RepeatInv, Waiting, Active, Post,
     CommitTriggers, IdleCheck
<1>6. ArmedInv'
  BY DEF Inv, TypeOK, CheckInv, ArmedInv, Passing, Active, Post,
     CommitTriggers, IdleCheck
<1> QED
  BY <1>1, <1>2, <1>3, <1>4, <1>5, <1>6 DEF Inv

\* The marked alerts are recorded and inactive.
LEMMA CheckCommitsKeeps ==
    ASSUME Inv, CheckCommits
    PROVE  Inv'
<1>1. TypeOK'
  <2>1. row' \in [Alerts -> Row \cup {None}]
    BY CommittedRows DEF CheckCommits, Inv
  <2> QED
    BY <2>1 DEF Inv, TypeOK, CheckCommits, CommitTriggers, IdleCheck
<1>2. CheckInv'
  BY DEF Inv, TypeOK, CheckInv, CheckCommits, CommitTriggers, IdleCheck
<1>3. MessageInv'
  BY DEF Inv, TypeOK, CheckInv, MessageInv, Pending, Active, CheckCommits,
     CommitTriggers, IdleCheck
<1>4. RecordInv'
  BY DEF Inv, TypeOK, CheckInv, RecordInv, CheckCommits, CommitTriggers,
     IdleCheck
<1>5. RepeatInv'
  BY DEF Inv, TypeOK, CheckInv, RepeatInv, Waiting, Active, CheckCommits,
     CommitTriggers, IdleCheck
<1>6. ArmedInv'
  BY DEF Inv, TypeOK, CheckInv, ArmedInv, Passing, Active, CheckCommits,
     CommitTriggers, IdleCheck
<1> QED
  BY <1>1, <1>2, <1>3, <1>4, <1>5, <1>6 DEF Inv

\* A failure gives every marked alert one more announcement.
LEMMA CheckFailsKeeps ==
    ASSUME Inv, CheckFails
    PROVE  Inv'
<1>1. TypeOK'
  BY DEF Inv, TypeOK, CheckFails, IdleCheck
<1>2. CheckInv'
  BY DEF Inv, TypeOK, CheckInv, CheckFails, IdleCheck
<1>3. MessageInv'
  BY DEF Inv, TypeOK, CheckInv, MessageInv, Pending, Active, CheckFails,
     IdleCheck
<1>4. RecordInv'
  BY DEF Inv, TypeOK, CheckInv, RecordInv, CheckFails, IdleCheck
<1>5. RepeatInv'
  BY DEF Inv, TypeOK, CheckInv, RepeatInv, Waiting, Active, CheckFails,
     IdleCheck
<1>6. ArmedInv'
  BY DEF Inv, TypeOK, CheckInv, ArmedInv, Passing, Active, CheckFails,
     IdleCheck
<1> QED
  BY <1>1, <1>2, <1>3, <1>4, <1>5, <1>6 DEF Inv

\* Without a last price nothing is armed.
LEMMA ForgetKeeps ==
    ASSUME Inv, ForgetPrice
    PROVE  Inv'
<1>1. TypeOK'
  BY DEF Inv, TypeOK, ForgetPrice, IdleCheck
<1>2. CheckInv'
  BY DEF Inv, TypeOK, CheckInv, ForgetPrice, IdleCheck
<1>3. MessageInv'
  BY DEF Inv, TypeOK, CheckInv, MessageInv, Pending, Active, ForgetPrice,
     IdleCheck
<1>4. RecordInv'
  BY DEF Inv, TypeOK, CheckInv, RecordInv, ForgetPrice, IdleCheck
<1>5. RepeatInv'
  BY DEF Inv, TypeOK, CheckInv, RepeatInv, Waiting, Active, ForgetPrice,
     IdleCheck
<1>6. ArmedInv'
  BY DEF Inv, TypeOK, CheckInv, ArmedInv, Passing, Active, ForgetPrice,
     IdleCheck
<1> QED
  BY <1>1, <1>2, <1>3, <1>4, <1>5, <1>6 DEF Inv

\* A restart is a failure of the check.
LEMMA RestartKeeps ==
    ASSUME Inv, Restart
    PROVE  Inv'
<1>1. TypeOK'
  BY DEF Inv, TypeOK, Restart, IdleCheck
<1>2. CheckInv'
  BY DEF Inv, TypeOK, CheckInv, Restart, IdleCheck
<1>3. MessageInv'
  BY DEF Inv, TypeOK, CheckInv, MessageInv, Pending, Active, Restart,
     IdleCheck
<1>4. RecordInv'
  BY DEF Inv, TypeOK, CheckInv, RecordInv, Restart, IdleCheck
<1>5. RepeatInv'
  BY DEF Inv, TypeOK, CheckInv, RepeatInv, Waiting, Active, Restart,
     IdleCheck
<1>6. ArmedInv'
  BY DEF Inv, TypeOK, CheckInv, ArmedInv, Passing, Active, Restart,
     IdleCheck
<1> QED
  BY <1>1, <1>2, <1>3, <1>4, <1>5, <1>6 DEF Inv

LEMMA NextKeeps ==
    ASSUME Inv, [Next]_vars
    PROVE  Inv'
<1>1. CASE \E a \in Alerts : Request(a)
  BY <1>1, CreateKeeps, StartUpdateKeeps, FinishUpdateKeeps, DeleteKeeps DEF Request
<1>2. CASE \E a \in Alerts : Announce(a)
  BY <1>2, AnnounceKeeps
<1>3. CASE \E price \in Prices : Ticker(price)
  BY <1>3, TickerKeeps
<1>4. CASE SelectAlerts \/ Post \/ CheckCommits \/ CheckFails
  BY <1>4, SelectKeeps, PostKeeps, CheckCommitsKeeps, CheckFailsKeeps
<1>5. CASE ForgetPrice \/ Restart
  BY <1>5, ForgetKeeps, RestartKeeps
<1>6. CASE UNCHANGED vars
  BY <1>6 DEF vars, history, Inv, TypeOK, CheckInv, MessageInv, RecordInv, RepeatInv,
              ArmedInv, Pending, Waiting, Passing, Active
<1> QED
  BY <1>1, <1>2, <1>3, <1>4, <1>5, <1>6 DEF Next

THEOREM Invariant == Spec => []Inv
<1>1. Init => Inv
  BY InitInv
<1>2. Inv /\ [Next]_vars => Inv'
  BY NextKeeps
<1> QED
  BY <1>1, <1>2, PTL DEF Spec

\* Every table, the check and every counter keep their types.
THEOREM AlertTypes == Spec => []TypeOK
<1>1. Inv => TypeOK
  BY DEF Inv
<1> QED
  BY <1>1, Invariant, PTL

\* Each activation of an alert costs at most one Telegram message, however many
\* checks fail: message and trigger are in one transaction.
THEOREM MessagesArePaidFor == Spec => []OneMessagePerActivation
<1>1. Inv => OneMessagePerActivation
  BY DEF Inv, MessageInv, OneMessagePerActivation
<1> QED
  BY <1>1, Invariant, PTL

\* What the table says was triggered, the frontend was told.
THEOREM TriggersWereAnnounced == Spec => []RecordedWasAnnounced
<1>1. Inv => RecordedWasAnnounced
  BY DEF Inv, RecordInv, RecordedWasAnnounced
<1> QED
  BY <1>1, Invariant, PTL

\* The frontend is told again only after a new activation or a failed check.
THEOREM RepeatsAreExplained == Spec => []RepeatNeedsFailure
<1>1. Inv => RepeatNeedsFailure
  BY DEF Inv, RepeatInv, RepeatNeedsFailure
<1> QED
  BY <1>1, Invariant, PTL

\* Without a failed check no active alert is left behind the price.
THEOREM CrossingsAreSeen == Spec => []NoCrossingMissed
<1>1. Inv => NoCrossingMissed
  BY DEF Inv, CheckInv, ArmedInv, Passing, NoCrossingMissed, IdleCheck
<1> QED
  BY <1>1, Invariant, PTL
=============================================================================
