------------------------- MODULE NeedleQueueProofs -------------------------
(***************************************************************************)
(* The safety of the Needle queue for any number of applications, clients, *)
(* workers, labels and tasks, any thresholds and any number of faults.     *)
(***************************************************************************)
EXTENDS NeedleQueue, TLAPS

----------------------------------------------------------------------------
(* Type correctness.                                                       *)

LEMMA InitTypeOK == Init => TypeOK
  BY ConstantsAssumption
  DEF Init, TypeOK, Task, TaskStatus, FailureCode, Request, IdleRequest, WorkerStep,
      TaskId, NoTask, StaleBeat, OldestAge

LEMMA RowsAfterType ==
  ASSUME TypeOK, NEW n \in TaskId, NEW a \in Application \cup {NoApplication}, NEW s,
         NEW code \in FailureCode
  PROVE  RowsAfter(n, a, s, code) \in [TaskId -> Task]
  BY DEF TypeOK, RowsAfter, Task, TaskStatus, FailureCode

LEMMA SettleType ==
  ASSUME TypeOK, NEW t \in TaskId, NEW status \in {"completed", "failed"},
         NEW code \in FailureCode, NEW result \in BOOLEAN, Settle(t, status, code, result)
  PROVE  task' \in [TaskId -> Task]
  BY DEF TypeOK, Settle, Task, TaskStatus

LEMMA ClientStepTypeOK ==
  ASSUME TypeOK, NEW c \in Client, ClientStep(c),
         request[c].step = "commit" => request[c].row \in TaskId
  PROVE  TypeOK'
<1>. USE DEF taskVars, workerVars
<1>1. ASSUME NEW a \in Application, BeginEnqueue(c, a)
      PROVE  TypeOK'
  <2>1. \E r \in Request : request' = [request EXCEPT ![c] = r]
    <3>1. CASE request' = [request EXCEPT ![c] =
                             [IdleRequest EXCEPT !.step = "create", !.application = a]]
      BY <3>1 DEF Request, TaskStatus, IdleRequest
    <3>2. ASSUME NEW t \in TaskId,
                 request' = [request EXCEPT ![c] =
                   [IdleRequest EXCEPT !.step = "judge", !.application = a,
                                       !.seen = t, !.seenStatus = task[t].status]]
          PROVE  \E r \in Request : request' = [request EXCEPT ![c] = r]
      <4>1. task[t].status \in TaskStatus
        BY DEF TypeOK, Task
      <4>. QED
        BY <3>2, <4>1 DEF Request, IdleRequest
    <3>. QED
      BY <1>1, <3>1, <3>2 DEF BeginEnqueue
  <2>. QED
    BY <1>1, <2>1 DEF BeginEnqueue, TypeOK
<1>2. ASSUME JudgeHeartbeat(c)
      PROVE  TypeOK'
  <2>1. IdleRequest \in Request /\ [request[c] EXCEPT !.step = "replace"] \in Request
    BY DEF TypeOK, Request, IdleRequest, TaskStatus
  <2>2. request' \in [Client -> Request]
    BY <1>2, <2>1 DEF JudgeHeartbeat, TypeOK
  <2>. QED
    BY <1>2, <2>2 DEF JudgeHeartbeat, TypeOK
<1>3. ASSUME InsertTask(c)
      PROVE  TypeOK'
  <2>1. created + 1 \in TaskId /\ created' \in 0..MaxTasks
    BY <1>3, ConstantsAssumption DEF InsertTask, TypeOK, TaskId
  <2>2. taskAge' \in [TaskId -> 0..OldestAge]
    BY <1>3, <2>1, ConstantsAssumption DEF InsertTask, TypeOK, OldestAge
  <2>3. request' \in [Client -> Request]
    BY <1>3, <2>1 DEF InsertTask, TypeOK, Request
  <2>. QED
    BY <1>3, <2>1, <2>2, <2>3 DEF InsertTask, TypeOK
<1>4. ASSUME CommitEnqueue(c), request[c].row \in TaskId
      PROVE  TypeOK'
  <2>1. RecoveryCode(request[c].seenStatus) \in FailureCode
    BY DEF RecoveryCode, FailureCode
  <2>2. task' \in [TaskId -> Task]
    BY <1>4, <2>1, RowsAfterType DEF CommitEnqueue, TypeOK, Request
  <2>3. request' \in [Client -> Request]
    BY <1>4 DEF CommitEnqueue, TypeOK, Request, IdleRequest, NoTask, TaskStatus
  <2>4. unseen' \in [Worker -> SUBSET TaskId]
    BY <1>4 DEF CommitEnqueue, NotSeen, TypeOK
  <2>. QED
    BY <1>4, <2>2, <2>3, <2>4 DEF CommitEnqueue, TypeOK
<1>. QED
  BY <1>1, <1>2, <1>3, <1>4 DEF ClientStep, CommitEnqueue

LEMMA WorkerStepTypeOK ==
  ASSUME TypeOK, NEW w \in Worker, WorkerStepOf(w), HoldsTask(w) => current[w] \in TaskId,
         pc[w] = "take" => current[w] \in TaskId
  PROVE  TypeOK'
<1>. USE DEF taskVars, workerVars, Step, WorkerStep, ExecutingStep, HoldsTask
<1>0. LabelOf[w] \in Label
  BY ConstantsAssumption
<1>1. ASSUME Beat(w)
      PROVE  heartbeatAge' \in [Label -> 0..StaleBeat]
  BY <1>0, <1>1, ConstantsAssumption DEF Beat, TypeOK, StaleBeat
<1>2. CASE Poll(w) \/ Announce(w) \/ ServiceReturns(w) \/ ServiceThrows(w) \/ Rest(w) \/ Restart(w)
  BY <1>1, <1>2 DEF Poll, Announce, ServiceReturns, ServiceThrows, Rest, Restart, TypeOK
<1>3. CASE FindNext(w)
  BY <1>3 DEF FindNext, TypeOK
<1>4. CASE Claim(w)
  <2>1. CASE pc[w] = "take" /\ task' = task /\ taskAge' = taskAge
    BY <1>4, <2>1 DEF Claim, TypeOK, NoTask
  <2>2. CASE /\ pc[w] = "take"
             /\ task' = [task EXCEPT ![current[w]] =
                           [@ EXCEPT !.status = "processing", !.workerLabel = LabelOf[w]]]
             /\ taskAge' = [taskAge EXCEPT ![current[w]] = 0]
    <3>. DEFINE new == [task[current[w]] EXCEPT !.status = "processing",
                                                !.workerLabel = LabelOf[w]]
    <3>1. task \in [TaskId -> Task] /\ task[current[w]] \in Task
      BY <2>2 DEF TypeOK
    <3>2. new \in Task
      BY <1>0, <3>1 DEF Task, TaskStatus
    <3>3. task' = [task EXCEPT ![current[w]] = new]
      BY <2>2
    <3>4. task' \in [TaskId -> Task]
      <4>. HIDE DEF new
      <4>. QED
        BY <3>1, <3>2, <3>3
    <3>5. taskAge' \in [TaskId -> 0..OldestAge]
      BY <2>2, ConstantsAssumption DEF TypeOK, OldestAge
    <3>. QED
      BY <1>4, <3>4, <3>5 DEF Claim, TypeOK
  <2>. QED
    BY <1>4, <2>1, <2>2 DEF Claim
<1>5. CASE Complete(w)
  <2>1. task' \in [TaskId -> Task]
    BY <1>5, SettleType DEF Complete, FailureCode
  <2>. QED
    BY <1>5, <2>1 DEF Complete, TypeOK
<1>6. CASE Report(w)
  BY <1>1, <1>6 DEF Report, TypeOK, NoTask
<1>7. CASE FailTask(w)
  <2>1. task[current[w]].hasResult \in BOOLEAN
    BY <1>7 DEF FailTask, TypeOK, Task
  <2>2. task' \in [TaskId -> Task]
    BY <1>7, <2>1, SettleType DEF FailTask, FailureCode
  <2>. QED
    BY <1>7, <2>2 DEF FailTask, TypeOK, NoTask
<1>. QED
  BY <1>2, <1>3, <1>4, <1>5, <1>6, <1>7 DEF WorkerStepOf

LEMMA FaultTypeOK ==
  ASSUME TypeOK,
         \/ \E w \in Worker : Crash(w) \/ CallThrows(w)
         \/ \E c \in Client : AbortEnqueue(c)
  PROVE  TypeOK'
<1>. USE ConstantsAssumption DEF TypeOK, taskVars, workerVars, NoTask
<1>1. ASSUME NEW w \in Worker, Crash(w) \/ CallThrows(w)
      PROVE  TypeOK'
  BY <1>1 DEF Crash, CallThrows, WorkerStep
<1>2. ASSUME NEW c \in Client, AbortEnqueue(c)
      PROVE  TypeOK'
  BY <1>2 DEF AbortEnqueue, Request, IdleRequest, TaskStatus
<1>. QED
  BY <1>1, <1>2

LEMMA TickTypeOK ==
  ASSUME TypeOK, Tick
  PROVE  TypeOK'
<1>1. taskAge' \in [TaskId -> 0..OldestAge]
  BY ConstantsAssumption DEF Tick, TypeOK, OldestAge
<1>2. heartbeatAge' \in [Label -> 0..StaleBeat]
  BY ConstantsAssumption DEF Tick, TypeOK, StaleBeat
<1>. QED
  BY <1>1, <1>2 DEF Tick, TypeOK, workerVars

----------------------------------------------------------------------------
(* How one step moves the rows and the workers.                            *)

\* The actions that touch the NeedleTask table.
WritesTask ==
  \/ \E c \in Client : CommitEnqueue(c)
  \/ \E w \in Worker : Claim(w) \/ Complete(w) \/ FailTask(w)

LEMMA OthersLeaveTasks ==
  ASSUME Next, ~WritesTask
  PROVE  task' = task
<1>. USE DEF taskVars
<1>1. CASE \E c \in Client : ClientStep(c)
  BY <1>1 DEF ClientStep, BeginEnqueue, JudgeHeartbeat, InsertTask, WritesTask
<1>2. CASE \E w \in Worker : WorkerStepOf(w)
  BY <1>2 DEF WorkerStepOf, Poll, FindNext, Announce, ServiceReturns, ServiceThrows,
              Report, Rest, Restart, WritesTask
<1>3. CASE \E w \in Worker : Crash(w) \/ CallThrows(w)
  BY <1>3 DEF Crash, CallThrows
<1>4. CASE \E c \in Client : AbortEnqueue(c)
  BY <1>4 DEF AbortEnqueue
<1>5. CASE Tick
  BY <1>5 DEF Tick
<1>. QED
  BY <1>1, <1>2, <1>3, <1>4, <1>5 DEF Next

\* Stamps are given out one at a time and never taken back.
LEMMA StampsGrow ==
  ASSUME TypeOK, Next
  PROVE  created \in Nat /\ created' \in {created, created + 1}
<1>1. created \in Nat
  BY ConstantsAssumption DEF TypeOK
<1>. QED
  BY <1>1
  DEF Next, ClientStep, BeginEnqueue, JudgeHeartbeat, InsertTask, CommitEnqueue, WorkerStepOf,
      Poll, FindNext, Claim, Announce, ServiceReturns, ServiceThrows, Complete, Report,
      FailTask, Rest, Restart, Crash, CallThrows, AbortEnqueue, Tick, taskVars

\* A claimed task is processing and carries the label of its worker.
LEMMA ClaimWrites ==
  ASSUME IInv, NEW w \in Worker, Claim(w)
  PROVE  \/ task' = task
         \/ /\ pc[w] = "take" /\ pc'[w] = "announce" /\ current' = current
            /\ current[w] \in TaskId /\ task[current[w]].status = "queued"
            /\ LabelOf[w] \in Label
            /\ task' = [task EXCEPT ![current[w]] =
                          [@ EXCEPT !.status = "processing", !.workerLabel = LabelOf[w]]]
<1>1. LabelOf[w] \in Label
  BY ConstantsAssumption
<1>2. pc[w] = "take" => current[w] \in TaskId
  BY DEF IInv, TypeOK, WorkersKnowTheirTask, TaskId, NoTask
<1>. QED
  BY <1>1, <1>2 DEF Claim, Step, IInv, TypeOK

\* A settled task was held by the worker that settles it.
LEMMA SettleWrites ==
  ASSUME IInv, NEW w \in Worker, Complete(w) \/ FailTask(w)
  PROVE  /\ HoldsTask(w)
         /\ current[w] \in TaskId
         /\ task[current[w]].workerLabel # NoLabel
         /\ \E status \in {"completed", "failed"}, code \in FailureCode, result \in BOOLEAN :
              /\ task' = [task EXCEPT ![current[w]] =
                   [@ EXCEPT !.status = status, !.failureCode = code, !.hasResult = result]]
              /\ status = "completed" => code = "none" /\ result
              /\ status = "failed" => code # "none"
<1>1. HoldsTask(w)
  BY DEF Complete, FailTask, Step, HoldsTask, ExecutingStep
<1>2. current[w] \in TaskId /\ task[current[w]].workerLabel # NoLabel
  BY <1>1 DEF IInv, WorkersKnowTheirTask
<1>4. task[current[w]].hasResult \in BOOLEAN
  BY <1>2 DEF IInv, TypeOK, Task
<1>5. \E status \in {"completed", "failed"}, code \in FailureCode, result \in BOOLEAN :
        /\ task' = [task EXCEPT ![current[w]] =
             [@ EXCEPT !.status = status, !.failureCode = code, !.hasResult = result]]
        /\ status = "completed" => code = "none" /\ result
        /\ status = "failed" => code # "none"
  <2>1. CASE Complete(w)
    BY <2>1, Zenon DEF Complete, Settle, FailureCode
  <2>2. CASE FailTask(w)
    BY <2>2, <1>4, Zenon DEF FailTask, Settle, FailureCode
  <2>. QED
    BY <2>1, <2>2
<1>. QED
  BY <1>1, <1>2, <1>5

\* What CommitEnqueue makes of each row.
LEMMA CommitWrites ==
  ASSUME IInv, NEW c \in Client, CommitEnqueue(c)
  PROVE  /\ request[c].row \in TaskId
         /\ request[c].row \in 1..created
         /\ task[request[c].row].status = "absent"
         /\ request[c].step = "commit"
         /\ request[c].application \in Application
         /\ task'[request[c].row] =
              [status |-> "queued", application |-> request[c].application,
               workerLabel |-> NoLabel, failureCode |-> "none", hasResult |-> FALSE]
         /\ \A t \in TaskId : t # request[c].row /\ t # request[c].seen => task'[t] = task[t]
         /\ request[c].seen \in TaskId =>
              /\ task[request[c].seen].status # "absent"
              /\ task'[request[c].seen] = [task[request[c].seen] EXCEPT !.status = "failed",
                                   !.failureCode = RecoveryCode(request[c].seenStatus)]
         /\ request[c].seen # request[c].row
         /\ RecoveryCode(request[c].seenStatus) \in FailureCode \ {"none"}
         /\ NotSeen(request[c].row)
<1>1. /\ request[c].step = "commit"
      /\ request[c].application \in Application
      /\ RowIsPending(c)
      /\ request[c].seen # NoTask => task[request[c].seen].status # "absent"
  BY DEF CommitEnqueue, IInv, RequestsKnowTheirApplication
<1>2. request[c].row \in TaskId /\ request[c].row \in 1..created
      /\ task[request[c].row].status = "absent"
  BY <1>1, ConstantsAssumption DEF RowIsPending, IInv, TypeOK, TaskId
<1>3. request[c].seen \in TaskId => task[request[c].seen].status # "absent"
  BY <1>1 DEF TaskId, NoTask
<1>4. RecoveryCode(request[c].seenStatus) \in FailureCode \ {"none"}
  BY DEF RecoveryCode, FailureCode
<1>5. task' = RowsAfter(request[c].row, request[c].application, request[c].seen,
                        RecoveryCode(request[c].seenStatus))
      /\ NotSeen(request[c].row)
  BY DEF CommitEnqueue
<1>. QED
  BY <1>1, <1>2, <1>3, <1>4, <1>5 DEF RowsAfter

\* A committed row keeps its application, a claimed row stays claimed, and only
\* the row just committed is new in the queue.
RowsGrow ==
  /\ created \in Nat /\ created' \in Nat /\ created <= created'
  /\ \A t \in TaskId : task[t].status # "absent" =>
       task'[t].status # "absent" /\ task'[t].application = task[t].application
  /\ \A t \in TaskId : task[t].workerLabel # NoLabel => task'[t].workerLabel # NoLabel
  /\ \A t \in TaskId : task'[t].status = "queued" => task[t].status = "queued" \/ NotSeen(t)
  /\ \A t \in TaskId : task[t].status = "absent" /\ task'[t].status # "absent" =>
       \E c \in Client : CommitEnqueue(c) /\ request[c].row = t

LEMMA RowsEvolve ==
  ASSUME IInv, Next
  PROVE  RowsGrow
<1>. USE DEF RowsGrow
<1>0. task \in [TaskId -> Task] /\ created \in Nat /\ created' \in Nat /\ created <= created'
  BY StampsGrow DEF IInv, TypeOK
<1>1. CASE task' = task
  BY <1>0, <1>1
<1>2. ASSUME NEW w \in Worker, Claim(w)
      PROVE  RowsGrow
  <2>1. CASE /\ current[w] \in TaskId /\ task[current[w]].status = "queued"
             /\ LabelOf[w] \in Label
             /\ task' = [task EXCEPT ![current[w]] =
                           [@ EXCEPT !.status = "processing", !.workerLabel = LabelOf[w]]]
    <3>1. /\ task'[current[w]].status = "processing"
          /\ task'[current[w]].workerLabel # NoLabel
          /\ task'[current[w]].application = task[current[w]].application
      BY <1>0, <2>1, ConstantsAssumption DEF Task
    <3>2. \A t \in TaskId : t # current[w] => task'[t] = task[t]
      BY <1>0, <2>1
    <3>. QED
      BY <1>0, <2>1, <3>1, <3>2
  <2>. QED
    BY <1>1, <1>2, <2>1, ClaimWrites
<1>3. ASSUME NEW w \in Worker, Complete(w) \/ FailTask(w)
      PROVE  RowsGrow
  <2>1. PICK status \in {"completed", "failed"}, code \in FailureCode, result \in BOOLEAN :
          task' = [task EXCEPT ![current[w]] =
             [@ EXCEPT !.status = status, !.failureCode = code, !.hasResult = result]]
    BY <1>3, SettleWrites
  <2>2. /\ current[w] \in TaskId
        /\ task[current[w]].workerLabel # NoLabel
    BY <1>3, SettleWrites
  <2>3. /\ task'[current[w]].application = task[current[w]].application
        /\ task'[current[w]].workerLabel = task[current[w]].workerLabel
        /\ task'[current[w]].status \notin {"queued", "absent"}
    BY <1>0, <2>1, <2>2 DEF Task
  <2>4. \A t \in TaskId : t # current[w] => task'[t] = task[t]
    BY <1>0, <2>1, <2>2
  <2>5. task[current[w]].status # "absent"
    BY <2>2 DEF IInv, RowsInOrder
  <2>. QED
    BY <1>0, <2>2, <2>3, <2>4, <2>5
<1>4. ASSUME NEW c \in Client, CommitEnqueue(c)
      PROVE  RowsGrow
  <2>0. /\ request[c].row \in TaskId /\ task[request[c].row].status = "absent"
        /\ \A t \in TaskId : t # request[c].row /\ t # request[c].seen => task'[t] = task[t]
        /\ request[c].seen \in TaskId =>
             /\ task[request[c].seen].status # "absent"
             /\ task'[request[c].seen] = [task[request[c].seen] EXCEPT !.status = "failed",
                                   !.failureCode = RecoveryCode(request[c].seenStatus)]
        /\ NotSeen(request[c].row)
    BY <1>4, CommitWrites
  <2>1. ASSUME NEW t \in TaskId, t # request[c].row
        PROVE  /\ task'[t].application = task[t].application
               /\ task'[t].workerLabel = task[t].workerLabel
               /\ task'[t].status = "queued" => task[t].status = "queued"
               /\ task'[t].status = "absent" <=> task[t].status = "absent"
    <3>1. CASE t = request[c].seen
      BY <1>0, <2>0, <2>1, <3>1 DEF Task
    <3>2. CASE t # request[c].seen
      BY <2>0, <2>1, <3>2
    <3>. QED
      BY <3>1, <3>2
  <2>2. task[request[c].row].workerLabel = NoLabel
    BY <2>0 DEF IInv, RowsInOrder
  <2>. QED
    BY <1>0, <1>4, <2>0, <2>1, <2>2
<1>. QED
  BY <1>1, <1>2, <1>3, <1>4, OthersLeaveTasks DEF WritesTask

\* A worker comes to a task by reading the oldest queued one, and to hold it by
\* the compare-and-set; no other step gives it a task.
WorkerMoves(x) ==
  /\ pc'[x] = "take" =>
       \/ pc[x] = "take" /\ current'[x] = current[x] /\ unseen[x] \subseteq unseen'[x]
       \/ /\ current'[x] \in TaskId /\ IsOldestOf(current'[x], QueuedTasks)
          /\ task' = task
  /\ pc'[x] \in ExecutingStep \cup {"report"} =>
       /\ current'[x] = current[x]
       /\ \/ pc[x] \in ExecutingStep \cup {"report"}
          \/ /\ current[x] \in TaskId /\ task[current[x]].status = "queued"
             /\ task'[current[x]].workerLabel # NoLabel
             /\ \A y \in Worker : y # x => pc'[y] = pc[y] /\ current'[y] = current[y]

LEMMA WorkersEvolve ==
  ASSUME IInv, Next, NEW x \in Worker
  PROVE  WorkerMoves(x)
<1>. USE DEF workerVars, WorkerMoves, ExecutingStep
<1>0. pc \in [Worker -> WorkerStep] /\ current \in [Worker -> TaskId \cup {NoTask}]
      /\ task \in [TaskId -> Task] /\ unseen \in [Worker -> SUBSET TaskId]
  BY DEF IInv, TypeOK
<1>1. CASE \E c \in Client : ClientStep(c) \/ AbortEnqueue(c)
  BY <1>0, <1>1 DEF ClientStep, BeginEnqueue, JudgeHeartbeat, InsertTask, CommitEnqueue, NotSeen,
                    AbortEnqueue
<1>2. ASSUME NEW w \in Worker, Claim(w)
      PROVE  WorkerMoves(x)
  <2>1. CASE w = x
    <3>1. CASE task' = task
      <4>1. pc[w] = "take" => current[w] \in TaskId
        BY DEF IInv, TypeOK, WorkersKnowTheirTask, TaskId, NoTask
      <4>2. ASSUME task[current[w]].status = "queued", pc[w] = "take"
            PROVE  FALSE
        <5>1. task' = [task EXCEPT ![current[w]] =
                         [@ EXCEPT !.status = "processing", !.workerLabel = LabelOf[w]]]
          BY <1>2, <4>2 DEF Claim, Step
        <5>2. task'[current[w]].status = "processing"
          BY <1>0, <4>1, <4>2, <5>1 DEF Task
        <5>. QED
          BY <3>1, <4>2, <5>2
      <4>. QED
        BY <1>0, <1>2, <2>1, <4>2 DEF Claim, Step
    <3>2. CASE /\ pc[w] = "take" /\ pc'[w] = "announce" /\ current' = current
               /\ current[w] \in TaskId /\ task[current[w]].status = "queued"
               /\ LabelOf[w] \in Label
               /\ task' = [task EXCEPT ![current[w]] =
                             [@ EXCEPT !.status = "processing", !.workerLabel = LabelOf[w]]]
      <4>1. task'[current[w]].workerLabel # NoLabel
        BY <1>0, <3>2, ConstantsAssumption DEF Task
      <4>2. \A y \in Worker : y # w => pc'[y] = pc[y]
        BY <1>0, <1>2 DEF Claim, Step
      <4>. QED
        BY <2>1, <3>2, <4>1, <4>2
    <3>. QED
      BY <1>2, <3>1, <3>2, ClaimWrites
  <2>2. CASE w # x
    BY <1>0, <1>2, <2>2 DEF Claim, Step
  <2>. QED
    BY <2>1, <2>2
<1>3. ASSUME NEW w \in Worker, FindNext(w)
      PROVE  WorkerMoves(x)
  <2>1. task' = task /\ pc' = [pc EXCEPT ![w] = pc'[w]]
        /\ pc'[w] \in {"rest", "take"}
    BY <1>0, <1>3 DEF FindNext, Step, taskVars
  <2>2. CASE w # x
    BY <1>0, <1>3, <2>1, <2>2 DEF FindNext
  <2>3. CASE w = x
    BY <1>0, <1>3, <2>1, <2>3 DEF FindNext, Step
  <2>. QED
    BY <2>2, <2>3
<1>4. ASSUME NEW w \in Worker,
             \/ Poll(w) \/ Announce(w) \/ ServiceReturns(w) \/ ServiceThrows(w)
             \/ Complete(w) \/ Report(w) \/ FailTask(w) \/ Rest(w) \/ Restart(w)
      PROVE  WorkerMoves(x)
  BY <1>0, <1>4 DEF Poll, Announce, ServiceReturns, ServiceThrows, Complete, Report, FailTask,
                    Rest, Restart, Step
<1>5. ASSUME NEW w \in Worker, Crash(w) \/ CallThrows(w)
      PROVE  WorkerMoves(x)
  BY <1>0, <1>5 DEF Crash, CallThrows
<1>6. CASE Tick
  BY <1>6 DEF Tick
<1>. QED
  BY <1>1, <1>2, <1>3, <1>4, <1>5, <1>6 DEF Next, WorkerStepOf

----------------------------------------------------------------------------
(* Every step preserves each part of the inductive invariant.              *)

LEMMA TypeOKStep ==
  ASSUME IInv, Next
  PROVE  TypeOK'
<1>2. ASSUME NEW c \in Client
      PROVE  request[c].step = "commit" => request[c].row \in TaskId
  BY ConstantsAssumption DEF IInv, TypeOK, RequestsKnowTheirApplication, RowIsPending, TaskId
<1>1. ASSUME NEW w \in Worker
      PROVE  /\ HoldsTask(w) => current[w] \in TaskId
             /\ pc[w] = "take" => current[w] \in TaskId
  BY DEF IInv, TypeOK, WorkersKnowTheirTask, TaskId, NoTask
<1>. QED
  BY <1>1, <1>2, ClientStepTypeOK, WorkerStepTypeOK, FaultTypeOK, TickTypeOK DEF Next, IInv

LEMMA RowsInOrderStep ==
  ASSUME IInv, Next
  PROVE  RowsInOrder'
<1>. USE DEF RowsInOrder
<1>0. /\ task \in [TaskId -> Task] /\ RowsInOrder
      /\ created \in Nat /\ created' \in Nat /\ created <= created'
  BY StampsGrow DEF IInv, TypeOK
<1>1. CASE task' = task
  BY <1>0, <1>1 DEF TaskId
<1>2. ASSUME NEW w \in Worker, Claim(w)
      PROVE  RowsInOrder'
  <2>1. CASE /\ current[w] \in TaskId /\ task[current[w]].status = "queued"
             /\ LabelOf[w] \in Label
             /\ task' = [task EXCEPT ![current[w]] =
                           [@ EXCEPT !.status = "processing", !.workerLabel = LabelOf[w]]]
    <3>1. /\ task'[current[w]].status = "processing"
          /\ task'[current[w]].workerLabel # NoLabel
          /\ task'[current[w]].application = task[current[w]].application
      BY <1>0, <2>1, ConstantsAssumption DEF Task
    <3>2. \A t \in TaskId : t # current[w] => task'[t] = task[t]
      BY <1>0, <2>1
    <3>. QED
      BY <1>0, <2>1, <3>1, <3>2 DEF TaskId
  <2>. QED
    BY <1>1, <1>2, <2>1, ClaimWrites
<1>3. ASSUME NEW w \in Worker, Complete(w) \/ FailTask(w)
      PROVE  RowsInOrder'
  <2>1. PICK status \in {"completed", "failed"}, code \in FailureCode, result \in BOOLEAN :
          task' = [task EXCEPT ![current[w]] =
             [@ EXCEPT !.status = status, !.failureCode = code, !.hasResult = result]]
    BY <1>3, SettleWrites
  <2>2. /\ current[w] \in TaskId
        /\ task[current[w]].workerLabel # NoLabel
    BY <1>3, SettleWrites
  <2>3. /\ task'[current[w]].status \notin {"absent", "queued", "processing"}
        /\ task'[current[w]].application = task[current[w]].application
    BY <1>0, <2>1, <2>2 DEF Task
  <2>4. \A t \in TaskId : t # current[w] => task'[t] = task[t]
    BY <1>0, <2>1, <2>2
  <2>. QED
    BY <1>0, <2>2, <2>3, <2>4 DEF TaskId
<1>4. ASSUME NEW c \in Client, CommitEnqueue(c)
      PROVE  RowsInOrder'
  <2>0. request[c].row \in TaskId /\ request[c].row \in 1..created
    BY <1>4, CommitWrites
  <2>4. request[c].row <= created
    BY <1>0, <2>0
  <2>1. /\ \A t \in TaskId : t # request[c].row /\ t # request[c].seen => task'[t] = task[t]
        /\ request[c].seen \in TaskId =>
             /\ task[request[c].seen].status # "absent"
             /\ task'[request[c].seen] = [task[request[c].seen] EXCEPT !.status = "failed",
                                   !.failureCode = RecoveryCode(request[c].seenStatus)]
        /\ request[c].application \in Application
        /\ task'[request[c].row] =
              [status |-> "queued", application |-> request[c].application,
               workerLabel |-> NoLabel, failureCode |-> "none", hasResult |-> FALSE]
    BY <1>4, CommitWrites
  <2>2. ASSUME request[c].seen \in TaskId
        PROVE  /\ task'[request[c].seen].status = "failed"
               /\ task'[request[c].seen].application = task[request[c].seen].application
    BY <1>0, <2>1, <2>2 DEF Task
  <2>3. ASSUME NEW t \in TaskId
        PROVE  /\ task'[t].status # "absent" =>
                     t <= created' /\ task'[t].application \in Application
               /\ task'[t].status \in {"absent", "queued"} => task'[t].workerLabel = NoLabel
               /\ task'[t].status = "processing" => task'[t].workerLabel # NoLabel
    <3>1. CASE t = request[c].row
      BY <1>0, <2>1, <2>4, <3>1 DEF TaskId
    <3>2. CASE t = request[c].seen
      BY <1>0, <2>1, <2>2, <3>2 DEF TaskId
    <3>3. CASE t # request[c].row /\ t # request[c].seen
      BY <1>0, <2>1, <3>3 DEF TaskId
    <3>. QED
      BY <3>1, <3>2, <3>3
  <2>. QED
    BY <2>3
<1>. QED
  BY <1>1, <1>2, <1>3, <1>4, OthersLeaveTasks DEF WritesTask

LEMMA WorkersKnowTheirTaskStep ==
  ASSUME IInv, Next
  PROVE  WorkersKnowTheirTask'
<1>1. RowsGrow
  BY RowsEvolve
<1>2. ASSUME NEW w \in Worker, pc'[w] = "take"
      PROVE  /\ current'[w] \in TaskId
             /\ \A u \in QueuedTasks' : current'[w] <= u \/ u \in unseen'[w]
  <2>1. CASE pc[w] = "take" /\ current'[w] = current[w] /\ unseen[w] \subseteq unseen'[w]
    <3>1. /\ current[w] \in TaskId
          /\ \A u \in QueuedTasks : current[w] <= u \/ u \in unseen[w]
      BY <2>1 DEF IInv, WorkersKnowTheirTask
    <3>2. ASSUME NEW u \in QueuedTasks'
          PROVE  u \in QueuedTasks \/ u \in unseen'[w]
      BY <1>1, <2>1 DEF RowsGrow, NotSeen, QueuedTasks
    <3>. QED
      BY <2>1, <3>1, <3>2
  <2>2. CASE /\ current'[w] \in TaskId /\ IsOldestOf(current'[w], QueuedTasks)
             /\ task' = task
    BY <2>2 DEF QueuedTasks, IsOldestOf
  <2>. QED
    BY <1>2, <2>1, <2>2, WorkersEvolve DEF WorkerMoves
<1>3. ASSUME NEW w \in Worker, HoldsTask(w)'
      PROVE  current'[w] \in TaskId /\ task'[current'[w]].workerLabel # NoLabel
  BY <1>1, <1>3, WorkersEvolve DEF WorkerMoves, HoldsTask, IInv, WorkersKnowTheirTask, RowsGrow
<1>. QED
  BY <1>2, <1>3 DEF WorkersKnowTheirTask

LEMMA TasksHeldOnceStep ==
  ASSUME IInv, Next
  PROVE  TasksHeldOnce'
<1>1. SUFFICES ASSUME NEW v \in Worker, NEW w \in Worker, v # w, HoldsTask(v)', HoldsTask(w)'
               PROVE  current'[v] # current'[w]
  BY DEF TasksHeldOnce
<1>2. ASSUME NEW x \in Worker, HoldsTask(x)
      PROVE  current[x] \in TaskId /\ task[current[x]].status # "queued"
  BY <1>2 DEF IInv, WorkersKnowTheirTask, RowsInOrder
<1>3. WorkerMoves(v) /\ WorkerMoves(w)
  BY WorkersEvolve
<1>. QED
  BY <1>1, <1>2, <1>3 DEF WorkerMoves, HoldsTask, IInv, TasksHeldOnce

\* No step but the commit of an enqueue makes a task active.
LEMMA ActiveTasksShrink ==
  ASSUME IInv, Next, ~(\E c \in Client : CommitEnqueue(c)), NEW a \in Application
  PROVE  ActiveTasks(a)' \subseteq ActiveTasks(a)
<1>0. task \in [TaskId -> Task]
  BY DEF IInv, TypeOK
<1>1. CASE task' = task
  BY <1>1 DEF ActiveTasks, IsActive
<1>2. ASSUME NEW w \in Worker, Claim(w)
      PROVE  ActiveTasks(a)' \subseteq ActiveTasks(a)
  <2>1. CASE /\ current[w] \in TaskId /\ task[current[w]].status = "queued"
             /\ task' = [task EXCEPT ![current[w]] =
                           [@ EXCEPT !.status = "processing", !.workerLabel = LabelOf[w]]]
    <3>1. task'[current[w]].application = task[current[w]].application
      BY <1>0, <2>1 DEF Task
    <3>2. \A t \in TaskId : t # current[w] => task'[t] = task[t]
      BY <1>0, <2>1
    <3>. QED
      BY <2>1, <3>1, <3>2 DEF ActiveTasks, IsActive
  <2>. QED
    BY <1>1, <1>2, <2>1, ClaimWrites
<1>3. ASSUME NEW w \in Worker, Complete(w) \/ FailTask(w)
      PROVE  ActiveTasks(a)' \subseteq ActiveTasks(a)
  <2>1. PICK status \in {"completed", "failed"}, code \in FailureCode, result \in BOOLEAN :
          task' = [task EXCEPT ![current[w]] =
             [@ EXCEPT !.status = status, !.failureCode = code, !.hasResult = result]]
    BY <1>3, SettleWrites
  <2>2. current[w] \in TaskId
    BY <1>3, SettleWrites
  <2>3. task'[current[w]].status \notin {"queued", "processing"}
    BY <1>0, <2>1, <2>2 DEF Task
  <2>4. \A t \in TaskId : t # current[w] => task'[t] = task[t]
    BY <1>0, <2>1, <2>2
  <2>. QED
    BY <2>3, <2>4 DEF ActiveTasks, IsActive
<1>. QED
  BY <1>1, <1>2, <1>3, OthersLeaveTasks DEF WritesTask

\* The commit of an enqueue makes exactly the new task active and, if it saw a
\* stale task, makes that one inactive.
LEMMA CommitActivates ==
  ASSUME IInv, NEW c \in Client, CommitEnqueue(c), NEW a \in Application
  PROVE  /\ a # request[c].application => ActiveTasks(a)' \subseteq ActiveTasks(a)
         /\ a = request[c].application =>
              ActiveTasks(a)' \subseteq (ActiveTasks(a) \ {request[c].seen}) \cup {request[c].row}
<1>0. task \in [TaskId -> Task]
  BY DEF IInv, TypeOK
<1>1. /\ task'[request[c].row].application = request[c].application
      /\ \A t \in TaskId : t # request[c].row /\ t # request[c].seen => task'[t] = task[t]
  <2>1. /\ task'[request[c].row] =
              [status |-> "queued", application |-> request[c].application,
               workerLabel |-> NoLabel, failureCode |-> "none", hasResult |-> FALSE]
        /\ \A t \in TaskId : t # request[c].row /\ t # request[c].seen => task'[t] = task[t]
    BY CommitWrites
  <2>2. task'[request[c].row].application = request[c].application
    BY <2>1
  <2>. QED
    BY <2>1, <2>2
<1>2. request[c].seen \in TaskId => task'[request[c].seen].status = "failed"
  <2>1. request[c].seen \in TaskId =>
              task'[request[c].seen] = [task[request[c].seen] EXCEPT !.status = "failed",
                                   !.failureCode = RecoveryCode(request[c].seenStatus)]
    BY CommitWrites
  <2>. QED
    BY <1>0, <2>1 DEF Task
<1>. QED
  BY <1>1, <1>2 DEF ActiveTasks, IsActive

LEMMA OneActiveStep ==
  ASSUME IInv, Next
  PROVE  OneActivePerApplication'
<1>0. overlapped \subseteq overlapped'
  BY DEF Next, ClientStep, BeginEnqueue, JudgeHeartbeat, InsertTask, CommitEnqueue, WorkerStepOf, Poll,
         FindNext, Claim, Announce, ServiceReturns, ServiceThrows, Complete, Report, FailTask,
         Rest, Restart, Crash, CallThrows, AbortEnqueue, Tick
<1>1. SUFFICES ASSUME NEW a \in Application, a \notin overlapped,
                      NEW t \in ActiveTasks(a)', NEW u \in ActiveTasks(a)'
               PROVE  t = u
  BY <1>0 DEF OneActivePerApplication
<1>2. CASE ~(\E c \in Client : CommitEnqueue(c))
  BY <1>1, <1>2, ActiveTasksShrink DEF IInv, OneActivePerApplication
<1>3. ASSUME NEW c \in Client, CommitEnqueue(c)
      PROVE  t = u
  <2>1. request[c].step # "idle"
    BY <1>3 DEF CommitEnqueue
  <2>2. CASE a = request[c].application
    <3>1. \A s \in ActiveTasks(a) : s = request[c].seen
      BY <1>1, <2>1, <2>2 DEF IInv, RequestsKnowTheirApplication
    <3>. QED
      BY <1>1, <1>3, <2>2, <3>1, CommitActivates
  <2>3. CASE a # request[c].application
    BY <1>1, <1>3, <2>3, CommitActivates DEF IInv, OneActivePerApplication
  <2>. QED
    BY <2>2, <2>3
<1>. QED
  BY <1>2, <1>3

\* What RequestsKnowTheirApplication says of one client.
RequestKnows(c) ==
  LET r == request[c]
  IN /\ r.step = "create" => r.seen = NoTask
     /\ r.step \in {"judge", "replace"} => r.seen # NoTask
     /\ r.seen # NoTask =>
          /\ task[r.seen].status # "absent"
          /\ task[r.seen].application = r.application
          /\ r.seenStatus \in {"queued", "processing"}
     /\ IF r.step = "commit" THEN RowIsPending(c) ELSE r.row = NoTask
     /\ r.step # "idle" => r.application \in Application
     /\ r.step # "idle" /\ r.application \notin overlapped =>
          /\ \A t \in ActiveTasks(r.application) : t = r.seen
          /\ \A d \in Client : request[d].step # "idle" /\ request[d].application = r.application
                                 => d = c

\* No two open transactions have written the same row, and a row that is written
\* has a stamp that was given out.
LEMMA PendingRows ==
  ASSUME IInv, NEW c \in Client
  PROVE  /\ request[c].row \in 0..created
         /\ request[c].row # NoTask =>
              /\ task[request[c].row].status = "absent"
              /\ \A d \in Client : d # c => request[d].row # request[c].row
  BY DEF IInv, RequestsKnowTheirApplication, RowIsPending, TypeOK, NoTask

\* A client whose own request is left alone still knows its application if no
\* step made a task of that application active and no new request joined.
LEMMA UntouchedRequestKnows ==
  ASSUME IInv, RowsGrow, NEW c \in Client, request'[c] = request[c], overlapped \subseteq overlapped',
         \A d \in Client : d # c => request'[d].row \in {request[d].row, NoTask, created + 1},
         request[c].step # "idle" /\ request[c].application \notin overlapped' =>
           /\ ActiveTasks(request[c].application)' \subseteq ActiveTasks(request[c].application)
           /\ \A d \in Client : request'[d].step # "idle" /\ request'[d].application = request[c].application
                                  => d = c
  PROVE  RequestKnows(c)'
<1>1. RequestKnows(c)
  BY DEF IInv, RequestsKnowTheirApplication, RequestKnows
<1>2. 1..created \subseteq TaskId /\ 1..created \subseteq 1..created'
  BY ConstantsAssumption DEF IInv, TypeOK, TaskId, RowsGrow
<1>3. ASSUME request[c].seen # NoTask
      PROVE  /\ task'[request[c].seen].status # "absent"
             /\ task'[request[c].seen].application = request[c].application
  <2>1. request[c].seen \in TaskId
    BY <1>3 DEF IInv, TypeOK, Request
  <2>. QED
    BY <1>1, <1>3, <2>1 DEF RequestKnows, RowsGrow
<1>4. ASSUME request[c].step = "commit"
      PROVE  RowIsPending(c)'
  <2>1. RowIsPending(c)
    BY <1>1, <1>4 DEF RequestKnows
  <2>2. request[c].row \in TaskId /\ created \in Nat
    BY <1>2, <2>1, ConstantsAssumption DEF RowIsPending, IInv, TypeOK
  <2>3. task'[request[c].row].status = "absent"
    <3>1. ~CommitEnqueue(c)
      BY <1>4 DEF CommitEnqueue, IdleRequest, IInv, TypeOK
    <3>2. ASSUME NEW d \in Client, CommitEnqueue(d)
          PROVE  request[d].row # request[c].row
      BY <2>1, <3>1, <3>2 DEF RowIsPending
    <3>. QED
      BY <2>1, <2>2, <3>2 DEF RowIsPending, RowsGrow
  <2>4. \A d \in Client : d # c => request'[d].row # request[c].row
    BY <2>1, <2>2 DEF RowIsPending, NoTask
  <2>. QED
    BY <1>2, <2>1, <2>3, <2>4 DEF RowIsPending
<1>. QED
  BY <1>1, <1>3, <1>4 DEF RequestKnows

LEMMA RequestsStep ==
  ASSUME IInv, Next
  PROVE  RequestsKnowTheirApplication'
<1>. SUFFICES ASSUME NEW d \in Client
              PROVE  RequestKnows(d)'
  BY DEF RequestsKnowTheirApplication, RequestKnows
<1>0. /\ RowsGrow
      /\ request \in [Client -> Request]
      /\ \A e \in Client : RequestKnows(e)
  BY RowsEvolve DEF IInv, TypeOK, RequestsKnowTheirApplication, RequestKnows
<1>1. ASSUME request' = request, overlapped' = overlapped, ~(\E c \in Client : CommitEnqueue(c))
      PROVE  RequestKnows(d)'
  <2>1. ASSUME request[d].step # "idle", request[d].application \notin overlapped
        PROVE  /\ ActiveTasks(request[d].application)' \subseteq ActiveTasks(request[d].application)
               /\ \A e \in Client : request[e].step # "idle"
                                      /\ request[e].application = request[d].application => e = d
    <3>1. request[d].application \in Application
      BY <1>0, <2>1 DEF RequestKnows
    <3>2. ActiveTasks(request[d].application)' \subseteq ActiveTasks(request[d].application)
      BY <1>1, <3>1, ActiveTasksShrink
    <3>. QED
      BY <1>0, <2>1, <3>2 DEF RequestKnows
  <2>. QED
    BY <1>0, <1>1, <2>1, UntouchedRequestKnows
<1>2. ASSUME NEW c \in Client, NEW a \in Application, BeginEnqueue(c, a)
      PROVE  RequestKnows(d)'
  <2>1. /\ UNCHANGED <<task, created>>
        /\ overlapped \subseteq overlapped'
        /\ \A e \in Client : e # c => request'[e] = request[e]
        /\ ActiveTasks(a)' = ActiveTasks(a)
    BY <1>0, <1>2 DEF BeginEnqueue, taskVars, ActiveTasks, IsActive
  <2>2. /\ request'[c].step # "idle" /\ request'[c].application = a
        /\ request'[c].row = NoTask
        /\ \/ /\ ActiveTasks(a) = {}
              /\ request'[c].step = "create" /\ request'[c].seen = NoTask
           \/ /\ request'[c].step = "judge"
              /\ request'[c].seen \in ActiveTasks(a)
              /\ request'[c].seenStatus = task[request'[c].seen].status
    <3>1. \/ /\ ActiveTasks(a) = {}
             /\ request'[c] = [IdleRequest EXCEPT !.step = "create", !.application = a]
          \/ \E t \in ActiveTasks(a) :
               request'[c] = [IdleRequest EXCEPT !.step = "judge", !.application = a,
                                                 !.seen = t, !.seenStatus = task[t].status]
      BY <1>0, <1>2 DEF BeginEnqueue, IsNewestOf
    <3>. QED
      BY <3>1 DEF IdleRequest
  <2>3. ASSUME NEW e \in Client, request[e].step # "idle", request[e].application = a
        PROVE  a \in overlapped'
    BY <1>2, <2>3 DEF BeginEnqueue
  <2>4. CASE d # c
    <3>1. ASSUME request[d].step # "idle", request[d].application \notin overlapped'
          PROVE  \A e \in Client : request'[e].step # "idle"
                                     /\ request'[e].application = request[d].application => e = d
      <4>1. request[d].application # a
        BY <2>3, <3>1
      <4>. QED
        BY <1>0, <2>1, <2>2, <3>1, <4>1 DEF RequestKnows
    <3>2. ActiveTasks(request[d].application)' = ActiveTasks(request[d].application)
      BY <2>1, <2>4 DEF ActiveTasks, IsActive
    <3>3. \A e \in Client : e # d => request'[e].row \in {request[e].row, NoTask, created + 1}
      BY <2>1, <2>2
    <3>. QED
      BY <1>0, <2>1, <2>4, <3>1, <3>2, <3>3, UntouchedRequestKnows
  <2>5. CASE d = c
    <3>1. ASSUME request'[c].step = "judge"
          PROVE  /\ request'[c].seen # NoTask
                 /\ task'[request'[c].seen].application = a
                 /\ task'[request'[c].seen].status # "absent"
                 /\ request'[c].seenStatus \in {"queued", "processing"}
      <4>1. request'[c].seen \in ActiveTasks(a) /\ request'[c].seenStatus = task[request'[c].seen].status
        BY <2>2, <3>1
      <4>. QED
        BY <2>1, <4>1 DEF ActiveTasks, IsActive, TaskId, NoTask
    <3>2. a \notin overlapped' => \A t \in ActiveTasks(a)' : t = request'[c].seen
      BY <2>1, <2>2 DEF IInv, OneActivePerApplication
    <3>3. a \notin overlapped' =>
            \A e \in Client : request'[e].step # "idle" /\ request'[e].application = a => e = c
      BY <2>1, <2>3
    <3>. QED
      BY <2>2, <2>5, <3>1, <3>2, <3>3 DEF RequestKnows
  <2>. QED
    BY <2>4, <2>5
<1>3. ASSUME NEW c \in Client, JudgeHeartbeat(c) \/ AbortEnqueue(c)
      PROVE  RequestKnows(d)'
  <2>1. /\ UNCHANGED <<task, created, overlapped>>
        /\ \A e \in Client : e # c => request'[e] = request[e]
        /\ \/ request'[c] = IdleRequest
           \/ /\ request'[c].step = "replace"
              /\ request[c].step = "judge"
              /\ request'[c].application = request[c].application
              /\ request'[c].seen = request[c].seen
              /\ request'[c].seenStatus = request[c].seenStatus
              /\ request'[c].row = request[c].row
    <3>1. CASE JudgeHeartbeat(c)
      BY <1>0, <3>1 DEF JudgeHeartbeat, taskVars, Request
    <3>2. CASE AbortEnqueue(c)
      BY <1>0, <3>2 DEF AbortEnqueue, taskVars
    <3>. QED
      BY <1>3, <3>1, <3>2
  <2>2. \A a \in Application : ActiveTasks(a)' = ActiveTasks(a)
    BY <2>1 DEF ActiveTasks, IsActive
  <2>3. ASSUME NEW e \in Client, request'[e].step # "idle"
        PROVE  request[e].step # "idle" /\ request'[e].application = request[e].application
    BY <2>1, <2>3 DEF IdleRequest
  <2>4. CASE d # c
    <3>1. \A e \in Client : e # d => request'[e].row \in {request[e].row, NoTask, created + 1}
      BY <2>1 DEF IdleRequest
    <3>0. /\ request'[d] = request[d]
          /\ request[d].step # "idle" => request[d].application \in Application
      BY <1>0, <2>1, <2>4 DEF RequestKnows
    <3>2. request[d].step # "idle" =>
            ActiveTasks(request[d].application)' = ActiveTasks(request[d].application)
      BY <2>2, <3>0
    <3>3. request[d].step # "idle" /\ request[d].application \notin overlapped' =>
            \A e \in Client : request'[e].step # "idle"
                                 /\ request'[e].application = request[d].application => e = d
      BY <1>0, <2>1, <2>3 DEF RequestKnows
    <3>. QED
      BY <1>0, <2>1, <2>4, <3>0, <3>1, <3>2, <3>3, UntouchedRequestKnows
  <2>5. CASE d = c /\ request'[c] = IdleRequest
    BY <2>5 DEF RequestKnows, IdleRequest
  <2>6. CASE /\ d = c
             /\ request'[c].step = "replace" /\ request[c].step = "judge"
             /\ request'[c].application = request[c].application
             /\ request'[c].seen = request[c].seen
             /\ request'[c].seenStatus = request[c].seenStatus
             /\ request'[c].row = request[c].row
    <3>1. RequestKnows(c)
      BY <1>0
    <3>2. request[c].application \in Application
      BY <2>6, <3>1 DEF RequestKnows
    <3>3. ActiveTasks(request[c].application)' = ActiveTasks(request[c].application)
      BY <2>2, <2>6, <3>2
    <3>4. task' = task
      BY <2>1
    <3>. QED
      BY <2>1, <2>3, <2>6, <3>1, <3>2, <3>3, <3>4 DEF RequestKnows
  <2>. QED
    BY <2>1, <2>4, <2>5, <2>6
<1>5. ASSUME NEW c \in Client, InsertTask(c)
      PROVE  RequestKnows(d)'
  <2>1. /\ task' = task /\ overlapped' = overlapped /\ created' = created + 1
        /\ request[c].step \in {"replace", "create"}
        /\ request' = [request EXCEPT ![c] = [@ EXCEPT !.step = "commit", !.row = created + 1]]
    BY <1>5 DEF InsertTask
  <2>2. /\ created \in Nat /\ created + 1 \in TaskId
        /\ task[created + 1].status = "absent"
    BY <1>0, <1>5, ConstantsAssumption DEF InsertTask, TaskId, RowsGrow, IInv, RowsInOrder
  <2>3. /\ \A e \in Client : e # c => request'[e] = request[e]
        /\ request'[c].step = "commit" /\ request'[c].row = created + 1
        /\ request'[c].application = request[c].application
        /\ request'[c].seen = request[c].seen /\ request'[c].seenStatus = request[c].seenStatus
    BY <1>0, <2>1 DEF Request
  <2>4. \A a \in Application : ActiveTasks(a)' = ActiveTasks(a)
    BY <2>1 DEF ActiveTasks, IsActive
  <2>5. ASSUME NEW e \in Client, request'[e].step # "idle"
        PROVE  request[e].step # "idle" /\ request'[e].application = request[e].application
    BY <2>1, <2>3, <2>5
  <2>6. CASE d # c
    <3>1. \A e \in Client : e # d => request'[e].row \in {request[e].row, NoTask, created + 1}
      BY <2>3
    <3>0. /\ request'[d] = request[d]
          /\ request[d].step # "idle" => request[d].application \in Application
      BY <1>0, <2>3, <2>6 DEF RequestKnows
    <3>2. request[d].step # "idle" =>
            ActiveTasks(request[d].application)' = ActiveTasks(request[d].application)
      BY <2>4, <3>0
    <3>3. request[d].step # "idle" /\ request[d].application \notin overlapped' =>
            \A e \in Client : request'[e].step # "idle"
                                 /\ request'[e].application = request[d].application => e = d
      BY <1>0, <2>1, <2>5 DEF RequestKnows
    <3>. QED
      BY <1>0, <2>1, <2>3, <2>6, <3>0, <3>1, <3>2, <3>3, UntouchedRequestKnows
  <2>7. CASE d = c
    <3>1. RequestKnows(c) /\ request[c].application \in Application
      BY <1>0, <2>1 DEF RequestKnows
    <3>2. ActiveTasks(request[c].application)' = ActiveTasks(request[c].application)
      BY <2>3, <2>4, <3>1
    <3>3. RowIsPending(c)'
      <4>1. \A e \in Client : e # c => request'[e].row # created + 1
        BY <2>2, <2>3, PendingRows
      <4>. QED
        BY <2>1, <2>2, <2>3, <4>1 DEF RowIsPending
    <3>4. request[c].application \notin overlapped =>
            /\ \A t \in ActiveTasks(request[c].application) : t = request[c].seen
            /\ \A e \in Client : request[e].step # "idle"
                                 /\ request[e].application = request[c].application => e = c
      BY <2>1, <3>1 DEF RequestKnows
    <3>5. request[c].seen # NoTask => /\ task[request[c].seen].status # "absent"
                                      /\ task[request[c].seen].application = request[c].application
                                      /\ request[c].seenStatus \in {"queued", "processing"}
      BY <3>1 DEF RequestKnows
    <3>. QED
      BY <2>1, <2>3, <2>5, <2>7, <3>1, <3>2, <3>3, <3>4, <3>5 DEF RequestKnows
  <2>. QED
    BY <2>6, <2>7
<1>4. ASSUME NEW c \in Client, CommitEnqueue(c)
      PROVE  RequestKnows(d)'
  <2>1. /\ request' = [request EXCEPT ![c] = IdleRequest]
        /\ overlapped' = overlapped
        /\ request[c].step # "idle"
    BY <1>4 DEF CommitEnqueue
  <2>2. CASE d = c
    BY <1>0, <2>1, <2>2 DEF RequestKnows, IdleRequest
  <2>3. CASE d # c
    <3>1. ASSUME request[d].step # "idle", request[d].application \notin overlapped
          PROVE  /\ ActiveTasks(request[d].application)' \subseteq ActiveTasks(request[d].application)
                 /\ \A e \in Client : request'[e].step # "idle"
                                        /\ request'[e].application = request[d].application => e = d
      <4>0. RequestKnows(d)
        BY <1>0
      <4>1. request[d].application \in Application /\ request[d].application # request[c].application
        BY <2>1, <2>3, <3>1, <4>0 DEF RequestKnows
      <4>2. ActiveTasks(request[d].application)' \subseteq ActiveTasks(request[d].application)
        BY <1>0, <1>4, <2>1, <2>3, <4>1, CommitActivates
      <4>3. \A e \in Client : request'[e].step # "idle" => request'[e] = request[e]
        BY <1>0, <2>1 DEF IdleRequest
      <4>. QED
        BY <3>1, <4>0, <4>2, <4>3 DEF RequestKnows
    <3>. QED
      BY <1>0, <2>1, <2>3, <3>1, UntouchedRequestKnows DEF IdleRequest
  <2>. QED
    BY <2>2, <2>3
<1>. QED
  BY <1>1, <1>2, <1>3, <1>4, <1>5
  DEF Next, ClientStep, WorkerStepOf, Poll, FindNext, Claim, Announce, ServiceReturns,
      ServiceThrows, Complete, Report, FailTask, Rest, Restart, Crash, CallThrows, Tick

LEMMA OutcomeConsistentStep ==
  ASSUME IInv, Next
  PROVE  OutcomeConsistent'
<1>. USE DEF OutcomeConsistent, IsActive
<1>0. task \in [TaskId -> Task] /\ OutcomeConsistent
  BY DEF IInv, TypeOK
<1>1. CASE task' = task
  BY <1>0, <1>1
<1>2. ASSUME NEW w \in Worker, Claim(w)
      PROVE  OutcomeConsistent'
  <2>1. CASE /\ current[w] \in TaskId /\ task[current[w]].status = "queued"
             /\ task' = [task EXCEPT ![current[w]] =
                           [@ EXCEPT !.status = "processing", !.workerLabel = LabelOf[w]]]
    <3>1. /\ task'[current[w]].status = "processing"
          /\ task'[current[w]].failureCode = task[current[w]].failureCode
          /\ task'[current[w]].hasResult = task[current[w]].hasResult
      BY <1>0, <2>1 DEF Task
    <3>2. \A t \in TaskId : t # current[w] => task'[t] = task[t]
      BY <1>0, <2>1
    <3>. QED
      BY <1>0, <2>1, <3>1, <3>2
  <2>. QED
    BY <1>1, <1>2, <2>1, ClaimWrites
<1>3. ASSUME NEW w \in Worker, Complete(w) \/ FailTask(w)
      PROVE  OutcomeConsistent'
  <2>1. PICK status \in {"completed", "failed"}, code \in FailureCode, result \in BOOLEAN :
          /\ task' = [task EXCEPT ![current[w]] =
               [@ EXCEPT !.status = status, !.failureCode = code, !.hasResult = result]]
          /\ status = "completed" => code = "none" /\ result
          /\ status = "failed" => code # "none"
    BY <1>3, SettleWrites
  <2>2. current[w] \in TaskId
    BY <1>3, SettleWrites
  <2>3. /\ task'[current[w]].status = status
        /\ task'[current[w]].failureCode = code
        /\ task'[current[w]].hasResult = result
    BY <1>0, <2>1, <2>2 DEF Task
  <2>4. \A t \in TaskId : t # current[w] => task'[t] = task[t]
    BY <1>0, <2>1, <2>2
  <2>. QED
    BY <1>0, <2>1, <2>3, <2>4
<1>4. ASSUME NEW c \in Client, CommitEnqueue(c)
      PROVE  OutcomeConsistent'
  <2>1. /\ \A t \in TaskId : t # request[c].row /\ t # request[c].seen => task'[t] = task[t]
        /\ request[c].seen \in TaskId =>
             task'[request[c].seen] = [task[request[c].seen] EXCEPT !.status = "failed",
                                   !.failureCode = RecoveryCode(request[c].seenStatus)]
        /\ task'[request[c].row] =
              [status |-> "queued", application |-> request[c].application,
               workerLabel |-> NoLabel, failureCode |-> "none", hasResult |-> FALSE]
        /\ RecoveryCode(request[c].seenStatus) # "none"
    BY <1>4, CommitWrites
  <2>2. request[c].seen \in TaskId =>
          task'[request[c].seen].status = "failed" /\ task'[request[c].seen].failureCode # "none"
    BY <1>0, <2>1 DEF Task
  <2>. QED
    BY <1>0, <2>1, <2>2
<1>. QED
  BY <1>1, <1>2, <1>3, <1>4, OthersLeaveTasks DEF WritesTask

----------------------------------------------------------------------------
(* The inductive invariant and what follows from it.                       *)

LEMMA InitIInv == Init => IInv
<1>. SUFFICES ASSUME Init PROVE IInv
  OBVIOUS
<1>1. TypeOK
  BY InitTypeOK
<1>2. RowsInOrder /\ OutcomeConsistent
  BY ConstantsAssumption DEF Init, RowsInOrder, OutcomeConsistent, IsActive, TaskId
<1>3. WorkersKnowTheirTask /\ TasksHeldOnce
  BY DEF Init, WorkersKnowTheirTask, TasksHeldOnce, HoldsTask, ExecutingStep
<1>4. RequestsKnowTheirApplication /\ OneActivePerApplication
  BY DEF Init, RequestsKnowTheirApplication, IdleRequest, OneActivePerApplication,
         ActiveTasks, IsActive
<1>. QED
  BY <1>1, <1>2, <1>3, <1>4 DEF IInv

LEMMA IInvStep == IInv /\ [Next]_vars => IInv'
<1>1. ASSUME IInv, Next
      PROVE  IInv'
  BY <1>1, TypeOKStep, RowsInOrderStep, WorkersKnowTheirTaskStep, TasksHeldOnceStep,
     RequestsStep, OneActiveStep, OutcomeConsistentStep DEF IInv
<1>2. ASSUME IInv, UNCHANGED vars
      PROVE  IInv'
  BY <1>2
  DEF IInv, vars, TypeOK, RowsInOrder, WorkersKnowTheirTask, TasksHeldOnce, HoldsTask,
      RequestsKnowTheirApplication, RowIsPending, OneActivePerApplication, OutcomeConsistent, ActiveTasks,
      QueuedTasks, IsActive
<1>. QED
  BY <1>1, <1>2

\* The inductive invariant holds in every reachable state: what the workers, the
\* open enqueue transactions and the NeedleTask rows believe of each other agrees.
THEOREM QueueInvariant == Spec => []IInv
  BY InitIInv, IInvStep, PTL DEF Spec

\* Every variable of the queue keeps its type (the columns of NeedleTask and
\* NeedleWorkerHeartbeat, and the program positions of clients and workers).
THEOREM QueueTypeCorrect == Spec => []TypeOK
<1>1. IInv => TypeOK
  BY DEF IInv
<1>. QED
  BY <1>1, QueueInvariant, PTL

\* No task is executed by two workers at the same time, whatever is recovered,
\* restarted or lost: claimNextNeedleTask's guarded update is the only way in.
THEOREM QueueExecutesOnce == Spec => []NoDoubleExecution
<1>1. IInv => NoDoubleExecution
  BY DEF IInv, TasksHeldOnce, HoldsTask, NoDoubleExecution, IsExecuting
<1>. QED
  BY <1>1, QueueInvariant, PTL

\* enqueueNeedleTask keeps one active task per application for any number of
\* clients, as long as no two of its transactions for that application overlap.
THEOREM QueueOneActive == Spec => []OneActivePerApplication
<1>1. IInv => OneActivePerApplication
  BY DEF IInv
<1>. QED
  BY <1>1, QueueInvariant, PTL

\* A task's status, failure and result agree, however late a worker or a
\* recovery settles it.
THEOREM QueueOutcome == Spec => []OutcomeConsistent
<1>1. IInv => OutcomeConsistent
  BY DEF IInv
<1>. QED
  BY <1>1, QueueInvariant, PTL

----------------------------------------------------------------------------
(* Action properties.                                                      *)

\* claimNextNeedleTask is fair to tasks: a task queued before the one a worker
\* claims was not there when the worker looked for the oldest, because the
\* transaction that had stamped it committed only after that.
THEOREM QueueClaimsOldestFirst == Spec => ClaimsOldestFirst
<1>1. IInv => \A w \in Worker : pc[w] = "take" /\ pc'[w] = "announce" =>
                \A u \in QueuedTasks : current[w] <= u \/ u \in unseen[w]
  BY DEF IInv, WorkersKnowTheirTask
<1>. QED
  BY <1>1, QueueInvariant, PTL DEF Spec, ClaimsOldestFirst

----------------------------------------------------------------------------
(* Refinement: the queue implements TaskLedger.                            *)

Statuses == [t \in TaskId |-> task[t].status]
Started  == {t \in TaskId : task[t].workerLabel # NoLabel}

LEMMA LedgerInit == Init => Ledger!Init
  BY ConstantsAssumption DEF Init, Ledger!Init, TaskId

LEMMA LedgerStep ==
  ASSUME IInv, Next
  PROVE  Ledger!Next \/ UNCHANGED <<Statuses, Started>>
<1>. USE DEF Statuses, Started
<1>0. task \in [TaskId -> Task]
  BY DEF IInv, TypeOK
<1>1. CASE task' = task
  BY <1>1
<1>2. ASSUME NEW w \in Worker, Claim(w)
      PROVE  Ledger!Next \/ UNCHANGED <<Statuses, Started>>
  <2>1. CASE /\ current[w] \in TaskId /\ task[current[w]].status = "queued"
             /\ LabelOf[w] \in Label
             /\ task' = [task EXCEPT ![current[w]] =
                           [@ EXCEPT !.status = "processing", !.workerLabel = LabelOf[w]]]
    <3>1. /\ task'[current[w]].status = "processing"
          /\ task'[current[w]].workerLabel # NoLabel
      BY <1>0, <2>1, ConstantsAssumption DEF Task
    <3>2. \A s \in TaskId : s # current[w] => task'[s] = task[s]
      BY <1>0, <2>1
    <3>3. task[current[w]].workerLabel = NoLabel
      BY <2>1 DEF IInv, RowsInOrder
    <3>4. Statuses' = [Statuses EXCEPT ![current[w]] = "processing"]
      BY <3>1, <3>2
    <3>5. Started' = Started \cup {current[w]}
      BY <2>1, <3>1, <3>2
    <3>6. PICK t \in TaskId : t = current[w]
      BY <2>1
    <3>7. Ledger!Start(t)
      BY <2>1, <3>3, <3>4, <3>5, <3>6 DEF Ledger!Start
    <3>8. Ledger!Next
      BY <3>7 DEF Ledger!Next
    <3>. QED
      BY <3>8
  <2>. QED
    BY <1>1, <1>2, <2>1, ClaimWrites
<1>3. ASSUME NEW w \in Worker, Complete(w) \/ FailTask(w)
      PROVE  Ledger!Next \/ UNCHANGED <<Statuses, Started>>
  <2>1. PICK status \in {"completed", "failed"}, code \in FailureCode, result \in BOOLEAN :
          task' = [task EXCEPT ![current[w]] =
             [@ EXCEPT !.status = status, !.failureCode = code, !.hasResult = result]]
    BY <1>3, SettleWrites
  <2>2. current[w] \in TaskId /\ task[current[w]].workerLabel # NoLabel
    BY <1>3, SettleWrites
  <2>3. /\ task'[current[w]].status = status
        /\ task'[current[w]].workerLabel = task[current[w]].workerLabel
    BY <1>0, <2>1, <2>2 DEF Task
  <2>4. \A s \in TaskId : s # current[w] => task'[s] = task[s]
    BY <1>0, <2>1, <2>2
  <2>5. Statuses' = [Statuses EXCEPT ![current[w]] = status]
    BY <2>3, <2>4
  <2>6. Started' = Started /\ current[w] \in Started
    BY <2>2, <2>3, <2>4
  <2>7. PICK t \in TaskId : t = current[w]
    BY <2>2
  <2>8. Ledger!Complete(t) \/ Ledger!Fail(t)
    BY <2>5, <2>6, <2>7 DEF Ledger!Complete, Ledger!Fail
  <2>9. Ledger!Next
    BY <2>8 DEF Ledger!Next
  <2>. QED
    BY <2>9
<1>4. ASSUME NEW c \in Client, CommitEnqueue(c)
      PROVE  Ledger!Next \/ UNCHANGED <<Statuses, Started>>
  <2>1. /\ request[c].row \in TaskId
        /\ \A s \in TaskId : s # request[c].row /\ s # request[c].seen => task'[s] = task[s]
        /\ request[c].seen # request[c].row
        /\ request[c].seen \in TaskId =>
             task'[request[c].seen] = [task[request[c].seen] EXCEPT !.status = "failed",
                                   !.failureCode = RecoveryCode(request[c].seenStatus)]
        /\ task'[request[c].row] =
              [status |-> "queued", application |-> request[c].application,
               workerLabel |-> NoLabel, failureCode |-> "none", hasResult |-> FALSE]
    BY <1>4, CommitWrites
  <2>2. request[c].seen \in TaskId =>
          /\ task'[request[c].seen].status = "failed"
          /\ task'[request[c].seen].workerLabel = task[request[c].seen].workerLabel
    BY <1>0, <2>1 DEF Task
  <2>3. task[request[c].row].status = "absent" /\ task[request[c].row].workerLabel = NoLabel
    BY <1>4, <2>1, CommitWrites DEF IInv, RowsInOrder
  <2>4. task'[request[c].row].status = "queued" /\ task'[request[c].row].workerLabel = NoLabel
    BY <2>1
  <2>5. Started' = Started
    BY <2>1, <2>2, <2>3, <2>4
  <2>6. CASE request[c].seen \in TaskId
    <3>1. task[request[c].seen].status # "absent"
      BY <1>4, <2>6, CommitWrites
    <3>2. Statuses' = [Statuses EXCEPT ![request[c].seen] = "failed", ![request[c].row] = "queued"]
      BY <2>1, <2>2, <2>4
    <3>3. PICK r \in TaskId, t \in TaskId : r = request[c].seen /\ t = request[c].row
      BY <2>1, <2>6
    <3>4. Ledger!Replace(r, t)
      BY <2>1, <2>3, <2>5, <2>6, <3>1, <3>2, <3>3 DEF Ledger!Replace
    <3>5. Ledger!Next
      BY <3>4 DEF Ledger!Next
    <3>. QED
      BY <3>5
  <2>7. CASE request[c].seen \notin TaskId
    <3>1. Statuses' = [Statuses EXCEPT ![request[c].row] = "queued"]
      BY <2>1, <2>4, <2>7
    <3>2. PICK t \in TaskId : t = request[c].row
      BY <2>1
    <3>3. Ledger!Create(t)
      BY <2>1, <2>3, <2>5, <3>1, <3>2 DEF Ledger!Create
    <3>4. Ledger!Next
      BY <3>3 DEF Ledger!Next
    <3>. QED
      BY <3>4
  <2>. QED
    BY <2>6, <2>7
<1>. QED
  BY <1>1, <1>2, <1>3, <1>4, OthersLeaveTasks DEF WritesTask

\* The Needle queue keeps the promise of TaskLedger: work on a task starts at
\* most once and from the queue, and no task is ever queued a second time.
THEOREM QueueImplementsLedger == Spec => LedgerSpec
<1>1. Init => Ledger!Init
  BY LedgerInit
<1>2. IInv /\ [Next]_vars => [Ledger!Next]_(Ledger!ledgerVars)
  BY LedgerStep DEF Ledger!ledgerVars, Statuses, Started, vars
<1>. QED
  BY <1>1, <1>2, QueueInvariant, PTL DEF Spec, LedgerSpec, Ledger!Spec

=============================================================================
