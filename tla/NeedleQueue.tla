---------------------------- MODULE NeedleQueue ----------------------------
(***************************************************************************)
(* The Needle work queue: web clients enqueue tailoring work for an        *)
(* application (workers/needle/src/queue.ts), worker processes poll, claim *)
(* and execute it (queue.ts and runner.ts), and the next enqueue of an     *)
(* application recovers a task that went stale.                            *)
(*                                                                         *)
(* All state is in Postgres and is touched under READ COMMITTED, so each   *)
(* statement that reads and each transaction that commits is an action of  *)
(* its own; only the claim is a compare-and-set.  A worker may crash, and  *)
(* every database call of the processing path may throw.                   *)
(*                                                                         *)
(* Time is kept as ages that saturate just above the thresholds they are   *)
(* compared with, so that no clock needs a bound.                          *)
(***************************************************************************)
EXTENDS Naturals, FiniteSets

CONSTANTS
  Application,       \* the applications work is requested for
  Client,            \* concurrent web requests (server actions, API routes)
  Worker,            \* worker processes
  Label,             \* worker labels (NEEDLE_WORKER_LABEL)
  LabelOf,           \* [Worker -> Label]: two processes may share a label
  OnceWorker,        \* the workers run with `queue:once', the others `queue:watch'
  NoLabel,           \* workerLabel = null
  NoApplication,     \* the application of a row that does not exist yet
  HeartbeatFresh,    \* HEARTBEAT_FRESH_MS, in ticks
  StaleQueued,       \* STALE_QUEUED_MS
  StaleProcessing,   \* STALE_PROCESSING_MS
  TimelyPolling,     \* TRUE: a live idle worker polls before its heartbeat is stale
  MaxTasks,          \* bound: tasks ever created
  MaxFaults          \* bound: crashes and failed database calls

ASSUME ConstantsAssumption ==
  /\ LabelOf \in [Worker -> Label]
  /\ OnceWorker \subseteq Worker
  /\ NoLabel \notin Label
  /\ NoApplication \notin Application
  /\ {HeartbeatFresh, StaleQueued, StaleProcessing, MaxTasks, MaxFaults} \subseteq Nat
  /\ TimelyPolling \in BOOLEAN

VARIABLES
  task,              \* the NeedleTask rows that are committed, in createdAt order
  created,           \* how many createdAt stamps were given out
  taskAge,           \* time since createdAt while queued, since startedAt after
  heartbeatAge,      \* time since updatedAt of each label's NeedleWorkerHeartbeat
  request,           \* the enqueue transaction each client is in
  pc,                \* what each worker does next
  current,           \* the task each worker read or claimed
  faults,            \* crashes and failed calls so far
  overlapped,        \* history: applications with two enqueues at the same time
  unseen             \* history: rows committed since each worker looked for one

taskVars   == <<task, created, taskAge>>
workerVars == <<pc, current, unseen>>
vars == <<task, created, taskAge, heartbeatAge, request, pc, current, faults, overlapped, unseen>>

----------------------------------------------------------------------------

NoTask == 0
TaskId == 1..MaxTasks

TaskStatus  == {"absent", "queued", "processing", "completed", "failed"}
FailureCode == {"none", "needle_task_failed",
                "needle_task_stale_queue", "needle_task_stale_processing"}

Task == [status : TaskStatus, application : Application \cup {NoApplication},
         workerLabel : Label \cup {NoLabel},
         failureCode : FailureCode, hasResult : BOOLEAN]

Request == [step : {"idle", "judge", "replace", "create", "commit"},
            application : Application \cup {NoApplication}, seen : TaskId \cup {NoTask},
            seenStatus : TaskStatus, row : TaskId \cup {NoTask}]

IdleRequest == [step |-> "idle", application |-> NoApplication,
                seen |-> NoTask, seenStatus |-> "absent", row |-> NoTask]

WorkerStep == {"down", "poll", "find", "take", "announce", "work",
               "complete", "report", "fail", "rest"}

\* Steps at which a worker executes the task it claimed.
ExecutingStep == {"announce", "work", "complete", "fail"}

OldestAge   == IF StaleQueued > StaleProcessing THEN StaleQueued + 1
                                                ELSE StaleProcessing + 1
StaleBeat   == HeartbeatFresh + 1

IsActive(t)    == task[t].status \in {"queued", "processing"}
ActiveTasks(a) == {t \in TaskId : IsActive(t) /\ task[t].application = a}
QueuedTasks    == {t \in TaskId : task[t].status = "queued"}

IsNewestOf(t, T) == t \in T /\ \A u \in T : u <= t

IsOldestOf(t, T) == t \in T /\ \A u \in T : t <= u

TypeOK ==
  /\ task \in [TaskId -> Task]
  /\ created \in 0..MaxTasks
  /\ taskAge \in [TaskId -> 0..OldestAge]
  /\ heartbeatAge \in [Label -> 0..StaleBeat]
  /\ request \in [Client -> Request]
  /\ pc \in [Worker -> WorkerStep]
  /\ current \in [Worker -> TaskId \cup {NoTask}]
  /\ faults \in 0..MaxFaults
  /\ overlapped \subseteq Application
  /\ unseen \in [Worker -> SUBSET TaskId]

\* A missing heartbeat row has infinite age, which is a stale one.
Init ==
  /\ task = [t \in TaskId |->
               [status |-> "absent", application |-> NoApplication, workerLabel |-> NoLabel,
                failureCode |-> "none", hasResult |-> FALSE]]
  /\ created = 0
  /\ taskAge = [t \in TaskId |-> 0]
  /\ heartbeatAge = [l \in Label |-> StaleBeat]
  /\ request = [c \in Client |-> IdleRequest]
  /\ pc = [w \in Worker |-> "poll"]
  /\ current = [w \in Worker |-> NoTask]
  /\ faults = 0
  /\ overlapped = {}
  /\ unseen = [w \in Worker |-> {}]

----------------------------------------------------------------------------
(* Web clients: enqueueNeedleTask and maybeRecoverStaleNeedleTask.         *)

\* The age tests of maybeRecoverStaleNeedleTask, on the row just read.
IsOld(t) ==
  \/ task[t].status = "queued"     /\ taskAge[t] > StaleQueued
  \/ task[t].status = "processing" /\ taskAge[t] > StaleProcessing

\* enqueueNeedleTask reads the newest active task of the application.  With a
\* young one the call returns that task and nothing changes; otherwise the
\* transaction goes on, to judge an old task or to create a new one.
BeginEnqueue(c, a) ==
  /\ request[c].step = "idle"
  /\ created < MaxTasks
  /\ \/ /\ ActiveTasks(a) = {}
        /\ request' = [request EXCEPT ![c] =
             [IdleRequest EXCEPT !.step = "create", !.application = a]]
     \/ \E t \in TaskId :
          /\ IsNewestOf(t, ActiveTasks(a))
          /\ IsOld(t)
          /\ request' = [request EXCEPT ![c] =
               [IdleRequest EXCEPT !.step = "judge", !.application = a,
                                   !.seen = t, !.seenStatus = task[t].status]]
  /\ overlapped' = IF \E d \in Client : request[d].step # "idle" /\ request[d].application = a
                     THEN overlapped \cup {a} ELSE overlapped
  /\ UNCHANGED <<taskVars, heartbeatAge, workerVars, faults>>

\* The heartbeat that speaks for a task: its own worker's once it has one, any
\* worker's (the most recently updated row) while it is queued.
HasFreshHeartbeat(t, status) ==
  IF status = "processing"
    THEN \E l \in Label : task[t].workerLabel = l /\ heartbeatAge[l] <= HeartbeatFresh
    ELSE \E l \in Label : heartbeatAge[l] <= HeartbeatFresh

\* maybeRecoverStaleNeedleTask reads the heartbeat and decides: the stale task
\* is to be replaced, or it is still the active one and the call returns it.
JudgeHeartbeat(c) ==
  /\ request[c].step = "judge"
  /\ request' = [request EXCEPT ![c] =
       IF HasFreshHeartbeat(@.seen, @.seenStatus) THEN IdleRequest
                                                  ELSE [@ EXCEPT !.step = "replace"]]
  /\ UNCHANGED <<taskVars, heartbeatAge, workerVars, faults, overlapped>>

\* Faulty variant: failRecoveredTask called with its code and message swapped.
RecoveryCodeSwapped(status) == "Task was replaced after the worker heartbeat went stale."

\* The failure code failRecoveredTask gives a task, by the status it was read with.
RecoveryCode(status) ==
  IF status = "queued" THEN "needle_task_stale_queue" ELSE "needle_task_stale_processing"

\* The transaction writes its rows: the task judged stale, and the new task, whose
\* createdAt is now.  Nobody sees them before the commit; the rows of two open
\* transactions may commit in the other order, and those of an aborted one never.
InsertTask(c) ==
  /\ request[c].step \in {"replace", "create"}
  /\ created < MaxTasks
  /\ created' = created + 1
  /\ taskAge' = [taskAge EXCEPT ![created + 1] = 0]
  /\ request' = [request EXCEPT ![c] = [@ EXCEPT !.step = "commit", !.row = created + 1]]
  /\ UNCHANGED <<task, heartbeatAge, workerVars, faults, overlapped>>

\* The rows after an enqueue commits: row `new' is queued and row `stale' (if any)
\* failed by an update by id, whatever it has become meanwhile.  (Its row lock is
\* held from that update to the commit, so other writers of it come before both or
\* after both, and it is written here.)
RowsAfter(new, a, stale, code) ==
  [t \in TaskId |->
     CASE t = new -> [status |-> "queued", application |-> a, workerLabel |-> NoLabel,
                      failureCode |-> "none", hasResult |-> FALSE]
       [] t = stale /\ t # new -> [task[t] EXCEPT !.status = "failed", !.failureCode = code]
       [] OTHER -> task[t]]

\* A worker between its look for the oldest task and its claim has not seen t.
NotSeen(t) ==
  unseen' = [w \in Worker |-> IF pc[w] = "take" THEN unseen[w] \cup {t} ELSE unseen[w]]

\* Faulty variant: the replacement is created and the stale task is left active.
CommitEnqueueKeepsStale(c) ==
  LET r == request[c]
  IN /\ r.step = "commit"
     /\ task' = RowsAfter(r.row, r.application, NoTask, "none")
     /\ request' = [request EXCEPT ![c] = IdleRequest]
     /\ NotSeen(r.row)
     /\ UNCHANGED <<created, taskAge, heartbeatAge, pc, current, faults, overlapped>>

\* The enqueue transaction commits: the task judged stale is failed and the new
\* one is queued, in one step.
CommitEnqueue(c) ==
  LET r == request[c]
  IN /\ r.step = "commit"
     /\ task' = RowsAfter(r.row, r.application, r.seen, RecoveryCode(r.seenStatus))
     /\ request' = [request EXCEPT ![c] = IdleRequest]
     /\ NotSeen(r.row)
     /\ UNCHANGED <<created, taskAge, heartbeatAge, pc, current, faults, overlapped>>

----------------------------------------------------------------------------
(* Workers: processNextNeedleTask, claimNextNeedleTask and the runner.     *)

Step(w, from, to) == pc[w] = from /\ pc' = [pc EXCEPT ![w] = to]

\* writeNeedleWorkerHeartbeat: an upsert by label.
Beat(w) == heartbeatAge' = [heartbeatAge EXCEPT ![LabelOf[w]] = 0]

Settle(t, status, code, result) ==
  task' = [task EXCEPT ![t] =
             [@ EXCEPT !.status = status, !.failureCode = code, !.hasResult = result]]

Poll(w) ==
  /\ Step(w, "poll", "find")
  /\ Beat(w)
  /\ UNCHANGED <<taskVars, request, current, faults, overlapped, unseen>>

\* Faulty variant: the oldest unsettled task is read instead of the oldest queued.
FindNextUnsettled(w) ==
  /\ \/ /\ \A t \in TaskId : ~IsActive(t)
        /\ Step(w, "find", "rest")
        /\ UNCHANGED current
     \/ /\ Step(w, "find", "take")
        /\ \E t \in TaskId : /\ IsOldestOf(t, {u \in TaskId : IsActive(u)})
                              /\ current' = [current EXCEPT ![w] = t]
  /\ unseen' = [unseen EXCEPT ![w] = {}]
  /\ UNCHANGED <<taskVars, heartbeatAge, request, faults, overlapped>>

\* claimNextNeedleTask, the read: the oldest queued task, or nothing to do.
FindNext(w) ==
  /\ \/ /\ QueuedTasks = {}
        /\ Step(w, "find", "rest")
        /\ UNCHANGED current
     \/ /\ Step(w, "find", "take")
        /\ \E t \in TaskId : /\ IsOldestOf(t, QueuedTasks)
                              /\ current' = [current EXCEPT ![w] = t]
  /\ unseen' = [unseen EXCEPT ![w] = {}]
  /\ UNCHANGED <<taskVars, heartbeatAge, request, faults, overlapped>>

\* Faulty variant: the claim updates by id alone.
ClaimUnguarded(w) ==
  /\ Step(w, "take", "announce")
  /\ task' = [task EXCEPT ![current[w]].status = "processing",
                          ![current[w]].workerLabel = LabelOf[w]]
  /\ taskAge' = [taskAge EXCEPT ![current[w]] = 0]
  /\ UNCHANGED <<created, heartbeatAge, request, current, faults, overlapped, unseen>>

\* claimNextNeedleTask, the updateMany guarded by status = queued: a worker
\* that lost the race returns null and rests like one that found nothing.
Claim(w) ==
  LET t == current[w]
  IN /\ \/ /\ Step(w, "take", "announce")
           /\ task[t].status = "queued"
           /\ task' = [task EXCEPT ![t] =
                        [@ EXCEPT !.status = "processing", !.workerLabel = LabelOf[w]]]
           /\ taskAge' = [taskAge EXCEPT ![t] = 0]
           /\ UNCHANGED current
        \/ /\ Step(w, "take", "rest")
           /\ task[t].status # "queued"
           /\ current' = [current EXCEPT ![w] = NoTask]
           /\ UNCHANGED <<task, taskAge>>
     /\ UNCHANGED <<created, heartbeatAge, request, faults, overlapped, unseen>>

Announce(w) ==
  /\ Step(w, "announce", "work")
  /\ Beat(w)
  /\ UNCHANGED <<taskVars, request, current, faults, overlapped, unseen>>

\* The tailoring service returns a run, or throws.
ServiceReturns(w) ==
  /\ Step(w, "work", "complete")
  /\ UNCHANGED <<taskVars, heartbeatAge, request, current, faults, overlapped, unseen>>

\* Faulty variant: an error of the service is swallowed.
ServiceThrowsSilently(w) ==
  /\ Step(w, "work", "rest")
  /\ current' = [current EXCEPT ![w] = NoTask]
  /\ UNCHANGED <<taskVars, heartbeatAge, request, faults, overlapped, unseen>>

ServiceThrows(w) ==
  /\ Step(w, "work", "fail")
  /\ UNCHANGED <<taskVars, heartbeatAge, request, current, faults, overlapped, unseen>>

\* Faulty variant: the completing update does not clear the failure columns.
CompleteKeepsFailure(w) ==
  /\ Step(w, "complete", "report")
  /\ Settle(current[w], "completed", task[current[w]].failureCode, TRUE)
  /\ UNCHANGED <<created, taskAge, heartbeatAge, request, current, faults, overlapped, unseen>>

\* The completing transaction: an update by id that also clears the failure.
Complete(w) ==
  /\ Step(w, "complete", "report")
  /\ Settle(current[w], "completed", "none", TRUE)
  /\ UNCHANGED <<created, taskAge, heartbeatAge, request, current, faults, overlapped, unseen>>

\* The idle heartbeat after a completed task; the drain loop goes on, or ends
\* after maxTasksPerCycle tasks (25; here after any number).
Report(w) ==
  /\ \E next \in {"poll", "rest"} : Step(w, "report", next)
  /\ Beat(w)
  /\ current' = [current EXCEPT ![w] = NoTask]
  /\ UNCHANGED <<taskVars, request, faults, overlapped, unseen>>

\* Faulty variant: a failed task goes back to the queue to be tried again.
FailTaskRequeues(w) ==
  /\ Step(w, "fail", "rest")
  /\ Settle(current[w], "queued", "none", FALSE)
  /\ current' = [current EXCEPT ![w] = NoTask]
  /\ UNCHANGED <<created, taskAge, heartbeatAge, request, faults, overlapped, unseen>>

\* The failing transaction of the catch block, an update by id as well.
FailTask(w) ==
  /\ Step(w, "fail", "rest")
  /\ Settle(current[w], "failed", "needle_task_failed", task[current[w]].hasResult)
  /\ current' = [current EXCEPT ![w] = NoTask]
  /\ UNCHANGED <<created, taskAge, heartbeatAge, request, faults, overlapped, unseen>>

\* The idle or error heartbeat that ends a drain; `watch' sleeps and polls
\* again, `once' exits.
Rest(w) ==
  /\ Step(w, "rest", IF w \in OnceWorker THEN "down" ELSE "poll")
  /\ Beat(w)
  /\ UNCHANGED <<taskVars, request, current, faults, overlapped, unseen>>

\* The process manager, or the operator, starts the process again.
Restart(w) ==
  /\ Step(w, "down", "poll")
  /\ UNCHANGED <<taskVars, heartbeatAge, request, current, faults, overlapped, unseen>>

----------------------------------------------------------------------------
(* Faults, and the passing of time.                                        *)

Crash(w) ==
  /\ pc[w] # "down"
  /\ faults < MaxFaults
  /\ pc' = [pc EXCEPT ![w] = "down"]
  /\ current' = [current EXCEPT ![w] = NoTask]
  /\ faults' = faults + 1
  /\ UNCHANGED <<taskVars, heartbeatAge, request, overlapped, unseen>>

\* A database call throws.  Inside the try block (the completing transaction,
\* before or after it took effect, and the idle heartbeat after it) the catch
\* block runs; anywhere else the error reaches the runner, and a claimed task is
\* left as it is: `watch' reports the error and polls again, `once' exits.
CallThrows(w) ==
  /\ faults < MaxFaults
  /\ faults' = faults + 1
  /\ \/ /\ pc[w] \in {"complete", "report"}
        /\ pc' = [pc EXCEPT ![w] = "fail"]
        /\ UNCHANGED current
     \/ /\ pc[w] \in {"poll", "find", "take", "announce", "fail"}
        /\ pc' = [pc EXCEPT ![w] = IF w \in OnceWorker THEN "down" ELSE "rest"]
        /\ current' = [current EXCEPT ![w] = NoTask]
  /\ UNCHANGED <<taskVars, heartbeatAge, request, overlapped, unseen>>

\* An enqueue transaction is rolled back.
AbortEnqueue(c) ==
  /\ request[c].step # "idle"
  /\ faults < MaxFaults
  /\ faults' = faults + 1
  /\ request' = [request EXCEPT ![c] = IdleRequest]
  /\ UNCHANGED <<taskVars, heartbeatAge, workerVars, overlapped>>

\* With TimelyPolling a worker between tasks beats before its heartbeat is
\* stale: pollMs (5 s) is below HEARTBEAT_FRESH_MS (20 s).
PollsInTime ==
  TimelyPolling =>
    \A w \in Worker : pc[w] \in {"poll", "find", "take", "announce", "report", "rest"}
                        => heartbeatAge[LabelOf[w]] < HeartbeatFresh

\* A row ages from its createdAt on, which is before the commit that shows it.
Ages(t) == IsActive(t) \/ \E c \in Client : request[c].row = t

Tick ==
  /\ PollsInTime
  /\ taskAge' = [t \in TaskId |->
       IF Ages(t) /\ taskAge[t] < OldestAge THEN taskAge[t] + 1 ELSE taskAge[t]]
  /\ heartbeatAge' = [l \in Label |->
       IF heartbeatAge[l] < StaleBeat THEN heartbeatAge[l] + 1 ELSE heartbeatAge[l]]
  /\ UNCHANGED <<task, created, request, workerVars, faults, overlapped>>

----------------------------------------------------------------------------

ClientStep(c) ==
  \/ \E a \in Application : BeginEnqueue(c, a)
  \/ JudgeHeartbeat(c)
  \/ InsertTask(c)
  \/ CommitEnqueue(c)

WorkerStepOf(w) ==
  \/ Poll(w)
  \/ FindNext(w)
  \/ Claim(w)
  \/ Announce(w)
  \/ ServiceReturns(w)
  \/ ServiceThrows(w)
  \/ Complete(w)
  \/ Report(w)
  \/ FailTask(w)
  \/ Rest(w)
  \/ Restart(w)

Next ==
  \/ \E c \in Client : ClientStep(c)
  \/ \E w \in Worker : WorkerStepOf(w)
  \/ \E w \in Worker : Crash(w) \/ CallThrows(w)
  \/ \E c \in Client : AbortEnqueue(c)
  \/ Tick

Spec == Init /\ [][Next]_vars

\* Workers and the database make progress, launchd or pm2 restart what died;
\* nobody is obliged to send requests or to fail.
FairSpec ==
  /\ Spec
  /\ \A w \in Worker : WF_vars(WorkerStepOf(w))
  /\ \A c \in Client : WF_vars(JudgeHeartbeat(c) \/ InsertTask(c) \/ CommitEnqueue(c))

\* Time also passes, and somebody keeps asking for every application.
RetrySpec ==
  /\ FairSpec
  /\ WF_vars(Tick)
  /\ \A c \in Client, a \in Application : WF_vars(BeginEnqueue(c, a))

----------------------------------------------------------------------------
(* Properties.                                                             *)

IsExecuting(w) == pc[w] \in ExecutingStep

\* No two workers execute the same task, not even after a recovery or a
\* restart: the compare-and-set of claimNextNeedleTask is the only way in.
NoDoubleExecution ==
  \A v, w \in Worker :
    v # w /\ IsExecuting(v) /\ IsExecuting(w) => current[v] # current[w]

\* enqueueNeedleTask keeps at most one queued or processing task for an
\* application, unless two of its transactions for that application overlapped:
\* the check for an active task and the insert are not one atomic step.
OneActivePerApplication ==
  \A a \in Application \ overlapped : \A t, u \in ActiveTasks(a) : t = u

\* The row tells one story: an active task has neither a failure nor a result,
\* a completed one has a result and no failure even if it had been recovered
\* before, a failed one says why.
OutcomeConsistent ==
  \A t \in TaskId :
    /\ IsActive(t) => task[t].failureCode = "none" /\ ~task[t].hasResult
    /\ task[t].status = "completed" => task[t].failureCode = "none" /\ task[t].hasResult
    /\ task[t].status = "failed" => task[t].failureCode # "none"

\* Tasks are claimed in the order of createdAt as far as a worker can see: a queued
\* task older than the one it claims was committed after it had looked, and never
\* was there to be seen, although others claim, recover and commit in between.
ClaimsOldestFirst ==
  [][\A w \in Worker : pc[w] = "take" /\ pc'[w] = "announce" =>
       \A u \in QueuedTasks : current[w] <= u \/ u \in unseen[w]]_vars

\* The queue implements the ledger: work on a task starts at most once, from
\* the queued status, and nothing is ever queued again.
Ledger == INSTANCE TaskLedger WITH
            Task <- TaskId,
            ledger <- [t \in TaskId |-> task[t].status],
            started <- {t \in TaskId : task[t].workerLabel # NoLabel}

LedgerSpec == Ledger!Spec

\* A queued task does not stay queued: a worker claims it, or the next enqueue
\* replaces it, through crashes, restarts and lost races.
QueuedLeavesQueue ==
  \A t \in TaskId : (task[t].status = "queued") ~> (task[t].status # "queued")

\* Without faults a claimed task is settled by the worker that claimed it.
ProcessingSettles ==
  \A t \in TaskId :
    (task[t].status = "processing" /\ faults = 0)
      ~> (task[t].status \in {"completed", "failed"} \/ faults > 0)

\* A task whose worker is gone does not block its application for ever: as long
\* as somebody asks again (and the bound leaves room for a replacement) it stops
\* being in progress.  specs/phase-6-async-needle-worker-topology.md promises it.
OrphanIsReplaced ==
  \A t \in TaskId :
    (task[t].status = "processing") ~> (task[t].status # "processing" \/ created = MaxTasks)

----------------------------------------------------------------------------
(* The inductive invariant behind the safety properties.                   *)

\* A worker holds its task from the claim to the last heartbeat of its try block.
HoldsTask(w) == pc[w] \in ExecutingStep \cup {"report"}

\* Rows exist under the stamps given out, and the label column says whether a row
\* was ever claimed.
RowsInOrder ==
  \A t \in TaskId :
    /\ task[t].status # "absent" => t <= created /\ task[t].application \in Application
    /\ task[t].status \in {"absent", "queued"} => task[t].workerLabel = NoLabel
    /\ task[t].status = "processing" => task[t].workerLabel # NoLabel

\* What a worker read or claimed is still what it thinks it is.
WorkersKnowTheirTask ==
  \A w \in Worker :
    /\ pc[w] = "take" => /\ current[w] \in TaskId
                         /\ \A u \in QueuedTasks : current[w] <= u \/ u \in unseen[w]
    /\ HoldsTask(w) => current[w] \in TaskId /\ task[current[w]].workerLabel # NoLabel

TasksHeldOnce ==
  \A v, w \in Worker : v # w /\ HoldsTask(v) /\ HoldsTask(w) => current[v] # current[w]

\* The row an open transaction has written is its own and not committed.
RowIsPending(c) ==
  /\ request[c].row \in 1..created
  /\ task[request[c].row].status = "absent"
  /\ \A d \in Client : d # c => request[d].row # request[c].row

\* What an open enqueue transaction saw; the task it saw is the only active one
\* of its application unless another transaction overlapped with it.
RequestsKnowTheirApplication ==
  \A c \in Client :
    LET r == request[c]
    IN /\ r.step = "create" => r.seen = NoTask
       /\ r.step \in {"judge", "replace"} => r.seen # NoTask
       /\ r.seen # NoTask =>
            /\ task[r.seen].status # "absent"
            /\ task[r.seen].application = r.application
            /\ r.seenStatus \in {"queued", "processing"}
       /\ IF r.step = "commit" THEN RowIsPending(c) ELSE r.row = NoTask
       /\ r.step # "idle" => r.application \in Application
       /\ r.step # "idle" /\ r.application \notin overlapped =>
            /\ \A t \in ActiveTasks(r.application) : t = r.seen
            /\ \A d \in Client : request[d].step # "idle" /\ request[d].application = r.application
                                   => d = c

IInv ==
  /\ TypeOK
  /\ RowsInOrder
  /\ WorkersKnowTheirTask
  /\ TasksHeldOnce
  /\ RequestsKnowTheirApplication
  /\ OneActivePerApplication
  /\ OutcomeConsistent

=============================================================================
