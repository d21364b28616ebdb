---------------------------- MODULE LatchHandoff ----------------------------
(***************************************************************************)
(* The hand-over of one application from Needle to Latch                   *)
(* (workers/latch: queue.ts, agent.ts, ops.ts; the approval transaction of *)
(* workers/needle/src/service.ts).                                         *)
(*                                                                         *)
(* An approval selects a resume, attaches it and enqueues a Latch task     *)
(* that names it.  A worker claims the task, sends a prompt to the         *)
(* application's one agent session, takes the newest reply that follows    *)
(* its prompt, and persists it: the resume attachment and the portal.      *)
(* Meanwhile the application may be taken back, tailored and approved      *)
(* again, the portal changed, and an operator may enqueue by hand: drafts, *)
(* moves and portal changes read and write the application in separate     *)
(* steps, like every handler of this system.                               *)
(*                                                                         *)
(* The queue protocol (heartbeats, labels, claims that are lost) is that   *)
(* of NeedleQueue, modelled there; here a stale judgement may fall on any  *)
(* active task, and what a task carries and leaves behind is modelled.     *)
(***************************************************************************)
EXTENDS Naturals, Sequences, SequencesExt, FiniteSetsExt, JobOpsState

CONSTANTS
  Web,               \* approving web requests that may be open at once
  Operator,          \* operators' enqueues that may be open at once
  Worker,            \* Latch worker processes
  MovesTo,           \* the statuses handlers other than Needle's move it to
  MaxVersions,       \* bound: resume versions drafted for the application
  MaxTasks,          \* bound: rows of the task table
  MaxKeys,           \* bound: attachment rows created after one approval
  MaxPortals,        \* bound: changes of the portal address
  MaxChanges         \* bound: versions and portal changes taken together

ASSUME ConstantsAssumption ==
  /\ {MaxVersions, MaxTasks, MaxKeys, MaxPortals, MaxChanges} \subseteq Nat \ {0}
  /\ MovesTo \subseteq ApplicationStatus

VARIABLES
  status,            \* Application.status
  selected,          \* Application.tailoredResumeVersionId
  drafted,           \* number of versions Needle has drafted
  approved,          \* versions a person has approved
  approvals,         \* number of approvals committed so far
  rows,              \* the resume attachments of the application
  portal,            \* Application.portalUrl
  newest,            \* launchUrl of the session with the latest lastSyncedAt
  drafting,          \* the draft under way: what it will do to the status
  move,              \* the handler that moves the application, and what it read
  saving,            \* whether a portal change has still to reach the application
  task,              \* the rows of the Latch task table, in order of creation
  asked,             \* tasks whose prompt the agent has still to answer
  session,           \* the agent's replies, each named by the task it answers
  call,              \* where each caller is, and what it has read
  worker,            \* where each worker is, and what it has in hand
  calm,              \* history: the last approval met no unfinished Latch work
  honest,            \* history: the agent named no resume but its prompt's
  portalCalm,        \* history: the user's last portal change met no work
  chosen             \* history: the portal the user chose last

applicationVars == <<status, selected, drafted, approved, approvals, rows, portal, newest>>
userVars == <<drafting, move, saving>>
latchVars == <<task, asked, session>>
historyVars == <<calm, honest, portalCalm, chosen>>
vars == <<applicationVars, userVars, latchVars, call, worker, historyVars>>

----------------------------------------------------------------------------

Caller == Web \cup Operator

NoVersion == 0
NoTask == 0
FirstPortal == 0
Version == 1..MaxVersions
Task == 1..MaxTasks
Portal == 0..MaxPortals

\* What an id of a resume version may name: nothing the database has (an empty or
\* unknown id), a draft for this application, or some other version it has, a base
\* resume or one of another application.
Foreign == MaxVersions + 1
Resume == {NoVersion, Foreign} \cup Version

Attachment == INSTANCE ResumeAttachment

TaskStatus == {"absent", "queued", "processing", "completed", "failed"}

\* What a task's request says: the resume, the portal known to the enqueue, and
\* who asked; `started' is whether startedAt is set.
TaskRow == [status : TaskStatus, version : {NoVersion} \cup Version, portal : Portal,
            by : {"none", "approval", "operator"}, started : BOOLEAN]

AbsentTask == [status |-> "absent", version |-> NoVersion, portal |-> FirstPortal,
               by |-> "none", started |-> FALSE]

\* The artifact of a version is served under a path of its own; a file the user
\* attaches may be anywhere (NoVersion).
Row == [key : Nat \X (1..MaxKeys), version : Resume, url : Resume]

CallStep == {"idle", "checked", "commit"}
CallState == [step : CallStep, by : {"none", "approval", "operator"},
              version : {NoVersion} \cup Version, portal : Portal,
              found : {NoTask} \cup Task, stale : BOOLEAN]
IdleCall == [step |-> "idle", by |-> "none", version |-> NoVersion, portal |-> FirstPortal,
             found |-> NoTask, stale |-> FALSE]

WorkerStep == {"idle", "ask", "wait", "persist", "commit", "fail"}
IdleWorker == [step |-> "idle", task |-> NoTask, after |-> 0, attached |-> NoVersion,
               plan |-> Attachment!NoPlan]

\* The handler reads the newest session, and most moves write it again.
NoMove == [to |-> "none", portal |-> FirstPortal, touches |-> FALSE]

TypeOK ==
  /\ status \in ApplicationStatus
  /\ selected \in {NoVersion} \cup Version
  /\ drafted \in Version
  /\ approved \subseteq Version
  /\ approvals \in Nat
  /\ rows \subseteq Row
  /\ portal \in Portal /\ newest \in Portal
  /\ drafting \in {"none", "stay", "review"}
  /\ move \in [to : {"none"} \cup ApplicationStatus, portal : Portal, touches : BOOLEAN]
  /\ saving \in BOOLEAN
  /\ task \in [Task -> TaskRow]
  /\ asked \subseteq Task
  /\ session \in Seq(Task)
  /\ call \in [Caller -> CallState]
  /\ \A w \in Worker :
       /\ worker[w].step \in WorkerStep
       /\ worker[w].task \in {NoTask} \cup Task
       /\ worker[w].after \in 0..Len(session)
       /\ worker[w].attached \in Resume
  /\ calm \in BOOLEAN /\ honest \in BOOLEAN /\ portalCalm \in BOOLEAN
  /\ chosen \in Portal

\* A first draft waits for review, no resume is selected, and a portal is registered.
Init ==
  /\ status = "tailoring_review"
  /\ selected = NoVersion
  /\ drafted = 1
  /\ approved = {}
  /\ approvals = 0
  /\ rows = {}
  /\ portal = FirstPortal
  /\ newest = FirstPortal
  /\ drafting = "none"
  /\ move = NoMove
  /\ saving = FALSE
  /\ task = [t \in Task |-> AbsentTask]
  /\ asked = {}
  /\ session = <<>>
  /\ call = [c \in Caller |-> IdleCall]
  /\ worker = [w \in Worker |-> IdleWorker]
  /\ calm = TRUE
  /\ honest = TRUE
  /\ portalCalm = TRUE
  /\ chosen = FirstPortal

IsActive(t) == task[t].status \in {"queued", "processing"}
ActiveTasks == {t \in Task : IsActive(t)}
FreeTasks == {t \in Task : task[t].status = "absent"}
NewestActive == IF ActiveTasks = {} THEN NoTask ELSE Max(ActiveTasks)

\* The approving transaction updates the application first and holds its row
\* until it commits; nobody else writes the row meanwhile.
HoldsRow(c) == call[c].by = "approval" /\ call[c].step = "commit"
RowIsFree == \A c \in Caller : ~HoldsRow(c)

\* No task is active and no worker has one in hand.
NoWork ==
  /\ ActiveTasks = {}
  /\ \A w \in Worker : worker[w].step = "idle"

----------------------------------------------------------------------------
(* The application, as the other services and the user change it.          *)

\* Versions drafted, being drafted, and portals chosen.
Changes == drafted + chosen + (IF drafting = "none" THEN 0 ELSE 1)

\* Needle takes up a draft: whether it moves the application to review is decided
\* by the status read now, minutes before the draft is written.
BeginDraft ==
  /\ drafting = "none"
  /\ drafted < MaxVersions /\ Changes < MaxChanges
  /\ status = "tailoring_review" \/ canTransitionApplication(status, "tailoring_review")
  /\ drafting' = IF status = "tailoring_review" THEN "stay" ELSE "review"
  /\ UNCHANGED <<applicationVars, move, saving, latchVars, call, worker, historyVars>>

\* The draft is committed by id.  It is the output of its run; the application's
\* resume is selected by an approval alone.
CommitDraft ==
  /\ drafting # "none"
  /\ drafting = "review" => RowIsFree
  /\ drafted' = drafted + 1
  /\ status' = IF drafting = "review" THEN "tailoring_review" ELSE status
  /\ drafting' = "none"
  /\ UNCHANGED <<selected, approved, approvals, rows, portal, newest, move, saving,
                 latchVars, call, worker, historyVars>>

\* The agent, the quality check or the transaction throws.
LoseDraft ==
  /\ drafting # "none"
  /\ drafting' = "none"
  /\ UNCHANGED <<applicationVars, move, saving, latchVars, call, worker, historyVars>>

\* A handler reads the application and its newest session and checks the move.
\* The status route's return to applying and a pause leave the session alone.
BeginMove(target, touches) ==
  /\ move.to = "none"
  /\ canTransitionApplication(status, target)
  /\ target \in {"submit_review", "submitted"} => touches
  /\ target = "paused" => ~touches
  /\ move' = [to |-> target, portal |-> newest, touches |-> touches]
  /\ UNCHANGED <<applicationVars, drafting, saving, latchVars, call, worker, historyVars>>

\* A session written with the time of day; of two writes that overlap either may
\* carry the later time.
Stamped(url) == {url, newest}

\* The transaction writes the status by id, and stamps the session read before.
CommitMove ==
  /\ move.to # "none"
  /\ RowIsFree
  /\ status' = move.to
  /\ newest' \in IF move.touches THEN Stamped(move.portal) ELSE {newest}
  /\ move' = NoMove
  /\ UNCHANGED <<selected, drafted, approved, approvals, rows, portal, drafting, saving,
                 latchVars, call, worker, historyVars>>

\* savePortalSession creates a new session ...
SaveSession ==
  /\ ~saving
  /\ chosen < MaxPortals /\ Changes < MaxChanges
  /\ newest' = chosen + 1
  /\ chosen' = chosen + 1
  /\ saving' = TRUE
  /\ portalCalm' = /\ NoWork
                   /\ \A c \in Caller : call[c].step # "commit"
                   /\ ~move.touches
  /\ UNCHANGED <<status, selected, drafted, approved, approvals, rows, portal, drafting,
                 move, latchVars, call, worker, calm, honest>>

\* ... and then, in a statement of its own, writes the application's address.
SavePortal ==
  /\ saving
  /\ RowIsFree
  /\ portal' = chosen
  /\ saving' = FALSE
  /\ UNCHANGED <<status, selected, drafted, approved, approvals, rows, newest, drafting,
                 move, latchVars, call, worker, historyVars>>

NextKey(in) ==
  LET used == {row.key[2] : row \in {r \in in : r.key[1] = approvals}}
  IN <<approvals, Cardinality(used) + 1>>

\* addApplicationAttachment: a file of the user's, for a version (the form offers
\* the selected one) or for none.  One added before the first approval is deleted
\* by it and is not explored.
AddAttachment(version, url) ==
  /\ approvals > 0
  /\ NextKey(rows)[2] \in 1..MaxKeys
  /\ rows' = rows \cup {[key |-> NextKey(rows), version |-> version, url |-> url]}
  /\ UNCHANGED <<status, selected, drafted, approved, approvals, portal, newest, userVars,
                 latchVars, call, worker, historyVars>>

----------------------------------------------------------------------------
(* Enqueueing: enqueueLatchTaskFromNeedleApprovalWithTx.                   *)

\* approveTailoringRunForApplication checks the run and the application before
\* its transaction: an application that is applying already may be approved again.
BeginApprove(c, version) ==
  /\ call[c].step = "idle"
  /\ status = "applying" \/ canTransitionApplication(status, "applying")
  /\ version \in (1..drafted) \ approved
  /\ call' = [call EXCEPT ![c] = [IdleCall EXCEPT !.step = "checked", !.by = "approval",
                                                  !.version = version]]
  /\ UNCHANGED <<applicationVars, userVars, latchVars, worker, historyVars>>

\* What the enqueue reads: the newest active task and whether it is judged
\* stale, the selected resume and the newest portal session.
Look(c, by, version, stale) ==
  /\ stale => ActiveTasks # {}
  /\ call' = [call EXCEPT ![c] =
                [step |-> "commit", by |-> by, version |-> version, portal |-> newest,
                 found |-> NewestActive, stale |-> stale]]
  /\ UNCHANGED <<applicationVars, userVars, latchVars, worker, historyVars>>

\* Within the approval the application already is applying with the resume of
\* the approved run.
LookForApproval(c, stale) ==
  /\ call[c].step = "checked"
  /\ RowIsFree
  /\ Look(c, "approval", call[c].version, stale)

\* Faulty variant: the newest draft is handed over.
LookForOperatorAtDraft(c, stale) ==
  /\ call[c].step = "idle"
  /\ status = "applying"
  /\ selected # NoVersion
  /\ Look(c, "operator", drafted, stale)

\* ops.ts enqueue: for the resume the application has selected.
LookForOperator(c, stale) ==
  /\ call[c].step = "idle"
  /\ status = "applying"
  /\ selected # NoVersion
  /\ Look(c, "operator", selected, stale)

\* Faulty variant: the request names the oldest portal session.
NewTaskOldestSession(c) ==
  [status |-> "queued", version |-> call[c].version, portal |-> FirstPortal,
   by |-> call[c].by, started |-> FALSE]

NewTask(c) == [status |-> "queued", version |-> call[c].version, portal |-> call[c].portal,
               by |-> call[c].by, started |-> FALSE]

\* Faulty variant: a stale task is put back into the queue for the new request.
EnqueuedRequeues(c) ==
  IF call[c].found # NoTask
  THEN task' = IF call[c].stale THEN [task EXCEPT ![call[c].found] = NewTask(c)] ELSE task
  ELSE \E t \in FreeTasks : task' = [task EXCEPT ![t] = NewTask(c)]

\* An active task that is not stale is returned as it is, whatever its request
\* says; a stale one is failed by id and replaced.
Enqueued(c) ==
  IF call[c].found # NoTask /\ ~call[c].stale
  THEN task' = task
  ELSE \E t \in FreeTasks :
         /\ \A other \in FreeTasks : t <= other
         /\ task' = [s \in Task |-> CASE s = t -> NewTask(c)
                                      [] s = call[c].found -> [task[s] EXCEPT !.status = "failed"]
                                      [] OTHER -> task[s]]

ApprovedRow(c) == [key |-> <<approvals + 1, 1>>, version |-> call[c].version,
                   url |-> call[c].version]

\* The approving transaction commits: resume, attachment and task together.
CommitApprove(c) ==
  /\ HoldsRow(c)
  /\ status' = "applying"
  /\ selected' = call[c].version
  /\ approved' = approved \cup {call[c].version}
  /\ approvals' = approvals + 1
  /\ rows' = {ApprovedRow(c)}
  /\ Enqueued(c)
  /\ call' = [call EXCEPT ![c] = IdleCall]
  /\ calm' = /\ NoWork /\ asked = {} /\ call[c].found = NoTask
             /\ \A d \in Caller : call[d].by # "operator"
  /\ honest' = (honest \/ NoWork)
  /\ UNCHANGED <<drafted, portal, newest, userVars, asked, session, worker, portalCalm,
                 chosen>>

CommitOperator(c) ==
  /\ call[c].by = "operator"
  /\ Enqueued(c)
  /\ call' = [call EXCEPT ![c] = IdleCall]
  /\ UNCHANGED <<applicationVars, userVars, asked, session, worker, historyVars>>

\* The approving transaction throws, or loses a deadlock: nothing is written.
AbortApprove(c) ==
  /\ HoldsRow(c)
  /\ call' = [call EXCEPT ![c] = IdleCall]
  /\ UNCHANGED <<applicationVars, userVars, latchVars, worker, historyVars>>

----------------------------------------------------------------------------
(* The worker: processNextLatchTask.                                       *)

GiveUp(w) == worker' = [worker EXCEPT ![w] = [IdleWorker EXCEPT !.step = "fail",
                                                              !.task = worker[w].task]]
Rest(w) == worker' = [worker EXCEPT ![w] = IdleWorker]

\* claimNextLatchTask: the oldest queued task.
Claim(w) ==
  LET queued == {t \in Task : task[t].status = "queued"}
  IN /\ worker[w].step = "idle"
     /\ queued # {}
     /\ task' = [task EXCEPT ![Min(queued)].status = "processing",
                             ![Min(queued)].started = TRUE]
     /\ worker' = [worker EXCEPT ![w] = [IdleWorker EXCEPT !.step = "ask",
                                                           !.task = Min(queued)]]
     /\ UNCHANGED <<applicationVars, userVars, asked, session, call, historyVars>>

\* Faulty variant: replies that were in the session before the prompt count.
AskWithoutSeq(w) ==
  /\ worker[w].step = "ask"
  /\ asked' = asked \cup {worker[w].task}
  /\ worker' = [worker EXCEPT ![w].step = "wait", ![w].after = 0]
  /\ UNCHANGED <<applicationVars, userVars, task, session, call, historyVars>>

\* Faulty variant: the prompt is counted as a reply that has been read.
AskCountingPrompt(w) ==
  /\ worker[w].step = "ask"
  /\ asked' = asked \cup {worker[w].task}
  /\ worker' = [worker EXCEPT ![w].step = "wait", ![w].after = Len(session) + 1]
  /\ UNCHANGED <<applicationVars, userVars, task, session, call, historyVars>>

\* sessions.create and sessions.send: the session is the application's, so
\* every task of it talks to the same one.
Ask(w) ==
  /\ worker[w].step = "ask"
  /\ asked' = asked \cup {worker[w].task}
  /\ worker' = [worker EXCEPT ![w].step = "wait", ![w].after = Len(session)]
  /\ UNCHANGED <<applicationVars, userVars, task, session, call, historyVars>>

\* The agent answers a prompt, sooner or later and in any order.
Answer(t) ==
  /\ t \in asked
  /\ asked' = asked \ {t}
  /\ session' = Append(session, t)
  /\ UNCHANGED <<applicationVars, userVars, task, call, worker, historyVars>>

\* The newest reply after the prompt is taken for the answer to it.
HasReply(w) == Len(session) > worker[w].after
Reply == Last(session)

\* What a reply attaches: the resume of the prompt it answers, that of the task
\* when it leaves the resume out, or none when it leaves it empty.
Honest(w) == {NoVersion, task[Reply].version, task[worker[w].task].version}

\* A reply that validates.  Only a selected resume is compared with the request's,
\* so a reply that selects none or the request's passes whatever it attaches.
Accept(w, attached) ==
  /\ worker[w].step = "wait"
  /\ HasReply(w)
  /\ worker' = [worker EXCEPT ![w].step = "persist", ![w].after = 0,
                              ![w].attached = attached]
  /\ honest' = (honest /\ attached \in Honest(w))
  /\ UNCHANGED <<applicationVars, userVars, latchVars, call, calm, portalCalm, chosen>>

\* The gateway fails, the reply says `failed', is no JSON or does not validate,
\* or none comes in time.
Reject(w) ==
  /\ worker[w].step \in {"ask", "wait"}
  /\ GiveUp(w)
  /\ UNCHANGED <<applicationVars, userVars, latchVars, call, historyVars>>

\* The persisting transaction reads the attachments and makes its plan ...
ReadAttachments(w) ==
  /\ worker[w].step = "persist"
  /\ \E plan \in Attachment!Plans(worker[w].attached, TRUE, worker[w].attached, rows) :
       worker' = [worker EXCEPT ![w].step = "commit", ![w].plan = plan]
  /\ UNCHANGED <<applicationVars, userVars, latchVars, call, historyVars>>

\* persistPortalTracking: the portal of the request is written back, to the newest
\* session when that has its address and else to a new one.
TrackPortal(w, tracked) ==
  LET asking == task[worker[w].task].portal
  IN IF tracked THEN portal' = asking /\ newest' \in Stamped(asking)
     ELSE UNCHANGED <<portal, newest>>

Settle(t, outcome) == task' = [task EXCEPT ![t].status = outcome]

\* ... and commits with the application's row, whatever the status of the
\* application and of the task have become.  The heartbeat after it may throw,
\* and the task is then failed as well.
CommitResult(w, tracked) ==
  /\ worker[w].step = "commit"
  /\ RowIsFree
  /\ Attachment!Applicable(worker[w].plan, rows)
  /\ worker[w].plan.action = "create" => NextKey(rows)[2] \in 1..MaxKeys
  /\ rows' = Attachment!Persisted(worker[w].plan, rows, NextKey(rows))
  /\ TrackPortal(w, tracked)
  /\ Settle(worker[w].task, "completed")
  /\ Rest(w) \/ GiveUp(w)
  /\ UNCHANGED <<status, selected, drafted, approved, approvals, userVars, asked, session,
                 call, historyVars>>

\* The planned row was deleted by an approval: the update throws.
CommitThrows(w) ==
  /\ worker[w].step = "commit"
  /\ RowIsFree
  /\ ~Attachment!Applicable(worker[w].plan, rows)
  /\ GiveUp(w)
  /\ UNCHANGED <<applicationVars, userVars, latchVars, call, historyVars>>

\* The transaction aborts: a deadlock with an approval, or a lost connection.
AbortResult(w) ==
  /\ worker[w].step = "commit"
  /\ GiveUp(w)
  /\ UNCHANGED <<applicationVars, userVars, latchVars, call, historyVars>>

\* The catch block fails the task by id, even one that was completed; a failed
\* reply does the same.
FailTask(w) ==
  /\ worker[w].step = "fail"
  /\ Settle(worker[w].task, "failed")
  /\ Rest(w)
  /\ UNCHANGED <<applicationVars, userVars, asked, session, call, historyVars>>

\* The process dies and is started again; its task stays in processing.
Die(w) ==
  /\ worker[w].step # "idle"
  /\ Rest(w)
  /\ UNCHANGED <<applicationVars, userVars, latchVars, call, historyVars>>

----------------------------------------------------------------------------

UserStep ==
  \/ BeginDraft \/ CommitDraft \/ LoseDraft
  \/ \E target \in MovesTo, touches \in BOOLEAN : BeginMove(target, touches)
  \/ CommitMove
  \/ SaveSession \/ SavePortal
  \/ \E version, url \in {NoVersion, selected} : AddAttachment(version, url)

WebStep(c) ==
  \/ \E version \in Version : BeginApprove(c, version)
  \/ \E stale \in BOOLEAN : LookForApproval(c, stale)
  \/ CommitApprove(c) \/ AbortApprove(c)

OperatorStep(c) ==
  \/ \E stale \in BOOLEAN : LookForOperator(c, stale)
  \/ CommitOperator(c)

WorkerStepOf(w) ==
  \/ Claim(w) \/ Ask(w)
  \/ \E attached \in Resume : Accept(w, attached)
  \/ Reject(w) \/ ReadAttachments(w) \/ CommitThrows(w)
  \/ \E tracked \in BOOLEAN : CommitResult(w, tracked)
  \/ AbortResult(w) \/ FailTask(w) \/ Die(w)

Next ==
  \/ UserStep
  \/ \E c \in Web : WebStep(c)
  \/ \E c \in Operator : OperatorStep(c)
  \/ \E t \in Task : Answer(t)
  \/ \E w \in Worker : WorkerStepOf(w)

Spec == Init /\ [][Next]_vars

----------------------------------------------------------------------------

\* Approved work keeps its resume: when an approval met no unfinished Latch work,
\* and the agent since named no resume other than its prompt's, the selected
\* resume was handed to Latch and stays attached, whatever drafts, moves, tasks,
\* failures, recoveries, late replies and attachments come later.
AttachedIsApproved ==
  calm /\ approvals > 0 =>
    /\ \E t \in Task : task[t].version = selected
    /\ honest => \E row \in rows : row.version = selected

\* An unapproved draft is never treated as the final resume: not by the selection,
\* not by any task, an operator's included, and not by an attachment, whichever
\* approvals the tasks, prompts and replies behind it belong to.
DraftsStayDrafts ==
  /\ selected \in approved \cup {NoVersion}
  /\ \A t \in Task : task[t].version \in approved \cup {NoVersion}
  /\ honest => \A row \in rows : row.version \in approved \cup {NoVersion}

\* The portal the user registered stays the application's, in the application and
\* in its newest session, unless Latch work, an enqueue or a move was under way
\* when it was registered: nobody who read the portal later writes another one.
PortalIsUsers ==
  portalCalm => newest = chosen /\ (~saving => portal = chosen)

\* The approved resume stays attached while it is applied with, as the milestone
\* that introduced approvals tests for (the agent naming none but its prompt's).
StaysAttached ==
  honest /\ approvals > 0 /\ status = "applying" =>
    \E row \in rows : row.version = selected

\* The Latch queue keeps the promise of a task ledger.
Ledger == INSTANCE TaskLedger WITH
  ledger <- [t \in Task |-> task[t].status],
  started <- {t \in Task : task[t].started}
LedgerSpec == Ledger!Spec

=============================================================================
