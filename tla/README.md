# Verification of the job-ops console

TLA+ models of the job application workflow in this repository, model-checked
with TLC and, where stated, proved with TLAPS. Paths are relative to the
repository root.

## 1. The system

A Next.js application (`apps/web`) and two kinds of worker process (Needle,
which tailors resumes, and Latch, which prepares application forms) share one
Postgres database through Prisma. There is no message broker and no lock
service: a component hands work to another by inserting a row, and learns of
the result by reading it. All statements run under READ COMMITTED, and most
handlers read, check and write in statements of their own. That is where the
hard behaviours are.

| component | state it keeps | operations | talks to |
| --- | --- | --- | --- |
| Needle work queue (`workers/needle/src/queue.ts`, `runner.ts`) | `NeedleTask` rows, one `NeedleWorkerHeartbeat` per label | enqueue with dedupe and stale recovery, claim, execute, complete, fail, heartbeat, drain, run once / watch | web requests enqueue; the worker calls the tailoring service |
| Needle tailoring service (`workers/needle/src/service.ts`) | `TailoringRun` rows, status and resume of the application | generate a draft, request edits, approve, pause | the agent; an approval enqueues a Latch task |
| State machines (`packages/domain/src/state.ts`) | none | transition tables and their assertions | every writer of a status |
| Application workspace and submit review (`apps/web/app/(app)/applications/[id]/actions.ts`, the status route, `lib/submit-review.ts`) | answers, attachments, portal sessions, readiness counters, frozen packet and its dirty mark | save and seed answers, attach, save portal, sync readiness, enter / refresh / leave review, submit | Latch and Needle approvals write the same rows |
| Latch work queue (`workers/latch/src/queue.ts`, `ops.ts`) | `LatchTask` rows, heartbeats | as Needle, with a payload; persists the agent's answers, attachment and portal with the completion | enqueued by approvals and operators; writes the workspace |
| Latch agent (`workers/latch/src/agent.ts`, `packages/contracts`) | one agent session per application, with its replies | check a request, send a prompt, take the newest reply, normalise, validate | the Latch worker |
| Readiness (`packages/readiness`) | none | hard blockers, soft warnings, counters, next action | workspace, Latch |
| Application start (`apps/web/lib/application-start.ts`, start route) | applications and their Needle task | look for an application, create one, enqueue | jobs board, Needle queue |
| Jobs board (`app/(app)/jobs/actions.ts`, job routes) | `Job.status` | shortlist, archive, verify posting | races with Scout |
| Scout ingestion (`workers/scout`) | scrape runs, source records, jobs, decisions | run with idempotency key, capture, dedupe, review, write back | writes `Job.status` |
| Posting check (`posting-check.ts`) | the checks of each job | reuse a fresh check, ask the agent, store | Scout, jobs board, start |
| Scout's judgement (`packages/domain/src/scout.ts`, `workers/scout/learning.ts`) | none | scores, flags, confidence, decision | Scout ingestion |
| Resume documents (`packages/tailoring`) | none | layout, measures, density, choice between two drafts | Needle tailoring |
| Pages and read models (`apps/web/app`, `lib/queries.ts`) | none | which list shows an application, which form is offered | all handlers |
| Authentication, seed | none that the workflow depends on | cookies, redirects, fixtures | |

### What is hard

- **Interleaving without locks.** Enqueue, transition and mark check first and
  write later; two of them can both pass. Only the claim of a task is a
  compare-and-set (`updateMany` with the status in its `where`).
- **Long calls on a snapshot.** A draft takes minutes and is written by id from
  what was read before; a Latch result likewise.
- **Derived records.** The readiness counters and the frozen packet are kept up
  to date by every handler, in statements of their own; a handler that forgets,
  dies or is overtaken leaves them behind.
- **Crash and recovery.** A task in `processing` is recovered only by the next
  enqueue of its application, and only if the heartbeat of its worker's label is
  stale. The recovered worker may still be alive and settle its task late.
- **Partial failure.** Every database call after a claim may throw, a commit may
  take effect and throw nevertheless, and an error handler may fail in turn.

### What makes each component correct

- *Queues*: a task is executed at most once; an application has one active task;
  a row tells one story whatever late writers do; the oldest that could be seen is
  claimed first; a queued task leaves the queue and a claimed one is settled.
- *Tailoring*: statuses follow the tables; what is reviewed or approved has a
  draft; a run revises an earlier one that had a draft; the reason of a pause is
  there exactly while paused; no run generates for ever.
- *Review*: what is under review is what was frozen or is marked; counters
  belong to the workspace; a submission has a packet; moves follow the table.
- *Hand-over to Latch*: the resume an approval selected is handed over and stays
  attached; a draft nobody approved is never selected, handed over or attached; the
  user's portal stands.
- *Readiness*: the blockers, the completion and the next action of one application
  should agree; it is stated exactly where they do not.
- *Application start*: one application per job, and it gets its task.
- *Scout*: a user's decision is not undone, a posting has one job, a key one run,
  a finished run has decided about everything it recorded, and every move is
  explained by a decision. A better posting is not judged worse.
- *Agents*: an accepted reply should hide no blocker and name no other resume; it is
  stated exactly which it may hide and name.
- *Documents*: everything is printed, on the paper and above the bottom margin, what
  is wrapped in its box; a second draft asked for density does no harm.
- *Pages*: every application has a way out through the forms that are offered.

## 2. Modules

| module | models | about |
| --- | --- | --- |
| `TaskLedger` | what a work queue promises | abstract specification: absent, queued, processing, completed, failed; work starts once |
| `NeedleQueue` | `queue.ts`, `runner.ts` | the queue with clients, workers, heartbeats, ages and faults; INSTANCEs `TaskLedger` |
| `JobOpsState` | `state.ts`, `types.ts` | statuses and transition tables |
| `NeedleTailoring` | `service.ts` | runs and application under concurrent calls |
| `SubmitReview` | `actions.ts`, status route, and the writes of Latch and of approvals | workspace, counters, packet and mark under concurrent calls |
| `LatchHandoff` | Latch's `queue.ts`, `ops.ts`, `agent.ts`, the approving transaction | approvals, operators, worker, agent session; resume, attachments and portal; INSTANCEs `TaskLedger` |
| `ResumeAttachment` | `buildResumeAttachmentPersistencePlan` | how a result becomes an attachment row; INSTANCEd by `LatchHandoff` |
| `JobsBoard` | Scout's `index.ts`, `posting-check.ts`, job routes, `application-start.ts` | runs, records, checks, decisions, the user, starting requests |
| `ScoutRules` | `scout.ts`, `learning.ts`, the decision in Scout's `index.ts` | scores and decision of a posting |
| `Readiness` | `packages/readiness` | blockers, completion, next action |
| `LatchContract` | `agent.ts`, the Latch contract | check of a request, normalisation and validation of a reply |
| `ResumeLayout`, `Density` | `pdf.ts`, the density profile and choice | wrapping, pages, measures; choice between drafts |
| `Pages` | the pages and `queries.ts` | forms offered against handlers that accept |
| `Rules` | | asks each of `ScoutRules`, `Readiness`, `LatchContract`, `ResumeLayout`, `Density` and `Pages` its questions, whose sets are constants |
| `MCNeedleQueue`, `MCNeedleTailoring`, `MCSubmitReview`, `MCLatchHandoff`, `MCJobsBoard`, `MCRules` | | instances for TLC |
| `NeedleQueueProofs`, `NeedleTailoringProofs`, `SubmitReviewProofs`, `LatchHandoffProofs`, `JobsBoardProofs`, `ScoutRunProofs` (on top of it), `LayoutProofs`, `RulesProofs` (on top of it) | | theorems and proofs |

`NeedleTailoring`, `SubmitReview`, `LatchHandoff` and `Pages` share the statuses
of `JobOpsState`; `NeedleQueue` and `LatchHandoff` implement one `TaskLedger`.
An approval appears in three of them, each time with the part of its transaction
that its neighbours react to: the run and status in `NeedleTailoring`, the
replaced resume in `SubmitReview`, resume, attachment and task in `LatchHandoff`.

### NeedleQueue

`task` is the sequence of `NeedleTask` rows by creation. `request[c]` is the
transaction of `enqueueNeedleTask` client `c` is in (`BeginEnqueue` reads the
newest active task, `JudgeHeartbeat` is the heartbeat test of
`maybeRecoverStaleNeedleTask`, `InsertTask` writes the rows, `CommitEnqueue` is the
commit, at which the stale task is failed and the new one queued). A row is numbered
by `InsertTask`, because `createdAt` is set before the commit and claims are ordered
by it: of two open transactions, the later row may become visible first. `pc[w]` is where worker `w` is in
`processNextNeedleTask`: `Poll`, `FindNext`, `Claim` (the compare-and-set),
`Announce`, the service call (`ServiceReturns`, `ServiceThrows`), `Complete`,
`Report`, `FailTask`, and in the runner's loop `Rest` and `Restart`.

The write that fails a recovered task, and those that complete or fail a claimed
one, are by id without a guard, as in the code: a late worker can overwrite a
recovery and the reverse. `OutcomeConsistent` says that the row is nevertheless
consistent. `unseen` is a history variable: the rows committed since a worker looked
for the oldest one, which its claim passes over although they may be older. A clock
that differs between web servers would have the same effect as a slow commit.

Time is an age per task and per label that saturates just above the thresholds
it is compared with, advanced by `Tick`; no clock is bounded. Two processes may
share a label (`LabelOf`), which is what the default label does. A worker run
with `queue:once` ends after a drain, the others watch. `overlapped` is a history
variable: the applications for which two enqueue transactions were open at once.

### NeedleTailoring

A *call* is one invocation of an operation of `service.ts` and carries what it
has read: the application's status, the run's status, the reason of a pause.
Each read and each transaction is a step. `BeginX` is the load and the checks,
`CommitX` the transaction, which writes by id. `OpenRun` creates the run outside
of any transaction; `DraftReturns` / `DraftThrows` stand for the agent;
`CommitDraftThrows` is a commit that throws before or after it took effect, after
which the catch block (`FailRun`) runs. `Move` is what the web application does
to the same status.

### SubmitReview

The workspace (tailored resume, attachments, answers, portal URL) is a revision
number with one attribute: whether `evaluateApplicationReadiness` finds a hard
blocker in it. `counted` is the revision the readiness counters were computed
from, `packet` the revision in `submitReviewPacketJson`, `dirty` the mark.
A call has a kind (an edit, entering review, going back, submitting, refreshing,
the status route, an approval, a pause, a Latch task) and a step:

- an **edit** (`saveApplicationAnswer`, `applyProfileAnswerToApplication`,
  `addApplicationAttachment`, `savePortalSession`) writes (`BeginEdit`), reads
  for the counters (`Sync`), writes them (`Count`), reads for the mark (`Look`),
  marks (`Mark`);
- **entering review** syncs and is judged (`Sync`, `Judge`), checks the
  transition (`Check`), and in one transaction updates the application, reads the
  workspace (`Freeze`) and writes the packet (`CommitFreeze`). The update comes
  first, so the row is locked until the commit (`HoldsRow`): other writers of the
  row wait, writers of answers and attachments do not;
- **refresh** freezes without such a lock;
- **going back** and **submitting** check and commit (`CommitMove`); going back
  then marks a captured packet dirty;
- the **status route** loads the application (`Check`), syncs, judges, asserts
  and commits: it neither freezes nor asks for a packet;
- **approval** (`CommitApprove`) replaces the resume without a sync; **pause**;
- a **Latch task** claimed earlier (`BeginLatch`) reads what others committed
  (`Persist`) and commits its result and counters without a mark (`CommitLatch`).

`slips` is a history variable: which derived record has been left behind by a
known way (a change between a freeze's read and its commit, a Latch result,
entry by the route, a handler that died, an approval, an overtaken sync). The
invariants then say that there is no other way.

The portal session's `status` and `lastSyncedAt`, which every move itself
updates after the freeze, are not part of a revision. Leaving `paused` for
tailoring again is `NeedleTailoring`'s subject.

### LatchHandoff

One application. An approval (`BeginApprove`, `LookForApproval`, `CommitApprove`)
checks before its transaction; the transaction updates the application first, so
its row is locked from the look-up of an active task to the commit (`HoldsRow`).
An operator (`ops.ts enqueue`) does the same outside of any lock and for whatever
resume is selected. An active task is returned as it is, whatever its request
says, unless it is judged stale.

The application is changed meanwhile, by handlers that read and write in separate
steps. A draft (`BeginDraft`, `CommitDraft`, `LoseDraft`) decides what it will do to
the status when it starts; it is the output of its run, and only an approval selects
a resume. A move (`BeginMove`, `CommitMove`) reads the newest portal session, and
most moves stamp that session when they commit, so that an older one may become the
newest again (`Stamped`; of two writes that overlap either may carry the later
time). A portal change writes a session (`SaveSession`) and then, in a statement of
its own, the application (`SavePortal`). A user attaches files for the selected
version or for none (`AddAttachment`).

The worker claims (`Claim`), sends its prompt (`Ask`) and takes the newest reply
that follows it (`Accept`, `Reject`). All tasks of an application share one agent
session, and the agent answers late and in any order (`Answer`): the reply taken
may answer an earlier prompt. The version that a reply attaches is not checked
against the request, so `Accept` takes any (`Resume`: none, any draft of this
application, or another version the database has). The persisting transaction reads
the attachments (`ReadAttachments`), plans (`ResumeAttachment`) and commits with the
application's row (`CommitResult`); the heartbeat after it may throw and fail the
completed task. Creating an attachment under an id that no version has would throw,
which is the same as `AbortResult`.

Three history variables say what the properties assume: no Latch work was under way
when the last approval committed (`calm`), the agent has attached no version but that
of the prompt it answers since then (`honest`), and neither Latch work nor an enqueue
nor a move was under way when the user last registered a portal (`portalCalm`).
Without them the properties are false in the code: a late result or a wrong id does
replace the attachment, and the portal of an old request does return. Which resume is
handed over, and that no unapproved draft is, needs none of them, and which
unapproved draft is attached needs `honest` alone. `latch_handoff_drift` shows the
attachment replaced although the agent is honest. The heartbeat's judgement is a free
choice, since its protocol is `NeedleQueue`'s.

### JobsBoard

A run of Scout is one call of `runScoutIngestion`: `LookUpKey` and `CreateRun` are
two statements, as are, for each record, `FindJob` (store the source, look the job
up, remember its status) and `LinkRecord` or `CreateJob`. Then all jobs are
reviewed (`ReviewJobs`), postings checked one after the other (`TakeCheck`,
`AskCheck`, `CheckAnswered`), and a status and a decision written for each job, in
two statements (`WriteStatus`, `NoteDecision`). A record may fail before or after
its job was created (`FailRecord`), any statement may throw (`Throw`, `FailRun`)
and the process may die (`Die`), which leaves the run in `processing`.

The user writes any status over any other (`Decide`), and checks grow old
(`Expire`). A starting request looks for an application, creates one in a
transaction and enqueues its Needle task in another (`BeginStart`, `CommitStart`,
`EnqueueStart`, `StartFails`).

Nothing in the schema makes a posting's job, a key's run or a job's application
unique. `racing` names what two look-ups overlapped on, `saidCalm` the jobs no run
had in hand when the user decided, `cutOff` the applications whose request ended
before its task: the exceptions of the properties, and, so they say, the only ones.

`MovesAreExplained` excludes runs that broke off, and postings that one call meets
twice. In the latter case the decision on the second record replaces the one that
moved the job (`persistScoutDecision` upserts by job and run); a third run that had
read the status writes it back, and no automatic decision says why. TLC finds this
with three runs. A run whose process died keeps its key in `processing`, and no
later call with the key does anything: `KeyOnce` holds, and the key is blocked.

### The rules

`ScoutRules`, `Readiness`, `LatchContract`, `ResumeLayout`, `Density` and `Pages`
are pure operators, in the names of the functions they translate. `Rules` asks
each of every question of a kind (a state is a question) and states what several
of its results must have in common, or what a change of the input may do to them;
`MCRules` gives the questions TLC asks, the proofs are for all of them.

- Scores are integers scaled to their weights' common denominator; `learning`
  enters as counts of agreeing and disagreeing decisions.
- Text is word lengths in `ResumeLayout`: a letter's width depends on the font
  alone. Heights are in thousandths of a point. `pageContentStream` gives baselines: a
  text's letters rise above its own. The documents of the run are at most about two
  pages.
- `Pages` gives, for a state of one application, the states each offered form and
  each worker step leads to. `Rules` follows these steps from a new application
  (`ApplicationMoves`).

The properties of these rules say exactly what the code does, and where that is less
than its specifications promise, the property names the difference: it holds with
the difference and would fail for any other. The differences are not virtues. They
are listed here, with what they differ from.

*Readiness* (`SummariesDifferOnlyHere`):

- a required answer stored as `null` counts as present (`extractValue` falls back to
  the record around it), the application is ready and 100 % complete, and the page
  shows nothing of the answer; `specs/milestone-3-latch-application-ops-v1.md:419`
  warns of answers that are there but empty;
- a resume attached for another version blocks, and the recommended next action
  nevertheless is the final review, where line 234 of that specification asks for the
  single clearest next step and line 413 to surface the mismatch clearly;
- with 67 or more required answers (`RoundsUp`), one missing answer still rounds to
  100 % complete: the proof needs the bound, which the grid of the run does not reach.

*The Latch contract* (`HidesOnlyWhatIsDropped`):

- in the `result` shape of a reply, blockers given as text are dropped, and the reply
  may be ready against them (`agent.ts:384-395`);
- the selected resume is compared with the request, unless it is empty, the attached
  one never is (`agent.ts:212-225`, `:349-352`, `:416-419`). What follows for the
  attachments is `LatchHandoff`'s subject.

*Scout's decision* (`OnlyBarringDoubtsGoToAPerson`):

- a missing salary and a history of archived jobs are flags that
  `specs/milestone-1-scout-automation-and-triage-v1.md:124` and `:407` and the reason
  given at `index.ts:662` say bar acting automatically; they bar nothing;
- the confidence threshold of 0.85 stops no posting that passes the other tests;
- the rule for archiving automatically asks for scores that no posting gets, where
  lines 406 and 444 of that specification expect Scout to act, archiving included.

*Documents* (`ResumeIsWhole`):

- header lines and section titles are never wrapped (`pdf.ts:415-454`), so that a long
  one is printed over the edge of the page. They have their lengths in the model, and
  no bound on their width is claimed;
- the letters of a page's first line rise into the top margin, and stay on the paper;
- a date is measured at 10 points and drawn at 10.35: one of more than 86 letters may
  reach into its heading, by less than a letter;
- an empty entry of a resume at the bottom of a page gives a blank page, and a resume
  without sections may end in a page with nothing but the rule under its header (the
  proof attempt of `NoBlankPage` showed the latter).

*Jobs and pages* (`JobsBoard`, `HasAWayOut`):

- a failed posting check allows the automatic shortlisting that a check answering
  `uncertain` stops, and the page's start action has no posting guard where the
  route has one;
- the pages disable the buttons that would replace a task whose worker died: the
  exception of `HasAWayOut`, which says that this is the only way to be stuck.

## 3. Runs

| run | shows | bounds |
| --- | --- | --- |
| `needle_queue` | safety of the queue in every interleaving, and that it implements `TaskLedger` | 2 clients, 2 workers with own labels (one `queue:once`), 1 application, 2 tasks, 1 fault |
| `needle_queue_live` | a queued task leaves the queue; a claimed one is settled unless something fails | 1 client, 2 workers sharing a label, 2 applications, 2 tasks, 1 fault |
| `needle_queue_orphan` | **violated**: a worker that crashed while executing and came back under its label keeps its orphan fresh, and no enqueue ever replaces it | 1 client, 1 worker, 2 tasks, 1 fault |
| `tailoring` | what stays true of runs and application although checks precede transactions; no run generates for ever unless its call died | 2 calls, 2 runs, 1 fault; 0.8 million states |
| `tailoring_race` | **violated**: a pause during a draft is undone by the draft's commit, `paused -> generated_for_review` | 2 calls, 1 run |
| `submit_review` | packet and counters follow the workspace up to the named slips; moves and submissions are checked | 2 calls, 3 revisions, 1 fault |
| `submit_review_route` | **violated**: the status route enters review without a packet | 1 call, 3 revisions |
| `submit_review_drift` | **violated**: a Latch result after the freeze changes the workspace, packet unmarked | 1 call, 3 revisions |
| `latch_handoff` | which resume and portal an application ends up with, and that the Latch queue implements `TaskLedger` | 1 approving request, 1 operator, 1 worker, 2 versions, 2 tasks, 2 attachment rows per approval, 1 portal change, of the drafts and the portal change one (`MaxChanges`); 2.7 million states |
| `latch_handoff_drift` | **violated**: the result of an earlier approval's task replaces the attachment of the later one | 1 approving request, no operator, 1 worker, 2 versions, 2 tasks, 1 attachment row per approval |
| `jobs_board` | that decisions stand and rows are unique up to the named races, that finished runs are whole and moves explained | two runs of one posting with the user; or a run meeting its posting twice with 2 starting requests, checks and expiry; 1 posting, 1 key, 2 jobs, 2 applications; 1.7 million states |
| `rules` | the pure rules, on a grid | see below; 300,786 states, one question deep, the applications of `Pages` as far as they get |

**Why the bounds suffice to be interesting.** A race here needs two actors on one
row, and a recovery needs one task to go stale and one to replace it: two
clients, two workers and two tasks meet every pair of steps, and the fault lets a
crash happen at each of them. In `SubmitReview`, three revisions are the approved
one, the one frozen and the one that overtakes it. The thresholds are one tick
apart, which keeps their order (fresh < stale) and nothing else. In `LatchHandoff`, two versions and two tasks are the approved one and the one
that replaces it, and one worker meets the late reply of its own earlier task. In
`JobsBoard`, one posting is enough, since a race needs two records of the same one;
`MCJobsBoard` splits the actors into the two groups that share rows. Clients and
calls are symmetric; workers are not (one runs once) and are not reduced.
The grid of `rules` puts values at both sides of every threshold (ages 7, 21, 22;
64 to 69 bullets around the page's end; words around the width of their box; titles
and header lines wider than the page; each wrong part of a reply's envelope alone,
but every combination of its contents) and otherwise covers the whole domain.
Except for those of `NeedleQueue` and the grid, runs switch deadlock checking off: applications, runs and
requests end, and the bounds on rows and revisions end the rest. For all other
values there are the proofs.

**What the violated runs say.** Each quotes, in `PROJECT.json`, the line of a
specification or a comment of the repository that promises the property:
`specs/phase-6-async-needle-worker-topology.md:127` (orphans),
`specs/roadmap-milestones-v1.md:141` (transitions),
`specs/milestone-4-submit-review-and-recording-v1.md:255` (packet on entry) and
`:241` (no silent drift),
`specs/milestone-2-needle-tailoring-system-v1.md:323` (the approved resume stays
attached).

### Fairness

Safety runs assume none. `FairSpec` of the queue assumes weak fairness of each
worker's own steps (the runner loops, a service call returns or throws, because
agent calls have timeouts, and the process manager restarts what died) and of an
enqueue transaction that has begun. Clients need not send requests, time need not
pass, faults need not happen. `RetrySpec` adds that time passes and that somebody
keeps asking, which is what the orphan run needs to be a refutation.
`TimelyPolling` in that run says that an idle watching worker polls (every 5 s)
before its heartbeat is stale (20 s). `FairSpec` of the tailoring service assumes
that an open call goes on: the agent answers or times out.

## 4. Proofs

`NeedleQueueProofs`, for any clients, workers, labels, applications, thresholds
and bounds satisfying `ConstantsAssumption`: type correctness,
`NoDoubleExecution`, `OneActivePerApplication`, `OutcomeConsistent`,
`ClaimsOldestFirst`, and `QueueImplementsLedger` (the refinement of `TaskLedger`).

None of these is inductive alone. `IInv` adds what each step relies on: a row that
was not yet numbered is absent and the label column tells whether a row was ever
claimed (`RowsInOrder`); a worker about to claim read a row that is older than every
queued one except those it has not seen, and one that executes holds a row that
carries a label (`WorkersKnowTheirTask`); a claim needs
a queued row, which carries none, so no two workers hold one row, *even after a
recovery has put it into `failed`* (`TasksHeldOnce`); and an enqueue transaction
that did not overlap another still sees the only active task of its application,
and has a row of its own that nobody else numbers or commits
(`RequestsKnowTheirApplication`, `RowIsPending`). The proof has one lemma per action.

`SubmitReviewProofs`, for any set of calls and any bounds: type correctness,
`ReviewedIsCurrent`, `CountersCurrent`, and the action properties
`SubmissionHasPacket` and `LegalUnlessOvertaken`. The strengthening is
`MovesAreChecked` (a call at its transaction has been checked against the status
it read, and each step belongs to certain kinds of call) and `PacketsAreThere` (a
packet that a submission was checked against is never removed). The proof reduces
a step to what it does to one call (`Leads`) and to the shared record, so each
action needs only its own conjuncts.

`NeedleTailoringProofs`, for any calls, runs and faults: type correctness,
`ReviewedRunHasDraft`, `RevisionsFollowDrafts`, `PausedSaysWhy` and
`LegalUnlessOvertaken`. The strengthening ties a call to what it read: a call that
is about to commit an approval or a request for edits has seen a run with a draft,
and a run never loses one, so that the write by id is safe although the status may
have changed; a revision's base is an earlier run than its own.

`LatchHandoffProofs`, for any requests, operators, workers, versions and bounds:
type correctness, `AttachedIsApproved`, `DraftsStayDrafts`, `PortalIsUsers` and
`LatchImplementsLedger`, the refinement of `TaskLedger`. `IInv` says who may still
write the attachment or the portal, and what: an open request, a move that will stamp
a session, an active task, a prompt the agent has still to answer, a reply that may
still be taken, a worker about to persist. While `calm` holds, each task, prompt and
reply among them concerns the selected version, and while `honest` holds too, so does
what is about to be attached (`ResumeKept`). Every version named by an operator's
request, and by an attachment in hand, is approved (`DraftsKept`); that nothing ever
leaves `approved` makes this last over later approvals. While `portalCalm` holds, all
of them carry the portal the user chose (`PortalKept`). That attachment rows are
numbered from one (`RowsNumbered`) makes an insertion add a row and not replace one;
that callers, workers, prompts and replies name tasks that exist and were started
(`TasksKnown`) carries the rest over an enqueue.

`JobsBoardProofs`, for any runs, records, requests and bounds: type correctness,
`UserDecisionStands`, `OneJobPerPosting`, `KeyOnce` and `StartedOnce`. Rows stay
rows (`JobsAreRows`, `DecisionsAreRows`), a run knows where it is and has only jobs
in hand that are there (`RunsAreWell`). Each uniqueness is strengthened by what the
look-ups before the insertion know: a run about to create its row, or a job, or a
request about to create an application, is the only one and has found nothing,
unless `racing` names the key, posting or job (`KeysHeld`, `PostingsHeld`,
`StartsHeld`). A decision of the user stands because a run that looks the job up
later reads and writes back what the user said (`RunsKnowSaid`).

`ScoutRunProofs` adds two layers. `RunsAreWhole` counts: every row that led to a job
is among the reviews, every review before the one at hand has its decision, and a
run without errors has as many rows as records behind it. From it follows
`EndedRunsAreWhole`. `MovesHaveReasons` follows each status that is the job's or
that some run has read and may write back: an automatic decision for it stands and
will not be replaced, or is about to be noted, or some run broke off. A decision
is not replaced because a posting met once is reviewed once (`RunsHaveMet`). From it
follows `MovesAreExplained`.

`SerialMovesAreLegal`, in `NeedleTailoringProofs`, is the counterpart of the violated
run `tailoring_race`: among calls that follow one another (hypothesis `Serial`, that
there is but one of them) every status written follows the tables, without the
exception of `LegalUnlessOvertaken`. The strengthening, `SeenIsCurrent`, says that
what a call has read is still so when it writes.

`RulesProofs`, for postings of any age, histories of any length, any answer fields
and versions, any requests, replies and resumes, and layouts of any size: the seven
invariants of `Rules`. The inductive invariant is `Asked`: the question at hand is
one that may be asked, and an application is one of `Pages` that is not archived
(no page and no worker archives one). Then each rule is
proved of every question of its kind:

- `OnlyBarringDoubtsGoToAPerson`, `BetterIsNotWorse`: by the flags a posting raises, and by the
  terms of its score, each of which a better posting leaves or raises;
- `SummariesDifferOnlyHere`: by the cardinalities of the required and the missing
  answers, the rounding bounded at `RoundsUp`;
- `HidesOnlyWhatIsDropped`: by the two shapes of a reply;
- `RetryDoesNoHarm`: a draft as full as its baseline has no excess to be penalised
  for; the rest by the cases of the assessment;
- `HasAWayOut`: by the distance to the submission. `CanBeSubmittedIn` counts the
  steps, and a lemma names for each stage of an application the form or worker
  step that brings it nearer;
- `ResumeIsWhole`: in `LayoutProofs`, for resumes of any length. What wrapping,
  pagination and drawing do is proved over the prefixes of their input: an item is
  put on the last page or opens a new one, so the pages hold the items in order
  (`NothingIsLost`), and no item is taller than a page (`StaysOnPaper`). `Paged` is
  the invariant of pagination: a page that is followed by another shows a line, and
  the last one does or holds the rule alone, because a spacer fits where its entry's
  last line did and a rule is followed by a section's title that fits under it
  (`NoBlankPage`). An item that starts a bullet comes from a text that is not empty,
  and each such text gives one (`BulletsAreCounted`).

These proofs are about recursively computed data, for which the library's induction
theorems cannot be used, since they take an operator as a parameter. `LayoutProofs`
therefore does induction over sets: `Induction` (a subset of `0..n` that holds 0 and
the successors of its members is the interval) from the least element of a
non-empty set of naturals (`LeastNat`, from the well-founded order of the library),
and from it that a function defined by recursion over an interval satisfies its
equation (`Iterates`) and an induction over sequences built by `Append`
(`SequenceInduction`). That is why `WrapWord`, `PutOn` and the drawing are steps of
recursive functions over `0..Len(...)`, and `CanBeSubmittedIn` one over `0..9`.

Every invariant of states used as a strengthening was checked by TLC before it was proved.
Every safety property of a passing run is a theorem. Only model-checked is liveness,
since the prover handles neither fairness nor ENABLED: `QueuedLeavesQueue` and
`ProcessingSettles` (`needle_queue_live`) and `DraftSettles` (`tailoring`).

## 5. Plan

What is left, most useful first:

1. One application through approval, hand-over and review together: the resume
   approved, the one attached and the one in the frozen packet are each followed
   in a module of its own (`NeedleTailoring`, `LatchHandoff`, `SubmitReview`).
2. Whose answer stands: `persistLatchPreparationResult` upserts answers by field and
   overwrites one a person saved while the agent worked (`queue.ts:480`). That needs
   answers by field, with their source, in `LatchHandoff`.
3. The second of the two agent calls for a dense draft (`service.ts:641`) as a step
   of its own in `NeedleTailoring`, with the first draft in hand.
4. The URL a posting check was made for (`posting-check.ts:68`).
5. Liveness of the Latch queue under the fairness of the Needle queue, and of a run
   of Scout.

## 6. Not modelled

- *Text.* Prompts, wording and scoring of drafts, the heuristic tailoring engine, the
  parsing of resumes: no state depends on more of a draft than that it is there. The
  bytes of a PDF: `ResumeLayout` stops at boxes on pages.
- *Projections.* Most of `queries.ts` and the read models copy fields for display;
  `Pages` has the parts that decide what a person can do. The schemas of Needle's
  messages validate shape only; the Latch contract, which also normalises and
  refuses, is `LatchContract`.
- *Sessions, cookies, redirects, rendering.* No shared state.
- *Audit and feedback events.* Written in the transactions they belong to; audit
  events are not read back, feedback is what `ScoutRules` calls agreements.
- *Answers by field.* See the plan; in `SubmitReview` they are part of a revision.
- *Seed, migrations, smoke scenarios.* Data and fixtures.

Not every oddity met is a property. Latch is to start only after an approval
(`specs/latch-agent-contract-v1.md:49-53`), and an operator's enqueue asks for none:
it hands over whatever resume is selected. `DraftsStayDrafts` says why this is not a
draft: nothing but an approval selects a resume, so the operator hands over one that
was approved once, though perhaps not the one under revision now. `start/route.ts:43`
looks for an application that is not archived, and no handler archives one, so that
`BeginStart` has no such test. The regular expressions with `ai` and `ny` of Scout's
scoring (`scout.ts:143`, `:149`) match inside words; `ScoutRules` starts from what
matched.
