--------------------------- MODULE NeedleTailoring ---------------------------
(***************************************************************************)
(* Tailoring one application (workers/needle/src/service.ts): drafts are   *)
(* generated by worker calls that last minutes, while web requests ask for *)
(* edits, approve, pause or move the same application.                     *)
(*                                                                         *)
(* Every operation reads the application and the run first, checks them    *)
(* against the transition tables, and writes later, by id alone.  A call   *)
(* is one invocation of such an operation: each of its reads and its       *)
(* transaction is a step, and any number of calls are open at a time.      *)
(***************************************************************************)
EXTENDS Naturals, JobOpsState

CONSTANTS
  Call,              \* the invocations that may be open at the same time
  MaxRuns,           \* bound: tailoring runs ever created
  MaxFaults          \* bound: crashed calls and failed transactions

ASSUME ConstantsAssumption == MaxRuns \in Nat /\ MaxFaults \in Nat

VARIABLES
  appStatus,         \* Application.status
  pausedReason,      \* Application.pausedReason is set
  tailoredRun,       \* the run whose resume is Application.tailoredResumeVersionId
  run,               \* the TailoringRun rows, in creation order
  opened,            \* how many of them exist
  call,              \* where each call is, and what it has read
  faults             \* faults so far

appVars == <<appStatus, pausedReason, tailoredRun>>
runVars == <<run, opened>>
vars == <<appVars, runVars, call, faults>>

----------------------------------------------------------------------------

NoRun == 0
RunId == 1..MaxRuns
Opened == 1..opened

RunStatus == TailoringRunStatus \cup {"absent"}
Run == [status : RunStatus, source : RunId \cup {NoRun}, hasDraft : BOOLEAN]

Kind     == {"none", "generate", "edits", "approve", "pause", "move"}
CallStep == {"idle", "check", "load", "open", "draft", "commit", "fail"}

\* What a call knows: the run it works on (or its new run's source, until that
\* is opened), the statuses it read, and the status a `move' goes to.
CallState == [kind : Kind, step : CallStep, run : RunId \cup {NoRun},
              seenApp : ApplicationStatus, seenReason : BOOLEAN,
              seenRun : RunStatus, target : ApplicationStatus]

IdleCall == [kind |-> "none", step |-> "idle", run |-> NoRun, seenApp |-> "tailoring",
             seenReason |-> FALSE, seenRun |-> "absent", target |-> "tailoring"]

TypeOK ==
  /\ appStatus \in ApplicationStatus
  /\ pausedReason \in BOOLEAN
  /\ tailoredRun \in RunId \cup {NoRun}
  /\ run \in [RunId -> Run]
  /\ opened \in 0..MaxRuns
  /\ call \in [Call -> CallState]
  /\ faults \in 0..MaxFaults

\* An application is created in `tailoring' (apps/web/lib/application-start.ts).
Init ==
  /\ appStatus = "tailoring"
  /\ pausedReason = FALSE
  /\ tailoredRun = NoRun
  /\ run = [r \in RunId |-> [status |-> "absent", source |-> NoRun, hasDraft |-> FALSE]]
  /\ opened = 0
  /\ call = [c \in Call |-> IdleCall]
  /\ faults = 0

At(c, kind, step) == call[c].kind = kind /\ call[c].step = step
Goto(c, step) == call' = [call EXCEPT ![c].step = step]
Return(c) == call' = [call EXCEPT ![c] = IdleCall]

\* A new call, with the application as loadApplicationContext returns it.
Begin(c, kind, step, r, seenRun, target) ==
  /\ call[c].step = "idle"
  /\ call' = [call EXCEPT ![c] =
       [kind |-> kind, step |-> step, run |-> r, seenApp |-> appStatus,
        seenReason |-> pausedReason, seenRun |-> seenRun, target |-> target]]
  /\ UNCHANGED <<appVars, runVars, faults>>

SetApp(status, reason) == appStatus' = status /\ pausedReason' = reason
SetRun(r, status) == run' = [run EXCEPT ![r].status = status]

\* The status is already there, or the table allows to move to it.
MayBecome(from, to) == from = to \/ canTransitionApplication(from, to)

----------------------------------------------------------------------------
(* generateTailoringDraftForApplication                                    *)

\* The application is loaded; the call throws if it may not reach review.
BeginGenerate(c) ==
  /\ opened < MaxRuns
  /\ MayBecome(appStatus, "tailoring_review")
  /\ Begin(c, "generate", "open", NoRun, "absent", "tailoring_review")

\* The same, as the last thing a request for edits does.
LoadForEdits(c) ==
  /\ At(c, "edits", "load")
  /\ IF MayBecome(appStatus, "tailoring_review")
       THEN call' = [call EXCEPT ![c].kind = "generate", ![c].step = "open",
                                 ![c].seenApp = appStatus, ![c].seenReason = pausedReason]
       ELSE Return(c)
  /\ UNCHANGED <<appVars, runVars, faults>>

\* The run is created outside any transaction.
OpenRun(c) ==
  /\ At(c, "generate", "open")
  /\ opened < MaxRuns
  /\ opened' = opened + 1
  /\ run' = [run EXCEPT ![opened + 1] =
       [status |-> "generating", source |-> call[c].run, hasDraft |-> FALSE]]
  /\ call' = [call EXCEPT ![c].step = "draft", ![c].run = opened + 1,
                          ![c].seenRun = "generating"]
  /\ UNCHANGED <<appVars, faults>>

\* The Needle agent answers (once or twice) with a usable draft, or it does not.
DraftReturns(c) ==
  /\ At(c, "generate", "draft")
  /\ Goto(c, "commit")
  /\ UNCHANGED <<appVars, runVars, faults>>

DraftThrows(c) ==
  /\ At(c, "generate", "draft")
  /\ Goto(c, "fail")
  /\ UNCHANGED <<appVars, runVars, faults>>

\* What the generating transaction writes: the draft, the run's status, and the
\* application's status unless it was in review when the call began.
WriteDraft(c) ==
  /\ run' = [run EXCEPT ![call[c].run].status = "generated_for_review",
                        ![call[c].run].hasDraft = TRUE]
  /\ IF call[c].seenApp = "tailoring_review" THEN UNCHANGED <<appStatus, pausedReason>>
                                             ELSE SetApp("tailoring_review", FALSE)
  /\ UNCHANGED <<tailoredRun, opened>>

\* Faulty variant: the reason of a pause survives the draft.
CommitDraftKeepsReason(c) ==
  /\ At(c, "generate", "commit")
  /\ run' = [run EXCEPT ![call[c].run].status = "generated_for_review",
                        ![call[c].run].hasDraft = TRUE]
  /\ appStatus' = "tailoring_review"
  /\ UNCHANGED <<pausedReason, tailoredRun, opened>>
  /\ Return(c)
  /\ UNCHANGED faults

\* Faulty variant: the run is ready for review before its resume is written.
CommitDraftWithoutResume(c) ==
  /\ At(c, "generate", "commit")
  /\ SetRun(call[c].run, "generated_for_review")
  /\ SetApp("tailoring_review", FALSE)
  /\ UNCHANGED <<tailoredRun, opened>>
  /\ Return(c)
  /\ UNCHANGED faults

CommitDraft(c) ==
  /\ At(c, "generate", "commit")
  /\ WriteDraft(c)
  /\ Return(c)
  /\ UNCHANGED faults

\* Faulty variant: the catch block reports the error and leaves the run.
FailRunSilently(c) ==
  /\ At(c, "generate", "fail")
  /\ Return(c)
  /\ UNCHANGED <<appVars, runVars, faults>>

\* Faulty variant: the failure code is written into the status column.
FailRunWithCode(c) ==
  /\ At(c, "generate", "fail")
  /\ SetRun(call[c].run, "needle_agent_failed")
  /\ Return(c)
  /\ UNCHANGED <<appVars, opened, faults>>

\* The catch block.
FailRun(c) ==
  /\ At(c, "generate", "fail")
  /\ SetRun(call[c].run, "failed")
  /\ Return(c)
  /\ UNCHANGED <<appVars, opened, faults>>

----------------------------------------------------------------------------
(* Reviews: request edits, approve, pause.                                 *)

\* requestTailoringEditsForApplication and approveTailoringRunForApplication
\* read the application, then the run.
BeginEdits(c, r)   == r \in Opened /\ Begin(c, "edits", "check", r, "absent", "tailoring")
BeginApprove(c, r) == r \in Opened /\ Begin(c, "approve", "check", r, "absent", "applying")

\* Faulty variant: the run's status is not checked.
EditsAllowedForAnyRun(c) == MayBecome(call[c].seenApp, "tailoring")

EditsAllowed(c) ==
  /\ canTransitionTailoringRun(run[call[c].run].status, "edits_requested")
  /\ MayBecome(call[c].seenApp, "tailoring")

ApproveAllowed(c) ==
  /\ run[call[c].run].hasDraft
  /\ canTransitionTailoringRun(run[call[c].run].status, "approved")
  /\ MayBecome(call[c].seenApp, "applying")

\* The run is read and the guards are checked; the call goes on or throws.
CheckRun(c) ==
  /\ call[c].step = "check"
  /\ IF \/ call[c].kind = "edits"   /\ EditsAllowed(c)
        \/ call[c].kind = "approve" /\ ApproveAllowed(c)
       THEN call' = [call EXCEPT ![c].step = "commit",
                                 ![c].seenRun = run[call[c].run].status]
       ELSE Return(c)
  /\ UNCHANGED <<appVars, runVars, faults>>

\* The transaction of a request for edits; the call then generates a draft.
CommitEdits(c) ==
  /\ At(c, "edits", "commit")
  /\ SetRun(call[c].run, "edits_requested")
  /\ SetApp("tailoring", FALSE)
  /\ Goto(c, "load")
  /\ UNCHANGED <<tailoredRun, opened, faults>>

\* The approving transaction, which also replaces the resume attachment and
\* enqueues the Latch task.
CommitApprove(c) ==
  /\ At(c, "approve", "commit")
  /\ SetRun(call[c].run, "approved")
  /\ SetApp("applying", FALSE)
  /\ tailoredRun' = call[c].run
  /\ Return(c)
  /\ UNCHANGED <<opened, faults>>

\* pauseTailoringForApplication reads the application with its newest run.
BeginPause(c) ==
  /\ MayBecome(appStatus, "paused")
  /\ Begin(c, "pause", "commit", opened, IF opened = 0 THEN "absent" ELSE run[opened].status,
           "paused")

\* The run is paused too, unless it was settled or paused when it was read.
CommitPause(c) ==
  /\ At(c, "pause", "commit")
  /\ SetApp("paused", TRUE)
  /\ IF call[c].seenRun \in {"absent", "approved", "paused", "rejected", "failed"}
       THEN UNCHANGED run
       ELSE SetRun(call[c].run, "paused")
  /\ Return(c)
  /\ UNCHANGED <<tailoredRun, opened, faults>>

\* The submit-review handlers read the application and check the table; what
\* else they check and write is the matter of another module.
BeginMove(c, status) ==
  /\ status \in {"submit_review", "applying", "submitted"}
  /\ canTransitionApplication(appStatus, status)
  /\ Begin(c, "move", "commit", NoRun, "absent", status)

CommitMove(c) ==
  /\ At(c, "move", "commit")
  /\ SetApp(call[c].target, call[c].target = "submitted" /\ call[c].seenReason)
  /\ Return(c)
  /\ UNCHANGED <<tailoredRun, runVars, faults>>

----------------------------------------------------------------------------
(* Faults: a call dies with its process, or its transaction throws.        *)

Dies(c) ==
  /\ call[c].step # "idle"
  /\ faults < MaxFaults
  /\ faults' = faults + 1
  /\ Return(c)
  /\ UNCHANGED <<appVars, runVars>>

\* An error of the generating transaction, before or after it took effect, is
\* caught like an error of the agent.
CommitDraftThrows(c) ==
  /\ At(c, "generate", "commit")
  /\ faults < MaxFaults
  /\ faults' = faults + 1
  /\ WriteDraft(c) \/ UNCHANGED <<appVars, runVars>>
  /\ Goto(c, "fail")

----------------------------------------------------------------------------

\* What a call does once it is open.
Progress(c) ==
  \/ LoadForEdits(c)
  \/ OpenRun(c)
  \/ DraftReturns(c)
  \/ DraftThrows(c)
  \/ CommitDraft(c)
  \/ FailRun(c)
  \/ CheckRun(c)
  \/ CommitEdits(c)
  \/ CommitApprove(c)
  \/ CommitPause(c)
  \/ CommitMove(c)

Next ==
  \E c \in Call :
    \/ BeginGenerate(c)
    \/ \E r \in RunId : BeginEdits(c, r) \/ BeginApprove(c, r)
    \/ BeginPause(c)
    \/ \E status \in ApplicationStatus : BeginMove(c, status)
    \/ Progress(c)
    \/ Dies(c)
    \/ CommitDraftThrows(c)

Spec == Init /\ [][Next]_vars

\* An open call goes on: the agent answers or times out, the database answers.
FairSpec == Spec /\ \A c \in Call : WF_vars(Progress(c))

----------------------------------------------------------------------------
(* Properties.                                                             *)

AppMoves == appStatus' # appStatus
RunMoves(r) == run[r].status # "absent" /\ run'[r].status # run[r].status

\* Every status ever written follows the tables of state.ts.
TransitionsLegal ==
  [][/\ AppMoves => canTransitionApplication(appStatus, appStatus')
     /\ \A r \in RunId :
          RunMoves(r) => canTransitionTailoringRun(run[r].status, run'[r].status)]_vars

\* A status is written against the tables only by a call that was overtaken:
\* since it read that status, another call has written it.  So the checks of
\* service.ts are complete, and what they lack is to be repeated in the
\* transaction.
LegalUnlessOvertaken ==
  [][/\ AppMoves /\ ~canTransitionApplication(appStatus, appStatus') =>
          \E c \in Call : call'[c] # call[c] /\ call[c].seenApp # appStatus
     /\ \A r \in RunId :
          RunMoves(r) /\ ~canTransitionTailoringRun(run[r].status, run'[r].status) =>
            \E c \in Call : /\ call'[c] # call[c] /\ call[c].run = r
                            /\ call[c].seenRun # run[r].status]_vars

\* What is shown for review, revised or approved has a draft, in every
\* interleaving; so does the run whose resume the application carries.
ReviewedRunHasDraft ==
  /\ \A r \in RunId :
       run[r].status \in {"generated_for_review", "edits_requested", "approved"}
         => run[r].hasDraft
  /\ tailoredRun # NoRun => run[tailoredRun].hasDraft

\* A run is revised by a later run, and only after it had a draft.
RevisionsFollowDrafts ==
  \A r \in RunId :
    run[r].source # NoRun => run[r].source < r /\ run[run[r].source].hasDraft

\* The application says why it is paused exactly while it is paused, whatever
\* calls were open when it was paused or resumed.
PausedSaysWhy == (appStatus = "paused") <=> pausedReason

\* No run stays in `generating' for ever unless its call died.
DraftSettles ==
  \A r \in RunId :
    (run[r].status = "generating") ~> (run[r].status # "generating" \/ faults > 0)

=============================================================================
