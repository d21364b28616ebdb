-------------------------------- MODULE Pages --------------------------------
(***************************************************************************)
(* What the pages offer for an application, against what the handlers      *)
(* accept (the pages of apps/web/app and lib/queries.ts against            *)
(* workers/needle and the application's server actions).                   *)
(*                                                                         *)
(* One application at rest: its status, the status of its newest run and   *)
(* whether that has a draft, its Needle task, whether its workspace is     *)
(* ready and how its review packet stands.  A step is a form submitted on  *)
(* a page that shows the application, or a step of a worker; every step is *)
(* a function from a state to the set of states it may lead to, which is   *)
(* empty where the form is not offered or the handler throws.              *)
(***************************************************************************)
EXTENDS Integers, JobOpsState

\* `run' is the newest run's status; a task is orphaned when its worker has died.
Application ==
  [status : ApplicationStatus, run : TailoringRunStatus \cup {"none"}, draft : BOOLEAN,
   task : {"none", "generate", "edits", "processing_generate", "processing_edits", "orphaned"},
   ready : BOOLEAN, packet : {"none", "current", "dirty"}]

\* An application as it is created, its first draft asked for.
Created == [status |-> "tailoring", run |-> "none", draft |-> FALSE, task |-> "generate",
            ready |-> FALSE, packet |-> "none"]

MayBecome(from, to) == from = to \/ canTransitionApplication(from, to)

----------------------------------------------------------------------------
(* The lists through which an application is found.                        *)

\* Faulty variant: a paused application is not listed.
getTailoringQueueActive(s) == s.status \in {"tailoring", "tailoring_review"}

getTailoringQueue(s) == s.status \in {"tailoring", "tailoring_review", "paused"}
getApplyingQueue(s) == s.status \in {"applying", "submit_review"}
getSubmitReviewQueue(s) == s.status \in {"submit_review", "submitted"}

\* The application's page links to its tailoring workspace.
OnApplicationPage(s) == getApplyingQueue(s) \/ getSubmitReviewQueue(s)
OnTailoringPage(s) == getTailoringQueue(s) \/ OnApplicationPage(s)

HasActiveTask(s) == s.task # "none"

----------------------------------------------------------------------------
(* The tailoring workspace.                                                *)

Generate(s) ==
  {t \in {[s EXCEPT !.task = "generate"]} : OnTailoringPage(s) /\ ~HasActiveTask(s)}

RequestEdits(s) ==
  {t \in {[s EXCEPT !.task = "edits"]} :
     OnTailoringPage(s) /\ ~HasActiveTask(s) /\ s.run # "none"}

\* The approval leaves the workspace ready or not, and an old packet as it is.
Approve(s) ==
  {t \in {[s EXCEPT !.status = "applying", !.run = "approved", !.ready = r] : r \in BOOLEAN} :
     /\ OnTailoringPage(s) /\ s.draft /\ ~HasActiveTask(s)
     /\ s.run # "none" /\ canTransitionTailoringRun(s.run, "approved")
     /\ MayBecome(s.status, "applying")}

Pause(s) ==
  {t \in {[s EXCEPT !.status = "paused",
                    !.run = IF @ \in {"none", "approved", "paused", "rejected", "failed"}
                            THEN @ ELSE "paused"]} :
     OnTailoringPage(s) /\ MayBecome(s.status, "paused")}

----------------------------------------------------------------------------
(* The application's page.                                                 *)

\* A frozen packet becomes dirty while the application is in operations.
Dirtied(s) ==
  IF s.packet # "none" /\ s.status \in {"applying", "submit_review"} THEN "dirty" ELSE s.packet

\* The forms for answers, attachments and portal are always there.
EditWorkspace(s) ==
  {t \in {[s EXCEPT !.ready = r, !.packet = Dirtied(s)] : r \in BOOLEAN} : OnApplicationPage(s)}

MoveToSubmitReview(s) ==
  {t \in {[s EXCEPT !.status = "submit_review", !.packet = "current"]} :
     s.status = "applying" /\ s.ready}

BackToApplying(s) ==
  {t \in {[s EXCEPT !.status = "applying", !.packet = IF @ = "none" THEN @ ELSE "dirty"]} :
     s.status = "submit_review"}

RefreshPacket(s) == {t \in {[s EXCEPT !.packet = "current"]} : s.status = "submit_review"}

MarkSubmitted(s) ==
  {t \in {[s EXCEPT !.status = "submitted"]} : s.status = "submit_review" /\ s.packet = "current"}

----------------------------------------------------------------------------
(* The Needle worker.                                                      *)

Claim(s) ==
  CASE s.task = "generate" -> {[s EXCEPT !.task = "processing_generate"]}
    [] s.task = "edits" -> {[s EXCEPT !.task = "processing_edits"]}
    [] OTHER -> {}

\* The task ends without effect when its guards fail.
Refused(s) ==
  \/ s.task = "processing_generate" /\ ~MayBecome(s.status, "tailoring_review")
  \/ s.task = "processing_edits"
       /\ (~canTransitionTailoringRun(s.run, "edits_requested") \/ ~MayBecome(s.status, "tailoring"))

Worked(s, status, run, draft) ==
  IF s.task \notin {"processing_generate", "processing_edits"} THEN {}
  ELSE IF Refused(s) THEN {[s EXCEPT !.task = "none"]}
  ELSE {[s EXCEPT !.task = "none", !.status = status, !.run = run, !.draft = draft]}

Draft(s) == Worked(s, "tailoring_review", "generated_for_review", TRUE)
DraftFails(s) ==
  Worked(s, IF s.task = "processing_edits" THEN "tailoring" ELSE s.status, "failed", FALSE)

WorkerDies(s) ==
  {t \in {[s EXCEPT !.task = "orphaned"]} : s.task \in {"processing_generate", "processing_edits"}}

\* The Latch worker's result.
LatchWrites(s) ==
  {t \in {[s EXCEPT !.ready = r, !.packet = Dirtied(s)] : r \in BOOLEAN} : s.status = "applying"}

----------------------------------------------------------------------------

Offered(s) ==
  Generate(s) \cup RequestEdits(s) \cup Approve(s) \cup Pause(s) \cup EditWorkspace(s)
    \cup MoveToSubmitReview(s) \cup BackToApplying(s) \cup RefreshPacket(s) \cup MarkSubmitted(s)

Step(s) ==
  Offered(s) \cup Claim(s) \cup Draft(s) \cup DraftFails(s) \cup WorkerDies(s) \cup LatchWrites(s)

\* The forms and a worker that succeeds.
Forward(s) == Offered(s) \cup Claim(s) \cup Draft(s)

\* The states that some of these steps, n at most, lead to the submission.
CanBeSubmittedIn[n \in 0..9] ==
  IF n = 0 THEN {s \in Application : s.status = "submitted"}
  ELSE LET T == CanBeSubmittedIn[n - 1]
       IN  T \cup {s \in Application : Forward(s) \cap T # {}}

CanBeSubmitted == CanBeSubmittedIn[9]

\* However an application got where it is, the pages list it and offer a way from
\* there to its submission, of nine steps at most, unless it waits for a draft on
\* a task whose worker died: the pages then disable the very buttons that would
\* replace the task.
HasAWayOut(s) ==
  s.task # "orphaned" \/ s.status \in {"applying", "submit_review"} => s \in CanBeSubmitted

==============================================================================
