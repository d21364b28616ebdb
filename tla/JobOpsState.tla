----------------------------- MODULE JobOpsState -----------------------------
(***************************************************************************)
(* The statuses of jobs, applications and tailoring runs and the           *)
(* transitions allowed between them (packages/domain/src/state.ts).        *)
(***************************************************************************)

JobStatus == {"discovered", "shortlisted", "archived"}

ApplicationStatus == {"tailoring", "tailoring_review", "paused", "applying",
                      "submit_review", "submitted", "archived"}

TailoringRunStatus == {"created", "generating", "generated_for_review", "edits_requested",
                       "approved", "rejected", "paused", "failed"}

jobTransitions ==
  [discovered  |-> {"shortlisted", "archived"},
   shortlisted |-> {"archived"},
   archived    |-> {}]

applicationTransitions ==
  [tailoring        |-> {"tailoring_review", "paused", "archived"},
   tailoring_review |-> {"tailoring", "applying", "paused", "archived"},
   paused           |-> {"tailoring", "tailoring_review", "applying", "archived"},
   applying         |-> {"paused", "submit_review", "archived"},
   submit_review    |-> {"applying", "paused", "submitted", "archived"},
   submitted        |-> {},
   archived         |-> {}]

tailoringRunTransitions ==
  [created              |-> {"generating", "paused", "failed"},
   generating           |-> {"generated_for_review", "failed", "paused"},
   generated_for_review |-> {"edits_requested", "approved", "rejected", "paused", "failed"},
   edits_requested      |-> {"generating", "paused", "failed"},
   approved             |-> {},
   rejected             |-> {},
   paused               |-> {"generating", "failed"},
   failed               |-> {}]

canTransitionJob(from, to)          == to \in jobTransitions[from]
canTransitionApplication(from, to)  == to \in applicationTransitions[from]
canTransitionTailoringRun(from, to) == to \in tailoringRunTransitions[from]

=============================================================================
