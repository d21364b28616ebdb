---------------------------- MODULE MCJobsBoard ----------------------------
(* A small board.  Two runs of one posting act together while the user      *)
(* decides; or a run that meets its posting twice and two requests to start,*)
(* while the user decides, postings are checked and checks grow old.        *)
EXTENDS JobsBoard, TLC

CONSTANTS r1, r2, r3, s1, s2, p1

VARIABLE acting

Records == (r1 :> <<p1>>) @@ (r2 :> <<p1>>) @@ (r3 :> <<p1, p1>>)
Decisions == {[verdict |-> "shortlist", auto |-> TRUE], [verdict |-> "archive", auto |-> TRUE],
              [verdict |-> "defer", auto |-> FALSE]}
Together == {{r1, r2}, {r3, s1, s2}}

MCInit == Init /\ acting \in Together

MCNext ==
  /\ \/ \E r \in Run \cap acting : RunStepOf(r)
     \/ \E j \in Job, status \in {"shortlisted", "archived"} : Decide(j, status)
     \/ r3 \in acting /\ \E j \in Job, status \in Answers : CheckPosting(j, status)
     \/ \E s \in Starter \cap acting : StarterStepOf(s)
     \/ r3 \in acting /\ \E j \in Job : Expire(j)
  /\ UNCHANGED acting

MCSpec == MCInit /\ [][MCNext]_<<vars, acting>>
=============================================================================
