----------------------- MODULE NeedleTailoringProofs -----------------------
(***************************************************************************)
(* Drafts, revisions and pauses of one application, and the legality of    *)
(* what is written, for any number of concurrent calls, runs and faults.   *)
(***************************************************************************)
EXTENDS NeedleTailoring, TLAPS

----------------------------------------------------------------------------
(* The inductive invariant.                                                *)

\* A call with record k holds runs that exist among the first n of rows, and
\* that have a draft once the call has checked it.
HoldsIn(k, rows, n) ==
  /\ k.kind \in {"edits", "approve"} => k.run \in 1..n
  /\ k.kind \in {"edits", "approve"} /\ k.step \in {"commit", "load"} => rows[k.run].hasDraft
  /\ k.kind = "generate" /\ k.step = "open" /\ k.run # NoRun =>
       k.run \in 1..n /\ rows[k.run].hasDraft
  /\ k.kind = "generate" /\ k.step \in {"draft", "commit", "fail"} => k.run \in 1..n
  /\ k.kind = "pause" /\ k.seenRun # "absent" => k.run \in 1..n

\* What a call at its transaction writes was checked against what it read.
Checked(k) ==
  /\ k.kind = "generate" => MayBecome(k.seenApp, "tailoring_review")
  /\ k.kind = "generate" /\ k.step \in {"draft", "commit", "fail"} => k.seenRun = "generating"
  /\ k.kind = "edits" /\ k.step = "commit" =>
       /\ canTransitionTailoringRun(k.seenRun, "edits_requested")
       /\ MayBecome(k.seenApp, "tailoring")
  /\ k.kind = "approve" /\ k.step = "commit" =>
       /\ canTransitionTailoringRun(k.seenRun, "approved")
       /\ MayBecome(k.seenApp, "applying")
  /\ k.kind = "pause" => MayBecome(k.seenApp, "paused")
  /\ k.kind = "move" =>
       /\ k.target \in {"submit_review", "applying", "submitted"}
       /\ canTransitionApplication(k.seenApp, k.target)
       /\ k.target = "submitted" => ~k.seenReason

CallsHoldRuns   == \A c \in Call : HoldsIn(call[c], run, opened)
CallsAreChecked == \A c \in Call : Checked(call[c])

\* Runs are created in order: those beyond the last one are blank.
RunsInOrder ==
  \A r \in RunId : /\ run[r].status = "absent" <=> r > opened
                   /\ r > opened => run[r].source = NoRun /\ ~run[r].hasDraft

IInv ==
  /\ TypeOK
  /\ RunsInOrder
  /\ ReviewedRunHasDraft
  /\ RevisionsFollowDrafts
  /\ PausedSaysWhy
  /\ CallsHoldRuns
  /\ CallsAreChecked

----------------------------------------------------------------------------
(* The tables.                                                             *)

\* Only a run in review is revised or approved, and only an application in
\* review is submitted.
LEMMA TablesNeedReview ==
  /\ \A s \in RunStatus \ {"absent"} : \A t \in {"edits_requested", "approved"} :
       canTransitionTailoringRun(s, t) => s = "generated_for_review"
  /\ \A s \in ApplicationStatus : canTransitionApplication(s, "submitted") => s = "submit_review"
  BY DEF RunStatus, TailoringRunStatus, ApplicationStatus, canTransitionTailoringRun,
         canTransitionApplication, tailoringRunTransitions, applicationTransitions

\* A run that is not settled may be paused, and one being generated may end in
\* review or fail.
LEMMA TablesLetRunsEnd ==
  /\ canTransitionTailoringRun("generating", "generated_for_review")
  /\ canTransitionTailoringRun("generating", "failed")
  /\ \A s \in RunStatus \ {"absent", "approved", "paused", "rejected", "failed"} :
       canTransitionTailoringRun(s, "paused")
  BY DEF RunStatus, TailoringRunStatus, canTransitionTailoringRun, tailoringRunTransitions

----------------------------------------------------------------------------
(* What a step does to the calls and to the runs.                          *)

\* No run goes away, loses its draft or gets another source.
RunsGrow ==
  /\ opened' \in opened..MaxRuns
  /\ run' \in [RunId -> Run]
  /\ \A r \in Opened : /\ run[r].hasDraft => run'[r].hasDraft
                       /\ run'[r].source = run[r].source

LEMMA CallTypes ==
  ASSUME TypeOK, NEW c \in Call
  PROVE  /\ call[c] \in CallState
         /\ call[c].kind \in Kind
         /\ call[c].step \in CallStep
         /\ call[c].run \in RunId \cup {NoRun}
         /\ call[c].seenApp \in ApplicationStatus
         /\ call[c].seenReason \in BOOLEAN
         /\ call[c].seenRun \in RunStatus
         /\ call[c].target \in ApplicationStatus
  BY DEF TypeOK, CallState

\* A step that puts one call into a state that holds and is checked keeps both
\* for all of them.
LEMMA CallsKeep ==
  ASSUME IInv, RunsGrow, NEW c \in Call, NEW new \in CallState,
         call' = [call EXCEPT ![c] = new],
         HoldsIn(new, run', opened'), Checked(new)
  PROVE  CallsHoldRuns' /\ CallsAreChecked' /\ call' \in [Call -> CallState]
<1>1. call' \in [Call -> CallState]
  BY DEF IInv, TypeOK
<1>2. ASSUME NEW d \in Call PROVE HoldsIn(call'[d], run', opened') /\ Checked(call'[d])
  <2>1. CASE d = c
    BY <2>1 DEF IInv, TypeOK
  <2>2. CASE d # c
    <3>1. call'[d] = call[d]
      BY <2>2 DEF IInv, TypeOK
    <3>2. HoldsIn(call[d], run, opened) /\ Checked(call[d])
      BY DEF IInv, CallsHoldRuns, CallsAreChecked
    <3>3. opened \in Nat /\ opened' \in Nat /\ opened <= opened'
      BY ConstantsAssumption DEF RunsGrow, IInv, TypeOK
    <3>4. HoldsIn(call[d], run', opened')
      BY <3>2, <3>3, CallTypes DEF HoldsIn, RunsGrow, Opened, IInv
    <3>. QED
      BY <3>1, <3>2, <3>4
  <2>. QED
    BY <2>1, <2>2
<1>. QED
  BY <1>1, <1>2 DEF CallsHoldRuns, CallsAreChecked

LEMMA IdleIsFine ==
  ASSUME NEW rows, NEW n
  PROVE  IdleCall \in CallState /\ HoldsIn(IdleCall, rows, n) /\ Checked(IdleCall)
  BY DEF IdleCall, CallState, Kind, CallStep, NoRun, ApplicationStatus, RunStatus, HoldsIn, Checked

LEMMA ReturnKeeps ==
  ASSUME IInv, RunsGrow, NEW c \in Call, Return(c)
  PROVE  CallsHoldRuns' /\ CallsAreChecked' /\ call' \in [Call -> CallState]
  BY IdleIsFine, CallsKeep DEF Return

LEMMA SameRunsGrow ==
  ASSUME TypeOK, UNCHANGED runVars
  PROVE  RunsGrow
  BY ConstantsAssumption DEF RunsGrow, TypeOK, runVars

\* A step that writes only the calls.
LEMMA OnlyCalls ==
  ASSUME IInv, CallsHoldRuns', CallsAreChecked', call' \in [Call -> CallState],
         UNCHANGED <<appVars, runVars>>, faults' \in 0..MaxFaults
  PROVE  IInv'
  BY DEF IInv, TypeOK, RunsInOrder, ReviewedRunHasDraft, RevisionsFollowDrafts, PausedSaysWhy,
         appVars, runVars, RunStatus

\* A step that gives run r the status s, and perhaps a draft.
LEMMA RunWritten ==
  ASSUME IInv, NEW r \in Opened, NEW s \in TailoringRunStatus, NEW d \in BOOLEAN,
         run' = [run EXCEPT ![r] = [status |-> s, source |-> run[r].source, hasDraft |-> d]],
         run[r].hasDraft => d,
         s \in {"generated_for_review", "edits_requested", "approved"} => d,
         UNCHANGED opened
  PROVE  /\ RunsGrow /\ RunsInOrder'
         /\ RevisionsFollowDrafts'
         /\ \A q \in RunId :
              run'[q].status \in {"generated_for_review", "edits_requested", "approved"}
                => run'[q].hasDraft
<1>1. r \in RunId /\ opened \in Nat /\ opened <= MaxRuns
  BY ConstantsAssumption DEF IInv, TypeOK, Opened, RunId
<1>2. run' \in [RunId -> Run]
  BY <1>1 DEF IInv, TypeOK, Run, RunStatus
<1>3. \A q \in RunId : q # r => run'[q] = run[q]
  BY <1>1 DEF IInv, TypeOK
<1>4. run'[r].status = s /\ run'[r].source = run[r].source /\ run'[r].hasDraft = d
  BY <1>1 DEF IInv, TypeOK
<1>5. RunsGrow
  BY <1>1, <1>2, <1>3, <1>4, ConstantsAssumption DEF RunsGrow, Opened, RunId
<1>6. RunsInOrder'
  <2>1. run'[r].status # "absent" /\ r <= opened
    BY <1>1, <1>4 DEF TailoringRunStatus, Opened
  <2>2. \A q \in RunId : q \in Nat
    BY DEF RunId
  <2>. QED
    BY <1>1, <1>3, <2>1, <2>2 DEF RunsInOrder, IInv
<1>7. RevisionsFollowDrafts'
  <2>. SUFFICES ASSUME NEW q \in RunId, run'[q].source # NoRun
                PROVE  run'[q].source < q /\ run'[run'[q].source].hasDraft
    BY DEF RevisionsFollowDrafts
  <2>1. run'[q].source = run[q].source
    BY <1>3, <1>4
  <2>2. run[q].source \in RunId /\ run[q].source < q /\ run[run[q].source].hasDraft
    BY <2>1 DEF IInv, TypeOK, Run, RevisionsFollowDrafts
  <2>. QED
    BY <2>1, <2>2, <1>3, <1>4
<1>8. ASSUME NEW q \in RunId,
             run'[q].status \in {"generated_for_review", "edits_requested", "approved"}
      PROVE  run'[q].hasDraft
  BY <1>8, <1>3, <1>4 DEF IInv, ReviewedRunHasDraft
<1>. QED
  BY <1>5, <1>6, <1>7, <1>8

----------------------------------------------------------------------------
(* Each action preserves the invariant.                                    *)

LEMMA InitInvariant == Init => IInv
<1>. SUFFICES ASSUME Init PROVE IInv
  OBVIOUS
<1>1. \A r \in RunId : /\ r \in Nat /\ r > opened
                      /\ run[r] = [status |-> "absent", source |-> NoRun, hasDraft |-> FALSE]
  BY DEF Init, RunId
<1>2. \A c \in Call : call[c] = IdleCall
  BY DEF Init
<1>3. CallsHoldRuns /\ CallsAreChecked
  BY <1>2, IdleIsFine DEF CallsHoldRuns, CallsAreChecked
<1>4. TypeOK
  <2>1. [status |-> "absent", source |-> NoRun, hasDraft |-> FALSE] \in Run
    BY DEF Run, RunStatus
  <2>2. IdleCall \in CallState
    BY IdleIsFine
  <2>3. run \in [RunId -> Run] /\ call \in [Call -> CallState]
    BY <2>1, <2>2 DEF Init
  <2>4. opened \in 0..MaxRuns /\ faults \in 0..MaxFaults /\ tailoredRun \in RunId \cup {NoRun}
    BY ConstantsAssumption DEF Init
  <2>5. appStatus \in ApplicationStatus /\ pausedReason \in BOOLEAN
    BY DEF Init, ApplicationStatus
  <2>. QED
    BY <2>3, <2>4, <2>5 DEF TypeOK
<1>5. RunsInOrder /\ ReviewedRunHasDraft /\ RevisionsFollowDrafts
  BY <1>1 DEF RunsInOrder, ReviewedRunHasDraft, RevisionsFollowDrafts, Init
<1>6. PausedSaysWhy
  BY DEF Init, PausedSaysWhy
<1>. QED
  BY <1>3, <1>4, <1>5, <1>6 DEF IInv

LEMMA BeginKeeps ==
  ASSUME IInv, NEW c \in Call, NEW k \in Kind, NEW s \in CallStep, NEW r \in RunId \cup {NoRun},
         NEW seen \in RunStatus, NEW t \in ApplicationStatus,
         Begin(c, k, s, r, seen, t),
         LET new == [kind |-> k, step |-> s, run |-> r, seenApp |-> appStatus,
                     seenReason |-> pausedReason, seenRun |-> seen, target |-> t]
         IN  HoldsIn(new, run, opened) /\ Checked(new)
  PROVE  IInv'
<1>. DEFINE new == [kind |-> k, step |-> s, run |-> r, seenApp |-> appStatus,
                    seenReason |-> pausedReason, seenRun |-> seen, target |-> t]
<1>1. new \in CallState
  BY DEF CallState, IInv, TypeOK
<1>2. call' = [call EXCEPT ![c] = new] /\ UNCHANGED <<appVars, runVars, faults>>
  BY DEF Begin
<1>3. HoldsIn(new, run', opened') /\ Checked(new)
  BY <1>2 DEF runVars
<1>4. RunsGrow
  BY <1>2, SameRunsGrow DEF IInv
<1>. HIDE DEF new
<1>5. CallsHoldRuns' /\ CallsAreChecked' /\ call' \in [Call -> CallState]
  BY <1>1, <1>2, <1>3, <1>4, CallsKeep
<1>. QED
  BY <1>2, <1>5, OnlyCalls DEF IInv, TypeOK

LEMMA BeginGenerateKeeps ==
  ASSUME IInv, NEW c \in Call, BeginGenerate(c)
  PROVE  IInv'
<1>1. "generate" \in Kind /\ "open" \in CallStep /\ "absent" \in RunStatus
      /\ "tailoring_review" \in ApplicationStatus
  BY DEF Kind, CallStep, RunStatus, ApplicationStatus
<1>. QED
  BY <1>1, BeginKeeps DEF BeginGenerate, HoldsIn, Checked

LEMMA BeginReviewKeeps ==
  ASSUME IInv, NEW c \in Call, NEW r \in RunId, BeginEdits(c, r) \/ BeginApprove(c, r)
  PROVE  IInv'
<1>1. {"edits", "approve"} \subseteq Kind /\ "check" \in CallStep /\ "absent" \in RunStatus
      /\ {"tailoring", "applying"} \subseteq ApplicationStatus
  BY DEF Kind, CallStep, RunStatus, ApplicationStatus
<1>. QED
  BY <1>1, BeginKeeps DEF BeginEdits, BeginApprove, HoldsIn, Checked, Opened

LEMMA BeginPauseKeeps ==
  ASSUME IInv, NEW c \in Call, BeginPause(c)
  PROVE  IInv'
<1>. DEFINE seen == IF opened = 0 THEN "absent" ELSE run[opened].status
<1>1. "pause" \in Kind /\ "commit" \in CallStep /\ "paused" \in ApplicationStatus
  BY DEF Kind, CallStep, ApplicationStatus
<1>2. seen \in RunStatus /\ opened \in RunId \cup {NoRun} /\ (seen # "absent" => opened \in 1..opened)
  BY ConstantsAssumption DEF IInv, TypeOK, RunId, NoRun, Run, RunStatus
<1>3. Begin(c, "pause", "commit", opened, seen, "paused") /\ MayBecome(appStatus, "paused")
  BY DEF BeginPause
<1>. HIDE DEF seen
<1>. QED
  BY <1>1, <1>2, <1>3, BeginKeeps DEF HoldsIn, Checked

LEMMA BeginMoveKeeps ==
  ASSUME IInv, NEW c \in Call, NEW t \in ApplicationStatus, BeginMove(c, t)
  PROVE  IInv'
<1>1. "move" \in Kind /\ "commit" \in CallStep /\ "absent" \in RunStatus
  BY DEF Kind, CallStep, RunStatus
<1>2. t = "submitted" => ~pausedReason
  BY TablesNeedReview DEF BeginMove, IInv, TypeOK, PausedSaysWhy
<1>. QED
  BY <1>1, <1>2, BeginKeeps DEF BeginMove, HoldsIn, Checked, NoRun

\* A step of call c that keeps its kind, moves it to another step and may
\* replace what it has read; it writes nothing else.
LEMMA ReadKeeps ==
  ASSUME IInv, NEW c \in Call, NEW new \in CallState, call' = [call EXCEPT ![c] = new],
         HoldsIn(new, run, opened), Checked(new),
         UNCHANGED <<appVars, runVars>>, faults' \in 0..MaxFaults
  PROVE  IInv'
<1>1. RunsGrow /\ HoldsIn(new, run', opened')
  BY SameRunsGrow DEF IInv, runVars
<1>. QED
  BY <1>1, CallsKeep, OnlyCalls

LEMMA LoadForEditsKeeps ==
  ASSUME IInv, NEW c \in Call, LoadForEdits(c)
  PROVE  IInv'
<1>0. /\ faults' \in 0..MaxFaults /\ UNCHANGED <<appVars, runVars>>
      /\ call[c] \in CallState /\ HoldsIn(call[c], run, opened)
      /\ At(c, "edits", "load")
  BY CallTypes DEF LoadForEdits, IInv, TypeOK, CallsHoldRuns
<1>1. CASE MayBecome(appStatus, "tailoring_review")
  <2>. DEFINE new == [call[c] EXCEPT !.kind = "generate", !.step = "open",
                                     !.seenApp = appStatus, !.seenReason = pausedReason]
  <2>1. new \in CallState
    BY <1>0 DEF CallState, Kind, CallStep, IInv, TypeOK
  <2>2. /\ new.kind = "generate" /\ new.step = "open" /\ new.seenApp = appStatus
        /\ new.run = call[c].run
    BY <1>0 DEF CallState
  <2>3. call' = [call EXCEPT ![c] = new]
    BY <1>1 DEF LoadForEdits
  <2>4. HoldsIn(new, run, opened) /\ Checked(new)
    BY <1>0, <1>1, <2>2 DEF HoldsIn, Checked, At
  <2>. HIDE DEF new
  <2>. QED
    BY <1>0, <2>1, <2>3, <2>4, ReadKeeps
<1>2. CASE ~MayBecome(appStatus, "tailoring_review")
  BY <1>0, <1>2, IdleIsFine, ReadKeeps DEF LoadForEdits, Return
<1>. QED
  BY <1>1, <1>2

LEMMA DraftEndsKeeps ==
  ASSUME IInv, NEW c \in Call, DraftReturns(c) \/ DraftThrows(c)
  PROVE  IInv'
<1>. DEFINE new(s) == [call[c] EXCEPT !.step = s]
<1>1. /\ faults' \in 0..MaxFaults /\ UNCHANGED <<appVars, runVars>>
      /\ call[c] \in CallState /\ HoldsIn(call[c], run, opened) /\ Checked(call[c])
      /\ At(c, "generate", "draft")
  BY CallTypes DEF DraftReturns, DraftThrows, IInv, TypeOK, CallsHoldRuns, CallsAreChecked
<1>2. PICK s \in {"commit", "fail"} : call' = [call EXCEPT ![c] = new(s)]
  BY DEF DraftReturns, DraftThrows, Goto
<1>3. new(s) \in CallState
  BY <1>1 DEF CallState, CallStep
<1>4. /\ new(s).kind = "generate" /\ new(s).step = s /\ new(s).run = call[c].run
      /\ new(s).seenApp = call[c].seenApp /\ new(s).seenRun = call[c].seenRun
  BY <1>1 DEF CallState, At
<1>5. HoldsIn(new(s), run, opened) /\ Checked(new(s))
  BY <1>1, <1>4 DEF HoldsIn, Checked, At
<1>. HIDE DEF new
<1>. QED
  BY <1>1, <1>2, <1>3, <1>5, ReadKeeps

LEMMA CheckRunKeeps ==
  ASSUME IInv, NEW c \in Call, CheckRun(c)
  PROVE  IInv'
<1>0. /\ faults' \in 0..MaxFaults /\ UNCHANGED <<appVars, runVars>>
      /\ call[c] \in CallState /\ HoldsIn(call[c], run, opened)
  BY CallTypes DEF CheckRun, IInv, TypeOK, CallsHoldRuns
<1>1. CASE Return(c)
  BY <1>0, <1>1, IdleIsFine, ReadKeeps DEF Return
<1>2. CASE ~Return(c)
  <2>. DEFINE status == run[call[c].run].status
              new == [call[c] EXCEPT !.step = "commit", !.seenRun = status]
  <2>1. /\ call' = [call EXCEPT ![c] = new]
        /\ \/ call[c].kind = "edits" /\ EditsAllowed(c)
           \/ call[c].kind = "approve" /\ ApproveAllowed(c)
    BY <1>2 DEF CheckRun
  <2>2. call[c].run \in Opened
    BY <1>0, <2>1 DEF HoldsIn, Opened
  <2>3. call[c].run \in RunId
    BY <2>2, ConstantsAssumption DEF Opened, RunId, IInv, TypeOK
  <2>4. status \in RunStatus
    BY <2>3 DEF IInv, TypeOK, Run
  <2>5. new \in CallState
    BY <1>0, <2>4 DEF CallState, CallStep
  <2>6. /\ new.kind = call[c].kind /\ new.step = "commit" /\ new.run = call[c].run
        /\ new.seenRun = status /\ new.seenApp = call[c].seenApp
    BY <1>0 DEF CallState
  <2>7. run[call[c].run].hasDraft
    <3>1. CASE call[c].kind = "approve"
      BY <2>1, <3>1 DEF ApproveAllowed
    <3>2. CASE call[c].kind = "edits"
      <4>1. canTransitionTailoringRun(status, "edits_requested")
        BY <2>1, <3>2 DEF EditsAllowed
      <4>2. status # "absent"
        BY <2>2, <2>3, ConstantsAssumption DEF IInv, TypeOK, RunsInOrder, Opened, RunId
      <4>3. status = "generated_for_review"
        BY <4>1, <4>2, <2>4, TablesNeedReview
      <4>. QED
        BY <4>3, <2>3 DEF IInv, ReviewedRunHasDraft
    <3>. QED
      BY <2>1, <3>1, <3>2
  <2>8. HoldsIn(new, run, opened)
    BY <2>1, <2>2, <2>6, <2>7 DEF HoldsIn, Opened
  <2>9. Checked(new)
    BY <2>1, <2>6 DEF Checked, EditsAllowed, ApproveAllowed
  <2>. HIDE DEF new
  <2>. QED
    BY <1>0, <2>1, <2>5, <2>8, <2>9, ReadKeeps
<1>. QED
  BY <1>1, <1>2

LEMMA DiesKeeps ==
  ASSUME IInv, NEW c \in Call, Dies(c)
  PROVE  IInv'
<1>1. faults' \in 0..MaxFaults
  BY ConstantsAssumption DEF Dies, IInv, TypeOK
<1>. QED
  BY <1>1, IdleIsFine, ReadKeeps DEF Dies, Return

\* The run a call works on, once it has one.
LEMMA HeldRun ==
  ASSUME IInv, NEW c \in Call, call[c].run \in 1..opened
  PROVE  /\ call[c].run \in Opened /\ call[c].run \in RunId
         /\ run[call[c].run] \in Run
         /\ run[call[c].run].status # "absent"
         /\ tailoredRun # NoRun => tailoredRun \in RunId
  BY ConstantsAssumption DEF IInv, TypeOK, RunsInOrder, Opened, RunId, NoRun

\* A transaction of call c that gives its run the status s, and perhaps a
\* draft, and the application a status with the right reason.
LEMMA CommitKeeps ==
  ASSUME IInv, NEW c \in Call, NEW s \in TailoringRunStatus, NEW d \in BOOLEAN,
         call[c].run \in 1..opened,
         run' = [run EXCEPT ![call[c].run] =
                   [status |-> s, source |-> run[call[c].run].source, hasDraft |-> d]],
         run[call[c].run].hasDraft => d,
         s \in {"generated_for_review", "edits_requested", "approved"} => d,
         appStatus' \in ApplicationStatus, pausedReason' \in BOOLEAN, PausedSaysWhy',
         tailoredRun' \in {tailoredRun, call[c].run},
         tailoredRun' = call[c].run => d,
         UNCHANGED opened, faults' \in 0..MaxFaults,
         CallsHoldRuns', CallsAreChecked', call' \in [Call -> CallState]
  PROVE  IInv'
<1>1. /\ call[c].run \in Opened /\ call[c].run \in RunId
      /\ tailoredRun # NoRun => tailoredRun \in RunId
  BY HeldRun
<1>2. /\ RunsGrow /\ RunsInOrder' /\ RevisionsFollowDrafts'
      /\ \A q \in RunId :
           run'[q].status \in {"generated_for_review", "edits_requested", "approved"}
             => run'[q].hasDraft
  BY <1>1, RunWritten
<1>3. run' \in [RunId -> Run]
  BY <1>2 DEF RunsGrow
<1>4. TypeOK'
  BY <1>1, <1>3 DEF IInv, TypeOK
<1>5. tailoredRun' # NoRun => run'[tailoredRun'].hasDraft
  BY <1>1 DEF IInv, TypeOK, ReviewedRunHasDraft
<1>6. ReviewedRunHasDraft'
  BY <1>2, <1>5 DEF ReviewedRunHasDraft
<1>. QED
  BY <1>2, <1>4, <1>6 DEF IInv

\* The same transaction, for a call that returns.
LEMMA CommitReturnKeeps ==
  ASSUME IInv, NEW c \in Call, NEW s \in TailoringRunStatus, NEW d \in BOOLEAN,
         call[c].run \in 1..opened,
         run' = [run EXCEPT ![call[c].run] =
                   [status |-> s, source |-> run[call[c].run].source, hasDraft |-> d]],
         run[call[c].run].hasDraft => d,
         s \in {"generated_for_review", "edits_requested", "approved"} => d,
         appStatus' \in ApplicationStatus, pausedReason' \in BOOLEAN, PausedSaysWhy',
         tailoredRun' \in {tailoredRun, call[c].run},
         tailoredRun' = call[c].run => d,
         UNCHANGED opened, faults' \in 0..MaxFaults, Return(c)
  PROVE  IInv'
<1>1. RunsGrow
  BY HeldRun, RunWritten
<1>2. CallsHoldRuns' /\ CallsAreChecked' /\ call' \in [Call -> CallState]
  BY <1>1, ReturnKeeps
<1>. QED
  BY <1>2, CommitKeeps

LEMMA OpenRunKeeps ==
  ASSUME IInv, NEW c \in Call, OpenRun(c)
  PROVE  IInv'
<1>. DEFINE r == opened + 1
            row == [status |-> "generating", source |-> call[c].run, hasDraft |-> FALSE]
            new == [call[c] EXCEPT !.step = "draft", !.run = r, !.seenRun = "generating"]
<1>1. /\ opened \in Nat /\ opened < MaxRuns /\ MaxRuns \in Nat
      /\ opened' = r /\ r \in RunId /\ r \in 1..r /\ r > opened
      /\ UNCHANGED <<appVars, faults>>
      /\ run' = [run EXCEPT ![r] = row] /\ call' = [call EXCEPT ![c] = new]
      /\ At(c, "generate", "open")
  <2>1. /\ opened \in Nat /\ opened < MaxRuns /\ MaxRuns \in Nat
    BY ConstantsAssumption DEF OpenRun, IInv, TypeOK
  <2>2. r \in RunId /\ r \in 1..r /\ r > opened
    BY <2>1 DEF RunId
  <2>3. call' = [call EXCEPT ![c] = new] /\ run' = [run EXCEPT ![r] = row] /\ opened' = r
    BY DEF OpenRun
  <2>. QED
    BY <2>1, <2>2, <2>3 DEF OpenRun
<1>2. /\ call[c] \in CallState /\ HoldsIn(call[c], run, opened) /\ Checked(call[c])
      /\ call[c].run \in RunId \cup {NoRun}
  BY CallTypes DEF IInv, CallsHoldRuns, CallsAreChecked
<1>3. row \in Run /\ run \in [RunId -> Run]
  BY <1>2 DEF Run, RunStatus, TailoringRunStatus, IInv, TypeOK
<1>4. run' \in [RunId -> Run] /\ run'[r] = row /\ \A q \in RunId : q # r => run'[q] = run[q]
  BY <1>1, <1>3
<1>5. row.status = "generating" /\ row.source = call[c].run /\ row.hasDraft = FALSE
  OBVIOUS
<1>6. /\ new.kind = "generate" /\ new.step = "draft" /\ new.run = r
      /\ new.seenApp = call[c].seenApp /\ new.seenRun = "generating"
  BY <1>1, <1>2 DEF CallState, At
<1>7. new \in CallState
  BY <1>1, <1>2 DEF CallState, CallStep, RunStatus, TailoringRunStatus
<1>. HIDE DEF row, new
<1>8. RunsGrow
  BY <1>1, <1>4 DEF RunsGrow, Opened, RunId
<1>9. HoldsIn(new, run', opened') /\ Checked(new)
  BY <1>1, <1>2, <1>6 DEF HoldsIn, Checked, At
<1>10. CallsHoldRuns' /\ CallsAreChecked' /\ call' \in [Call -> CallState]
  BY <1>1, <1>7, <1>8, <1>9, CallsKeep
<1>11. TypeOK'
  BY <1>1, <1>4, <1>10 DEF IInv, TypeOK, appVars, RunId
<1>12. RunsInOrder'
  BY <1>1, <1>4, <1>5 DEF IInv, RunsInOrder, RunId
<1>13. \A q \in RunId : q <= opened => run'[q] = run[q]
  BY <1>1, <1>4 DEF RunId
<1>14. ASSUME NEW q \in RunId, run[q].hasDraft PROVE q <= opened /\ run'[q] = run[q]
  BY <1>1, <1>13, <1>14 DEF IInv, RunsInOrder, RunId
<1>15. ReviewedRunHasDraft'
  <2>1. tailoredRun' = tailoredRun /\ (tailoredRun # NoRun => tailoredRun \in RunId)
    BY <1>1 DEF appVars, IInv, TypeOK
  <2>2. tailoredRun # NoRun => run'[tailoredRun].hasDraft
    BY <2>1, <1>14 DEF IInv, ReviewedRunHasDraft
  <2>3. \A q \in RunId :
          run'[q].status \in {"generated_for_review", "edits_requested", "approved"}
            => run'[q].hasDraft
    BY <1>4, <1>5 DEF IInv, ReviewedRunHasDraft
  <2>. QED
    BY <2>1, <2>2, <2>3 DEF ReviewedRunHasDraft
<1>16. RevisionsFollowDrafts'
  <2>. SUFFICES ASSUME NEW q \in RunId, run'[q].source # NoRun
                PROVE  run'[q].source < q /\ run'[run'[q].source].hasDraft
    BY DEF RevisionsFollowDrafts
  <2>1. CASE q = r
    <3>1. call[c].run \in 1..opened /\ run[call[c].run].hasDraft
      BY <2>1, <1>1, <1>2, <1>4, <1>5 DEF HoldsIn, At
    <3>. QED
      BY <2>1, <3>1, <1>1, <1>2, <1>4, <1>5, <1>14 DEF RunId, NoRun
  <2>2. CASE q # r
    <3>1. run'[q] = run[q] /\ run[q].source \in RunId
      BY <2>2, <1>3, <1>4 DEF Run
    <3>. QED
      BY <3>1, <1>14 DEF IInv, RevisionsFollowDrafts
  <2>. QED
    BY <2>1, <2>2
<1>17. PausedSaysWhy'
  BY <1>1 DEF IInv, PausedSaysWhy, appVars
<1>. QED
  BY <1>10, <1>11, <1>12, <1>15, <1>16, <1>17 DEF IInv

LEMMA DraftWritten ==
  ASSUME IInv, NEW c \in Call, WriteDraft(c), call[c].run \in 1..opened
  PROVE  /\ run' = [run EXCEPT ![call[c].run] =
                      [status |-> "generated_for_review", source |-> run[call[c].run].source,
                       hasDraft |-> TRUE]]
         /\ appStatus' \in ApplicationStatus /\ pausedReason' \in BOOLEAN /\ PausedSaysWhy'
         /\ tailoredRun' = tailoredRun /\ opened' = opened
<1>1. run[call[c].run] \in Run /\ call[c].run \in RunId
  BY HeldRun
<1>2. [run[call[c].run] EXCEPT !.status = "generated_for_review", !.hasDraft = TRUE]
        = [status |-> "generated_for_review", source |-> run[call[c].run].source,
           hasDraft |-> TRUE]
  <2>. DEFINE old == run[call[c].run]
              new == [old EXCEPT !.status = "generated_for_review", !.hasDraft = TRUE]
  <2>1. /\ new \in Run
        /\ new.status = "generated_for_review" /\ new.source = old.source /\ new.hasDraft = TRUE
    BY <1>1 DEF Run, RunStatus, TailoringRunStatus
  <2>. HIDE DEF new
  <2>2. new = [status |-> new.status, source |-> new.source, hasDraft |-> new.hasDraft]
    BY <2>1 DEF Run
  <2>3. new = [status |-> "generated_for_review", source |-> old.source, hasDraft |-> TRUE]
    BY <2>1, <2>2
  <2>. QED
    BY <2>3 DEF new
<1>3. run' = [run EXCEPT ![call[c].run] =
                [run[call[c].run] EXCEPT !.status = "generated_for_review", !.hasDraft = TRUE]]
  BY <1>1 DEF WriteDraft, IInv, TypeOK
<1>4. appStatus' \in ApplicationStatus /\ pausedReason' \in BOOLEAN /\ PausedSaysWhy'
  BY DEF WriteDraft, SetApp, IInv, TypeOK, PausedSaysWhy, ApplicationStatus
<1>. QED
  BY <1>2, <1>3, <1>4 DEF WriteDraft

LEMMA StatusWritten ==
  ASSUME IInv, NEW c \in Call, NEW s, SetRun(call[c].run, s), call[c].run \in 1..opened
  PROVE  run' = [run EXCEPT ![call[c].run] =
                   [status |-> s, source |-> run[call[c].run].source,
                    hasDraft |-> run[call[c].run].hasDraft]]
<1>1. run[call[c].run] \in Run /\ call[c].run \in RunId
  BY HeldRun
<1>2. [run[call[c].run] EXCEPT !.status = s]
        = [status |-> s, source |-> run[call[c].run].source, hasDraft |-> run[call[c].run].hasDraft]
  BY <1>1 DEF Run
<1>3. run' = [run EXCEPT ![call[c].run] = [run[call[c].run] EXCEPT !.status = s]]
  BY <1>1 DEF SetRun
<1>. QED
  BY <1>2, <1>3

LEMMA CommitDraftKeeps ==
  ASSUME IInv, NEW c \in Call, CommitDraft(c)
  PROVE  IInv'
<1>1. /\ WriteDraft(c) /\ Return(c) /\ faults' \in 0..MaxFaults /\ call[c].run \in 1..opened
  BY DEF CommitDraft, At, IInv, TypeOK, CallsHoldRuns, HoldsIn
<1>2. "generated_for_review" \in TailoringRunStatus
  BY DEF TailoringRunStatus
<1>. QED
  BY <1>1, <1>2, DraftWritten, CommitReturnKeeps

LEMMA CommitDraftThrowsKeeps ==
  ASSUME IInv, NEW c \in Call, CommitDraftThrows(c)
  PROVE  IInv'
<1>. DEFINE new == [call[c] EXCEPT !.step = "fail"]
<1>1. /\ At(c, "generate", "commit") /\ call[c].run \in 1..opened
      /\ faults' \in 0..MaxFaults
      /\ call' = [call EXCEPT ![c] = new]
      /\ WriteDraft(c) \/ UNCHANGED <<appVars, runVars>>
  BY ConstantsAssumption
  DEF CommitDraftThrows, At, IInv, TypeOK, CallsHoldRuns, HoldsIn, Goto
<1>2. call[c] \in CallState /\ HoldsIn(call[c], run, opened) /\ Checked(call[c])
  BY CallTypes DEF IInv, CallsHoldRuns, CallsAreChecked
<1>3. new \in CallState
  BY <1>2 DEF CallState, CallStep
<1>4. /\ new.kind = "generate" /\ new.step = "fail" /\ new.run = call[c].run
      /\ new.seenApp = call[c].seenApp /\ new.seenRun = call[c].seenRun
  BY <1>1, <1>2 DEF CallState, At
<1>5. Checked(new) /\ \A rows : HoldsIn(new, rows, opened)
  BY <1>1, <1>2, <1>4 DEF HoldsIn, Checked, At
<1>. HIDE DEF new
<1>6. CASE UNCHANGED <<appVars, runVars>>
  BY <1>1, <1>3, <1>5, <1>6, ReadKeeps
<1>7. CASE WriteDraft(c)
  <2>1. "generated_for_review" \in TailoringRunStatus
    BY DEF TailoringRunStatus
  <2>2. RunsGrow
    BY <1>1, <1>7, <2>1, DraftWritten, HeldRun, RunWritten
  <2>3. HoldsIn(new, run', opened')
    BY <1>1, <1>5, <1>7, DraftWritten
  <2>4. CallsHoldRuns' /\ CallsAreChecked' /\ call' \in [Call -> CallState]
    BY <1>1, <1>3, <1>5, <2>2, <2>3, CallsKeep
  <2>. QED
    BY <1>1, <1>7, <2>1, <2>4, DraftWritten, CommitKeeps
<1>. QED
  BY <1>1, <1>6, <1>7

LEMMA FailRunKeeps ==
  ASSUME IInv, NEW c \in Call, FailRun(c)
  PROVE  IInv'
<1>1. /\ SetRun(call[c].run, "failed") /\ Return(c) /\ UNCHANGED <<appVars, opened, faults>>
      /\ call[c].run \in 1..opened
  BY DEF FailRun, At, IInv, CallsHoldRuns, HoldsIn
<1>2. /\ "failed" \in TailoringRunStatus /\ run[call[c].run].hasDraft \in BOOLEAN
      /\ "failed" \notin {"generated_for_review", "edits_requested", "approved"}
  BY <1>1, HeldRun DEF TailoringRunStatus, Run
<1>3. /\ appStatus' \in ApplicationStatus /\ pausedReason' \in BOOLEAN /\ PausedSaysWhy'
      /\ tailoredRun' = tailoredRun /\ faults' \in 0..MaxFaults
  BY <1>1 DEF appVars, IInv, TypeOK, PausedSaysWhy
<1>4. tailoredRun = call[c].run => run[call[c].run].hasDraft
  BY <1>1, HeldRun DEF IInv, ReviewedRunHasDraft, RunId, NoRun
<1>. QED
  BY <1>1, <1>2, <1>3, <1>4, StatusWritten, CommitReturnKeeps

LEMMA CommitEditsKeeps ==
  ASSUME IInv, NEW c \in Call, CommitEdits(c)
  PROVE  IInv'
<1>. DEFINE new == [call[c] EXCEPT !.step = "load"]
<1>1. /\ At(c, "edits", "commit")
      /\ SetRun(call[c].run, "edits_requested") /\ SetApp("tailoring", FALSE)
      /\ call' = [call EXCEPT ![c] = new]
      /\ UNCHANGED <<tailoredRun, opened, faults>>
  BY DEF CommitEdits, Goto
<1>2. /\ call[c] \in CallState /\ HoldsIn(call[c], run, opened)
      /\ call[c].run \in 1..opened /\ run[call[c].run].hasDraft
  BY <1>1, CallTypes DEF IInv, CallsHoldRuns, HoldsIn, At
<1>3. new \in CallState
  BY <1>2 DEF CallState, CallStep
<1>4. new.kind = "edits" /\ new.step = "load" /\ new.run = call[c].run
  BY <1>1, <1>2 DEF CallState, At
<1>. HIDE DEF new
<1>5. /\ "edits_requested" \in TailoringRunStatus /\ run[call[c].run].hasDraft \in BOOLEAN
      /\ faults' \in 0..MaxFaults
      /\ appStatus' \in ApplicationStatus /\ pausedReason' \in BOOLEAN /\ PausedSaysWhy'
  BY <1>1, <1>2, HeldRun
  DEF TailoringRunStatus, Run, IInv, TypeOK, SetApp, ApplicationStatus, PausedSaysWhy
<1>6. RunsGrow
  <2>1. call[c].run \in Opened
    BY <1>2 DEF Opened
  <2>. QED
    BY <1>1, <1>2, <1>5, <2>1, StatusWritten, RunWritten
<1>7. HoldsIn(new, run', opened') /\ Checked(new)
  BY <1>1, <1>2, <1>4, <1>6 DEF HoldsIn, Checked, RunsGrow, Opened
<1>8. CallsHoldRuns' /\ CallsAreChecked' /\ call' \in [Call -> CallState]
  BY <1>1, <1>3, <1>6, <1>7, CallsKeep
<1>. QED
  BY <1>1, <1>2, <1>5, <1>8, StatusWritten, CommitKeeps

LEMMA CommitApproveKeeps ==
  ASSUME IInv, NEW c \in Call, CommitApprove(c)
  PROVE  IInv'
<1>1. /\ SetRun(call[c].run, "approved") /\ SetApp("applying", FALSE) /\ Return(c)
      /\ tailoredRun' = call[c].run /\ UNCHANGED <<opened, faults>>
      /\ call[c].run \in 1..opened /\ run[call[c].run].hasDraft
  BY DEF CommitApprove, At, IInv, CallsHoldRuns, HoldsIn
<1>2. /\ "approved" \in TailoringRunStatus /\ run[call[c].run].hasDraft \in BOOLEAN
      /\ faults' \in 0..MaxFaults
      /\ appStatus' \in ApplicationStatus /\ pausedReason' \in BOOLEAN /\ PausedSaysWhy'
  BY <1>1, HeldRun
  DEF TailoringRunStatus, Run, IInv, TypeOK, SetApp, ApplicationStatus, PausedSaysWhy
<1>. QED
  BY <1>1, <1>2, StatusWritten, CommitReturnKeeps

\* A transaction that returns and writes the application only.
LEMMA AppWrittenKeeps ==
  ASSUME IInv, NEW c \in Call, Return(c), UNCHANGED <<tailoredRun, runVars, faults>>,
         appStatus' \in ApplicationStatus, pausedReason' \in BOOLEAN, PausedSaysWhy'
  PROVE  IInv'
<1>1. CallsHoldRuns' /\ CallsAreChecked' /\ call' \in [Call -> CallState]
  BY ReturnKeeps, SameRunsGrow DEF IInv
<1>. QED
  BY <1>1 DEF IInv, TypeOK, RunsInOrder, ReviewedRunHasDraft, RevisionsFollowDrafts, runVars,
              RunStatus

LEMMA CommitPauseKeeps ==
  ASSUME IInv, NEW c \in Call, CommitPause(c)
  PROVE  IInv'
<1>1. /\ At(c, "pause", "commit") /\ SetApp("paused", TRUE) /\ Return(c)
      /\ UNCHANGED <<tailoredRun, opened, faults>>
  BY DEF CommitPause
<1>2. /\ faults' \in 0..MaxFaults
      /\ appStatus' \in ApplicationStatus /\ pausedReason' \in BOOLEAN /\ PausedSaysWhy'
  BY <1>1 DEF IInv, TypeOK, SetApp, ApplicationStatus, PausedSaysWhy
<1>3. CASE UNCHANGED run
  BY <1>1, <1>2, <1>3, AppWrittenKeeps DEF runVars
<1>4. CASE call[c].seenRun # "absent" /\ SetRun(call[c].run, "paused")
  <2>1. call[c].run \in 1..opened
    BY <1>1, <1>4 DEF At, IInv, CallsHoldRuns, HoldsIn
  <2>2. /\ "paused" \in TailoringRunStatus /\ run[call[c].run].hasDraft \in BOOLEAN
        /\ "paused" \notin {"generated_for_review", "edits_requested", "approved"}
    BY <2>1, HeldRun DEF TailoringRunStatus, Run
  <2>3. tailoredRun = call[c].run => run[call[c].run].hasDraft
    BY <2>1, HeldRun DEF IInv, ReviewedRunHasDraft, RunId, NoRun
  <2>. QED
    BY <1>1, <1>2, <1>4, <2>1, <2>2, <2>3, StatusWritten, CommitReturnKeeps
<1>. QED
  BY <1>3, <1>4 DEF CommitPause

LEMMA CommitMoveKeeps ==
  ASSUME IInv, NEW c \in Call, CommitMove(c)
  PROVE  IInv'
<1>1. /\ SetApp(call[c].target, call[c].target = "submitted" /\ call[c].seenReason)
      /\ Return(c) /\ UNCHANGED <<tailoredRun, runVars, faults>>
      /\ call[c].target \in {"submit_review", "applying", "submitted"}
      /\ call[c].target = "submitted" => ~call[c].seenReason
      /\ call[c].seenReason \in BOOLEAN
  BY CallTypes DEF CommitMove, At, IInv, CallsAreChecked, Checked
<1>2. appStatus' \in ApplicationStatus /\ pausedReason' \in BOOLEAN /\ PausedSaysWhy'
  BY <1>1 DEF SetApp, ApplicationStatus, PausedSaysWhy
<1>. QED
  BY <1>1, <1>2, AppWrittenKeeps

LEMMA StepInvariant == IInv /\ [Next]_vars => IInv'
<1>. SUFFICES ASSUME IInv, [Next]_vars PROVE IInv'
  OBVIOUS
<1>1. CASE UNCHANGED vars
  BY <1>1 DEF vars, appVars, runVars, IInv, TypeOK, RunsInOrder, ReviewedRunHasDraft,
              RevisionsFollowDrafts, PausedSaysWhy, CallsHoldRuns, CallsAreChecked
<1>2. ASSUME NEW c \in Call, Progress(c) PROVE IInv'
  BY <1>2, LoadForEditsKeeps, OpenRunKeeps, DraftEndsKeeps, CommitDraftKeeps, FailRunKeeps,
     CheckRunKeeps, CommitEditsKeeps, CommitApproveKeeps, CommitPauseKeeps, CommitMoveKeeps
  DEF Progress
<1>. QED
  BY <1>1, <1>2, BeginGenerateKeeps, BeginReviewKeeps, BeginPauseKeeps, BeginMoveKeeps,
     DiesKeeps, CommitDraftThrowsKeeps
  DEF Next

----------------------------------------------------------------------------
(* The theorems.                                                           *)

\* The conjunction of types, runs in order, drafts, revisions, pauses and what
\* each call holds and has checked is an invariant of service.ts, however many
\* calls interleave.
THEOREM TailoringInvariant == Spec => []IInv
  BY InitInvariant, StepInvariant, PTL DEF Spec

\* Every variable keeps its type: no status outside the schema's is written.
THEOREM TailoringTypeCorrect == Spec => []TypeOK
  BY TailoringInvariant, PTL DEF IInv

\* What is shown for review, revised or approved has a draft, and so has the
\* run whose resume the application carries (generate, edits, approve).
THEOREM ReviewHasDraft == Spec => []ReviewedRunHasDraft
  BY TailoringInvariant, PTL DEF IInv

\* A run revises only an earlier run that has a draft
\* (requestTailoringEditsForApplication).
THEOREM RevisionHasDraft == Spec => []RevisionsFollowDrafts
  BY TailoringInvariant, PTL DEF IInv

\* The application carries the reason of a pause exactly while it is paused
\* (pauseTailoringForApplication and every transaction that clears it).
THEOREM PauseIsExplained == Spec => []PausedSaysWhy
  BY TailoringInvariant, PTL DEF IInv

----------------------------------------------------------------------------
(* Legality.                                                               *)

\* What the transactions write: the status of the application is the one the
\* call was checked for, and the same holds of its run.
Writes(c) ==
  \/ WriteDraft(c) /\ call[c].kind = "generate" /\ call[c].step = "commit"
  \/ FailRun(c)
  \/ CommitEdits(c)
  \/ CommitApprove(c)
  \/ CommitPause(c)
  \/ CommitMove(c)

LEMMA StatusSteps ==
  ASSUME Next
  PROVE  \/ UNCHANGED <<appStatus, run>>
         \/ \E c \in Call : OpenRun(c)
         \/ \E c \in Call : Writes(c) /\ (Return(c) \/ Goto(c, "load") \/ Goto(c, "fail"))
<1>1. ASSUME NEW c \in Call, Progress(c)
      PROVE  \/ UNCHANGED <<appStatus, run>>
             \/ OpenRun(c)
             \/ Writes(c) /\ (Return(c) \/ Goto(c, "load"))
  BY <1>1 DEF Progress, LoadForEdits, DraftReturns, DraftThrows, CommitDraft, FailRun, CheckRun,
              CommitEdits, CommitApprove, CommitPause, CommitMove, Writes, appVars, runVars, At
<1>2. ASSUME NEW c \in Call, CommitDraftThrows(c)
      PROVE  UNCHANGED <<appStatus, run>> \/ (Writes(c) /\ Goto(c, "fail"))
  BY <1>2 DEF CommitDraftThrows, Writes, appVars, runVars, At
<1>3. ASSUME NEW c \in Call,
             \/ BeginGenerate(c) \/ BeginPause(c) \/ Dies(c)
             \/ \E r \in RunId : BeginEdits(c, r) \/ BeginApprove(c, r)
             \/ \E status \in ApplicationStatus : BeginMove(c, status)
      PROVE  UNCHANGED <<appStatus, run>>
  BY <1>3 DEF BeginGenerate, BeginPause, Dies, BeginEdits, BeginApprove, BeginMove, Begin,
              appVars, runVars
<1>. QED
  BY <1>1, <1>2, <1>3 DEF Next

\* A call that writes leaves its transaction or its catch block.
LEMMA WritersMove ==
  ASSUME IInv, NEW c \in Call, Writes(c), Return(c) \/ Goto(c, "load") \/ Goto(c, "fail")
  PROVE  call'[c] # call[c]
<1>1. /\ call[c].step \in {"commit", "fail"}
      /\ call[c].step = "fail" => Return(c)
  BY DEF Writes, FailRun, CommitEdits, CommitApprove, CommitPause, CommitMove, At
<1>2. call \in [Call -> CallState]
  BY DEF IInv, TypeOK
<1>3. CASE Return(c)
  BY <1>1, <1>2, <1>3 DEF Return, IdleCall
<1>4. ASSUME NEW s \in {"load", "fail"}, Goto(c, s) PROVE call'[c].step = s
  BY <1>2, <1>4 DEF Goto, CallState
<1>5. CASE Goto(c, "load") \/ Goto(c, "fail")
  BY <1>1, <1>3, <1>4, <1>5
<1>. QED
  BY <1>3, <1>5

LEMMA AppWritesAreChecked ==
  ASSUME IInv, NEW c \in Call, Writes(c), appStatus' # appStatus
  PROVE  MayBecome(call[c].seenApp, appStatus')
<1>1. Checked(call[c])
  BY DEF IInv, CallsAreChecked
<1>2. CASE WriteDraft(c) /\ call[c].kind = "generate"
  BY <1>1, <1>2 DEF WriteDraft, SetApp, Checked
<1>3. CASE FailRun(c)
  BY <1>3 DEF FailRun, appVars
<1>4. CASE CommitEdits(c) \/ CommitApprove(c)
  BY <1>1, <1>4 DEF CommitEdits, CommitApprove, SetApp, Checked, At
<1>5. CASE CommitPause(c)
  BY <1>1, <1>5 DEF CommitPause, SetApp, Checked, At
<1>6. CASE CommitMove(c)
  BY <1>1, <1>6 DEF CommitMove, SetApp, Checked, At, MayBecome
<1>. QED
  BY <1>2, <1>3, <1>4, <1>5, <1>6 DEF Writes

LEMMA RunWritesAreChecked ==
  ASSUME IInv, NEW c \in Call, Writes(c), NEW r \in RunId, RunMoves(r)
  PROVE  call[c].run = r /\ canTransitionTailoringRun(call[c].seenRun, run'[r].status)
<1>1. Checked(call[c]) /\ HoldsIn(call[c], run, opened) /\ call[c].seenRun \in RunStatus
  BY CallTypes DEF IInv, CallsAreChecked, CallsHoldRuns
<1>2. run \in [RunId -> Run] /\ run'[r].status # run[r].status
  BY DEF IInv, TypeOK, RunMoves
<1>3. ASSUME NEW s, SetRun(call[c].run, s) PROVE call[c].run = r /\ run'[r].status = s
  BY <1>2, <1>3 DEF SetRun, Run
<1>4. CASE WriteDraft(c) /\ call[c].kind = "generate" /\ call[c].step = "commit"
  <2>1. call[c].run = r /\ run'[r].status = "generated_for_review"
    BY <1>2, <1>4 DEF WriteDraft, Run
  <2>2. call[c].seenRun = "generating"
    BY <1>1, <1>4 DEF Checked
  <2>. QED
    BY <2>1, <2>2, TablesLetRunsEnd
<1>5. CASE FailRun(c)
  <2>1. call[c].seenRun = "generating"
    BY <1>1, <1>5 DEF FailRun, Checked, At
  <2>. QED
    BY <2>1, <1>3, <1>5, TablesLetRunsEnd DEF FailRun
<1>6. CASE CommitEdits(c)
  BY <1>1, <1>3, <1>6 DEF CommitEdits, Checked, At
<1>7. CASE CommitApprove(c)
  BY <1>1, <1>3, <1>7 DEF CommitApprove, Checked, At
<1>8. CASE CommitPause(c)
  BY <1>1, <1>2, <1>3, <1>8, TablesLetRunsEnd DEF CommitPause
<1>9. CASE CommitMove(c)
  BY <1>2, <1>9 DEF CommitMove, runVars
<1>. QED
  BY <1>4, <1>5, <1>6, <1>7, <1>8, <1>9 DEF Writes

\* assertApplicationTransition and assertTailoringRunTransition: a status that
\* state.ts does not allow was checked against one that another call has
\* overwritten since.
THEOREM TailoringMovesAreLegal == Spec => LegalUnlessOvertaken
<1>1. ASSUME IInv, Next, AppMoves, ~canTransitionApplication(appStatus, appStatus')
      PROVE  \E c \in Call : call'[c] # call[c] /\ call[c].seenApp # appStatus
  <2>1. ASSUME NEW c \in Call, OpenRun(c) PROVE FALSE
    BY <1>1, <2>1 DEF OpenRun, appVars, AppMoves
  <2>2. PICK c \in Call : Writes(c) /\ (Return(c) \/ Goto(c, "load") \/ Goto(c, "fail"))
    BY <1>1, <2>1, StatusSteps DEF AppMoves
  <2>3. call'[c] # call[c]
    BY <1>1, <2>2, WritersMove
  <2>4. MayBecome(call[c].seenApp, appStatus')
    BY <1>1, <2>2, AppWritesAreChecked DEF AppMoves
  <2>5. call[c].seenApp # appStatus
    BY <1>1, <2>4 DEF MayBecome, AppMoves
  <2>. QED
    BY <2>3, <2>5
<1>2. ASSUME IInv, Next, NEW r \in RunId, RunMoves(r),
             ~canTransitionTailoringRun(run[r].status, run'[r].status)
      PROVE  \E c \in Call : /\ call'[c] # call[c] /\ call[c].run = r
                             /\ call[c].seenRun # run[r].status
  <2>1. ASSUME NEW c \in Call, OpenRun(c) PROVE FALSE
    <3>1. opened + 1 \in RunId /\ opened + 1 > opened
      BY <1>2, <2>1, ConstantsAssumption DEF OpenRun, RunId, IInv, TypeOK
    <3>2. run[opened + 1].status = "absent"
      BY <1>2, <3>1 DEF IInv, RunsInOrder
    <3>. QED
      BY <1>2, <2>1, <3>1, <3>2 DEF OpenRun, RunMoves, IInv, TypeOK
  <2>2. PICK c \in Call : Writes(c) /\ (Return(c) \/ Goto(c, "load") \/ Goto(c, "fail"))
    BY <1>2, <2>1, StatusSteps DEF RunMoves
  <2>3. call'[c] # call[c]
    BY <1>2, <2>2, WritersMove
  <2>4. call[c].run = r /\ canTransitionTailoringRun(call[c].seenRun, run'[r].status)
    BY <1>2, <2>2, RunWritesAreChecked
  <2>. QED
    BY <1>2, <2>3, <2>4
<1>3. IInv /\ [Next]_vars =>
        [/\ AppMoves /\ ~canTransitionApplication(appStatus, appStatus') =>
              \E c \in Call : call'[c] # call[c] /\ call[c].seenApp # appStatus
         /\ \A r \in RunId :
              RunMoves(r) /\ ~canTransitionTailoringRun(run[r].status, run'[r].status) =>
                \E c \in Call : /\ call'[c] # call[c] /\ call[c].run = r
                                /\ call[c].seenRun # run[r].status]_vars
  BY <1>1, <1>2
<1>. QED
  BY <1>3, TailoringInvariant, PTL DEF Spec, LegalUnlessOvertaken

----------------------------------------------------------------------------
(* One call at a time.                                                     *)

Serial == \A c, d \in Call : c = d

\* What call record k has read is what the application and the runs still are.
Current(k) ==
  /\ k.step \in {"check", "open", "draft", "commit"} => k.seenApp = appStatus
  /\ k.kind \in {"edits", "approve"} /\ k.step = "commit" => k.seenRun = run[k.run].status
  /\ k.kind = "pause" /\ k.seenRun # "absent" => k.seenRun = run[k.run].status
  /\ k.kind = "generate" /\ k.step \in {"draft", "commit"} => run[k.run].status = "generating"
  /\ k.kind = "generate" /\ k.step = "fail" =>
       run[k.run].status \in {"generating", "generated_for_review"}

SeenIsCurrent == \A c \in Call : Current(call[c])

\* With one call there is only its own record to look at.
LEMMA OnlyRecord ==
  ASSUME Serial, TypeOK, NEW c \in Call, NEW new, call' = [call EXCEPT ![c] = new],
         Current(new)'
  PROVE  SeenIsCurrent'
<1>. SUFFICES ASSUME NEW d \in Call PROVE Current(call[d])'
  BY DEF SeenIsCurrent
<1>1. d = c /\ call'[c] = new
  BY DEF Serial, TypeOK
<1>. QED
  BY <1>1 DEF Current

\* Reads, and steps of the agent: nothing but the call moves.
LEMMA ReadsStayCurrent ==
  ASSUME Serial, IInv, SeenIsCurrent, UNCHANGED <<appVars, runVars>>, NEW c \in Call,
         \/ BeginGenerate(c) \/ BeginPause(c) \/ Dies(c)
         \/ \E r \in RunId : BeginEdits(c, r) \/ BeginApprove(c, r)
         \/ \E status \in ApplicationStatus : BeginMove(c, status)
         \/ LoadForEdits(c) \/ DraftReturns(c) \/ DraftThrows(c) \/ CheckRun(c)
  PROVE  SeenIsCurrent'
<1>1. UNCHANGED <<appStatus, run, opened>> /\ TypeOK /\ call \in [Call -> CallState]
  BY DEF appVars, runVars, IInv, TypeOK
<1>2. Current(call[c]) /\ call[c] \in CallState
  BY <1>1 DEF SeenIsCurrent
<1>3. CASE Dies(c)
  <2>1. Current(IdleCall)'
    BY DEF Current, IdleCall
  <2>. QED
    BY <1>1, <1>3, <2>1, OnlyRecord DEF Dies, Return
<1>4. ASSUME NEW kind, NEW step, NEW r, NEW seenRun, NEW target,
             Begin(c, kind, step, r, seenRun, target),
             \/ step \in {"open", "check"} /\ kind # "pause"
             \/ kind \notin {"edits", "approve", "pause", "generate"}
             \/ kind = "pause" /\ (seenRun # "absent" => seenRun = run[r].status)
      PROVE  SeenIsCurrent'
  <2>. DEFINE new == [kind |-> kind, step |-> step, run |-> r, seenApp |-> appStatus,
                      seenReason |-> pausedReason, seenRun |-> seenRun, target |-> target]
  <2>1. /\ new.kind = kind /\ new.step = step /\ new.run = r /\ new.seenApp = appStatus
        /\ new.seenRun = seenRun /\ call' = [call EXCEPT ![c] = new]
    BY <1>4 DEF Begin
  <2>2. \A d \in Call : d = c /\ call'[d] = new
    BY <1>1, <2>1 DEF Serial
  <2>. HIDE DEF new
  <2>3. \A d \in Call : Current(call[d])'
    BY <1>1, <1>4, <2>1, <2>2 DEF Current
  <2>. QED
    BY <2>3 DEF SeenIsCurrent
<1>5. CASE BeginGenerate(c)
  BY <1>4, <1>5 DEF BeginGenerate
<1>6. CASE \E r \in RunId : BeginEdits(c, r) \/ BeginApprove(c, r)
  BY <1>4, <1>6 DEF BeginEdits, BeginApprove
<1>7. CASE BeginPause(c)
  BY <1>4, <1>7 DEF BeginPause
<1>8. CASE \E status \in ApplicationStatus : BeginMove(c, status)
  BY <1>4, <1>8 DEF BeginMove
<1>9. CASE LoadForEdits(c) \/ DraftReturns(c) \/ DraftThrows(c) \/ CheckRun(c)
  <2>. SUFFICES ASSUME NEW d \in Call PROVE Current(call[d])'
    BY DEF SeenIsCurrent, Current
  <2>1. d = c
    BY DEF Serial
  <2>2. CASE LoadForEdits(c)
    BY <1>1, <1>2, <2>1, <2>2 DEF LoadForEdits, Return, IdleCall, Current, CallState, At
  <2>3. CASE DraftReturns(c)
    BY <1>1, <1>2, <2>1, <2>3 DEF DraftReturns, Goto, Current, CallState, At
  <2>4. CASE DraftThrows(c)
    BY <1>1, <1>2, <2>1, <2>4 DEF DraftThrows, Goto, Current, CallState, At
  <2>5. CASE CheckRun(c)
    BY <1>1, <1>2, <2>1, <2>5 DEF CheckRun, Return, IdleCall, Current, CallState
  <2>. QED
    BY <1>9, <2>2, <2>3, <2>4, <2>5
<1>. QED
  BY <1>3, <1>5, <1>6, <1>7, <1>8, <1>9

\* The run is opened, and a transaction ends its call but for two cases.
LEMMA WritesStayCurrent ==
  ASSUME Serial, IInv, SeenIsCurrent, NEW c \in Call,
         OpenRun(c) \/ CommitDraft(c) \/ FailRun(c) \/ CommitEdits(c) \/ CommitApprove(c)
           \/ CommitPause(c) \/ CommitMove(c) \/ CommitDraftThrows(c)
  PROVE  SeenIsCurrent'
<1>1. call \in [Call -> CallState] /\ run \in [RunId -> Run] /\ TypeOK /\ opened \in Nat
  BY ConstantsAssumption DEF IInv, TypeOK
<1>2. Current(call[c]) /\ HoldsIn(call[c], run, opened)
  BY DEF SeenIsCurrent, IInv, CallsHoldRuns
<1>. SUFFICES ASSUME NEW d \in Call PROVE Current(call[d])'
  BY DEF SeenIsCurrent
<1>3. d = c
  BY DEF Serial
<1>4. CASE Return(c)
  BY <1>1, <1>3, <1>4 DEF Return, IdleCall, Current
<1>5. CASE OpenRun(c)
  <2>1. opened + 1 \in RunId
    BY <1>1, <1>5, ConstantsAssumption DEF OpenRun, RunId
  <2>2. /\ call'[d].step = "draft" /\ call'[d].kind = "generate" /\ call'[d].run = opened + 1
        /\ call'[d].seenApp = call[c].seenApp /\ call[c].step = "open"
        /\ appStatus' = appStatus
    BY <1>1, <1>3, <1>5, <2>1 DEF OpenRun, CallState, At, appVars
  <2>3. run'[opened + 1].status = "generating"
    BY <1>1, <1>5, <2>1 DEF OpenRun
  <2>. QED
    BY <1>2, <2>2, <2>3 DEF Current
<1>6. CASE CommitEdits(c)
  BY <1>1, <1>3, <1>6 DEF CommitEdits, Goto, At, Current, CallState
<1>7. CASE CommitDraftThrows(c)
  <2>1. /\ call'[d].step = "fail" /\ call'[d].kind = "generate" /\ call'[d].run = call[c].run
        /\ call[c].kind = "generate" /\ call[c].step = "commit"
    BY <1>1, <1>3, <1>7 DEF CommitDraftThrows, Goto, At, CallState
  <2>2. call[c].run \in RunId
    BY <1>1, <1>2, <2>1, CallTypes DEF HoldsIn, NoRun
  <2>3. run'[call[c].run].status \in {"generating", "generated_for_review"}
    BY <1>1, <1>2, <1>7, <2>1, <2>2 DEF CommitDraftThrows, WriteDraft, Current, Run, runVars
  <2>. QED
    BY <2>1, <2>3 DEF Current
<1>. QED
  BY <1>4, <1>5, <1>6, <1>7 DEF CommitDraft, FailRun, CommitApprove, CommitPause, CommitMove

LEMMA SeenStaysCurrent ==
  ASSUME Serial, IInv, SeenIsCurrent, [Next]_vars
  PROVE  SeenIsCurrent'
<1>1. CASE UNCHANGED vars
  BY <1>1 DEF vars, appVars, runVars, SeenIsCurrent, Current
<1>2. ASSUME NEW c \in Call, Progress(c) PROVE SeenIsCurrent'
  BY <1>2, ReadsStayCurrent, WritesStayCurrent
     DEF Progress, LoadForEdits, DraftReturns, DraftThrows, CheckRun
<1>3. ASSUME NEW c \in Call,
             \/ BeginGenerate(c) \/ BeginPause(c) \/ Dies(c)
             \/ \E r \in RunId : BeginEdits(c, r) \/ BeginApprove(c, r)
             \/ \E status \in ApplicationStatus : BeginMove(c, status)
      PROVE  SeenIsCurrent'
  <2>1. UNCHANGED <<appVars, runVars>>
    BY <1>3 DEF BeginGenerate, BeginPause, Dies, BeginEdits, BeginApprove, BeginMove, Begin
  <2>. QED
    BY <1>3, <2>1, ReadsStayCurrent
<1>4. ASSUME NEW c \in Call, CommitDraftThrows(c) PROVE SeenIsCurrent'
  BY <1>4, WritesStayCurrent
<1>. QED
  BY <1>1, <1>2, <1>3, <1>4 DEF Next

\* Among calls that follow one another, whatever they do and wherever they fail,
\* every status ever written follows the tables of state.ts.
THEOREM SerialMovesAreLegal ==
  ASSUME Serial
  PROVE  Spec => TransitionsLegal
<1>1. Init => SeenIsCurrent
  BY DEF Init, SeenIsCurrent, Current, IdleCall
<1>2. IInv /\ SeenIsCurrent /\ [Next]_vars => SeenIsCurrent'
  BY SeenStaysCurrent
<1>3. ASSUME IInv, SeenIsCurrent, Next, AppMoves
      PROVE  canTransitionApplication(appStatus, appStatus')
  <2>1. ASSUME NEW c \in Call, OpenRun(c) PROVE FALSE
    BY <1>3, <2>1 DEF OpenRun, appVars, AppMoves
  <2>2. PICK c \in Call : Writes(c)
    BY <1>3, <2>1, StatusSteps DEF AppMoves
  <2>3. MayBecome(call[c].seenApp, appStatus') /\ Current(call[c])
    BY <1>3, <2>2, AppWritesAreChecked DEF AppMoves, SeenIsCurrent
  <2>4. call[c].step = "commit"
    BY <1>3, <2>2 DEF Writes, FailRun, CommitEdits, CommitApprove, CommitPause, CommitMove, At,
                      appVars, AppMoves
  <2>. QED
    BY <1>3, <2>3, <2>4 DEF Current, MayBecome, AppMoves
<1>4. ASSUME IInv, SeenIsCurrent, Next, NEW r \in RunId, RunMoves(r)
      PROVE  canTransitionTailoringRun(run[r].status, run'[r].status)
  <2>1. ASSUME NEW c \in Call, OpenRun(c) PROVE FALSE
    <3>1. opened + 1 \in RunId /\ opened + 1 > opened
      BY <1>4, <2>1, ConstantsAssumption DEF OpenRun, RunId, IInv, TypeOK
    <3>2. run[opened + 1].status = "absent"
      BY <1>4, <3>1 DEF IInv, RunsInOrder
    <3>. QED
      BY <1>4, <2>1, <3>1, <3>2 DEF OpenRun, RunMoves, IInv, TypeOK
  <2>2. PICK c \in Call : Writes(c)
    BY <1>4, <2>1, StatusSteps DEF RunMoves
  <2>3. /\ call[c].run = r /\ canTransitionTailoringRun(call[c].seenRun, run'[r].status)
        /\ Current(call[c]) /\ Checked(call[c])
    BY <1>4, <2>2, RunWritesAreChecked DEF SeenIsCurrent, IInv, CallsAreChecked
  <2>4. CASE FailRun(c)
    <3>1. run'[r].status = "failed" /\ run[r].status \in {"generating", "generated_for_review"}
      BY <1>4, <2>3, <2>4 DEF FailRun, SetRun, Current, At, IInv, TypeOK, Run
    <3>. QED
      BY <3>1 DEF canTransitionTailoringRun, tailoringRunTransitions
  <2>5. CASE WriteDraft(c) /\ call[c].kind = "generate" /\ call[c].step = "commit"
    BY <2>3, <2>5 DEF Current, Checked
  <2>6. CASE CommitEdits(c) \/ CommitApprove(c) \/ CommitPause(c)
    <3>1. call[c].seenRun # "absent" \/ call[c].kind \in {"edits", "approve"}
      BY <1>4, <2>6 DEF CommitEdits, CommitApprove, CommitPause, At, RunMoves
    <3>. QED
      BY <2>3, <2>6, <3>1 DEF CommitEdits, CommitApprove, CommitPause, Current, At
  <2>7. CASE CommitMove(c)
    BY <1>4, <2>7 DEF CommitMove, runVars, RunMoves
  <2>. QED
    BY <2>2, <2>4, <2>5, <2>6, <2>7 DEF Writes
<1>5. IInv /\ SeenIsCurrent /\ [Next]_vars =>
        [/\ AppMoves => canTransitionApplication(appStatus, appStatus')
         /\ \A r \in RunId :
              RunMoves(r) => canTransitionTailoringRun(run[r].status, run'[r].status)]_vars
  BY <1>3, <1>4
<1>. QED
  BY <1>1, <1>2, <1>5, TailoringInvariant, PTL DEF Spec, TransitionsLegal

=============================================================================
