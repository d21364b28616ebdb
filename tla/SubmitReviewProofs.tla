------------------------- MODULE SubmitReviewProofs -------------------------
(***************************************************************************)
(* The safety of the review packet and of the readiness counters, for any  *)
(* number of concurrent calls, revisions and faults.                       *)
(***************************************************************************)
EXTENDS SubmitReview, TLAPS

----------------------------------------------------------------------------
(* Where a step leaves the calls.                                          *)

\* What the invariants ask of call c after a step that leaves the others alone.
Leads(c, kind, step, target, seen, revision) ==
  /\ call' \in [Call -> CallState]
  /\ call'[c].kind = kind
  /\ call'[c].step = step
  /\ call'[c].target = target
  /\ call'[c].seen = seen
  /\ call'[c].revision = revision
  /\ \A d \in Call : d # c => call'[d] = call[d]

LEMMA CallTypes ==
  ASSUME TypeOK, NEW c \in Call
  PROVE  /\ call[c] \in CallState
         /\ call[c].kind \in Kind
         /\ call[c].step \in CallStep
         /\ call[c].target \in Status
         /\ call[c].seen \in Status
         /\ call[c].captured \in BOOLEAN
         /\ call[c].revision \in {NotCounted} \cup Revision
         /\ call[c].ready \in BOOLEAN
  BY DEF TypeOK, CallState

LEMMA NewLeads ==
  ASSUME TypeOK, NEW c \in Call, NEW new \in CallState, call' = [call EXCEPT ![c] = new]
  PROVE  Leads(c, new.kind, new.step, new.target, new.seen, new.revision)
  BY DEF Leads, TypeOK

LEMMA IdleCallType == IdleCall \in CallState
  BY DEF IdleCall, CallState, Kind, CallStep, Status, NotCounted

LEMMA GotoLeads ==
  ASSUME TypeOK, NEW c \in Call, NEW s \in CallStep, Goto(c, s)
  PROVE  Leads(c, call[c].kind, s, call[c].target, call[c].seen, NotCounted)
<1>. DEFINE new == [call[c] EXCEPT !.step = s, !.revision = NotCounted, !.ready = FALSE]
<1>1. call[c] \in CallState
  BY CallTypes
<1>2. new \in CallState
  BY <1>1 DEF CallState, NotCounted
<1>3. call' = [call EXCEPT ![c] = new]
  BY DEF Goto
<1>4. /\ new.kind = call[c].kind /\ new.step = s /\ new.target = call[c].target
      /\ new.seen = call[c].seen /\ new.revision = NotCounted
  BY <1>1 DEF CallState
<1>. HIDE DEF new
<1>. QED
  BY <1>2, <1>3, <1>4, NewLeads

LEMMA ReturnLeads ==
  ASSUME TypeOK, NEW c \in Call, Return(c)
  PROVE  Leads(c, "none", "idle", "applying", "applying", NotCounted)
<1>1. /\ IdleCall.kind = "none" /\ IdleCall.step = "idle" /\ IdleCall.target = "applying"
      /\ IdleCall.seen = "applying" /\ IdleCall.revision = NotCounted
  BY DEF IdleCall
<1>. QED
  BY <1>1, IdleCallType, NewLeads DEF Return

LEMMA FinishLeads ==
  ASSUME TypeOK, NEW c \in Call, Finish(c)
  PROVE  Leads(c, call[c].kind, "sync", "applying", "applying", NotCounted)
<1>. DEFINE new == [IdleCall EXCEPT !.kind = call[c].kind, !.step = "sync",
                                    !.captured = call[c].captured]
<1>1. new \in CallState
  BY IdleCallType, CallTypes DEF CallState, CallStep
<1>2. call' = [call EXCEPT ![c] = new]
  BY DEF Finish
<1>3. /\ new.kind = call[c].kind /\ new.step = "sync" /\ new.target = "applying"
      /\ new.seen = "applying" /\ new.revision = NotCounted
  BY DEF IdleCall
<1>. HIDE DEF new
<1>. QED
  BY <1>1, <1>2, <1>3, NewLeads

LEMMA BeginLeads ==
  ASSUME TypeOK, NEW c \in Call, NEW k \in Kind, NEW s \in CallStep, NEW t \in Status,
         Begin(c, k, s, t)
  PROVE  Leads(c, k, s, t, "applying", NotCounted) /\ At(c, "idle")
<1>. DEFINE new == [IdleCall EXCEPT !.kind = k, !.step = s, !.target = t]
<1>1. new \in CallState
  BY IdleCallType DEF CallState
<1>2. call' = [call EXCEPT ![c] = new] /\ At(c, "idle")
  BY DEF Begin
<1>3. /\ new.kind = k /\ new.step = s /\ new.target = t
      /\ new.seen = "applying" /\ new.revision = NotCounted
  BY DEF IdleCall
<1>. HIDE DEF new
<1>. QED
  BY <1>1, <1>2, <1>3, NewLeads

\* A step that reads a revision: the first sync, the last sync, a freeze, a
\* persist.
LEMMA ReadLeads ==
  ASSUME TypeOK, NEW c \in Call, NEW s \in CallStep, NEW r \in BOOLEAN,
         call' = [call EXCEPT ![c].step = s, ![c].revision = workspace, ![c].ready = r]
  PROVE  Leads(c, call[c].kind, s, call[c].target, call[c].seen, workspace)
<1>. DEFINE new == [call[c] EXCEPT !.step = s, !.revision = workspace, !.ready = r]
<1>1. call[c] \in CallState
  BY CallTypes
<1>2. new \in CallState
  BY <1>1 DEF CallState, TypeOK
<1>4. /\ new.kind = call[c].kind /\ new.step = s /\ new.target = call[c].target
      /\ new.seen = call[c].seen /\ new.revision = workspace
  BY <1>1 DEF CallState
<1>3. call' = [call EXCEPT ![c] = new]
  OBVIOUS
<1>. HIDE DEF new
<1>. QED
  BY <1>2, <1>3, <1>4, NewLeads

LEMMA ReadCommitLeads ==
  ASSUME TypeOK, NEW c \in Call,
         call' = [call EXCEPT ![c].step = "commit", ![c].revision = workspace]
  PROVE  Leads(c, call[c].kind, "commit", call[c].target, call[c].seen, workspace)
<1>. DEFINE new == [call[c] EXCEPT !.step = "commit", !.revision = workspace]
<1>1. call[c] \in CallState
  BY CallTypes
<1>2. new \in CallState
  BY <1>1 DEF CallState, CallStep, TypeOK
<1>4. /\ new.kind = call[c].kind /\ new.step = "commit" /\ new.target = call[c].target
      /\ new.seen = call[c].seen /\ new.revision = workspace
  BY <1>1 DEF CallState
<1>3. call' = [call EXCEPT ![c] = new]
  OBVIOUS
<1>. HIDE DEF new
<1>. QED
  BY <1>2, <1>3, <1>4, NewLeads

\* The step after a check that lets a call go on.
AfterCheck(kind) ==
  CASE kind \in {"enter", "refresh"} -> "freeze"
    [] kind = "route" -> "gate"
    [] OTHER -> "commit"

LEMMA CheckLeads ==
  ASSUME TypeOK, NEW c \in Call, Check(c)
  PROVE  \/ Leads(c, "none", "idle", "applying", "applying", NotCounted)
         \/ /\ MayProceed(c)
            /\ Leads(c, call[c].kind, AfterCheck(call[c].kind), call[c].target, status,
                     call[c].revision)
<1>1. CASE Return(c)
  BY <1>1, ReturnLeads
<1>2. CASE ~Return(c)
  <2>. DEFINE new == [call[c] EXCEPT
                 !.seen = status, !.captured = call[c].kind = "back" /\ packet # NoPacket,
                 !.step = AfterCheck(call[c].kind)]
  <2>1. call[c] \in CallState
    BY CallTypes
  <2>2. AfterCheck(call[c].kind) \in CallStep
    BY DEF AfterCheck, CallStep
  <2>3. new \in CallState
    BY <2>1, <2>2 DEF CallState, TypeOK
  <2>4. /\ new.kind = call[c].kind /\ new.step = AfterCheck(call[c].kind)
        /\ new.target = call[c].target /\ new.seen = status
        /\ new.revision = call[c].revision
    BY <2>1 DEF CallState
  <2>5. call' = [call EXCEPT ![c] = new] /\ MayProceed(c)
    BY <1>2 DEF Check, AfterCheck
  <2>. HIDE DEF new
  <2>. QED
    BY <2>3, <2>4, <2>5, NewLeads
<1>. QED
  BY <1>1, <1>2

----------------------------------------------------------------------------
(* What a step has to show of the call it moves.                           *)

Checked(kind, step, target, seen) ==
  /\ kind \in {"enter", "back", "submit", "route"} /\ step \in {"freeze", "commit"}
       => canTransitionApplication(seen, target)
  /\ kind \in {"approve", "pause"} /\ step = "commit"
       => seen = target \/ canTransitionApplication(seen, target)
  /\ kind = "enter" => step \in {"sync", "count"} \/ target = "submit_review"
  /\ kind = "submit" => step \in {"sync", "count"} \/ target = "submitted"
  /\ kind \in {"back", "approve"} => target = "applying"
  /\ kind = "pause" => target = "paused"
  /\ kind = "latch" => step \in {"persist", "commit"}
  /\ step = "persist" => kind = "latch"
  /\ step = "freeze" => kind \in {"enter", "refresh"}

LEMMA MovesChecked ==
  MovesAreChecked <=>
    \A c \in Call : Checked(call[c].kind, call[c].step, call[c].target, call[c].seen)
  BY DEF MovesAreChecked, Checked, At

LEMMA MovesStay ==
  ASSUME TypeOK, MovesAreChecked, NEW c \in Call, NEW k, NEW s, NEW t, NEW sn, NEW r,
         Leads(c, k, s, t, sn, r), Checked(k, s, t, sn)
  PROVE  MovesAreChecked'
<1>1. ASSUME NEW d \in Call
      PROVE  Checked(call'[d].kind, call'[d].step, call'[d].target, call'[d].seen)
  <2>1. CASE d = c
    BY <2>1 DEF Leads
  <2>2. CASE d # c
    <3>1. call'[d] = call[d]
      BY <2>2 DEF Leads
    <3>. QED
      BY <3>1, MovesChecked
  <2>. QED
    BY <2>1, <2>2
<1>. QED
  BY <1>1 DEF MovesAreChecked, Checked, At

LEMMA PacketsStay ==
  ASSUME TypeOK, PacketsAreThere, NEW c \in Call, NEW k, NEW s, NEW t, NEW sn, NEW r,
         Leads(c, k, s, t, sn, r),
         packet' = packet \/ packet' \in Revision,
         s = "commit" => /\ k \in {"enter", "refresh", "latch"} => r \in Revision
                         /\ k = "submit" => packet' \in Revision,
         status' = "submit_review" /\ packet' = NoPacket => "packet" \in slips'
  PROVE  PacketsAreThere'
<1>1. ASSUME NEW d \in Call, call'[d].step = "commit"
      PROVE  /\ call'[d].kind \in {"enter", "refresh", "latch"} => call'[d].revision \in Revision
             /\ call'[d].kind = "submit" => packet' \in Revision
  <2>1. CASE d = c
    BY <1>1, <2>1 DEF Leads
  <2>2. CASE d # c
    <3>1. call'[d] = call[d]
      BY <2>2 DEF Leads
    <3>. QED
      BY <1>1, <3>1 DEF PacketsAreThere, At
  <2>. QED
    BY <2>1, <2>2
<1>. QED
  BY <1>1 DEF PacketsAreThere, At, Revision, NoPacket

MarkSteps == {"sync", "count", "look", "mark"}

LEMMA MarkStays ==
  ASSUME NEW c \in Call, NEW k, NEW s, NEW t, NEW sn, NEW r, Leads(c, k, s, t, sn, r),
         WillMark(c) => k = "edit" /\ s \in MarkSteps,
         NEW d \in Call, WillMark(d)
  PROVE  WillMark(d)'
<1>1. CASE d = c
  BY <1>1 DEF Leads, WillMark, MarkSteps
<1>2. CASE d # c
  BY <1>2 DEF Leads, WillMark
<1>. QED
  BY <1>1, <1>2

LEMMA CountStays ==
  ASSUME NEW c \in Call, NEW k, NEW s, NEW t, NEW sn, NEW r, Leads(c, k, s, t, sn, r),
         WillCount(c) => k = "edit" /\ s \in {"sync", "count"},
         NEW d \in Call, WillCount(d)
  PROVE  WillCount(d)'
<1>1. CASE d = c
  BY <1>1 DEF Leads, WillCount
<1>2. CASE d # c
  BY <1>2 DEF Leads, WillCount
<1>. QED
  BY <1>1, <1>2

LEMMA ReviewedStays ==
  ASSUME ReviewedIsCurrent,
         NEW c \in Call, NEW k, NEW s, NEW t, NEW sn, NEW r, Leads(c, k, s, t, sn, r),
         UNCHANGED <<status, workspace, packet, dirty>>,
         "packet" \in slips => "packet" \in slips',
         WillMark(c) => k = "edit" /\ s \in MarkSteps
  PROVE  ReviewedIsCurrent'
<1>1. ASSUME NEW d \in Call, WillMark(d)
      PROVE  WillMark(d)'
  BY <1>1, MarkStays
<1>. QED
  BY <1>1 DEF ReviewedIsCurrent

LEMMA CountersStay ==
  ASSUME CountersCurrent,
         NEW c \in Call, NEW k, NEW s, NEW t, NEW sn, NEW r, Leads(c, k, s, t, sn, r),
         UNCHANGED <<workspace, counted>>,
         "counters" \in slips => "counters" \in slips',
         WillCount(c) => k = "edit" /\ s \in {"sync", "count"}
  PROVE  CountersCurrent'
<1>1. ASSUME NEW d \in Call, WillCount(d)
      PROVE  WillCount(d)'
  BY <1>1, CountStays
<1>. QED
  BY <1>1 DEF CountersCurrent

----------------------------------------------------------------------------
(* Steps that only move a call on.                                         *)

LEMMA SilentStep ==
  ASSUME IInv, NEW c \in Call, NEW k, NEW s, NEW t, NEW sn, NEW r,
         Leads(c, k, s, t, sn, r),
         UNCHANGED <<status, workspaceVars, counted, reviewVars, slips, faults>>,
         Checked(k, s, t, sn),
         s = "commit" => /\ k \in {"enter", "refresh", "latch"} => r \in Revision
                         /\ k = "submit" => packet \in Revision,
         WillMark(c) =>
           \/ k = "edit" /\ s \in MarkSteps
           \/ packet = NoPacket \/ status # "submit_review" \/ dirty,
         WillCount(c) => k = "edit" /\ s \in {"sync", "count"}
  PROVE  IInv'
<1>1. TypeOK'
  BY DEF IInv, TypeOK, Leads, workspaceVars, reviewVars
<1>2. MovesAreChecked'
  BY MovesStay DEF IInv
<1>3. PacketsAreThere'
  <2>1. status' = status /\ packet' = packet /\ slips' = slips
    BY DEF reviewVars
  <2>2. status' = "submit_review" /\ packet' = NoPacket => "packet" \in slips'
    BY <2>1 DEF IInv, PacketsAreThere
  <2>. QED
    BY <2>1, <2>2, PacketsStay DEF IInv
<1>4. ReviewedIsCurrent'
  <2>1. UNCHANGED <<status, workspace, packet, dirty>> /\ slips' = slips
    BY DEF workspaceVars, reviewVars
  <2>2. CASE WillMark(c) => k = "edit" /\ s \in MarkSteps
    BY <2>1, <2>2, ReviewedStays DEF IInv
  <2>3. CASE packet = NoPacket \/ status # "submit_review" \/ dirty
    BY <2>1, <2>3 DEF IInv, ReviewedIsCurrent, PacketsAreThere
  <2>. QED
    BY <2>2, <2>3
<1>5. CountersCurrent'
  BY CountersStay DEF IInv, workspaceVars
<1>. QED
  BY <1>1, <1>2, <1>3, <1>4, <1>5 DEF IInv

LEMMA CallChecked ==
  ASSUME IInv, NEW c \in Call
  PROVE  Checked(call[c].kind, call[c].step, call[c].target, call[c].seen)
  BY MovesChecked DEF IInv

\* A call that returns asks for nothing.
LEMMA ReturnStep ==
  ASSUME IInv, NEW c \in Call, Return(c),
         UNCHANGED <<status, workspaceVars, counted, reviewVars, slips, faults>>,
         ~WillMark(c) \/ packet = NoPacket \/ status # "submit_review" \/ dirty,
         ~WillCount(c)
  PROVE  IInv'
<1>1. Leads(c, "none", "idle", "applying", "applying", NotCounted)
  BY ReturnLeads DEF IInv
<1>2. Checked("none", "idle", "applying", "applying")
  BY DEF Checked
<1>. QED
  BY <1>1, <1>2, SilentStep

LEMMA BeginLatchStep ==
  ASSUME IInv, NEW c \in Call, BeginLatch(c)
  PROVE  IInv'
<1>1. "latch" \in Kind /\ "persist" \in CallStep /\ "applying" \in Status
  BY DEF Kind, CallStep, Status
<1>2. Leads(c, "latch", "persist", "applying", "applying", NotCounted) /\ At(c, "idle")
  BY <1>1, BeginLeads DEF IInv, BeginLatch
<1>3. Checked("latch", "persist", "applying", "applying")
  BY DEF Checked
<1>4. ~WillMark(c) /\ ~WillCount(c)
  BY <1>2 DEF At, WillMark, WillCount
<1>. QED
  BY <1>2, <1>3, <1>4, SilentStep DEF BeginLatch

LEMMA BeginMoveStep ==
  ASSUME IInv, NEW c \in Call, BeginMove(c)
  PROVE  IInv'
<1>. DEFINE Opens(k, s, t) == Begin(c, k, s, t) /\ Checked(k, s, t, "applying")
<1>1. PICK k \in Kind, s \in {"gate", "check"}, t \in Status : Opens(k, s, t)
  <2>1. CASE BeginEnter(c)
    <3>1. Opens("enter", "gate", "submit_review")
      BY <2>1 DEF BeginEnter, Checked
    <3>. QED
      BY <3>1 DEF Kind, Status
  <2>2. CASE BeginBack(c)
    <3>1. Opens("back", "check", "applying")
      BY <2>2 DEF BeginBack, Checked
    <3>. QED
      BY <3>1 DEF Kind, Status
  <2>3. CASE BeginSubmit(c)
    <3>1. Opens("submit", "check", "submitted")
      BY <2>3 DEF BeginSubmit, Checked
    <3>. QED
      BY <3>1 DEF Kind, Status
  <2>4. CASE BeginRefresh(c)
    <3>1. Opens("refresh", "check", "submit_review")
      BY <2>4 DEF BeginRefresh, Checked
    <3>. QED
      BY <3>1 DEF Kind, Status
  <2>5. CASE BeginApprove(c)
    <3>1. Opens("approve", "check", "applying")
      BY <2>5 DEF BeginApprove, Checked
    <3>. QED
      BY <3>1 DEF Kind, Status
  <2>6. CASE BeginPause(c)
    <3>1. Opens("pause", "check", "paused")
      BY <2>6 DEF BeginPause, Checked
    <3>. QED
      BY <3>1 DEF Kind, Status
  <2>7. CASE \E target \in Status : BeginRoute(c, target)
    <3>1. PICK target \in Status : BeginRoute(c, target)
      BY <2>7
    <3>2. Opens("route", "check", target)
      BY <3>1 DEF BeginRoute, Checked
    <3>. QED
      BY <3>2 DEF Kind
  <2>. QED
    BY <2>1, <2>2, <2>3, <2>4, <2>5, <2>6, <2>7 DEF BeginMove
<1>2. s \in CallStep
  BY DEF CallStep
<1>3. Leads(c, k, s, t, "applying", NotCounted) /\ At(c, "idle")
  BY <1>1, <1>2, BeginLeads DEF IInv
<1>4. ~WillMark(c) /\ ~WillCount(c) /\ s # "commit"
  BY <1>3 DEF At, WillMark, WillCount
<1>. QED
  BY <1>1, <1>3, <1>4, SilentStep DEF BeginMove

LEMMA SyncStep ==
  ASSUME IInv, NEW c \in Call, Sync(c)
  PROVE  IInv'
<1>1. ready \in BOOLEAN /\ "judge" \in CallStep /\ "count" \in CallStep
  BY DEF CallStep, IInv, TypeOK
<1>2. CASE At(c, "gate")
  <2>1. call' = [call EXCEPT ![c].step = "judge", ![c].revision = workspace, ![c].ready = ready]
    BY <1>2 DEF Sync, At
  <2>2. Leads(c, call[c].kind, "judge", call[c].target, call[c].seen, workspace)
    BY <1>1, <2>1, ReadLeads DEF IInv
  <2>3. Checked(call[c].kind, "judge", call[c].target, call[c].seen)
    BY <1>2, CallChecked DEF Checked, At
  <2>4. ~WillMark(c) /\ ~WillCount(c)
    BY <1>2 DEF WillMark, WillCount, At
  <2>. QED
    BY <2>2, <2>3, <2>4, SilentStep DEF Sync
<1>3. CASE At(c, "sync")
  <2>1. call' = [call EXCEPT ![c].step = "count", ![c].revision = workspace, ![c].ready = ready]
    BY <1>3 DEF Sync, At
  <2>2. Leads(c, call[c].kind, "count", call[c].target, call[c].seen, workspace)
    BY <1>1, <2>1, ReadLeads DEF IInv
  <2>3. Checked(call[c].kind, "count", call[c].target, call[c].seen)
    BY <1>3, CallChecked DEF Checked, At
  <2>4. /\ WillMark(c) => call[c].kind = "edit" /\ "count" \in MarkSteps
        /\ WillCount(c) => call[c].kind = "edit"
    BY DEF WillMark, WillCount, MarkSteps
  <2>. QED
    BY <2>2, <2>3, <2>4, SilentStep DEF Sync
<1>. QED
  BY <1>2, <1>3 DEF Sync

LEMMA PersistStep ==
  ASSUME IInv, NEW c \in Call, Persist(c)
  PROVE  IInv'
<1>1. Leads(c, call[c].kind, "commit", call[c].target, call[c].seen, workspace)
  BY ReadCommitLeads DEF IInv, Persist
<1>2. call[c].kind = "latch" /\ workspace \in Revision
  BY CallChecked DEF Persist, Checked, At, IInv, TypeOK
<1>3. Checked(call[c].kind, "commit", call[c].target, call[c].seen)
  BY <1>2 DEF Checked
<1>4. ~WillMark(c) /\ ~WillCount(c)
  BY <1>2 DEF WillMark, WillCount
<1>. QED
  BY <1>1, <1>2, <1>3, <1>4, SilentStep DEF Persist

LEMMA FreezeStep ==
  ASSUME IInv, NEW c \in Call, Freeze(c)
  PROVE  IInv'
<1>1. /\ call[c].kind \in {"enter", "refresh"} /\ workspace \in Revision
      /\ call[c].step = "freeze"
  BY CallChecked DEF Freeze, Checked, At, IInv, TypeOK
<1>2. ~WillMark(c) /\ ~WillCount(c)
  BY <1>1 DEF WillMark, WillCount
<1>3. CASE Return(c)
  BY <1>2, <1>3, ReturnStep DEF Freeze
<1>4. CASE ~Return(c)
  <2>1. call' = [call EXCEPT ![c].step = "commit", ![c].revision = workspace]
    BY <1>4 DEF Freeze
  <2>2. Leads(c, call[c].kind, "commit", call[c].target, call[c].seen, workspace)
    BY <2>1, ReadCommitLeads DEF IInv
  <2>3. Checked(call[c].kind, "commit", call[c].target, call[c].seen)
    BY <1>1, CallChecked DEF Checked
  <2>. QED
    BY <1>1, <1>2, <2>2, <2>3, SilentStep DEF Freeze
<1>. QED
  BY <1>3, <1>4

LEMMA LookStep ==
  ASSUME IInv, NEW c \in Call, Look(c)
  PROVE  IInv'
<1>1. ~WillCount(c) /\ call[c].step = "look"
  BY DEF Look, At, WillCount
<1>2. CASE packet # NoPacket /\ status \in {"submit_review", "applying"} /\ ~dirty
  <2>1. Leads(c, call[c].kind, "mark", call[c].target, call[c].seen, NotCounted)
    BY <1>2, GotoLeads DEF IInv, CallStep, Look
  <2>2. Checked(call[c].kind, "mark", call[c].target, call[c].seen)
    <3>1. Checked(call[c].kind, "look", call[c].target, call[c].seen)
      BY <1>1, CallChecked
    <3>. QED
      BY <3>1 DEF Checked
  <2>3. WillMark(c) => call[c].kind = "edit" /\ "mark" \in MarkSteps
    BY DEF WillMark, MarkSteps
  <2>. QED
    BY <1>1, <2>1, <2>2, <2>3, SilentStep DEF Look
<1>3. CASE ~(packet # NoPacket /\ status \in {"submit_review", "applying"} /\ ~dirty)
  <2>1. Return(c)
    BY <1>3 DEF Look
  <2>2. packet = NoPacket \/ status # "submit_review" \/ dirty
    BY <1>3
  <2>. QED
    BY <1>1, <2>1, <2>2, ReturnStep DEF Look
<1>. QED
  BY <1>2, <1>3

LEMMA CheckStep ==
  ASSUME IInv, NEW c \in Call, Check(c)
  PROVE  IInv'
<1>1. ~WillMark(c) /\ ~WillCount(c) /\ call[c].step = "check"
  BY DEF Check, At, WillMark, WillCount
<1>. DEFINE kind == call[c].kind
            step == AfterCheck(kind)
<1>2. CASE Leads(c, "none", "idle", "applying", "applying", NotCounted)
  <2>1. Checked("none", "idle", "applying", "applying")
    BY DEF Checked
  <2>. QED
    BY <1>1, <1>2, <2>1, SilentStep DEF Check
<1>3. CASE MayProceed(c) /\ Leads(c, kind, step, call[c].target, status, call[c].revision)
  <2>1. Checked(kind, "check", call[c].target, call[c].seen)
    BY <1>1, CallChecked
  <2>2. Checked(kind, step, call[c].target, status)
    <3>2. CASE kind \in {"enter", "back"}
      BY <1>3, <2>1, <3>2 DEF Checked, MayProceed, AfterCheck
    <3>3. CASE kind = "submit"
      BY <1>3, <2>1, <3>3 DEF Checked, MayProceed, AfterCheck
    <3>4. CASE kind \in {"approve", "pause"}
      BY <1>3, <2>1, <3>4 DEF Checked, MayProceed, AfterCheck
    <3>5. CASE kind \notin {"enter", "back", "submit", "approve", "pause"}
      BY <2>1, <3>5 DEF Checked, AfterCheck
    <3>. QED
      BY <3>2, <3>3, <3>4, <3>5
  <2>3. step = "commit" => /\ kind \in {"enter", "refresh", "latch"} => call[c].revision \in Revision
                           /\ kind = "submit" => packet \in Revision
    <3>1. step = "commit" => kind \notin {"enter", "refresh"}
      BY DEF AfterCheck
    <3>2. kind # "latch"
      BY <2>1 DEF Checked
    <3>3. kind = "submit" => packet \in Revision
      BY <1>3 DEF MayProceed, IInv, TypeOK
    <3>. QED
      BY <3>1, <3>2, <3>3
  <2>. QED
    BY <1>1, <1>3, <2>2, <2>3, SilentStep DEF Check
<1>. QED
  BY <1>2, <1>3, CheckLeads DEF IInv

----------------------------------------------------------------------------
(* Steps that write.                                                       *)

\* Of a revision only that it is one is used.
LEMMA ReviseType ==
  ASSUME TypeOK, NEW S, S \subseteq BOOLEAN, Revise(S)
  PROVE  workspace' \in Revision /\ ready' \in BOOLEAN
  BY ConstantsAssumption DEF TypeOK, Revise, Revision

LEMMA BeginEditStep ==
  ASSUME IInv, NEW c \in Call, BeginEdit(c)
  PROVE  IInv'
<1>1. Leads(c, "edit", "sync", "applying", "applying", NotCounted) /\ At(c, "idle")
  <2>1. "edit" \in Kind /\ "sync" \in CallStep /\ "applying" \in Status
    BY DEF Kind, CallStep, Status
  <2>. QED
    BY <2>1, BeginLeads DEF IInv, BeginEdit
<1>2. /\ UNCHANGED <<status, counted, packet, dirty, slips, faults>>
      /\ workspace' \in Revision /\ ready' \in BOOLEAN
  BY ReviseType DEF BeginEdit, reviewVars, IInv
<1>3. TypeOK'
  BY <1>1, <1>2 DEF IInv, TypeOK, Leads
<1>4. MovesAreChecked'
  <2>1. Checked("edit", "sync", "applying", "applying")
    BY DEF Checked
  <2>. QED
    BY <1>1, <2>1, MovesStay DEF IInv
<1>5. PacketsAreThere'
  <2>1. status' = "submit_review" /\ packet' = NoPacket => "packet" \in slips'
    BY <1>2 DEF IInv, PacketsAreThere
  <2>. QED
    BY <1>1, <1>2, <2>1, PacketsStay DEF IInv
<1>6. WillMark(c)' /\ WillCount(c)'
  BY <1>1 DEF Leads, WillMark, WillCount
<1>. QED
  BY <1>3, <1>4, <1>5, <1>6 DEF IInv, ReviewedIsCurrent, CountersCurrent

\* The write of the counters, wherever it leaves the call.
LEMMA CountersStep ==
  ASSUME IInv, NEW c \in Call, NEW k, NEW s, NEW t, NEW sn, NEW r,
         Leads(c, k, s, t, sn, r), WriteCounters(c),
         UNCHANGED <<status, workspaceVars, reviewVars, faults>>,
         Checked(k, s, t, sn),
         s = "commit" => k \notin {"enter", "refresh", "latch", "submit"},
         WillMark(c) => k = "edit" /\ s \in MarkSteps
  PROVE  IInv'
<1>1. /\ UNCHANGED <<status, workspace, ready, packet, dirty, faults>>
      /\ counted' = call[c].revision
      /\ slips' \subseteq {"counters", "packet"}
      /\ "packet" \in slips => "packet" \in slips'
      /\ "counters" \notin slips' => counted' = workspace
  BY DEF WriteCounters, workspaceVars, reviewVars, IInv, TypeOK
<1>2. TypeOK'
  BY <1>1, CallTypes DEF IInv, TypeOK, Leads
<1>3. MovesAreChecked'
  BY MovesStay DEF IInv
<1>4. PacketsAreThere'
  <2>1. status' = "submit_review" /\ packet' = NoPacket => "packet" \in slips'
    BY <1>1 DEF IInv, PacketsAreThere
  <2>. QED
    BY <1>1, <2>1, PacketsStay DEF IInv
<1>5. ReviewedIsCurrent'
  BY <1>1, ReviewedStays DEF IInv
<1>6. CountersCurrent'
  BY <1>1 DEF CountersCurrent
<1>. QED
  BY <1>2, <1>3, <1>4, <1>5, <1>6 DEF IInv

LEMMA JudgeStep ==
  ASSUME IInv, NEW c \in Call, Judge(c)
  PROVE  IInv'
<1>1. ~WillMark(c) /\ call[c].step = "judge"
  BY DEF Judge, At, WillMark
<1>2. Checked(call[c].kind, "judge", call[c].target, call[c].seen)
  BY <1>1, CallChecked
<1>3. "check" \in CallStep /\ "commit" \in CallStep
  BY DEF CallStep
<1>4. CASE call[c].kind = "enter" /\ Goto(c, "check")
  <2>1. Leads(c, call[c].kind, "check", call[c].target, call[c].seen, NotCounted)
    BY <1>3, <1>4, GotoLeads DEF IInv
  <2>2. Checked(call[c].kind, "check", call[c].target, call[c].seen)
    BY <1>2 DEF Checked
  <2>. QED
    BY <1>1, <2>1, <2>2, CountersStep DEF Judge
<1>5. CASE /\ call[c].kind = "route"
           /\ canTransitionApplication(call[c].seen, call[c].target)
           /\ Goto(c, "commit")
  <2>1. Leads(c, call[c].kind, "commit", call[c].target, call[c].seen, NotCounted)
    BY <1>3, <1>5, GotoLeads DEF IInv
  <2>2. Checked(call[c].kind, "commit", call[c].target, call[c].seen)
    BY <1>2, <1>5 DEF Checked
  <2>. QED
    BY <1>1, <1>5, <2>1, <2>2, CountersStep DEF Judge
<1>6. CASE Return(c)
  <2>1. Leads(c, "none", "idle", "applying", "applying", NotCounted)
    BY <1>6, ReturnLeads DEF IInv
  <2>2. Checked("none", "idle", "applying", "applying")
    BY DEF Checked
  <2>. QED
    BY <1>1, <2>1, <2>2, CountersStep DEF Judge
<1>. QED
  BY <1>4, <1>5, <1>6 DEF Judge

LEMMA CountStep ==
  ASSUME IInv, NEW c \in Call, Count(c)
  PROVE  IInv'
<1>1. call[c].step = "count"
  BY DEF Count, At
<1>2. CASE call[c].kind = "edit" \/ (call[c].kind = "back" /\ call[c].captured)
  <2>1. Leads(c, call[c].kind, "look", call[c].target, call[c].seen, NotCounted)
    BY <1>2, GotoLeads DEF IInv, Count, CallStep
  <2>2. Checked(call[c].kind, "look", call[c].target, call[c].seen)
    <3>1. Checked(call[c].kind, "count", call[c].target, call[c].seen)
      BY <1>1, CallChecked
    <3>. QED
      BY <1>2, <3>1 DEF Checked
  <2>3. WillMark(c) => call[c].kind = "edit" /\ "look" \in MarkSteps
    BY DEF WillMark, MarkSteps
  <2>. QED
    BY <2>1, <2>2, <2>3, CountersStep DEF Count
<1>3. CASE ~(call[c].kind = "edit" \/ (call[c].kind = "back" /\ call[c].captured))
  <2>1. Leads(c, "none", "idle", "applying", "applying", NotCounted)
    BY <1>3, ReturnLeads DEF IInv, Count
  <2>2. Checked("none", "idle", "applying", "applying")
    BY DEF Checked
  <2>3. ~WillMark(c)
    BY <1>3 DEF WillMark
  <2>. QED
    BY <2>1, <2>2, <2>3, CountersStep DEF Count
<1>. QED
  BY <1>2, <1>3

LEMMA MarkStep ==
  ASSUME IInv, NEW c \in Call, Mark(c)
  PROVE  IInv'
<1>1. Leads(c, "none", "idle", "applying", "applying", NotCounted)
  BY ReturnLeads DEF IInv, Mark
<1>2. /\ UNCHANGED <<status, workspace, ready, counted, packet, slips, faults>>
      /\ dirty' = TRUE
  BY DEF Mark, workspaceVars
<1>3. TypeOK'
  BY <1>1, <1>2 DEF IInv, TypeOK, Leads
<1>4. MovesAreChecked'
  <2>1. Checked("none", "idle", "applying", "applying")
    BY DEF Checked
  <2>. QED
    BY <1>1, <2>1, MovesStay DEF IInv
<1>5. PacketsAreThere'
  <2>1. status' = "submit_review" /\ packet' = NoPacket => "packet" \in slips'
    BY <1>2 DEF IInv, PacketsAreThere
  <2>. QED
    BY <1>1, <1>2, <2>1, PacketsStay DEF IInv
<1>6. ReviewedIsCurrent'
  BY <1>2 DEF ReviewedIsCurrent
<1>7. CountersCurrent'
  <2>1. ~WillCount(c)
    BY DEF Mark, At, WillCount
  <2>. QED
    BY <1>1, <1>2, <2>1, CountersStay DEF IInv
<1>. QED
  BY <1>3, <1>4, <1>5, <1>6, <1>7 DEF IInv

----------------------------------------------------------------------------
(* Steps that commit, or die.                                              *)

LEMMA CommitStep ==
  ASSUME IInv, NEW c \in Call, NEW k, NEW s, NEW t, NEW sn, NEW r,
         Leads(c, k, s, t, sn, r), s # "commit", Checked(k, s, t, sn),
         status' \in Status, workspace' \in Revision, ready' \in BOOLEAN,
         counted' \in {NotCounted} \cup Revision, packet' = packet \/ packet' \in Revision,
         dirty' \in BOOLEAN, slips' \subseteq {"counters", "packet"}, faults' \in 0..MaxFaults,
         status' = "submit_review" /\ packet' = NoPacket => "packet" \in slips',
         ReviewedIsCurrent', CountersCurrent'
  PROVE  IInv'
<1>1. TypeOK'
  BY DEF IInv, TypeOK, Leads
<1>2. MovesAreChecked'
  BY MovesStay DEF IInv
<1>3. PacketsAreThere'
  BY PacketsStay DEF IInv
<1>. QED
  BY <1>1, <1>2, <1>3 DEF IInv

LEMMA IdleChecked == Checked("none", "idle", "applying", "applying")
  BY DEF Checked

LEMMA CommitFreezeStep ==
  ASSUME IInv, NEW c \in Call, CommitFreeze(c)
  PROVE  IInv'
<1>1. /\ call[c].kind \in {"enter", "refresh"} /\ call[c].step = "commit"
      /\ status' = (IF call[c].kind = "enter" THEN "submit_review" ELSE status)
      /\ UNCHANGED <<workspace, ready, counted, faults>>
      /\ packet' = call[c].revision /\ dirty' = FALSE
      /\ slips' = IF call[c].revision = workspace THEN slips \ {"packet"}
                                                  ELSE slips \cup {"packet"}
  BY DEF CommitFreeze, At, workspaceVars
<1>2. Leads(c, call[c].kind, "sync", "applying", "applying", NotCounted)
  BY FinishLeads DEF IInv, CommitFreeze
<1>3. Checked(call[c].kind, "sync", "applying", "applying")
  BY <1>1 DEF Checked
<1>4. packet' \in Revision
  BY <1>1 DEF IInv, PacketsAreThere, At
<1>5. ReviewedIsCurrent'
  BY <1>1 DEF ReviewedIsCurrent
<1>6. CountersCurrent'
  <2>1. ~WillCount(c)
    BY <1>1 DEF WillCount
  <2>2. "counters" \in slips => "counters" \in slips'
    BY <1>1
  <2>. QED
    BY <1>1, <1>2, <2>1, <2>2, CountersStay DEF IInv
<1>7. /\ status' \in Status /\ workspace' \in Revision /\ ready' \in BOOLEAN
      /\ counted' \in {NotCounted} \cup Revision /\ dirty' \in BOOLEAN
      /\ slips' \subseteq {"counters", "packet"} /\ faults' \in 0..MaxFaults
  BY <1>1 DEF IInv, TypeOK, Status
<1>8. packet' # NoPacket
  BY <1>4 DEF Revision, NoPacket
<1>. QED
  BY <1>2, <1>3, <1>4, <1>5, <1>6, <1>7, <1>8, CommitStep

LEMMA CommitMoveStep ==
  ASSUME IInv, NEW c \in Call, CommitMove(c)
  PROVE  IInv'
<1>1. /\ call[c].kind \in {"back", "submit", "route"} /\ call[c].step = "commit"
      /\ status' = call[c].target
      /\ UNCHANGED <<workspace, ready, counted, packet, dirty, faults>>
      /\ slips' = IF call[c].target = "submit_review" THEN slips \cup {"packet"} ELSE slips
  BY DEF CommitMove, At, workspaceVars, reviewVars
<1>2. Leads(c, call[c].kind, "sync", "applying", "applying", NotCounted)
  BY FinishLeads DEF IInv, CommitMove
<1>3. Checked(call[c].kind, "sync", "applying", "applying")
  BY <1>1 DEF Checked
<1>4. ReviewedIsCurrent'
  BY <1>1 DEF ReviewedIsCurrent
<1>5. CountersCurrent'
  <2>1. ~WillCount(c)
    BY <1>1 DEF WillCount
  <2>2. "counters" \in slips => "counters" \in slips'
    BY <1>1
  <2>. QED
    BY <1>1, <1>2, <2>1, <2>2, CountersStay DEF IInv
<1>6. /\ status' \in Status /\ workspace' \in Revision /\ ready' \in BOOLEAN
      /\ counted' \in {NotCounted} \cup Revision /\ dirty' \in BOOLEAN
      /\ slips' \subseteq {"counters", "packet"} /\ faults' \in 0..MaxFaults
  BY <1>1, CallTypes DEF IInv, TypeOK
<1>7. status' = "submit_review" => "packet" \in slips'
  BY <1>1
<1>. QED
  BY <1>1, <1>2, <1>3, <1>4, <1>5, <1>6, <1>7, CommitStep

LEMMA CommitApproveStep ==
  ASSUME IInv, NEW c \in Call, CommitApprove(c)
  PROVE  IInv'
<1>1. /\ status' = "applying" /\ slips' = slips \cup {"counters"}
      /\ UNCHANGED <<counted, packet, dirty, faults>>
  BY DEF CommitApprove, reviewVars
<1>2. Leads(c, "none", "idle", "applying", "applying", NotCounted)
  BY ReturnLeads DEF IInv, CommitApprove
<1>3. workspace' \in Revision /\ ready' \in BOOLEAN
  BY ReviseType DEF IInv, TypeOK, CommitApprove
<1>4. ReviewedIsCurrent' /\ CountersCurrent'
  BY <1>1 DEF ReviewedIsCurrent, CountersCurrent
<1>5. /\ status' \in Status /\ counted' \in {NotCounted} \cup Revision /\ dirty' \in BOOLEAN
      /\ slips' \subseteq {"counters", "packet"} /\ faults' \in 0..MaxFaults
  BY <1>1 DEF IInv, TypeOK, Status
<1>. QED
  BY <1>1, <1>2, <1>3, <1>4, <1>5, CommitStep, IdleChecked

LEMMA CommitPauseStep ==
  ASSUME IInv, NEW c \in Call, CommitPause(c)
  PROVE  IInv'
<1>1. /\ status' = "paused" /\ call[c].kind = "pause"
      /\ UNCHANGED <<workspace, ready, counted, packet, dirty, slips, faults>>
  BY DEF CommitPause, workspaceVars, reviewVars
<1>2. Leads(c, "none", "idle", "applying", "applying", NotCounted)
  BY ReturnLeads DEF IInv, CommitPause
<1>3. ReviewedIsCurrent'
  BY <1>1 DEF ReviewedIsCurrent
<1>4. CountersCurrent'
  <2>1. ~WillCount(c)
    BY <1>1 DEF WillCount
  <2>. QED
    BY <1>1, <1>2, <2>1, CountersStay DEF IInv
<1>5. /\ status' \in Status /\ workspace' \in Revision /\ ready' \in BOOLEAN
      /\ counted' \in {NotCounted} \cup Revision /\ dirty' \in BOOLEAN
      /\ slips' \subseteq {"counters", "packet"} /\ faults' \in 0..MaxFaults
  BY <1>1 DEF IInv, TypeOK, Status
<1>. QED
  BY <1>1, <1>2, <1>3, <1>4, <1>5, CommitStep, IdleChecked

LEMMA CommitLatchStep ==
  ASSUME IInv, NEW c \in Call, CommitLatch(c)
  PROVE  IInv'
<1>1. /\ UNCHANGED <<status, packet, dirty, faults>>
      /\ counted' = (IF call[c].revision = workspace THEN workspace' ELSE call[c].revision)
      /\ slips' = {"packet"} \cup (IF call[c].revision = workspace THEN {} ELSE {"counters"})
  BY DEF CommitLatch, reviewVars
<1>2. Leads(c, "none", "idle", "applying", "applying", NotCounted)
  BY ReturnLeads DEF IInv, CommitLatch
<1>3. workspace' \in Revision /\ ready' \in BOOLEAN
  BY ReviseType DEF IInv, CommitLatch
<1>4. ReviewedIsCurrent' /\ CountersCurrent'
  BY <1>1 DEF ReviewedIsCurrent, CountersCurrent
<1>5. /\ status' \in Status /\ counted' \in {NotCounted} \cup Revision /\ dirty' \in BOOLEAN
      /\ slips' \subseteq {"counters", "packet"} /\ faults' \in 0..MaxFaults
  BY <1>1, <1>3, CallTypes DEF IInv, TypeOK
<1>. QED
  BY <1>1, <1>2, <1>3, <1>4, <1>5, CommitStep, IdleChecked

LEMMA DiesStep ==
  ASSUME IInv, NEW c \in Call, Dies(c)
  PROVE  IInv'
<1>1. /\ UNCHANGED <<status, workspace, ready, counted, packet, dirty>>
      /\ faults' = faults + 1 /\ faults < MaxFaults
      /\ slips' = slips \cup (IF WillMark(c) THEN {"packet"} ELSE {})
                        \cup (IF WillCount(c) THEN {"counters"} ELSE {})
  BY DEF Dies, workspaceVars, reviewVars
<1>2. Leads(c, "none", "idle", "applying", "applying", NotCounted)
  BY ReturnLeads DEF IInv, Dies
<1>3. ReviewedIsCurrent'
  <2>1. CASE WillMark(c)
    BY <1>1, <2>1 DEF ReviewedIsCurrent
  <2>2. CASE ~WillMark(c)
    <3>1. "packet" \in slips => "packet" \in slips'
      BY <1>1
    <3>. QED
      BY <1>1, <1>2, <2>2, <3>1, ReviewedStays DEF IInv
  <2>. QED
    BY <2>1, <2>2
<1>4. CountersCurrent'
  <2>1. CASE WillCount(c)
    BY <1>1, <2>1 DEF CountersCurrent
  <2>2. CASE ~WillCount(c)
    <3>1. "counters" \in slips => "counters" \in slips'
      BY <1>1
    <3>. QED
      BY <1>1, <1>2, <2>2, <3>1, CountersStay DEF IInv
  <2>. QED
    BY <2>1, <2>2
<1>5. /\ status' \in Status /\ workspace' \in Revision /\ ready' \in BOOLEAN
      /\ counted' \in {NotCounted} \cup Revision /\ dirty' \in BOOLEAN
      /\ slips' \subseteq {"counters", "packet"}
  BY <1>1 DEF IInv, TypeOK
<1>6. faults' \in 0..MaxFaults
  BY <1>1, ConstantsAssumption DEF IInv, TypeOK
<1>7. status' = "submit_review" /\ packet' = NoPacket => "packet" \in slips'
  BY <1>1 DEF IInv, PacketsAreThere
<1>. QED
  BY <1>1, <1>2, <1>3, <1>4, <1>5, <1>6, <1>7, CommitStep, IdleChecked

----------------------------------------------------------------------------
(* The invariant and the theorems.                                         *)

LEMMA Initially == Init => IInv
<1>. SUFFICES ASSUME Init
              PROVE  IInv
  OBVIOUS
<1>1. TypeOK
  <2>1. call \in [Call -> CallState]
    BY IdleCallType DEF Init
  <2>2. 1 \in Revision /\ 0 \in 0..MaxFaults
    BY ConstantsAssumption DEF Revision
  <2>. QED
    BY <2>1, <2>2 DEF Init, TypeOK, Status
<1>2. \A c \in Call : /\ call[c].kind = "none" /\ call[c].step = "idle"
                      /\ call[c].target = "applying" /\ call[c].seen = "applying"
  BY DEF Init, IdleCall
<1>3. MovesAreChecked
  BY <1>2, IdleChecked, MovesChecked
<1>4. PacketsAreThere /\ ReviewedIsCurrent /\ CountersCurrent
  BY <1>2 DEF Init, PacketsAreThere, ReviewedIsCurrent, CountersCurrent, At
<1>. QED
  BY <1>1, <1>3, <1>4 DEF IInv

LEMMA Inductive == IInv /\ [Next]_vars => IInv'
<1>. SUFFICES ASSUME IInv, [Next]_vars
              PROVE  IInv'
  OBVIOUS
<1>1. CASE UNCHANGED vars
  BY <1>1 DEF vars, workspaceVars, reviewVars, IInv, TypeOK, MovesAreChecked, PacketsAreThere,
              ReviewedIsCurrent, CountersCurrent, At, WillMark, WillCount
<1>2. ASSUME NEW c \in Call, BeginEdit(c) \/ BeginLatch(c) \/ BeginMove(c)
      PROVE  IInv'
  BY <1>2, BeginEditStep, BeginLatchStep, BeginMoveStep
<1>3. ASSUME NEW c \in Call, Progress(c)
      PROVE  IInv'
  BY <1>3, SyncStep, JudgeStep, CountStep, LookStep, MarkStep, CheckStep, FreezeStep,
     CommitFreezeStep, CommitMoveStep, CommitApproveStep, CommitPauseStep, PersistStep,
     CommitLatchStep DEF Progress
<1>4. ASSUME NEW c \in Call, Dies(c)
      PROVE  IInv'
  BY <1>4, DiesStep
<1>. QED
  BY <1>1, <1>2, <1>3, <1>4 DEF Next

\* The conjunction of types, checked moves, packets, review and counters holds
\* in every reachable state.
THEOREM ReviewInvariant == Spec => []IInv
  BY Initially, Inductive, PTL DEF Spec

\* Every variable of the workspace and of its calls keeps its type.
THEOREM ReviewTypeCorrect == Spec => []TypeOK
<1>1. IInv => TypeOK
  BY DEF IInv
<1>. QED
  BY <1>1, ReviewInvariant, PTL

\* freezeSubmitReviewPacket and markSubmitReviewPacketDirty: what is reviewed
\* without a mark is what was frozen, but for the known slips.
THEOREM ReviewedStaysCurrent == Spec => []ReviewedIsCurrent
<1>1. IInv => ReviewedIsCurrent
  BY DEF IInv
<1>. QED
  BY <1>1, ReviewInvariant, PTL

\* syncApplicationReadiness: the counters are those of the workspace, but for
\* the known slips.
THEOREM CountersStayCurrent == Spec => []CountersCurrent
<1>1. IInv => CountersCurrent
  BY DEF IInv
<1>. QED
  BY <1>1, ReviewInvariant, PTL

\* The ways in which a step writes the status.
LEMMA StatusSteps ==
  ASSUME Next, status' # status
  PROVE  \E c \in Call :
           \/ CommitFreeze(c) /\ call[c].kind = "enter"
           \/ CommitMove(c)
           \/ CommitApprove(c)
           \/ CommitPause(c)
<1>1. PICK c \in Call : BeginEdit(c) \/ BeginLatch(c) \/ BeginMove(c) \/ Progress(c) \/ Dies(c)
  BY DEF Next
<1>2. ~BeginEdit(c) /\ ~BeginLatch(c) /\ ~BeginMove(c) /\ ~Dies(c)
  BY DEF BeginEdit, BeginLatch, BeginMove, Dies
<1>3. ~Sync(c) /\ ~Judge(c) /\ ~Count(c) /\ ~Look(c) /\ ~Mark(c) /\ ~Check(c) /\ ~Freeze(c)
      /\ ~Persist(c) /\ ~CommitLatch(c)
  BY DEF Sync, Judge, Count, Look, Mark, Check, Freeze, Persist, CommitLatch
<1>4. CommitFreeze(c) => call[c].kind = "enter"
  BY DEF CommitFreeze
<1>. QED
  BY <1>1, <1>2, <1>3, <1>4 DEF Progress

\* A step that commits moves its call.
LEMMA CommitMoves ==
  ASSUME IInv, NEW c \in Call, At(c, "commit"),
         Return(c) \/ Finish(c)
  PROVE  call'[c] # call[c]
<1>1. CASE Return(c)
  BY <1>1, ReturnLeads DEF IInv, Leads, At
<1>2. CASE Finish(c)
  BY <1>2, FinishLeads DEF IInv, Leads, At
<1>. QED
  BY <1>1, <1>2

\* markApplicationSubmitted: a submission that the route did not record has a
\* frozen packet.
THEOREM SubmissionNeedsPacket == Spec => SubmissionHasPacket
<1>1. ASSUME IInv, Next, status' = "submitted", status # "submitted"
      PROVE  \/ packet # NoPacket
             \/ \E c \in Call : call'[c] # call[c] /\ call[c].kind = "route"
  <2>1. PICK c \in Call : \/ CommitFreeze(c) /\ call[c].kind = "enter"
                          \/ CommitMove(c)
                          \/ CommitApprove(c)
                          \/ CommitPause(c)
    BY <1>1, StatusSteps
  <2>2. CommitMove(c)
    BY <1>1, <2>1 DEF CommitFreeze, CommitApprove, CommitPause
  <2>3. call[c].kind # "back"
    <3>1. Checked(call[c].kind, call[c].step, call[c].target, call[c].seen)
      BY <1>1, CallChecked
    <3>. QED
      BY <1>1, <2>2, <3>1 DEF Checked, CommitMove
  <2>4. CASE call[c].kind = "submit"
    BY <1>1, <2>2, <2>4 DEF CommitMove, IInv, PacketsAreThere, Revision, NoPacket
  <2>5. CASE call[c].kind = "route"
    <3>1. call'[c] # call[c]
      BY <1>1, <2>2, CommitMoves DEF CommitMove
    <3>. QED
      BY <2>5, <3>1
  <2>. QED
    BY <2>2, <2>3, <2>4, <2>5 DEF CommitMove
<1>2. IInv /\ [Next]_vars =>
        [status' = "submitted" /\ status # "submitted" =>
           \/ packet # NoPacket
           \/ \E c \in Call : call'[c] # call[c] /\ call[c].kind = "route"]_vars
  BY <1>1
<1>. QED
  BY <1>2, ReviewInvariant, PTL DEF Spec, SubmissionHasPacket

\* assertApplicationTransition: a move that state.ts does not list was checked
\* against a status that another call has overwritten.
THEOREM MovesAreLegal == Spec => LegalUnlessOvertaken
<1>1. ASSUME IInv, Next, status' # status, ~canTransitionApplication(status, status')
      PROVE  \E c \in Call : call'[c] # call[c] /\ call[c].seen # status
  <2>1. PICK c \in Call : \/ CommitFreeze(c) /\ call[c].kind = "enter"
                          \/ CommitMove(c)
                          \/ CommitApprove(c)
                          \/ CommitPause(c)
    BY <1>1, StatusSteps
  <2>2. At(c, "commit") /\ (Return(c) \/ Finish(c))
    BY <2>1 DEF CommitFreeze, CommitMove, CommitApprove, CommitPause
  <2>3. Checked(call[c].kind, "commit", call[c].target, call[c].seen)
    BY <1>1, <2>2, CallChecked DEF At
  <2>4. \/ canTransitionApplication(call[c].seen, status')
        \/ call[c].seen = status'
    <3>1. CASE CommitFreeze(c) /\ call[c].kind = "enter"
      BY <2>3, <3>1 DEF CommitFreeze, Checked
    <3>2. CASE CommitMove(c)
      BY <2>3, <3>2 DEF CommitMove, Checked
    <3>3. CASE CommitApprove(c)
      BY <2>3, <3>3 DEF CommitApprove, Checked
    <3>4. CASE CommitPause(c)
      BY <2>3, <3>4 DEF CommitPause, Checked
    <3>. QED
      BY <2>1, <3>1, <3>2, <3>3, <3>4
  <2>5. call[c].seen # status
    BY <1>1, <2>4
  <2>6. call'[c] # call[c]
    BY <1>1, <2>2, CommitMoves
  <2>. QED
    BY <2>5, <2>6
<1>2. IInv /\ [Next]_vars =>
        [status' # status /\ ~canTransitionApplication(status, status') =>
           \E c \in Call : call'[c] # call[c] /\ call[c].seen # status]_vars
  BY <1>1
<1>. QED
  BY <1>2, ReviewInvariant, PTL DEF Spec, LegalUnlessOvertaken

=============================================================================
