---------------------------- MODULE SubmitReview ----------------------------
(***************************************************************************)
(* The workspace of an approved application and its review packet          *)
(* (apps/web: the application's server actions and status route; the Latch *)
(* worker and the Needle approval, which write the same rows).             *)
(*                                                                         *)
(* The workspace (tailored resume, attachments, answers, portal) is kept   *)
(* as a revision number.  Two records are derived from it: the readiness   *)
(* counters, and the packet frozen when the application enters review.     *)
(* Nothing but the handlers keeps them up to date: each change is followed *)
(* by a sync of the counters and by a mark that a frozen packet is dirty,  *)
(* in statements of their own.                                             *)
(*                                                                         *)
(* A call is one invocation of a handler; a step is one statement or one   *)
(* transaction under READ COMMITTED.                                       *)
(***************************************************************************)
EXTENDS Naturals, JobOpsState

CONSTANTS
  Call,              \* the invocations that may be open at the same time
  MaxRevision,       \* bound: revisions of the workspace
  MaxFaults          \* bound: calls that die half-way

ASSUME ConstantsAssumption == MaxRevision \in Nat \ {0} /\ MaxFaults \in Nat

VARIABLES
  status,            \* Application.status
  workspace,         \* the current revision of the workspace
  ready,             \* evaluateApplicationReadiness of it has no hard blocker
  counted,           \* the revision the readiness counters were computed from
  packet,            \* the revision in submitReviewPacketJson
  dirty,             \* submitReviewDirtyAt is set
  call,              \* where each call is, and what it has read
  slips,             \* history: which derived record a step has left behind
  faults             \* calls that died so far

workspaceVars == <<workspace, ready>>
reviewVars == <<packet, dirty>>
vars == <<status, workspaceVars, counted, reviewVars, call, slips, faults>>

----------------------------------------------------------------------------

NotCounted == 0
NoPacket == 0
Revision == 1..MaxRevision

\* An application comes here approved, and leaves for tailoring again (which
\* is another module's) only by way of `paused'.
Status == {"applying", "submit_review", "submitted", "paused"}

Kind == {"none", "edit", "enter", "back", "submit", "refresh", "route",
         "approve", "pause", "latch"}

CallStep == {"idle", "gate", "judge", "check", "freeze", "persist", "commit", "sync",
             "count", "look", "mark"}

\* What a call knows: the status it is to write, the status it read, whether it
\* saw a frozen packet, and the revision it read with its readiness.
CallState == [kind : Kind, step : CallStep, target : Status, seen : Status,
              captured : BOOLEAN, revision : {NotCounted} \cup Revision, ready : BOOLEAN]

IdleCall == [kind |-> "none", step |-> "idle", target |-> "applying", seen |-> "applying",
             captured |-> FALSE, revision |-> NotCounted, ready |-> FALSE]

TypeOK ==
  /\ status \in Status
  /\ workspace \in Revision
  /\ ready \in BOOLEAN
  /\ counted \in {NotCounted} \cup Revision
  /\ packet \in {NoPacket} \cup Revision
  /\ dirty \in BOOLEAN
  /\ call \in [Call -> CallState]
  /\ slips \subseteq {"counters", "packet"}
  /\ faults \in 0..MaxFaults

\* An application just approved: its resume is attached and nothing is required
\* of it yet; an approval does not sync the counters.
Init ==
  /\ status = "applying"
  /\ workspace = 1
  /\ ready = TRUE
  /\ counted = NotCounted
  /\ packet = NoPacket
  /\ dirty = FALSE
  /\ call = [c \in Call |-> IdleCall]
  /\ slips = {"counters"}
  /\ faults = 0

At(c, step) == call[c].step = step
Goto(c, step) ==
  call' = [call EXCEPT ![c].step = step, ![c].revision = NotCounted, ![c].ready = FALSE]
Return(c) == call' = [call EXCEPT ![c] = IdleCall]

\* A handler that has committed goes on with what it still needs.
Finish(c) ==
  call' = [call EXCEPT ![c] = [IdleCall EXCEPT !.kind = call[c].kind, !.step = "sync",
                                               !.captured = call[c].captured]]

Begin(c, kind, step, target) ==
  /\ At(c, "idle")
  /\ call' = [call EXCEPT ![c] = [IdleCall EXCEPT !.kind = kind, !.step = step,
                                                  !.target = target]]

\* A new revision of the workspace, ready or not as `readiness' allows.
Revise(readiness) ==
  /\ workspace < MaxRevision
  /\ workspace' = workspace + 1
  /\ ready' \in readiness

\* The transaction that enters review updates the application before it freezes
\* the packet, and holds the row until it commits: nobody else writes the row.
HoldsRow(c) == call[c].kind = "enter" /\ At(c, "commit")
RowIsFree(c) == \A d \in Call \ {c} : ~HoldsRow(d)

----------------------------------------------------------------------------
(* Changes of the workspace.                                               *)

\* saveApplicationAnswer, applyProfileAnswerToApplication,
\* addApplicationAttachment and savePortalSession write first, whatever the
\* status of the application.
BeginEdit(c) ==
  /\ Begin(c, "edit", "sync", "applying")
  /\ Revise(BOOLEAN)
  /\ UNCHANGED <<status, counted, reviewVars, slips, faults>>

\* A Latch worker has claimed a task of the application; its agent works on.
BeginLatch(c) ==
  /\ Begin(c, "latch", "persist", "applying")
  /\ UNCHANGED <<status, workspaceVars, counted, reviewVars, slips, faults>>

\* In one transaction the result is written, the readiness computed from it and
\* from what others have committed, and the counters are written.
Persist(c) ==
  /\ At(c, "persist")
  /\ call' = [call EXCEPT ![c].step = "commit", ![c].revision = workspace]
  /\ UNCHANGED <<status, workspaceVars, counted, reviewVars, slips, faults>>

\* Faulty variant: the result is persisted without the counters.
CommitLatchUncounted(c) ==
  /\ call[c].kind = "latch" /\ At(c, "commit")
  /\ RowIsFree(c)
  /\ Revise(BOOLEAN)
  /\ slips' = {"packet"}
  /\ Return(c)
  /\ UNCHANGED <<status, counted, reviewVars, faults>>

\* The commit marks no packet.  If the workspace was changed since it was read,
\* the counters are of neither revision.
CommitLatch(c) ==
  /\ call[c].kind = "latch" /\ At(c, "commit")
  /\ RowIsFree(c)
  /\ Revise(BOOLEAN)
  /\ counted' = IF call[c].revision = workspace THEN workspace' ELSE call[c].revision
  /\ slips' = {"packet"} \cup (IF call[c].revision = workspace THEN {} ELSE {"counters"})
  /\ Return(c)
  /\ UNCHANGED <<status, reviewVars, faults>>

----------------------------------------------------------------------------
(* Readiness: syncApplicationReadiness, a read and a write.                *)

\* `gate' and `judge' are the sync that lets an application enter review;
\* `sync' and `count' the one that ends most handlers.
Sync(c) ==
  /\ \/ At(c, "gate") /\ call' = [call EXCEPT ![c].step = "judge",
                                   ![c].revision = workspace, ![c].ready = ready]
     \/ At(c, "sync") /\ call' = [call EXCEPT ![c].step = "count",
                                   ![c].revision = workspace, ![c].ready = ready]
  /\ UNCHANGED <<status, workspaceVars, counted, reviewVars, slips, faults>>

WriteCounters(c) ==
  /\ RowIsFree(c)
  /\ counted' = call[c].revision
  /\ slips' = IF call[c].revision = workspace THEN slips \ {"counters"}
                                              ELSE slips \cup {"counters"}

\* Faulty variant: the route does not assert the transition.
JudgeWithoutAssert(c) ==
  /\ At(c, "judge")
  /\ WriteCounters(c)
  /\ IF call[c].ready \/ call[c].target # "submit_review"
       THEN Goto(c, IF call[c].kind = "enter" THEN "check" ELSE "commit")
       ELSE Return(c)
  /\ UNCHANGED <<status, workspaceVars, reviewVars, faults>>

\* moveApplicationToSubmitReview and the route go on only if what they read is
\* ready, unless the route leads elsewhere; the route asserts the transition now.
Judge(c) ==
  /\ At(c, "judge")
  /\ WriteCounters(c)
  /\ \/ /\ call[c].kind = "enter" /\ call[c].ready
        /\ Goto(c, "check")
     \/ /\ call[c].kind = "route"
        /\ call[c].ready \/ call[c].target # "submit_review"
        /\ canTransitionApplication(call[c].seen, call[c].target)
        /\ Goto(c, "commit")
     \/ /\ \/ ~call[c].ready /\ call[c].target = "submit_review"
           \/ call[c].kind = "route" /\ ~canTransitionApplication(call[c].seen, call[c].target)
        /\ Return(c)
  /\ UNCHANGED <<status, workspaceVars, reviewVars, faults>>

\* A handler that changed what a frozen packet shows goes on to mark it.
Count(c) ==
  /\ At(c, "count")
  /\ WriteCounters(c)
  /\ IF call[c].kind = "edit" \/ (call[c].kind = "back" /\ call[c].captured)
       THEN Goto(c, "look")
       ELSE Return(c)
  /\ UNCHANGED <<status, workspaceVars, reviewVars, faults>>

----------------------------------------------------------------------------
(* markSubmitReviewPacketDirty, a read and a write.                        *)

\* Faulty variant: a packet is not marked again once the application is back in
\* review.
LookWhileApplying(c) ==
  /\ At(c, "look")
  /\ IF packet # NoPacket /\ status = "applying" /\ ~dirty THEN Goto(c, "mark") ELSE Return(c)
  /\ UNCHANGED <<status, workspaceVars, counted, reviewVars, slips, faults>>

Look(c) ==
  /\ At(c, "look")
  /\ IF packet # NoPacket /\ status \in {"submit_review", "applying"} /\ ~dirty
       THEN Goto(c, "mark")
       ELSE Return(c)
  /\ UNCHANGED <<status, workspaceVars, counted, reviewVars, slips, faults>>

Mark(c) ==
  /\ At(c, "mark")
  /\ RowIsFree(c)
  /\ dirty' = TRUE
  /\ Return(c)
  /\ UNCHANGED <<status, workspaceVars, counted, packet, slips, faults>>

----------------------------------------------------------------------------
(* Moves: the server actions, the status route, approval and pause.        *)

\* Faulty variant: going back goes to the status before the approval.
BeginBackToTailoring(c) == Begin(c, "back", "check", "tailoring")

BeginEnter(c)   == Begin(c, "enter", "gate", "submit_review")
BeginBack(c)    == Begin(c, "back", "check", "applying")
BeginSubmit(c)  == Begin(c, "submit", "check", "submitted")
BeginRefresh(c) == Begin(c, "refresh", "check", "submit_review")
BeginApprove(c) == Begin(c, "approve", "check", "applying")
BeginPause(c)   == Begin(c, "pause", "check", "paused")
BeginRoute(c, target) ==
  /\ target \in {"submit_review", "applying", "submitted"}
  /\ Begin(c, "route", "check", target)

BeginMove(c) ==
  /\ \/ BeginEnter(c)
     \/ BeginBack(c)
     \/ BeginSubmit(c)
     \/ BeginRefresh(c)
     \/ BeginApprove(c)
     \/ BeginPause(c)
     \/ \E target \in Status : BeginRoute(c, target)
  /\ UNCHANGED <<status, workspaceVars, counted, reviewVars, slips, faults>>

\* Faulty variant: every handler checks the transition, and nothing else.
MayProceedUnreviewed(c) ==
  canTransitionApplication(status, call[c].target) \/ status = call[c].target

\* The guards on the application as it is read, before the transaction; the
\* route only reads it here.
MayProceed(c) ==
  CASE call[c].kind \in {"enter", "back"} -> canTransitionApplication(status, call[c].target)
    [] call[c].kind = "submit" ->
         canTransitionApplication(status, "submitted") /\ packet # NoPacket /\ ~dirty
    [] call[c].kind = "refresh" -> status = "submit_review"
    [] call[c].kind \in {"approve", "pause"} ->
         status = call[c].target \/ canTransitionApplication(status, call[c].target)
    [] OTHER -> TRUE

Check(c) ==
  /\ At(c, "check")
  /\ \/ /\ MayProceed(c)
        /\ call' = [call EXCEPT ![c].seen = status,
             ![c].captured = call[c].kind = "back" /\ packet # NoPacket,
             ![c].step = CASE call[c].kind \in {"enter", "refresh"} -> "freeze"
                           [] call[c].kind = "route" -> "gate"
                           [] OTHER -> "commit"]
     \/ ~MayProceed(c) /\ Return(c)
  /\ UNCHANGED <<status, workspaceVars, counted, reviewVars, slips, faults>>

\* freezeSubmitReviewPacket reads the workspace and its readiness anew; a
\* workspace that is not ready rolls the transaction back.
Freeze(c) ==
  /\ At(c, "freeze")
  /\ call[c].kind = "enter" => RowIsFree(c)
  /\ IF ready THEN call' = [call EXCEPT ![c].step = "commit", ![c].revision = workspace]
              ELSE Return(c)
  /\ UNCHANGED <<status, workspaceVars, counted, reviewVars, slips, faults>>

\* The freezing transaction writes the packet and clears the mark.  A packet
\* that was overtaken since it was read stays behind unnoticed.
CommitFreeze(c) ==
  /\ call[c].kind \in {"enter", "refresh"} /\ At(c, "commit")
  /\ RowIsFree(c)
  /\ status' = IF call[c].kind = "enter" THEN "submit_review" ELSE status
  /\ packet' = call[c].revision
  /\ dirty' = FALSE
  /\ slips' = IF call[c].revision = workspace THEN slips \ {"packet"}
                                              ELSE slips \cup {"packet"}
  /\ Finish(c)
  /\ UNCHANGED <<workspaceVars, counted, faults>>

\* The other transitions write the status by id.  The route enters review
\* without a packet of its own.
CommitMove(c) ==
  /\ call[c].kind \in {"back", "submit", "route"} /\ At(c, "commit")
  /\ RowIsFree(c)
  /\ status' = call[c].target
  /\ slips' = IF call[c].target = "submit_review" THEN slips \cup {"packet"} ELSE slips
  /\ Finish(c)
  /\ UNCHANGED <<workspaceVars, counted, reviewVars, faults>>

\* An approval replaces the resume and its attachment, which can only remove
\* blockers; it syncs nothing.
CommitApprove(c) ==
  /\ call[c].kind = "approve" /\ At(c, "commit")
  /\ RowIsFree(c)
  /\ status' = "applying"
  /\ Revise({ready, TRUE})
  /\ slips' = slips \cup {"counters"}
  /\ Return(c)
  /\ UNCHANGED <<counted, reviewVars, faults>>

CommitPause(c) ==
  /\ call[c].kind = "pause" /\ At(c, "commit")
  /\ RowIsFree(c)
  /\ status' = "paused"
  /\ Return(c)
  /\ UNCHANGED <<workspaceVars, counted, reviewVars, slips, faults>>

----------------------------------------------------------------------------

\* A call has changed the workspace and its mark is still to come.
WillMark(c) == call[c].kind = "edit" /\ call[c].step \in {"sync", "count", "look", "mark"}

\* A call has changed the workspace and its sync is still to come.
WillCount(c) == call[c].kind = "edit" /\ call[c].step \in {"sync", "count"}

\* The process of a call dies; what it has not written stays unwritten.
Dies(c) ==
  /\ ~At(c, "idle")
  /\ faults < MaxFaults
  /\ faults' = faults + 1
  /\ slips' = slips \cup (IF WillMark(c) THEN {"packet"} ELSE {})
                    \cup (IF WillCount(c) THEN {"counters"} ELSE {})
  /\ Return(c)
  /\ UNCHANGED <<status, workspaceVars, counted, reviewVars>>

\* What a call does once it is open.
Progress(c) ==
  \/ Sync(c)
  \/ Judge(c)
  \/ Count(c)
  \/ Look(c)
  \/ Mark(c)
  \/ Check(c)
  \/ Freeze(c)
  \/ CommitFreeze(c)
  \/ CommitMove(c)
  \/ CommitApprove(c)
  \/ CommitPause(c)
  \/ Persist(c)
  \/ CommitLatch(c)

Next ==
  \E c \in Call :
    \/ BeginEdit(c)
    \/ BeginLatch(c)
    \/ BeginMove(c)
    \/ Progress(c)
    \/ Dies(c)

Spec == Init /\ [][Next]_vars

----------------------------------------------------------------------------
(* Properties.                                                             *)

\* What is under review, without a mark that it is stale, is what was frozen:
\* a packet behind its workspace is marked or about to be.  The exceptions are
\* the known ways to slip through: a change between a freeze's read and its
\* commit, a Latch result, an entry by the status route, an edit that died.
ReviewedIsCurrent ==
  status = "submit_review" /\ ~dirty /\ "packet" \notin slips =>
    \/ packet = workspace
    \/ \E c \in Call : WillMark(c)

\* The readiness counters are those of the workspace, or about to be, unless an
\* approval, or a sync or a Latch result that was overtaken, left them behind.
CountersCurrent ==
  "counters" \notin slips =>
    \/ counted = workspace
    \/ \E c \in Call : WillCount(c)

\* A submission recorded on the review page has a packet, also when the
\* application entered review by the status route, which does not freeze one.
SubmissionHasPacket ==
  [][status' = "submitted" /\ status # "submitted" =>
       \/ packet # NoPacket
       \/ \E c \in Call : call'[c] # call[c] /\ call[c].kind = "route"]_vars

\* Every move follows state.ts, unless the status it was checked against has
\* been written by another call since.
LegalUnlessOvertaken ==
  [][status' # status /\ ~canTransitionApplication(status, status') =>
       \E c \in Call : call'[c] # call[c] /\ call[c].seen # status]_vars

----------------------------------------------------------------------------
(* The inductive invariant behind the safety properties.                   *)

\* A transition that has been checked goes where the table allows to go from
\* the status that was read, and a step belongs to the handlers that have it.
MovesAreChecked ==
  \A c \in Call :
    LET k == call[c].kind
    IN /\ k \in {"enter", "back", "submit", "route"} /\ call[c].step \in {"freeze", "commit"}
            => canTransitionApplication(call[c].seen, call[c].target)
       /\ k \in {"approve", "pause"} /\ At(c, "commit")
            => \/ call[c].seen = call[c].target
               \/ canTransitionApplication(call[c].seen, call[c].target)
       /\ k = "enter" => At(c, "sync") \/ At(c, "count") \/ call[c].target = "submit_review"
       /\ k = "submit" => At(c, "sync") \/ At(c, "count") \/ call[c].target = "submitted"
       /\ k \in {"back", "approve"} => call[c].target = "applying"
       /\ k = "pause" => call[c].target = "paused"
       /\ k = "latch" => At(c, "persist") \/ At(c, "commit")
       /\ At(c, "persist") => k = "latch"
       /\ At(c, "freeze") => k \in {"enter", "refresh"}

\* A packet about to be written shows a revision, and one that was checked is
\* there to stay; only the route brings an application into review without one.
PacketsAreThere ==
  /\ \A c \in Call :
       At(c, "commit") =>
         /\ call[c].kind \in {"enter", "refresh", "latch"} => call[c].revision \in Revision
         /\ call[c].kind = "submit" => packet \in Revision
  /\ status = "submit_review" /\ packet = NoPacket => "packet" \in slips

IInv ==
  /\ TypeOK
  /\ MovesAreChecked
  /\ PacketsAreThere
  /\ ReviewedIsCurrent
  /\ CountersCurrent

----------------------------------------------------------------------------
(* What the specification of the milestone asks for, and the code does not *)
(* give.                                                                   *)

\* An application under review has a frozen packet.
ReviewHasPacket == status = "submit_review" => packet # NoPacket

\* When no call is open, a packet under review that is not marked is the current
\* workspace.
NoSilentDrift ==
  (status = "submit_review" /\ packet # NoPacket /\ ~dirty /\ \A c \in Call : At(c, "idle"))
    => packet = workspace

=============================================================================
