------------------------- MODULE LatchHandoffProofs -------------------------
(***************************************************************************)
(* Which resume and portal an application ends up with after its hand-over *)
(* to Latch, for any requests, operators, workers and bounds, and that the *)
(* Latch queue implements TaskLedger.                                      *)
(***************************************************************************)
EXTENDS LatchHandoff, FiniteSetTheorems, SequenceTheorems, WellFoundedInduction, TLAPS

----------------------------------------------------------------------------
(* The inductive invariant.                                                *)

AnyVersion == {NoVersion} \cup Version

PlanState == [action : {"none", "existing", "update", "create"},
              row : {Attachment!NoRow} \cup Row, version : Resume, url : Resume]

WorkerState == [step : WorkerStep, task : {NoTask} \cup Task, after : Nat,
                attached : Resume, plan : PlanState]

MoveState == [to : {"none"} \cup ApplicationStatus, portal : Portal, touches : BOOLEAN]

Types ==
  /\ status \in ApplicationStatus
  /\ selected \in AnyVersion
  /\ drafted \in Version
  /\ approved \subseteq Version
  /\ approvals \in Nat
  /\ rows \subseteq Row
  /\ portal \in Portal
  /\ newest \in Portal
  /\ drafting \in {"none", "stay", "review"}
  /\ drafting # "none" => drafted < MaxVersions
  /\ move \in MoveState
  /\ saving \in BOOLEAN
  /\ task \in [Task -> TaskRow]
  /\ asked \subseteq Task
  /\ session \in Seq(Task)
  /\ call \in [Caller -> CallState]
  /\ worker \in [Worker -> WorkerState]
  /\ calm \in BOOLEAN
  /\ honest \in BOOLEAN
  /\ portalCalm \in BOOLEAN
  /\ chosen \in Portal

\* The attachments are numbered from one, under the last approval.
RowsNumbered ==
  /\ \E n \in 0..MaxKeys : {row.key : row \in rows} = {<<approvals, i>> : i \in 1..n}
  /\ \A one, other \in rows : one.key = other.key => one = other

\* A caller in state k that is about to commit is an approval or an operator, an
\* approval is of a version, and the task that was found is there.
WellCalled(k, tasks) ==
  /\ k.step = "checked" => k.by = "approval"
  /\ k.by = "approval" => k.version \in Version
  /\ k.by = "operator" => k.step = "commit"
  /\ k.step = "commit" => k.by \in {"approval", "operator"}
  /\ k.found # NoTask => tasks[k.found].status # "absent"
  /\ k.step = "commit" /\ k.stale => k.found # NoTask

\* A worker in state k has a task that was started, and has read no more of the
\* session than there is.
WellEmployed(k, tasks, length) ==
  /\ k.step # "idle" => k.task \in Task /\ tasks[k.task].started
  /\ k.after <= length

\* Only a task that has left the queue is started, and only started tasks are
\* asked about and answered.
TasksKnown ==
  /\ \A c \in Caller : WellCalled(call[c], task)
  /\ \A w \in Worker : WellEmployed(worker[w], task, Len(session))
  /\ \A t \in Task : task[t].status \in {"absent", "queued"} => ~task[t].started
  /\ \A t \in asked : task[t].started
  /\ \A n \in 1..Len(session) : task[session[n]].started

\* Whoever may still write the portal or its newest session writes the one the
\* user chose.
PortalKept ==
  portalCalm =>
    /\ newest = chosen
    /\ ~saving => portal = chosen
    /\ move.touches => move.portal = chosen
    /\ \A c \in Caller : call[c].step = "commit" => call[c].portal = chosen
    /\ \A t \in Task : IsActive(t) => task[t].portal = chosen
    /\ \A w \in Worker : worker[w].step # "idle" => task[worker[w].task].portal = chosen

\* What a worker in state k is about to attach is one of V.
Attaches(V, k) ==
  /\ k.step \in {"persist", "commit"} => k.attached \in V
  /\ k.step = "commit" /\ k.plan.action \in {"update", "create"} =>
       k.plan.version \in V \ {NoVersion}

\* Whoever names a resume names an approved one.
Final == approved \cup {NoVersion}

DraftsKept ==
  /\ DraftsStayDrafts
  /\ \A c \in Caller : call[c].by = "operator" => call[c].version \in Final
  /\ honest => \A w \in Worker : Attaches(Final, worker[w])

\* The task and the replies of a worker in state k concern version v alone.
About(v, k, tasks, replies) ==
  /\ k.step # "idle" => tasks[k.task].version = v
  /\ k.step = "wait" => \A n \in 1..Len(replies) : n > k.after => tasks[replies[n]].version = v

\* Whoever may still write an attachment writes that of the selected version.
ResumeKept ==
  calm /\ approvals > 0 =>
    /\ \E t \in Task : task[t].version = selected
    /\ \A c \in Caller : call[c].by = "operator" => call[c].version = selected
    /\ \A t \in Task : IsActive(t) \/ t \in asked => task[t].version = selected
    /\ \A w \in Worker : About(selected, worker[w], task, session)
    /\ honest => /\ \E row \in rows : row.version = selected
                 /\ \A w \in Worker : Attaches({NoVersion, selected}, worker[w])

IInv ==
  /\ Types
  /\ RowsNumbered
  /\ TasksKnown
  /\ PortalKept
  /\ DraftsKept
  /\ ResumeKept

----------------------------------------------------------------------------
(* Types.                                                                  *)

LEMMA Sizes ==
  /\ MaxVersions \in Nat \ {0} /\ MaxTasks \in Nat \ {0}
  /\ MaxKeys \in Nat \ {0} /\ MaxPortals \in Nat \ {0}
  /\ NoVersion \notin Version /\ NoTask \notin Task
  /\ FirstPortal \in Portal /\ 1 \in Version
  /\ AnyVersion \subseteq Resume /\ NoVersion \in AnyVersion
  BY ConstantsAssumption DEF NoVersion, Version, NoTask, Task, FirstPortal, Portal, AnyVersion,
     Resume

LEMMA IdleTyped ==
  /\ IdleCall \in CallState /\ IdleCall.step = "idle" /\ IdleCall.by = "none"
  /\ IdleCall.found = NoTask /\ IdleCall.version = NoVersion
  /\ IdleWorker \in WorkerState /\ IdleWorker.step = "idle" /\ IdleWorker.after = 0
  /\ AbsentTask \in TaskRow /\ AbsentTask.status = "absent" /\ ~AbsentTask.started
  /\ AbsentTask.version = NoVersion
  /\ NoMove \in MoveState /\ NoMove.touches = FALSE
<1>1. IdleCall \in CallState
  BY Sizes DEF IdleCall, CallState, CallStep
<1>2. IdleWorker \in WorkerState
  <2>1. Attachment!NoPlan \in PlanState
    BY DEF Attachment!NoPlan, Attachment!Plan, PlanState, Resume
  <2>. QED
    BY <2>1 DEF IdleWorker, WorkerState, WorkerStep, Resume
<1>3. AbsentTask \in TaskRow
  BY Sizes DEF AbsentTask, TaskRow, TaskStatus
<1>4. NoMove \in MoveState
  BY Sizes DEF NoMove, MoveState
<1>. QED
  BY <1>1, <1>2, <1>3, <1>4 DEF IdleCall, IdleWorker, AbsentTask, NoMove

LEMMA CallTypes ==
  ASSUME IInv, NEW c \in Caller
  PROVE  /\ call[c] \in CallState
         /\ call[c].step \in CallStep /\ call[c].by \in {"none", "approval", "operator"}
         /\ call[c].version \in AnyVersion /\ call[c].portal \in Portal
         /\ call[c].found \in {NoTask} \cup Task /\ call[c].stale \in BOOLEAN
         /\ WellCalled(call[c], task)
  BY DEF IInv, Types, CallState, AnyVersion, TasksKnown

LEMMA WorkerTypes ==
  ASSUME IInv, NEW w \in Worker
  PROVE  /\ worker[w] \in WorkerState
         /\ worker[w].step \in WorkerStep /\ worker[w].task \in {NoTask} \cup Task
         /\ worker[w].after \in Nat /\ worker[w].attached \in Resume
         /\ worker[w].plan \in PlanState
         /\ WellEmployed(worker[w], task, Len(session))
         /\ worker[w].step # "idle" => worker[w].task \in Task /\ task[worker[w].task].started
  BY DEF IInv, Types, WorkerState, TasksKnown, WellEmployed

LEMMA TaskTypes ==
  ASSUME IInv, NEW t \in Task
  PROVE  /\ task[t] \in TaskRow
         /\ task[t].status \in TaskStatus /\ task[t].version \in AnyVersion
         /\ task[t].portal \in Portal /\ task[t].by \in {"none", "approval", "operator"}
         /\ task[t].started \in BOOLEAN
  BY DEF IInv, Types, TaskRow, AnyVersion

LEMMA SessionTypes ==
  ASSUME IInv
  PROVE  /\ session \in Seq(Task) /\ Len(session) \in Nat
         /\ \A n \in 1..Len(session) : session[n] \in Task
         /\ asked \subseteq Task
  BY ElementOfSeq DEF IInv, Types

----------------------------------------------------------------------------
(* Steps of the callers that read.                                         *)

\* A step that changes the application, by what a draft, a move, a portal change
\* or a new attachment may do to it, but neither the queue nor a caller.
LEMMA ApplicationKeeps ==
  ASSUME IInv, UNCHANGED <<latchVars, call, worker, selected, approved, approvals, calm, honest>>,
         status' \in ApplicationStatus, drafted' \in Version, rows' \subseteq Row,
         portal' \in Portal, newest' \in Portal, drafting' \in {"none", "stay", "review"},
         drafting' # "none" => drafted' < MaxVersions,
         move' \in MoveState, saving' \in BOOLEAN, portalCalm' \in BOOLEAN, chosen' \in Portal,
         RowsNumbered', PortalKept',
         rows \subseteq rows',
         \A row \in rows' \ rows : row.version \in Final
  PROVE  IInv'
<1>1. Types'
  BY DEF IInv, Types, latchVars
<1>2. TasksKnown'
  BY DEF IInv, TasksKnown, latchVars
<1>3. DraftsKept'
  <2>1. honest => \A row \in rows' : row.version \in Final
    BY DEF IInv, DraftsKept, DraftsStayDrafts, Final
  <2>. QED
    BY <2>1 DEF IInv, DraftsKept, DraftsStayDrafts, Final, latchVars
<1>4. ResumeKept'
  BY DEF IInv, ResumeKept, latchVars, IsActive
<1>. QED
  BY <1>1, <1>2, <1>3, <1>4 DEF IInv

LEMMA PortalStands ==
  ASSUME IInv, UNCHANGED <<latchVars, call, worker, portal, newest, saving, portalCalm, chosen>>,
         portalCalm /\ move'.touches => move'.portal = chosen
  PROVE  PortalKept'
  BY DEF IInv, PortalKept, latchVars, IsActive

\* BeginDraft, CommitDraft and LoseDraft.
LEMMA DraftKeeps ==
  ASSUME IInv, BeginDraft \/ CommitDraft \/ LoseDraft
  PROVE  IInv'
<1>1. /\ UNCHANGED <<latchVars, call, worker, selected, approved, approvals, rows, portal>>
      /\ UNCHANGED <<newest, move, saving, calm, honest, portalCalm, chosen>>
  BY DEF BeginDraft, CommitDraft, LoseDraft, applicationVars, historyVars
<1>2. PortalKept' /\ RowsNumbered'
  BY <1>1, PortalStands DEF IInv, RowsNumbered, PortalKept
<1>3. /\ status' \in ApplicationStatus /\ drafted' \in Version
      /\ drafting' \in {"none", "stay", "review"}
      /\ drafting' # "none" => drafted' < MaxVersions
  <2>1. CASE BeginDraft \/ LoseDraft
    BY <2>1 DEF BeginDraft, LoseDraft, applicationVars, IInv, Types
  <2>2. CASE CommitDraft
    <3>1. drafted + 1 \in Version
      BY <2>2, Sizes DEF CommitDraft, IInv, Types, Version
    <3>. QED
      BY <2>2, <3>1 DEF CommitDraft, IInv, Types, ApplicationStatus
  <2>. QED
    BY <2>1, <2>2
<1>. QED
  BY <1>1, <1>2, <1>3, ApplicationKeeps DEF IInv, Types

LEMMA BeginMoveKeeps ==
  ASSUME IInv, NEW target \in MovesTo, NEW touches \in BOOLEAN, BeginMove(target, touches)
  PROVE  IInv'
<1>1. /\ UNCHANGED <<latchVars, call, worker, selected, approved, approvals, rows, portal>>
      /\ UNCHANGED <<newest, drafting, saving, calm, honest, portalCalm, chosen, status, drafted>>
      /\ move' = [to |-> target, portal |-> newest, touches |-> touches]
  BY DEF BeginMove, applicationVars, historyVars
<1>2. move' \in MoveState /\ move'.portal = newest
  BY <1>1, ConstantsAssumption DEF MoveState, IInv, Types
<1>3. PortalKept' /\ RowsNumbered'
  BY <1>1, <1>2, PortalStands DEF IInv, RowsNumbered, PortalKept
<1>. QED
  BY <1>1, <1>2, <1>3, ApplicationKeeps DEF IInv, Types

LEMMA CommitMoveKeeps ==
  ASSUME IInv, CommitMove
  PROVE  IInv'
<1>1. /\ UNCHANGED <<latchVars, call, worker, selected, approved, approvals, rows, portal>>
      /\ UNCHANGED <<drafting, saving, calm, honest, portalCalm, chosen, drafted>>
      /\ status' = move.to /\ move' = NoMove
      /\ newest' \in {move.portal, newest} /\ (~move.touches => newest' = newest)
  BY DEF CommitMove, historyVars, Stamped
<1>2. status' \in ApplicationStatus /\ newest' \in Portal /\ move' \in MoveState
  <2>1. move.to # "none"
    BY DEF CommitMove
  <2>. QED
    BY <1>1, <2>1, IdleTyped DEF IInv, Types, MoveState
<1>3. PortalKept'
  <2>1. move'.touches = FALSE
    BY <1>1, IdleTyped
  <2>. QED
    BY <1>1, <2>1 DEF IInv, PortalKept, latchVars, IsActive
<1>4. RowsNumbered'
  BY <1>1 DEF IInv, RowsNumbered
<1>. QED
  BY <1>1, <1>2, <1>3, <1>4, ApplicationKeeps DEF IInv, Types

LEMMA SaveSessionKeeps ==
  ASSUME IInv, SaveSession
  PROVE  IInv'
<1>1. /\ chosen < MaxPortals /\ newest' = chosen + 1 /\ chosen' = chosen + 1 /\ saving' = TRUE
      /\ portalCalm' = (NoWork /\ (\A c \in Caller : call[c].step # "commit") /\ ~move.touches)
      /\ UNCHANGED <<latchVars, call, worker, calm, honest>>
      /\ UNCHANGED <<status, selected, drafted, approved, approvals, rows, portal, drafting, move>>
  BY DEF SaveSession
<1>2. chosen + 1 \in Portal
  BY <1>1, Sizes DEF IInv, Types, Portal
<1>3. PortalKept'
  <2>. SUFFICES ASSUME portalCalm'
                PROVE  /\ newest' = chosen'
                       /\ ~move.touches
                       /\ \A c \in Caller : call[c].step # "commit"
                       /\ \A t \in Task : ~IsActive(t)
                       /\ \A w \in Worker : worker[w].step = "idle"
    BY <1>1 DEF PortalKept, latchVars, IsActive
  <2>. QED
    BY <1>1 DEF NoWork, ActiveTasks
<1>4. portalCalm' \in BOOLEAN /\ RowsNumbered'
  BY <1>1 DEF IInv, RowsNumbered
<1>. QED
  BY <1>1, <1>2, <1>3, <1>4, ApplicationKeeps DEF IInv, Types

LEMMA SavePortalKeeps ==
  ASSUME IInv, SavePortal
  PROVE  IInv'
<1>1. /\ portal' = chosen /\ saving' = FALSE
      /\ UNCHANGED <<latchVars, call, worker, calm, honest, portalCalm, chosen>>
      /\ UNCHANGED <<status, selected, drafted, approved, approvals, rows, newest, drafting, move>>
  BY DEF SavePortal, historyVars
<1>2. PortalKept' /\ RowsNumbered'
  BY <1>1 DEF IInv, PortalKept, RowsNumbered, latchVars, IsActive
<1>. QED
  BY <1>1, <1>2, ApplicationKeeps DEF IInv, Types

\* The key of a new row follows those there are.
LEMMA NextKeyIsFree ==
  ASSUME IInv
  PROVE  \E n \in 0..MaxKeys : /\ {row.key : row \in rows} = {<<approvals, i>> : i \in 1..n}
                               /\ NextKey(rows) = <<approvals, n + 1>>
<1>1. PICK n \in 0..MaxKeys : {row.key : row \in rows} = {<<approvals, i>> : i \in 1..n}
  BY DEF IInv, RowsNumbered
<1>2. \A row \in rows : \E i \in 1..n : row.key = <<approvals, i>>
  BY <1>1
<1>3. \A i \in 1..n : \E row \in rows : row.key = <<approvals, i>>
  BY <1>1
<1>4. {row.key[2] : row \in {r \in rows : r.key[1] = approvals}} = 1..n
  <2>1. ASSUME NEW row \in rows PROVE row.key[2] \in 1..n
    BY <1>2
  <2>2. ASSUME NEW i \in 1..n PROVE \E row \in rows : row.key[1] = approvals /\ row.key[2] = i
    <3>1. PICK row \in rows : row.key = <<approvals, i>>
      BY <1>3
    <3>2. <<approvals, i>>[1] = approvals /\ <<approvals, i>>[2] = i
      OBVIOUS
    <3>. QED
      BY <3>1, <3>2
  <2>. QED
    BY <2>1, <2>2
<1>5. Cardinality(1..n) = n
  <2>1. n \in Int /\ 1 \in Int /\ n >= 0
    BY Sizes
  <2>. QED
    BY <2>1, FS_Interval
<1>. QED
  BY <1>1, <1>4, <1>5 DEF NextKey

LEMMA RowAdded ==
  ASSUME IInv, NEW version \in Resume, NEW url \in Resume, NextKey(rows)[2] \in 1..MaxKeys,
         approvals' = approvals,
         rows' = rows \cup {[key |-> NextKey(rows), version |-> version, url |-> url]}
  PROVE  rows' \subseteq Row /\ RowsNumbered'
<1>1. PICK n \in 0..MaxKeys : /\ {row.key : row \in rows} = {<<approvals, i>> : i \in 1..n}
                              /\ NextKey(rows) = <<approvals, n + 1>>
  BY NextKeyIsFree
<1>. DEFINE new == [key |-> <<approvals, n + 1>>, version |-> version, url |-> url]
<1>2. n + 1 \in 1..MaxKeys
  BY <1>1
<1>3. new \in Row /\ new.key = <<approvals, n + 1>>
  BY <1>2 DEF IInv, Types, Row
<1>. HIDE DEF new
<1>4. rows' = rows \cup {new}
  BY <1>1 DEF new
<1>5. rows' \subseteq Row
  BY <1>3, <1>4 DEF IInv, Types
<1>6. {row.key : row \in rows'} = {<<approvals, i>> : i \in 1..(n + 1)}
  <2>1. {row.key : row \in rows'} = {row.key : row \in rows} \cup {<<approvals, n + 1>>}
    <3>. DEFINE k == <<approvals, n + 1>>
    <3>1. \A row \in rows' : row.key \in {r.key : r \in rows} \cup {k}
      BY <1>3, <1>4
    <3>2. \A x \in {r.key : r \in rows} : \E row \in rows' : row.key = x
      BY <1>4
    <3>3. \E row \in rows' : row.key = k
      BY <1>3, <1>4
    <3>. HIDE DEF k
    <3>. QED
      BY <3>1, <3>2, <3>3 DEF k
  <2>2. 1..(n + 1) = 1..n \cup {n + 1}
    BY <1>2
  <2>. QED
    BY <1>1, <2>1, <2>2
<1>7. \A row \in rows : row.key # new.key
  <2>1. \A row \in rows : \E i \in 1..n : row.key = <<approvals, i>>
    BY <1>1
  <2>2. \A i \in 1..n : i # n + 1
    OBVIOUS
  <2>. QED
    BY <1>3, <2>1, <2>2
<1>8. \A one, other \in rows' : one.key = other.key => one = other
  BY <1>4, <1>7 DEF IInv, RowsNumbered
<1>9. n + 1 \in 0..MaxKeys
  BY <1>2
<1>. QED
  BY <1>5, <1>6, <1>8, <1>9 DEF RowsNumbered

LEMMA AddAttachmentKeeps ==
  ASSUME IInv, NEW version \in {NoVersion, selected}, NEW url \in {NoVersion, selected},
         AddAttachment(version, url)
  PROVE  IInv'
<1>. DEFINE new == [key |-> NextKey(rows), version |-> version, url |-> url]
<1>1. /\ NextKey(rows)[2] \in 1..MaxKeys
      /\ rows' = rows \cup {new}
      /\ UNCHANGED <<latchVars, call, worker, portal, newest, saving, drafting, move, portalCalm>>
      /\ UNCHANGED <<status, selected, drafted, approved, approvals, calm, honest, chosen>>
  BY DEF AddAttachment, userVars, historyVars
<1>2. new.version = version
  OBVIOUS
<1>3. version \in Resume /\ url \in Resume /\ version \in Final
  BY Sizes DEF IInv, Types, DraftsKept, DraftsStayDrafts, Final
<1>4. rows' \subseteq Row /\ RowsNumbered'
  BY <1>1, <1>3, RowAdded
<1>. HIDE DEF new
<1>5. rows \subseteq rows' /\ \A row \in rows' \ rows : row.version \in Final
  BY <1>1, <1>2, <1>3
<1>6. PortalKept'
  BY <1>1, PortalStands DEF IInv, PortalKept
<1>. QED
  BY <1>1, <1>4, <1>5, <1>6, ApplicationKeeps DEF IInv, Types

\* A step that only moves caller c on, to state k.
LEMMA CallKeeps ==
  ASSUME IInv, NEW c \in Caller, NEW k \in CallState, call' = [call EXCEPT ![c] = k],
         UNCHANGED <<applicationVars, userVars, latchVars, worker, historyVars>>,
         WellCalled(k, task),
         portalCalm /\ k.step = "commit" => k.portal = chosen,
         k.by = "operator" => k.version = selected
  PROVE  IInv'
<1>1. call' \in [Caller -> CallState] /\ \A d \in Caller : call'[d] = k \/ call'[d] = call[d]
  BY DEF IInv, Types
<1>2. /\ UNCHANGED <<status, selected, drafted, approved, approvals, rows, portal, newest>>
      /\ UNCHANGED <<drafting, move, saving, task, asked, session, worker>>
      /\ UNCHANGED <<calm, honest, portalCalm, chosen>>
  BY DEF applicationVars, userVars, latchVars, historyVars
<1>3. Types' /\ RowsNumbered'
  BY <1>1, <1>2 DEF IInv, Types, RowsNumbered
<1>4. TasksKnown'
  <2>1. \A d \in Caller : WellCalled(call'[d], task)
    BY <1>1 DEF IInv, TasksKnown
  <2>. QED
    BY <1>2, <2>1 DEF IInv, TasksKnown
<1>5. PortalKept'
  BY <1>1, <1>2 DEF IInv, PortalKept, IsActive
<1>6. DraftsKept'
  <2>1. \A d \in Caller : call'[d].by = "operator" => call'[d].version \in Final
    BY <1>1 DEF IInv, DraftsKept, DraftsStayDrafts, Final
  <2>. QED
    BY <1>2, <2>1 DEF IInv, DraftsKept, DraftsStayDrafts, Final
<1>7. ResumeKept'
  BY <1>1, <1>2 DEF IInv, ResumeKept, IsActive
<1>. QED
  BY <1>3, <1>4, <1>5, <1>6, <1>7 DEF IInv

LEMMA BeginApproveKeeps ==
  ASSUME IInv, NEW c \in Web, NEW version \in Version, BeginApprove(c, version)
  PROVE  IInv'
<1>. DEFINE k == [IdleCall EXCEPT !.step = "checked", !.by = "approval", !.version = version]
<1>1. /\ k \in CallState /\ k.step = "checked" /\ k.by = "approval" /\ k.version = version
      /\ k.found = NoTask
  BY Sizes DEF IdleCall, CallState, CallStep
<1>2. call' = [call EXCEPT ![c] = k]
  BY DEF BeginApprove
<1>3. c \in Caller
  BY DEF Caller
<1>. HIDE DEF k
<1>4. WellCalled(k, task)
  BY <1>1 DEF WellCalled
<1>. QED
  BY <1>1, <1>2, <1>3, <1>4, CallKeeps DEF BeginApprove

\* A nonempty set of numbers has a least and, when it is bounded, a greatest one.
Below == {pair \in Nat \X Nat : pair[1] < pair[2]}

LEMMA BelowIsWellFounded == IsWellFoundedOn(Below, Nat)
  BY NatLessThanWellFounded DEF OpToRel, Below

LEMMA Smaller ==
  ASSUME NEW x \in Nat, NEW y \in Nat, y < x
  PROVE  <<y, x>> \in Below
<1>. DEFINE pair == <<y, x>>
<1>1. pair \in Nat \X Nat /\ pair[1] = y /\ pair[2] = x
  OBVIOUS
<1>. HIDE DEF pair
<1>2. pair \in Below
  BY <1>1 DEF Below
<1>. QED
  BY <1>2 DEF pair

LEMMA LeastOf ==
  ASSUME NEW S \in SUBSET Nat, S # {}
  PROVE  Min(S) \in S
<1>1. PICK x \in S : \A y \in S : ~ (<<y, x>> \in Below)
  BY BelowIsWellFounded, WFMin
<1>2. ASSUME NEW y \in S PROVE x <= y
  <2>1. x \in Nat /\ y \in Nat
    OBVIOUS
  <2>2. ~ (y < x)
    BY <1>1, <2>1, Smaller
  <2>. QED
    BY <2>1, <2>2
<1>. QED
  BY <1>2 DEF Min

LEMMA GreatestOf ==
  ASSUME NEW S \in SUBSET Task, S # {}
  PROVE  Max(S) \in S
<1>. DEFINE T == {n \in Nat : MaxTasks - n \in S}
<1>1. \A x \in S : MaxTasks - x \in T
  BY Sizes DEF Task
<1>2. PICK x \in T : \A y \in T : ~ (<<y, x>> \in Below)
  BY <1>1, BelowIsWellFounded, WFMin
<1>3. ASSUME NEW y \in T PROVE x <= y
  <2>1. x \in Nat /\ y \in Nat
    OBVIOUS
  <2>2. ~ (y < x)
    BY <1>2, <2>1, Smaller
  <2>. QED
    BY <2>1, <2>2
<1>4. ASSUME NEW y \in S PROVE MaxTasks - x >= y
  <2>1. x <= MaxTasks - y
    BY <1>1, <1>3
  <2>. QED
    BY <2>1, Sizes DEF Task
<1>. QED
  BY <1>3, <1>4 DEF Max

LEMMA LookKeeps ==
  ASSUME IInv, NEW c \in Caller, NEW by \in {"approval", "operator"}, NEW version \in AnyVersion,
         NEW stale \in BOOLEAN, Look(c, by, version, stale),
         by = "approval" => version \in Version,
         by = "operator" => version = selected
  PROVE  IInv'
<1>. DEFINE k == [step |-> "commit", by |-> by, version |-> version, portal |-> newest,
                  found |-> NewestActive, stale |-> stale]
<1>1. NewestActive \in {NoTask} \cup Task /\ (NewestActive # NoTask => NewestActive \in ActiveTasks)
  BY GreatestOf DEF NewestActive, ActiveTasks
<1>2. /\ k \in CallState /\ k.step = "commit" /\ k.by = by /\ k.version = version
      /\ k.portal = newest /\ k.found = NewestActive /\ k.stale = stale
  BY <1>1 DEF CallState, CallStep, AnyVersion, IInv, Types
<1>3. call' = [call EXCEPT ![c] = k] /\ (stale => ActiveTasks # {})
  BY DEF Look
<1>4. stale => NewestActive # NoTask
  BY <1>3, GreatestOf, Sizes DEF NewestActive, ActiveTasks
<1>. HIDE DEF k
<1>5. WellCalled(k, task)
  BY <1>1, <1>2, <1>4 DEF WellCalled, ActiveTasks, IsActive
<1>6. portalCalm => k.portal = chosen
  BY <1>2 DEF IInv, PortalKept
<1>. QED
  BY <1>2, <1>3, <1>5, <1>6, CallKeeps DEF Look

LEMMA LookForApprovalKeeps ==
  ASSUME IInv, NEW c \in Web, NEW stale \in BOOLEAN, LookForApproval(c, stale)
  PROVE  IInv'
<1>1. call[c].step = "checked" /\ Look(c, "approval", call[c].version, stale) /\ c \in Caller
  BY DEF LookForApproval, Caller
<1>2. call[c].version \in Version
  BY <1>1, CallTypes DEF WellCalled
<1>. QED
  BY <1>1, <1>2, LookKeeps DEF AnyVersion

LEMMA LookForOperatorKeeps ==
  ASSUME IInv, NEW c \in Operator, NEW stale \in BOOLEAN, LookForOperator(c, stale)
  PROVE  IInv'
<1>1. Look(c, "operator", selected, stale) /\ c \in Caller
  BY DEF LookForOperator, Caller
<1>. QED
  BY <1>1, LookKeeps DEF IInv, Types

LEMMA AbortApproveKeeps ==
  ASSUME IInv, NEW c \in Web, AbortApprove(c)
  PROVE  IInv'
<1>1. WellCalled(IdleCall, task) /\ IdleCall.step # "commit" /\ IdleCall.by # "operator"
  BY IdleTyped DEF WellCalled
<1>. QED
  BY <1>1, IdleTyped, CallKeeps DEF AbortApprove, Caller

----------------------------------------------------------------------------
(* Enqueueing.                                                             *)

LEMMA NewTaskTypes ==
  ASSUME IInv, NEW c \in Caller
  PROVE  /\ NewTask(c) \in TaskRow /\ NewTask(c).status = "queued" /\ ~NewTask(c).started
         /\ NewTask(c).version = call[c].version /\ NewTask(c).portal = call[c].portal
         /\ NewTask(c).by = call[c].by
  BY CallTypes DEF NewTask, TaskRow, TaskStatus, AnyVersion

\* What becomes of task s when a request enqueues task t: nothing, or it is failed.
Displaced(c, s) ==
  /\ task'[s] \in TaskRow
  /\ task'[s].version = task[s].version /\ task'[s].portal = task[s].portal
  /\ task'[s].by = task[s].by /\ task'[s].started = task[s].started
  /\ IF s = call[c].found THEN task[s].status # "absent" /\ task'[s].status = "failed"
                          ELSE task'[s].status = task[s].status

Enlisted(c, t) ==
  /\ task[t].status = "absent"
  /\ task'[t] = NewTask(c)
  /\ \A s \in Task \ {t} : Displaced(c, s)

LEMMA EnqueuedWrites ==
  ASSUME IInv, NEW c \in Caller, Enqueued(c)
  PROVE  \/ task' = task /\ call[c].found # NoTask
         \/ \E t \in Task : task' \in [Task -> TaskRow] /\ Enlisted(c, t)
<1>1. CASE call[c].found # NoTask /\ ~call[c].stale
  BY <1>1 DEF Enqueued
<1>2. CASE ~(call[c].found # NoTask /\ ~call[c].stale)
  <2>1. PICK t \in FreeTasks :
          task' = [s \in Task |-> CASE s = t -> NewTask(c)
                                     [] s = call[c].found -> [task[s] EXCEPT !.status = "failed"]
                                     [] OTHER -> task[s]]
    BY <1>2 DEF Enqueued
  <2>2. t \in Task /\ task[t].status = "absent"
    BY <2>1 DEF FreeTasks
  <2>3. call[c].found # t /\ (call[c].found \in Task => task[call[c].found].status # "absent")
    BY <2>2, CallTypes, Sizes DEF WellCalled
  <2>4. task'[t] = NewTask(c)
    BY <2>1, <2>2, <2>3
  <2>5. ASSUME NEW s \in Task, s # t PROVE Displaced(c, s)
    <3>1. task[s] \in TaskRow
      BY TaskTypes
    <3>2. CASE s = call[c].found
      <4>1. task'[s] = [task[s] EXCEPT !.status = "failed"]
        BY <2>1, <2>5, <3>2
      <4>. QED
        BY <2>3, <3>1, <3>2, <4>1 DEF Displaced, TaskRow, TaskStatus
    <3>3. CASE s # call[c].found
      <4>1. task'[s] = task[s]
        BY <2>1, <2>5, <3>3
      <4>. QED
        BY <3>1, <3>3, <4>1 DEF Displaced
    <3>. QED
      BY <3>2, <3>3
  <2>6. task' \in [Task -> TaskRow]
    <3>1. \A s \in Task : task'[s] \in TaskRow
      BY <2>4, <2>5, NewTaskTypes DEF Displaced
    <3>2. task' = [s \in Task |-> task'[s]]
      BY <2>1
    <3>. HIDE <2>1
    <3>. QED
      BY <3>1, <3>2
  <2>. QED
    BY <2>2, <2>4, <2>5, <2>6 DEF Enlisted
<1>. QED
  BY <1>1, <1>2

\* What a worker or the agent holds is no task that a request creates.
LEMMA HeldTasksStand ==
  ASSUME IInv, NEW c \in Caller, Enqueued(c)
  PROVE  /\ \A s \in Task : task[s].started =>
              /\ task'[s].started /\ task'[s].version = task[s].version
              /\ task'[s].portal = task[s].portal
         /\ \A s \in Task : task[s].status # "absent" => task'[s].status # "absent"
         /\ \A s \in Task : task'[s].status \in {"absent", "queued"} => ~task'[s].started
<1>1. CASE task' = task
  BY <1>1 DEF IInv, TasksKnown
<1>2. ASSUME NEW t \in Task, Enlisted(c, t)
      PROVE  \A s \in Task :
               /\ task[s].started =>
                    /\ task'[s].started /\ task'[s].version = task[s].version
                    /\ task'[s].portal = task[s].portal
               /\ task[s].status # "absent" => task'[s].status # "absent"
               /\ task'[s].status \in {"absent", "queued"} => ~task'[s].started
  <2>1. ~task[t].started
    BY <1>2 DEF Enlisted, IInv, TasksKnown
  <2>2. task'[t].status = "queued" /\ ~task'[t].started
    BY <1>2, NewTaskTypes DEF Enlisted
  <2>. QED
    BY <1>2, <2>1, <2>2 DEF Enlisted, Displaced, IInv, TasksKnown
<1>. QED
  BY <1>1, <1>2, EnqueuedWrites

\* A request that commits and leaves everything else to the workers.
LEMMA EnqueueKeepsKnown ==
  ASSUME IInv, NEW c \in Caller, Enqueued(c), call' = [call EXCEPT ![c] = IdleCall],
         UNCHANGED <<asked, session, worker>>
  PROVE  TasksKnown'
<1>1. ASSUME NEW d \in Caller PROVE WellCalled(call'[d], task')
  <2>1. CASE d = c
    <3>1. call'[d] = IdleCall
      BY <1>1, <2>1 DEF IInv, Types
    <3>. QED
      BY <3>1, IdleTyped DEF WellCalled
  <2>2. CASE d # c
    <3>1. call'[d] = call[d]
      BY <1>1, <2>2 DEF IInv, Types
    <3>2. WellCalled(call[d], task) /\ call[d].found \in {NoTask} \cup Task
      BY CallTypes
    <3>. QED
      BY <3>1, <3>2, HeldTasksStand DEF WellCalled
  <2>. QED
    BY <2>1, <2>2
<1>2. ASSUME NEW w \in Worker PROVE WellEmployed(worker[w], task', Len(session))
  BY WorkerTypes, HeldTasksStand DEF WellEmployed
<1>3. /\ \A t \in Task : task'[t].status \in {"absent", "queued"} => ~task'[t].started
      /\ \A t \in asked : task'[t].started
      /\ \A n \in 1..Len(session) : task'[session[n]].started
  BY HeldTasksStand, SessionTypes DEF IInv, TasksKnown
<1>. QED
  BY <1>1, <1>2, <1>3 DEF TasksKnown

LEMMA EnqueueTypes ==
  ASSUME IInv, NEW c \in Caller, Enqueued(c), call' = [call EXCEPT ![c] = IdleCall]
  PROVE  /\ task' \in [Task -> TaskRow] /\ call' \in [Caller -> CallState]
         /\ call'[c] = IdleCall /\ \A d \in Caller : d # c => call'[d] = call[d]
  BY EnqueuedWrites, IdleTyped DEF IInv, Types

LEMMA EnqueueKeepsPortal ==
  ASSUME IInv, NEW c \in Caller, call[c].step = "commit", Enqueued(c),
         call' = [call EXCEPT ![c] = IdleCall],
         UNCHANGED <<portal, newest, saving, move, worker, portalCalm, chosen>>
  PROVE  PortalKept'
<1>. SUFFICES ASSUME portalCalm
              PROVE  /\ newest = chosen /\ (~saving => portal = chosen)
                     /\ move.touches => move.portal = chosen
                     /\ \A d \in Caller : call'[d].step = "commit" => call'[d].portal = chosen
                     /\ \A t \in Task : task'[t].status \in {"queued", "processing"}
                                           => task'[t].portal = chosen
                     /\ \A w \in Worker : worker[w].step # "idle"
                                             => task'[worker[w].task].portal = chosen
  BY DEF PortalKept, IsActive
<1>1. /\ newest = chosen /\ (~saving => portal = chosen) /\ call[c].portal = chosen
      /\ move.touches => move.portal = chosen
  BY DEF IInv, PortalKept
<1>2. \A d \in Caller : call'[d].step = "commit" => call'[d].portal = chosen
  BY EnqueueTypes, IdleTyped DEF IInv, PortalKept
<1>3. \A t \in Task : task'[t].status \in {"queued", "processing"} => task'[t].portal = chosen
  <2>1. CASE task' = task
    BY <2>1 DEF IInv, PortalKept, IsActive
  <2>2. ASSUME NEW t \in Task, Enlisted(c, t), NEW s \in Task,
               task'[s].status \in {"queued", "processing"}
        PROVE  task'[s].portal = chosen
    <3>1. CASE s = t
      BY <1>1, <2>2, <3>1, NewTaskTypes DEF Enlisted
    <3>2. CASE s # t
      BY <2>2, <3>2 DEF Enlisted, Displaced, IInv, PortalKept, IsActive
    <3>. QED
      BY <3>1, <3>2
  <2>. QED
    BY <2>1, <2>2, EnqueuedWrites
<1>4. \A w \in Worker : worker[w].step # "idle" => task'[worker[w].task].portal = chosen
  BY WorkerTypes, HeldTasksStand DEF IInv, PortalKept
<1>. QED
  BY <1>1, <1>2, <1>3, <1>4

\* A new task names the version of its request, every other task keeps its own.
LEMMA EnqueueVersions ==
  ASSUME IInv, NEW c \in Caller, Enqueued(c)
  PROVE  /\ \A s \in Task : \/ task'[s].version = task[s].version
                            \/ task[s].status = "absent" /\ task'[s].version = call[c].version
         /\ \A s \in Task : task'[s].status \in {"queued", "processing"} =>
              \/ task[s].status \in {"queued", "processing"} /\ task'[s].version = task[s].version
              \/ task'[s].version = call[c].version
         /\ call[c].found = NoTask => \E t \in Task : task'[t].version = call[c].version
<1>1. CASE task' = task /\ call[c].found # NoTask
  BY <1>1
<1>2. ASSUME NEW t \in Task, Enlisted(c, t)
      PROVE  /\ task[t].status = "absent" /\ task'[t].version = call[c].version
             /\ \A s \in Task \ {t} :
                  /\ task'[s].version = task[s].version
                  /\ task'[s].status \in {"queued", "processing"} => task'[s].status = task[s].status
  BY <1>2, NewTaskTypes DEF Enlisted, Displaced
<1>. QED
  BY <1>1, <1>2, EnqueuedWrites

LEMMA CommitApproveKeeps ==
  ASSUME IInv, NEW c \in Web, CommitApprove(c)
  PROVE  IInv'
<1>1. /\ c \in Caller /\ call[c].step = "commit" /\ call[c].by = "approval"
      /\ call[c].version \in Version /\ call[c].version \in AnyVersion
      /\ Enqueued(c) /\ call' = [call EXCEPT ![c] = IdleCall]
  BY CallTypes DEF CommitApprove, HoldsRow, Caller, WellCalled
<1>2. /\ status' = "applying" /\ selected' = call[c].version
      /\ approved' = approved \cup {call[c].version} /\ approvals' = approvals + 1
      /\ rows' = {ApprovedRow(c)}
      /\ calm' = (/\ NoWork /\ asked = {} /\ call[c].found = NoTask
                  /\ \A d \in Caller : call[d].by # "operator")
      /\ honest' = (honest \/ NoWork)
      /\ UNCHANGED <<drafted, portal, newest, drafting, move, saving, asked, session, worker>>
      /\ UNCHANGED <<portalCalm, chosen>>
  BY DEF CommitApprove, userVars
<1>3. /\ ApprovedRow(c) \in Row /\ ApprovedRow(c).key = <<approvals + 1, 1>>
      /\ ApprovedRow(c).version = call[c].version
  <2>1. approvals + 1 \in Nat /\ 1 \in 1..MaxKeys
    BY Sizes DEF IInv, Types
  <2>. QED
    BY <1>1, <2>1, Sizes DEF ApprovedRow, Row
<1>4. Types'
  <2>1. approvals + 1 \in Nat /\ "applying" \in ApplicationStatus /\ calm' \in BOOLEAN
        /\ honest' \in BOOLEAN
    BY <1>2 DEF IInv, Types, ApplicationStatus, NoWork
  <2>. QED
    BY <1>1, <1>2, <1>3, <2>1, EnqueueTypes DEF IInv, Types
<1>5. RowsNumbered'
  <2>1. {row.key : row \in rows'} = {<<approvals', i>> : i \in 1..1}
    <3>1. {row.key : row \in rows'} = {<<approvals + 1, 1>>}
      BY <1>2, <1>3
    <3>2. 1..1 = {1}
      OBVIOUS
    <3>. QED
      BY <1>2, <3>1, <3>2
  <2>2. 1 \in 0..MaxKeys
    BY Sizes
  <2>. QED
    BY <1>2, <2>1, <2>2 DEF RowsNumbered
<1>6. TasksKnown'
  BY <1>1, <1>2, EnqueueKeepsKnown
<1>7. PortalKept'
  BY <1>1, <1>2, EnqueueKeepsPortal
<1>8. DraftsKept'
  <2>1. Final \subseteq Final' /\ call[c].version \in Final' /\ selected' \in Final'
    BY <1>2 DEF Final
  <2>2. \A t \in Task : task'[t].version \in Final'
    BY <1>1, <2>1, EnqueueVersions DEF IInv, DraftsKept, DraftsStayDrafts, Final
  <2>3. \A row \in rows' : row.version \in Final'
    BY <1>2, <1>3, <2>1
  <2>4. \A d \in Caller : call'[d].by = "operator" => call'[d].version \in Final'
    BY <1>1, <2>1, EnqueueTypes, IdleTyped DEF IInv, DraftsKept
  <2>5. honest' => \A w \in Worker : Attaches(Final', worker[w])
    <3>1. CASE honest
      BY <2>1, <3>1 DEF IInv, DraftsKept, Attaches
    <3>2. CASE ~honest
      BY <1>2, <3>2 DEF NoWork, Attaches
    <3>. QED
      BY <3>1, <3>2
  <2>. QED
    BY <1>2, <2>1, <2>2, <2>3, <2>4, <2>5 DEF DraftsKept, DraftsStayDrafts, Final
<1>9. ResumeKept'
  <2>. SUFFICES ASSUME calm'
                PROVE  /\ \E t \in Task : task'[t].version = selected'
                       /\ \E row \in rows' : row.version = selected'
                       /\ \A d \in Caller : call'[d].by # "operator"
                       /\ \A t \in Task : task'[t].status \in {"queued", "processing"} \/ t \in asked'
                                             => task'[t].version = selected'
                       /\ \A w \in Worker : worker'[w].step = "idle"
    BY DEF ResumeKept, IsActive, About, Attaches
  <2>1. NoWork /\ asked' = {} /\ call[c].found = NoTask /\ \A d \in Caller : call[d].by # "operator"
    BY <1>2
  <2>2. \E row \in rows' : row.version = selected'
    BY <1>2, <1>3
  <2>3. \A d \in Caller : call'[d].by # "operator"
    BY <1>1, <2>1, EnqueueTypes, IdleTyped
  <2>4. \A s \in Task : task[s].status \notin {"queued", "processing"}
    BY <2>1 DEF NoWork, ActiveTasks, IsActive
  <2>5. /\ \E t \in Task : task'[t].version = selected'
        /\ \A s \in Task : task'[s].status \in {"queued", "processing"} => task'[s].version = selected'
    BY <1>1, <1>2, <2>1, <2>4, EnqueueVersions
  <2>6. \A w \in Worker : worker'[w].step = "idle"
    BY <1>2, <2>1 DEF NoWork
  <2>. QED
    BY <2>1, <2>2, <2>3, <2>5, <2>6
<1>. QED
  BY <1>4, <1>5, <1>6, <1>7, <1>8, <1>9 DEF IInv

\* A worker keeps to its version while the table gets a new task.
LEMMA AboutStands ==
  ASSUME IInv, NEW c \in Caller, Enqueued(c), NEW w \in Worker, NEW v,
         About(v, worker[w], task, session)
  PROVE  About(v, worker[w], task', session)
<1>1. worker[w].step # "idle" => task'[worker[w].task].version = task[worker[w].task].version
  BY WorkerTypes, HeldTasksStand
<1>2. \A n \in 1..Len(session) : task'[session[n]].version = task[session[n]].version
  BY SessionTypes, HeldTasksStand DEF IInv, TasksKnown
<1>. QED
  BY <1>1, <1>2 DEF About

LEMMA CommitOperatorKeeps ==
  ASSUME IInv, NEW c \in Operator, CommitOperator(c)
  PROVE  IInv'
<1>1. /\ c \in Caller /\ call[c].step = "commit" /\ call[c].by = "operator"
      /\ Enqueued(c) /\ call' = [call EXCEPT ![c] = IdleCall]
  BY CallTypes DEF CommitOperator, Caller, WellCalled
<1>2. /\ UNCHANGED <<status, selected, drafted, approved, approvals, rows, portal, newest>>
      /\ UNCHANGED <<drafting, move, saving, asked, session, worker>>
      /\ UNCHANGED <<calm, honest, portalCalm, chosen>>
  BY DEF CommitOperator, applicationVars, userVars, historyVars
<1>3. Types' /\ RowsNumbered'
  <2>1. task' \in [Task -> TaskRow] /\ call' \in [Caller -> CallState]
    BY <1>1, EnqueueTypes
  <2>2. Types'
    BY <1>2, <2>1 DEF IInv, Types
  <2>3. RowsNumbered'
    BY <1>2 DEF IInv, RowsNumbered
  <2>. QED
    BY <2>2, <2>3
<1>4. TasksKnown' /\ PortalKept'
  BY <1>1, <1>2, EnqueueKeepsKnown, EnqueueKeepsPortal
<1>5. DraftsKept'
  <2>1. call[c].version \in Final
    BY <1>1 DEF IInv, DraftsKept
  <2>2. \A t \in Task : task'[t].version \in Final
    BY <1>1, <2>1, EnqueueVersions DEF IInv, DraftsKept, DraftsStayDrafts, Final
  <2>3. \A d \in Caller : call'[d].by = "operator" => call'[d].version \in Final
    BY <1>1, EnqueueTypes, IdleTyped DEF IInv, DraftsKept
  <2>. QED
    BY <1>2, <2>2, <2>3 DEF IInv, DraftsKept, DraftsStayDrafts, Final
<1>6. ResumeKept'
  <2>. SUFFICES ASSUME calm, approvals > 0
                PROVE  /\ \E t \in Task : task'[t].version = selected
                       /\ \A d \in Caller : call'[d].by = "operator" => call'[d].version = selected
                       /\ \A t \in Task : task'[t].status \in {"queued", "processing"} \/ t \in asked
                                             => task'[t].version = selected
                       /\ \A w \in Worker : About(selected, worker[w], task', session)
    BY <1>2 DEF IInv, ResumeKept, IsActive
  <2>1. /\ call[c].version = selected
        /\ \E t \in Task : task[t].version = selected
        /\ \A s \in Task : task[s].status \in {"queued", "processing"} \/ s \in asked
                              => task[s].version = selected
        /\ \A w \in Worker : About(selected, worker[w], task, session)
    BY <1>1 DEF IInv, ResumeKept, IsActive
  <2>2. \A d \in Caller : call'[d].by = "operator" => call'[d].version = selected
    BY <1>1, EnqueueTypes, IdleTyped DEF IInv, ResumeKept
  <2>3. /\ \E t \in Task : task'[t].version = selected
        /\ \A t \in asked : task'[t].version = selected
        /\ \A s \in Task : task'[s].status \in {"queued", "processing"} => task'[s].version = selected
    BY <1>1, <2>1, EnqueueVersions, SessionTypes
  <2>4. \A w \in Worker : About(selected, worker[w], task', session)
    BY <1>1, <2>1, AboutStands
  <2>. QED
    BY <2>2, <2>3, <2>4
<1>. QED
  BY <1>3, <1>4, <1>5, <1>6 DEF IInv

----------------------------------------------------------------------------
(* The worker and the agent.                                               *)

\* A step that only moves worker w on, to state k, and may show the agent dishonest.
LEMMA WorkerKeeps ==
  ASSUME IInv, NEW w \in Worker, NEW k \in WorkerState, worker' = [worker EXCEPT ![w] = k],
         UNCHANGED <<applicationVars, userVars, latchVars, call, calm, portalCalm, chosen>>,
         honest' \in BOOLEAN, honest' => honest,
         WellEmployed(k, task, Len(session)),
         portalCalm /\ k.step # "idle" => task[k.task].portal = chosen,
         honest' => Attaches(Final, k),
         calm /\ approvals > 0 => About(selected, k, task, session),
         calm /\ approvals > 0 /\ honest' => Attaches({NoVersion, selected}, k)
  PROVE  IInv'
<1>1. worker' \in [Worker -> WorkerState] /\ \A x \in Worker : worker'[x] = k \/ worker'[x] = worker[x]
  BY DEF IInv, Types
<1>2. /\ UNCHANGED <<status, selected, drafted, approved, approvals, rows, portal, newest>>
      /\ UNCHANGED <<drafting, move, saving, task, asked, session, call>>
      /\ UNCHANGED <<calm, portalCalm, chosen>>
  BY DEF applicationVars, userVars, latchVars
<1>3. Types' /\ RowsNumbered'
  BY <1>1, <1>2 DEF IInv, Types, RowsNumbered
<1>4. TasksKnown'
  <2>1. \A x \in Worker : WellEmployed(worker'[x], task, Len(session))
    BY <1>1 DEF IInv, TasksKnown
  <2>. QED
    BY <1>2, <2>1 DEF IInv, TasksKnown
<1>5. PortalKept'
  BY <1>1, <1>2 DEF IInv, PortalKept, IsActive
<1>6. DraftsKept'
  <2>1. honest' => \A x \in Worker : Attaches(Final, worker'[x])
    BY <1>1 DEF IInv, DraftsKept
  <2>. QED
    BY <1>2, <2>1 DEF IInv, DraftsKept, DraftsStayDrafts, Final
<1>7. ResumeKept'
  <2>. SUFFICES ASSUME calm', (approvals > 0)'
                PROVE  /\ (\E t \in Task : task[t].version = selected)'
                       /\ (\A c \in Caller : call[c].by = "operator" => call[c].version = selected)'
                       /\ (\A t \in Task : IsActive(t) \/ t \in asked => task[t].version = selected)'
                       /\ (\A x \in Worker : About(selected, worker[x], task, session))'
                       /\ (honest => \E row \in rows : row.version = selected)'
                       /\ (honest => \A x \in Worker : Attaches({NoVersion, selected}, worker[x]))'
    BY DEF ResumeKept
  <2>1. calm /\ approvals > 0
    BY <1>2
  <2>2. /\ \E t \in Task : task[t].version = selected
        /\ \A c \in Caller : call[c].by = "operator" => call[c].version = selected
        /\ \A t \in Task : IsActive(t) \/ t \in asked => task[t].version = selected
        /\ \A x \in Worker : About(selected, worker[x], task, session)
        /\ honest' => \E row \in rows : row.version = selected
        /\ honest' => \A x \in Worker : Attaches({NoVersion, selected}, worker[x])
    BY <2>1 DEF IInv, ResumeKept
  <2>3. \A x \in Worker : About(selected, worker'[x], task, session)
    BY <1>1, <2>1, <2>2
  <2>4. honest' => \A x \in Worker : Attaches({NoVersion, selected}, worker'[x])
    BY <1>1, <2>1, <2>2
  <2>. QED
    BY <1>2, <2>2, <2>3, <2>4 DEF IsActive
<1>. QED
  BY <1>3, <1>4, <1>5, <1>6, <1>7 DEF IInv

\* A worker at rest, or about to fail its task, has nothing else in hand.
FailingWorker(t) == [IdleWorker EXCEPT !.step = "fail", !.task = t]

LEMMA FailingTypes ==
  ASSUME NEW t \in Task
  PROVE  /\ FailingWorker(t) \in WorkerState
         /\ FailingWorker(t).step = "fail" /\ FailingWorker(t).task = t
         /\ FailingWorker(t).after = 0
  BY IdleTyped DEF FailingWorker, WorkerState, WorkerStep

LEMMA GiveUpKeeps ==
  ASSUME IInv, NEW w \in Worker, worker[w].step # "idle", GiveUp(w),
         UNCHANGED <<applicationVars, userVars, latchVars, call, historyVars>>
  PROVE  IInv'
<1>1. PICK t \in Task : t = worker[w].task /\ task[t].started
  BY WorkerTypes
<1>. DEFINE k == FailingWorker(t)
<1>2. k \in WorkerState /\ k.step = "fail" /\ k.task = t /\ k.after = 0
  BY FailingTypes
<1>3. worker' = [worker EXCEPT ![w] = k]
  BY <1>1 DEF GiveUp, FailingWorker
<1>. HIDE DEF k
<1>4. WellEmployed(k, task, Len(session))
  BY <1>1, <1>2, SessionTypes DEF WellEmployed
<1>5. portalCalm => task[t].portal = chosen
  BY <1>1 DEF IInv, PortalKept
<1>6. calm /\ approvals > 0 => About(selected, k, task, session)
  BY <1>1, <1>2 DEF IInv, ResumeKept, About
<1>7. Attaches(Final, k) /\ Attaches({NoVersion, selected}, k)
  BY <1>2 DEF Attaches
<1>8. honest' \in BOOLEAN /\ (honest' => honest) /\ UNCHANGED <<calm, portalCalm, chosen>>
  BY DEF IInv, Types, historyVars
<1>. QED
  BY <1>2, <1>3, <1>4, <1>5, <1>6, <1>7, <1>8, WorkerKeeps

LEMMA DieKeeps ==
  ASSUME IInv, NEW w \in Worker, Die(w)
  PROVE  IInv'
<1>1. /\ WellEmployed(IdleWorker, task, Len(session)) /\ About(selected, IdleWorker, task, session)
      /\ Attaches(Final, IdleWorker) /\ Attaches({NoVersion, selected}, IdleWorker)
  BY IdleTyped, SessionTypes DEF WellEmployed, About, Attaches
<1>2. honest' \in BOOLEAN /\ (honest' => honest) /\ UNCHANGED <<calm, portalCalm, chosen>>
  BY DEF Die, IInv, Types, historyVars
<1>. QED
  BY <1>1, <1>2, IdleTyped, WorkerKeeps DEF Die, Rest

\* Reject, AbortResult and CommitThrows.
LEMMA GivesUpKeeps ==
  ASSUME IInv, NEW w \in Worker, Reject(w) \/ AbortResult(w) \/ CommitThrows(w)
  PROVE  IInv'
<1>1. /\ worker[w].step # "idle" /\ GiveUp(w)
      /\ UNCHANGED <<applicationVars, userVars, latchVars, call, historyVars>>
  BY DEF Reject, AbortResult, CommitThrows
<1>. QED
  BY <1>1, GiveUpKeeps

LEMMA AcceptKeeps ==
  ASSUME IInv, NEW w \in Worker, NEW attached \in Resume, Accept(w, attached)
  PROVE  IInv'
<1>. DEFINE k == [worker[w] EXCEPT !.step = "persist", !.after = 0, !.attached = attached]
<1>1. /\ worker[w].step = "wait" /\ HasReply(w)
      /\ worker' = [worker EXCEPT ![w] = k]
      /\ honest' = (honest /\ attached \in Honest(w))
      /\ UNCHANGED <<applicationVars, userVars, latchVars, call, calm, portalCalm, chosen>>
  BY DEF Accept, IInv, Types, WorkerState
<1>2. worker[w].task \in Task /\ task[worker[w].task].started
  BY <1>1, WorkerTypes
<1>3. /\ Len(session) \in 1..Len(session) /\ Len(session) > worker[w].after
      /\ Reply = session[Len(session)] /\ Reply \in Task
  BY <1>1, WorkerTypes, SessionTypes DEF HasReply, Reply, Last
<1>4. /\ k \in WorkerState /\ k.step = "persist" /\ k.after = 0 /\ k.task = worker[w].task
      /\ k.attached = attached
  BY WorkerTypes DEF WorkerState, WorkerStep
<1>5. honest' => attached \in Final
  BY <1>1, <1>2, <1>3 DEF Honest, IInv, DraftsKept, DraftsStayDrafts, Final
<1>6. calm /\ approvals > 0 /\ honest' => attached \in {NoVersion, selected}
  <2>. SUFFICES ASSUME calm, approvals > 0
                PROVE  Honest(w) \subseteq {NoVersion, selected}
    BY <1>1
  <2>1. About(selected, worker[w], task, session)
    BY DEF IInv, ResumeKept
  <2>2. task[worker[w].task].version = selected
    BY <1>1, <2>1 DEF About
  <2>3. task[session[Len(session)]].version = selected
    BY <1>1, <1>3, <2>1 DEF About
  <2>. QED
    BY <1>3, <2>2, <2>3 DEF Honest
<1>. HIDE DEF k
<1>7. WellEmployed(k, task, Len(session))
  BY <1>2, <1>4, SessionTypes DEF WellEmployed
<1>8. portalCalm => task[k.task].portal = chosen
  BY <1>1, <1>4 DEF IInv, PortalKept
<1>9. calm /\ approvals > 0 => About(selected, k, task, session)
  <2>. SUFFICES ASSUME calm, approvals > 0 PROVE About(selected, k, task, session)
    OBVIOUS
  <2>1. task[k.task].version = selected
    BY <1>1, <1>4 DEF IInv, ResumeKept, About
  <2>. QED
    BY <1>4, <2>1 DEF About
<1>10. /\ honest' => Attaches(Final, k)
       /\ calm /\ approvals > 0 /\ honest' => Attaches({NoVersion, selected}, k)
  BY <1>4, <1>5, <1>6 DEF Attaches
<1>11. honest' \in BOOLEAN /\ (honest' => honest)
  BY <1>1 DEF IInv, Types, Honest
<1>. QED
  BY <1>1, <1>4, <1>7, <1>8, <1>9, <1>10, <1>11, WorkerKeeps

\* A plan for a version binds rows to that version alone, and to none at all when
\* the version is none.
LEMMA PlansAreFor ==
  ASSUME IInv, NEW v \in Resume, NEW plan \in Attachment!Plans(v, TRUE, v, rows)
  PROVE  plan \in PlanState /\ (plan.action \in {"update", "create"} => plan.version = v /\ v # NoVersion)
<1>. DEFINE Good(p) == p \in PlanState /\ (p.action \in {"update", "create"} => p.version = v)
<1>0. Attachment!NoPlan \in PlanState /\ Attachment!NoPlan.action = "none"
  BY DEF Attachment!NoPlan, Attachment!Plan, PlanState, Resume
<1>1. Good(Attachment!NoPlan) /\ Good(Attachment!Insert(v, v))
  BY <1>0 DEF Attachment!Insert, Attachment!Plan, PlanState
<1>2. ASSUME NEW row \in rows
      PROVE  /\ Good(Attachment!Keep(row)) /\ Good(Attachment!Rewrite(row, v, v))
             /\ row.version = v => Good(Attachment!Rewrite(row, row.version, v))
  <2>1. row \in Row /\ row.version \in Resume /\ row.url \in Resume
    BY DEF IInv, Types, Row
  <2>. QED
    BY <2>1 DEF Attachment!Keep, Attachment!Rewrite, Attachment!Plan, PlanState
<1>. HIDE DEF Good
<1>3. ASSUME NEW row \in rows, row.version = v PROVE Good(Attachment!PlanForVersionRow(row, v))
  BY <1>2, <1>3 DEF Attachment!PlanForVersionRow
<1>4. ASSUME NEW row \in rows PROVE Good(Attachment!PlanForArtifactRow(row, v, v))
  BY <1>1, <1>2 DEF Attachment!PlanForArtifactRow
<1>5. Good(plan)
  <2>1. \/ plan = Attachment!NoPlan \/ plan = Attachment!Insert(v, v)
        \/ \E row \in rows : plan = Attachment!Rewrite(row, v, v)
        \/ \E row \in rows : plan = Attachment!PlanForArtifactRow(row, v, v)
        \/ \E row \in rows : row.version = v /\ plan = Attachment!PlanForVersionRow(row, v)
    BY DEF Attachment!Plans, Attachment!ByVersion, Attachment!ByArtifact
  <2>. QED
    BY <2>1, <1>1, <1>2, <1>3, <1>4
<1>6. ASSUME v = NoVersion PROVE plan = Attachment!NoPlan
  <2>1. Attachment!Plans(v, TRUE, v, rows) = {Attachment!NoPlan}
    BY <1>6 DEF Attachment!Plans
  <2>. QED
    BY <2>1
<1>. QED
  BY <1>0, <1>5, <1>6 DEF Good

LEMMA ReadAttachmentsKeeps ==
  ASSUME IInv, NEW w \in Worker, ReadAttachments(w)
  PROVE  IInv'
<1>1. PICK plan \in Attachment!Plans(worker[w].attached, TRUE, worker[w].attached, rows) :
        worker' = [worker EXCEPT ![w].step = "commit", ![w].plan = plan]
  BY DEF ReadAttachments
<1>2. worker[w].step = "persist" /\ UNCHANGED <<applicationVars, userVars, latchVars, call, historyVars>>
  BY DEF ReadAttachments
<1>3. /\ plan \in PlanState
      /\ plan.action \in {"update", "create"} =>
           plan.version = worker[w].attached /\ worker[w].attached # NoVersion
  BY WorkerTypes, PlansAreFor
<1>. DEFINE k == [worker[w] EXCEPT !.step = "commit", !.plan = plan]
<1>4. worker' = [worker EXCEPT ![w] = k]
  BY <1>1 DEF IInv, Types, WorkerState
<1>5. /\ k \in WorkerState /\ k.step = "commit" /\ k.task = worker[w].task
      /\ k.after = worker[w].after /\ k.attached = worker[w].attached /\ k.plan = plan
  BY <1>3, WorkerTypes DEF WorkerState, WorkerStep
<1>. HIDE DEF k
<1>6. WellEmployed(k, task, Len(session))
  BY <1>2, <1>5, WorkerTypes DEF WellEmployed
<1>7. portalCalm => task[k.task].portal = chosen
  BY <1>2, <1>5 DEF IInv, PortalKept
<1>8. calm /\ approvals > 0 => About(selected, k, task, session)
  BY <1>2, <1>5 DEF IInv, ResumeKept, About
<1>9. ASSUME NEW V, Attaches(V, worker[w]) PROVE Attaches(V, k)
  BY <1>2, <1>3, <1>5, <1>9 DEF Attaches
<1>10. /\ honest => Attaches(Final, k)
       /\ calm /\ approvals > 0 /\ honest => Attaches({NoVersion, selected}, k)
  BY <1>9 DEF IInv, DraftsKept, ResumeKept
<1>11. honest' \in BOOLEAN /\ honest' = honest /\ UNCHANGED <<calm, portalCalm, chosen>>
  BY <1>2 DEF IInv, Types, historyVars
<1>. QED
  BY <1>2, <1>4, <1>5, <1>6, <1>7, <1>8, <1>10, <1>11, WorkerKeeps

LEMMA AskKeeps ==
  ASSUME IInv, NEW w \in Worker, Ask(w)
  PROVE  IInv'
<1>. DEFINE k == [worker[w] EXCEPT !.step = "wait", !.after = Len(session)]
<1>1. /\ worker[w].step = "ask" /\ asked' = asked \cup {worker[w].task}
      /\ worker' = [worker EXCEPT ![w] = k]
  BY DEF Ask, IInv, Types, WorkerState
<1>2. /\ UNCHANGED <<status, selected, drafted, approved, approvals, rows, portal, newest>>
      /\ UNCHANGED <<drafting, move, saving, task, session, call, calm, honest, portalCalm, chosen>>
  BY DEF Ask, applicationVars, userVars, historyVars
<1>3. /\ k \in WorkerState /\ k.step = "wait" /\ k.task = worker[w].task
      /\ k.after = Len(session)
  BY WorkerTypes, SessionTypes DEF WorkerState, WorkerStep
<1>. HIDE DEF k
<1>4. worker' \in [Worker -> WorkerState] /\ \A x \in Worker : worker'[x] = k \/ worker'[x] = worker[x]
  BY <1>1, <1>3 DEF IInv, Types
<1>5. worker[w].task \in Task /\ task[worker[w].task].started
  BY <1>1, WorkerTypes
<1>6. Types'
  BY <1>1, <1>2, <1>4, <1>5 DEF IInv, Types
<1>7. RowsNumbered' /\ DraftsKept'
  <2>1. \A V : Attaches(V, k)
    BY <1>3 DEF Attaches
  <2>2. honest => \A x \in Worker : Attaches(Final, worker'[x])
    BY <1>4, <2>1 DEF IInv, DraftsKept
  <2>. QED
    BY <1>2, <2>2 DEF IInv, RowsNumbered, DraftsKept, DraftsStayDrafts, Final
<1>8. TasksKnown'
  <2>1. WellEmployed(k, task, Len(session))
    BY <1>3, <1>5, SessionTypes DEF WellEmployed
  <2>2. \A x \in Worker : WellEmployed(worker'[x], task, Len(session))
    BY <1>4, <2>1 DEF IInv, TasksKnown
  <2>3. \A t \in asked' : task[t].started
    BY <1>1, <1>5 DEF IInv, TasksKnown
  <2>. QED
    BY <1>2, <2>2, <2>3 DEF IInv, TasksKnown
<1>9. PortalKept'
  <2>1. portalCalm => task[k.task].portal = chosen
    BY <1>1, <1>3 DEF IInv, PortalKept
  <2>2. portalCalm => \A x \in Worker : worker'[x].step # "idle" => task[worker'[x].task].portal = chosen
    BY <1>4, <2>1 DEF IInv, PortalKept
  <2>. QED
    BY <1>2, <2>2 DEF IInv, PortalKept, IsActive
<1>10. ResumeKept'
  <2>. SUFFICES ASSUME calm, approvals > 0
                PROVE  /\ \A t \in asked' : task[t].version = selected
                       /\ \A x \in Worker : About(selected, worker'[x], task, session)
                       /\ honest => \A x \in Worker : Attaches({NoVersion, selected}, worker'[x])
    BY <1>2 DEF IInv, ResumeKept, IsActive
  <2>1. task[worker[w].task].version = selected
    BY <1>1 DEF IInv, ResumeKept, About
  <2>2. \A t \in asked' : task[t].version = selected
    BY <1>1, <2>1, SessionTypes DEF IInv, ResumeKept
  <2>3. About(selected, k, task, session) /\ Attaches({NoVersion, selected}, k)
    BY <1>3, <2>1 DEF About, Attaches
  <2>4. /\ \A x \in Worker : About(selected, worker'[x], task, session)
        /\ honest => \A x \in Worker : Attaches({NoVersion, selected}, worker'[x])
    BY <1>4, <2>3 DEF IInv, ResumeKept
  <2>. QED
    BY <2>2, <2>4
<1>. QED
  BY <1>6, <1>7, <1>8, <1>9, <1>10 DEF IInv

LEMMA AnswerKeeps ==
  ASSUME IInv, NEW t \in Task, Answer(t)
  PROVE  IInv'
<1>1. /\ t \in asked /\ asked' = asked \ {t} /\ session' = Append(session, t)
      /\ UNCHANGED <<status, selected, drafted, approved, approvals, rows, portal, newest>>
      /\ UNCHANGED <<drafting, move, saving, task, call, worker, calm, honest, portalCalm, chosen>>
  BY DEF Answer, applicationVars, userVars, historyVars
<1>2. /\ session' \in Seq(Task) /\ Len(session') = Len(session) + 1 /\ Len(session) \in Nat
      /\ \A n \in 1..Len(session) : session'[n] = session[n]
      /\ session'[Len(session) + 1] = t
  BY <1>1, SessionTypes, AppendProperties
<1>3. \A n \in 1..Len(session') : n \in 1..Len(session) \/ n = Len(session) + 1
  BY <1>2
<1>4. Types'
  BY <1>1, <1>2 DEF IInv, Types
<1>5. RowsNumbered' /\ DraftsKept'
  BY <1>1 DEF IInv, RowsNumbered, DraftsKept, DraftsStayDrafts, Final
<1>6. PortalKept'
  BY <1>1 DEF IInv, PortalKept, IsActive
<1>7. TasksKnown'
  <2>1. \A w \in Worker : WellEmployed(worker[w], task, Len(session'))
    BY <1>2, WorkerTypes DEF WellEmployed
  <2>2. \A n \in 1..Len(session') : task[session'[n]].started
    BY <1>1, <1>2, <1>3 DEF IInv, TasksKnown
  <2>. QED
    BY <1>1, <2>1, <2>2 DEF IInv, TasksKnown
<1>8. ResumeKept'
  <2>. SUFFICES ASSUME calm, approvals > 0, NEW w \in Worker
                PROVE  About(selected, worker[w], task, session')
    BY <1>1 DEF IInv, ResumeKept, IsActive
  <2>1. task[t].version = selected /\ About(selected, worker[w], task, session)
    BY <1>1 DEF IInv, ResumeKept
  <2>. QED
    BY <1>2, <1>3, <2>1 DEF About
<1>. QED
  BY <1>4, <1>5, <1>6, <1>7, <1>8 DEF IInv

\* A claim takes a queued task and starts it; nothing else in the table changes.
LEMMA ClaimWrites ==
  ASSUME IInv, NEW w \in Worker, Claim(w)
  PROVE  \E t \in Task :
           /\ task[t].status = "queued" /\ task' \in [Task -> TaskRow]
           /\ task'[t].status = "processing" /\ task'[t].started
           /\ task'[t].version = task[t].version /\ task'[t].portal = task[t].portal
           /\ task'[t].by = task[t].by
           /\ \A s \in Task : s # t => task'[s] = task[s]
           /\ worker' = [worker EXCEPT ![w] = [IdleWorker EXCEPT !.step = "ask", !.task = t]]
<1>. DEFINE queued == {s \in Task : task[s].status = "queued"}
<1>1. Min(queued) \in queued
  <2>1. queued # {}
    BY DEF Claim
  <2>2. queued \in SUBSET Nat
    BY DEF Task
  <2>. HIDE DEF queued
  <2>. QED
    BY <2>1, <2>2, LeastOf
<1>2. PICK t \in Task : t = Min(queued) /\ task[t].status = "queued"
  BY <1>1
<1>. HIDE DEF queued
<1>3. /\ task' = [task EXCEPT ![t].status = "processing", ![t].started = TRUE]
      /\ worker' = [worker EXCEPT ![w] = [IdleWorker EXCEPT !.step = "ask", !.task = t]]
  BY <1>2 DEF Claim, queued
<1>4. task'[t] = [task[t] EXCEPT !.status = "processing", !.started = TRUE]
      /\ \A s \in Task : s # t => task'[s] = task[s]
  BY <1>3 DEF IInv, Types
<1>5. /\ task'[t] \in TaskRow /\ task'[t].status = "processing" /\ task'[t].started
      /\ task'[t].version = task[t].version /\ task'[t].portal = task[t].portal
      /\ task'[t].by = task[t].by
  BY <1>4, TaskTypes DEF TaskRow, TaskStatus
<1>6. task' \in [Task -> TaskRow]
  BY <1>3, <1>4, <1>5, TaskTypes DEF IInv, Types
<1>. QED
  BY <1>2, <1>3, <1>4, <1>5, <1>6

LEMMA ClaimKeeps ==
  ASSUME IInv, NEW w \in Worker, Claim(w)
  PROVE  IInv'
<1>1. PICK t \in Task :
        /\ task[t].status = "queued" /\ task' \in [Task -> TaskRow]
        /\ task'[t].status = "processing" /\ task'[t].started
        /\ task'[t].version = task[t].version /\ task'[t].portal = task[t].portal
        /\ task'[t].by = task[t].by
        /\ \A s \in Task : s # t => task'[s] = task[s]
        /\ worker' = [worker EXCEPT ![w] = [IdleWorker EXCEPT !.step = "ask", !.task = t]]
  BY ClaimWrites
<1>2. /\ UNCHANGED <<status, selected, drafted, approved, approvals, rows, portal, newest>>
      /\ UNCHANGED <<drafting, move, saving, asked, session, call, calm, honest, portalCalm, chosen>>
  BY DEF Claim, applicationVars, userVars, historyVars
<1>. DEFINE k == [IdleWorker EXCEPT !.step = "ask", !.task = t]
<1>3. k \in WorkerState /\ k.step = "ask" /\ k.task = t /\ k.after = 0
  BY IdleTyped DEF WorkerState, WorkerStep
<1>. HIDE DEF k
<1>4. worker' \in [Worker -> WorkerState] /\ \A x \in Worker : worker'[x] = k \/ worker'[x] = worker[x]
  BY <1>1, <1>3 DEF IInv, Types, k
<1>5. \A s \in Task :
        /\ task'[s].version = task[s].version /\ task'[s].portal = task[s].portal
        /\ task'[s].by = task[s].by
        /\ task[s].started => task'[s].started
        /\ task[s].status # "absent" => task'[s].status # "absent"
        /\ task'[s].status \in {"queued", "processing"} => task[s].status \in {"queued", "processing"}
        /\ task'[s].status \in {"absent", "queued"} => ~task'[s].started
  BY <1>1 DEF IInv, TasksKnown
<1>6. Types'
  BY <1>1, <1>2, <1>4 DEF IInv, Types
<1>7. RowsNumbered' /\ DraftsKept'
  <2>1. \A V : Attaches(V, k)
    BY <1>3 DEF Attaches
  <2>2. honest => \A x \in Worker : Attaches(Final, worker'[x])
    BY <1>4, <2>1 DEF IInv, DraftsKept
  <2>3. RowsNumbered'
    BY <1>2 DEF IInv, RowsNumbered
  <2>4. /\ Final' = Final
        /\ \A s \in Task : task[s].version \in Final
    BY <1>2 DEF IInv, DraftsKept, DraftsStayDrafts, Final
  <2>5. \A s \in Task : task'[s].version \in Final'
    BY <1>5, <2>4
  <2>6. DraftsStayDrafts'
    BY <1>2, <2>4, <2>5 DEF IInv, DraftsKept, DraftsStayDrafts, Final
  <2>. QED
    BY <1>2, <2>2, <2>3, <2>4, <2>6 DEF IInv, DraftsKept
<1>8. TasksKnown'
  <2>1. \A c \in Caller : WellCalled(call[c], task')
    BY <1>5, CallTypes DEF WellCalled
  <2>2. WellEmployed(k, task', Len(session))
    BY <1>1, <1>3, SessionTypes DEF WellEmployed
  <2>3. \A x \in Worker : WellEmployed(worker[x], task', Len(session))
    BY <1>5, WorkerTypes DEF WellEmployed
  <2>4. \A x \in Worker : WellEmployed(worker'[x], task', Len(session))
    BY <1>4, <2>2, <2>3
  <2>5. /\ \A s \in asked : task'[s].started
        /\ \A n \in 1..Len(session) : task'[session[n]].started
    BY <1>5, SessionTypes DEF IInv, TasksKnown
  <2>. QED
    BY <1>2, <1>5, <2>1, <2>4, <2>5 DEF TasksKnown
<1>9. PortalKept'
  <2>. SUFFICES ASSUME portalCalm
                PROVE  /\ \A s \in Task : task'[s].status \in {"queued", "processing"}
                                              => task'[s].portal = chosen
                       /\ \A x \in Worker : worker'[x].step # "idle"
                                                => task'[worker'[x].task].portal = chosen
    BY <1>2 DEF IInv, PortalKept, IsActive
  <2>1. \A s \in Task : task'[s].status \in {"queued", "processing"} => task'[s].portal = chosen
    BY <1>5 DEF IInv, PortalKept, IsActive
  <2>2. task'[k.task].portal = chosen
    BY <1>1, <1>3, <2>1
  <2>3. \A x \in Worker : worker[x].step # "idle" => task'[worker[x].task].portal = chosen
    BY <1>5, WorkerTypes DEF IInv, PortalKept
  <2>. QED
    BY <1>4, <2>1, <2>2, <2>3
<1>10. ResumeKept'
  <2>. SUFFICES ASSUME calm, approvals > 0
                PROVE  /\ \A s \in Task : task'[s].status \in {"queued", "processing"} \/ s \in asked
                                              => task'[s].version = selected
                       /\ \A x \in Worker : About(selected, worker'[x], task', session)
                       /\ \E s \in Task : task'[s].version = selected
                       /\ honest => \A x \in Worker : Attaches({NoVersion, selected}, worker'[x])
    BY <1>2 DEF IInv, ResumeKept, IsActive
  <2>0. /\ \E s \in Task : task'[s].version = selected
        /\ honest => \A x \in Worker : Attaches({NoVersion, selected}, worker'[x])
    <3>1. Attaches({NoVersion, selected}, k)
      BY <1>3 DEF Attaches
    <3>. QED
      BY <1>4, <1>5, <3>1 DEF IInv, ResumeKept
  <2>1. \A s \in Task : task'[s].status \in {"queued", "processing"} \/ s \in asked
                          => task'[s].version = selected
    BY <1>5 DEF IInv, ResumeKept, IsActive
  <2>2. About(selected, k, task', session)
    BY <1>1, <1>3, <2>1 DEF About
  <2>3. ASSUME NEW x \in Worker PROVE About(selected, worker[x], task', session)
    <3>1. About(selected, worker[x], task, session)
      BY DEF IInv, ResumeKept
    <3>2. worker[x].step # "idle" => task'[worker[x].task].version = task[worker[x].task].version
      BY <1>5, WorkerTypes
    <3>3. \A n \in 1..Len(session) : task'[session[n]].version = task[session[n]].version
      BY <1>5, SessionTypes
    <3>. QED
      BY <3>1, <3>2, <3>3 DEF About
  <2>. QED
    BY <1>4, <2>0, <2>1, <2>2, <2>3
<1>. QED
  BY <1>6, <1>7, <1>8, <1>9, <1>10 DEF IInv

\* A started task is settled, and its worker rests or is about to fail it.
LEMMA SettleWrites ==
  ASSUME IInv, NEW t \in Task, task[t].started, NEW outcome \in {"completed", "failed"},
         Settle(t, outcome)
  PROVE  /\ task' \in [Task -> TaskRow] /\ task'[t].status = outcome
         /\ \A s \in Task : s # t => task'[s] = task[s]
         /\ \A s \in Task :
              /\ task'[s].version = task[s].version /\ task'[s].portal = task[s].portal
              /\ task'[s].by = task[s].by /\ task'[s].started = task[s].started
              /\ task[s].status # "absent" => task'[s].status # "absent"
              /\ task'[s].status \in {"queued", "processing"}
                   => task[s].status \in {"queued", "processing"}
              /\ task'[s].status \in {"absent", "queued"} => ~task'[s].started
<1>1. task' = [task EXCEPT ![t].status = outcome]
  BY DEF Settle
<1>2. task'[t] = [task[t] EXCEPT !.status = outcome] /\ \A s \in Task : s # t => task'[s] = task[s]
  BY <1>1 DEF IInv, Types
<1>3. /\ task'[t] \in TaskRow /\ task'[t].status = outcome
      /\ task'[t].version = task[t].version /\ task'[t].portal = task[t].portal
      /\ task'[t].by = task[t].by /\ task'[t].started = task[t].started
  <2>1. task[t] \in TaskRow
    BY TaskTypes
  <2>. QED
    BY <1>2, <2>1 DEF TaskRow, TaskStatus
<1>4. task[t].status # "absent"
  BY DEF IInv, TasksKnown
<1>5. task' \in [Task -> TaskRow]
  BY <1>1, <1>2, <1>3, TaskTypes DEF IInv, Types
<1>6. ASSUME NEW s \in Task
      PROVE  /\ task'[s].version = task[s].version /\ task'[s].portal = task[s].portal
             /\ task'[s].by = task[s].by /\ task'[s].started = task[s].started
             /\ task[s].status # "absent" => task'[s].status # "absent"
             /\ task'[s].status \in {"queued", "processing"}
                  => task[s].status \in {"queued", "processing"}
             /\ task'[s].status \in {"absent", "queued"} => ~task'[s].started
  <2>1. CASE s = t
    BY <1>3, <1>4, <2>1
  <2>2. CASE s # t
    <3>1. task'[s] = task[s]
      BY <1>2, <2>2
    <3>. QED
      BY <3>1 DEF IInv, TasksKnown
  <2>. QED
    BY <2>1, <2>2
<1>. QED
  BY <1>2, <1>3, <1>5, <1>6

\* A worker settles its task, and may write attachments and portal with it.
LEMMA SettledKeeps ==
  ASSUME IInv, NEW w \in Worker, worker[w].step # "idle",
         NEW outcome \in {"completed", "failed"}, Settle(worker[w].task, outcome),
         Rest(w) \/ GiveUp(w),
         UNCHANGED <<status, selected, drafted, approved, approvals, userVars, asked, session,
                     call, historyVars>>,
         rows' \subseteq Row, RowsNumbered', portal' \in Portal, newest' \in Portal,
         portalCalm => newest' = chosen /\ (~saving => portal' = chosen),
         honest => \A row \in rows' : row.version \in Final,
         calm /\ approvals > 0 /\ honest => \E row \in rows' : row.version = selected
  PROVE  IInv'
<1>1. PICK t \in Task : t = worker[w].task /\ task[t].started
  BY WorkerTypes
<1>2. /\ task' \in [Task -> TaskRow]
      /\ \A s \in Task :
           /\ task'[s].version = task[s].version /\ task'[s].portal = task[s].portal
           /\ task'[s].by = task[s].by /\ task'[s].started = task[s].started
           /\ task[s].status # "absent" => task'[s].status # "absent"
           /\ task'[s].status \in {"queued", "processing"}
                => task[s].status \in {"queued", "processing"}
           /\ task'[s].status \in {"absent", "queued"} => ~task'[s].started
  <2>1. Settle(t, outcome)
    BY <1>1
  <2>. QED
    BY <1>1, <2>1, SettleWrites
<1>3. PICK k \in WorkerState :
        /\ worker' = [worker EXCEPT ![w] = k]
        /\ k.after = 0 /\ (k.step = "idle" \/ (k.step = "fail" /\ k.task = t))
        /\ \A V : Attaches(V, k)
  <2>1. CASE Rest(w)
    BY <2>1, IdleTyped DEF Rest, Attaches
  <2>2. CASE GiveUp(w)
    <3>1. worker' = [worker EXCEPT ![w] = FailingWorker(t)]
      BY <1>1, <2>2 DEF GiveUp, FailingWorker
    <3>. QED
      BY <3>1, FailingTypes DEF Attaches
  <2>. QED
    BY <2>1, <2>2
<1>4. worker' \in [Worker -> WorkerState] /\ \A x \in Worker : worker'[x] = k \/ worker'[x] = worker[x]
  BY <1>3 DEF IInv, Types
<1>5. /\ UNCHANGED <<status, selected, drafted, approved, approvals, asked, session, call>>
      /\ UNCHANGED <<drafting, move, saving, calm, honest, portalCalm, chosen>>
  BY DEF userVars, historyVars
<1>6. Types'
  BY <1>2, <1>4, <1>5 DEF IInv, Types
<1>7. DraftsKept'
  <2>1. honest => \A x \in Worker : Attaches(Final, worker'[x])
    BY <1>3, <1>4 DEF IInv, DraftsKept
  <2>. QED
    BY <1>2, <1>5, <2>1 DEF IInv, DraftsKept, DraftsStayDrafts, Final
<1>8. TasksKnown'
  <2>1. \A c \in Caller : WellCalled(call[c], task')
    BY <1>2, CallTypes DEF WellCalled
  <2>2. WellEmployed(k, task', Len(session))
    BY <1>1, <1>2, <1>3, SessionTypes DEF WellEmployed
  <2>3. \A x \in Worker : WellEmployed(worker[x], task', Len(session))
    BY <1>2, WorkerTypes DEF WellEmployed
  <2>4. \A x \in Worker : WellEmployed(worker'[x], task', Len(session))
    BY <1>4, <2>2, <2>3
  <2>5. /\ \A s \in asked : task'[s].started
        /\ \A n \in 1..Len(session) : task'[session[n]].started
    BY <1>2, SessionTypes DEF IInv, TasksKnown
  <2>. QED
    BY <1>2, <1>5, <2>1, <2>4, <2>5 DEF TasksKnown
<1>9. PortalKept'
  <2>. SUFFICES ASSUME portalCalm
                PROVE  /\ \A s \in Task : task'[s].status \in {"queued", "processing"}
                                              => task'[s].portal = chosen
                       /\ \A x \in Worker : worker'[x].step # "idle"
                                                => task'[worker'[x].task].portal = chosen
    BY <1>5 DEF IInv, PortalKept, IsActive
  <2>1. \A s \in Task : task'[s].status \in {"queued", "processing"} => task'[s].portal = chosen
    BY <1>2 DEF IInv, PortalKept, IsActive
  <2>2. k.step # "idle" => task'[k.task].portal = chosen
    BY <1>1, <1>2, <1>3 DEF IInv, PortalKept
  <2>3. \A x \in Worker : worker[x].step # "idle" => task'[worker[x].task].portal = chosen
    BY <1>2, WorkerTypes DEF IInv, PortalKept
  <2>. QED
    BY <1>4, <2>1, <2>2, <2>3
<1>10. ResumeKept'
  <2>. SUFFICES ASSUME calm, approvals > 0
                PROVE  /\ \A s \in Task : task'[s].status \in {"queued", "processing"} \/ s \in asked
                                              => task'[s].version = selected
                       /\ \A x \in Worker : About(selected, worker'[x], task', session)
                       /\ \E s \in Task : task'[s].version = selected
                       /\ honest => \A x \in Worker : Attaches({NoVersion, selected}, worker'[x])
    BY <1>5 DEF IInv, ResumeKept, IsActive
  <2>0. /\ \E s \in Task : task'[s].version = selected
        /\ honest => \A x \in Worker : Attaches({NoVersion, selected}, worker'[x])
    BY <1>2, <1>3, <1>4 DEF IInv, ResumeKept
  <2>1. \A s \in Task : task'[s].status \in {"queued", "processing"} \/ s \in asked
                          => task'[s].version = selected
    BY <1>2 DEF IInv, ResumeKept, IsActive
  <2>2. About(selected, k, task', session)
    <3>1. task[worker[w].task].version = selected
      BY DEF IInv, ResumeKept, About
    <3>. QED
      BY <1>1, <1>2, <1>3, <3>1 DEF About
  <2>3. ASSUME NEW x \in Worker PROVE About(selected, worker[x], task', session)
    <3>1. About(selected, worker[x], task, session)
      BY DEF IInv, ResumeKept
    <3>2. worker[x].step # "idle" => task'[worker[x].task].version = task[worker[x].task].version
      BY <1>2, WorkerTypes
    <3>3. \A n \in 1..Len(session) : task'[session[n]].version = task[session[n]].version
      BY <1>2, SessionTypes
    <3>. QED
      BY <3>1, <3>2, <3>3 DEF About
  <2>. QED
    BY <1>4, <2>0, <2>1, <2>2, <2>3
<1>. QED
  BY <1>6, <1>7, <1>8, <1>9, <1>10 DEF IInv

LEMMA FailTaskKeeps ==
  ASSUME IInv, NEW w \in Worker, FailTask(w)
  PROVE  IInv'
<1>1. /\ worker[w].step # "idle" /\ Settle(worker[w].task, "failed") /\ Rest(w)
      /\ UNCHANGED <<status, selected, drafted, approved, approvals, userVars, asked, session,
                      call, historyVars>>
      /\ UNCHANGED <<rows, portal, newest>>
  BY DEF FailTask, applicationVars
<1>2. /\ rows' \subseteq Row /\ RowsNumbered' /\ portal' \in Portal /\ newest' \in Portal
      /\ portalCalm => newest' = chosen /\ (~saving => portal' = chosen)
      /\ honest => \A row \in rows' : row.version \in Final
      /\ calm /\ approvals > 0 /\ honest => \E row \in rows' : row.version = selected
  BY <1>1 DEF IInv, Types, RowsNumbered, PortalKept, DraftsKept, DraftsStayDrafts, Final, ResumeKept
<1>. QED
  BY <1>1, <1>2, SettledKeeps

\* What a plan for version v makes of the rows.
LEMMA PersistedRows ==
  ASSUME IInv, NEW plan \in PlanState, Attachment!Applicable(plan, rows),
         plan.action = "create" => NextKey(rows)[2] \in 1..MaxKeys,
         approvals' = approvals,
         rows' = Attachment!Persisted(plan, rows, NextKey(rows))
  PROVE  /\ rows' \subseteq Row /\ RowsNumbered'
         /\ plan.action \in {"update", "create"} => \E row \in rows' : row.version = plan.version
         /\ plan.action \notin {"update", "create"} => rows' = rows
         /\ \A row \in rows' \ rows :
              plan.action \in {"update", "create"} /\ row.version = plan.version
<1>1. plan.version \in Resume /\ plan.url \in Resume
  BY DEF PlanState
<1>2. CASE plan.action = "update"
  <2>1. PICK old \in rows : old.key = plan.row.key
    BY <1>2 DEF Attachment!Applicable
  <2>. DEFINE new == [key |-> old.key, version |-> plan.version, url |-> plan.url]
  <2>2. new.key = old.key /\ new.version = plan.version /\ new \in Row
    BY <1>1, <2>1 DEF IInv, Types, Row
  <2>3. rows' = {row \in rows : row.key # old.key} \cup {new}
    BY <1>2, <2>1 DEF Attachment!Persisted
  <2>. HIDE DEF new
  <2>4. rows' \subseteq Row
    BY <2>2, <2>3 DEF IInv, Types
  <2>5. {row.key : row \in rows'} = {row.key : row \in rows}
    <3>1. \A row \in rows' : row.key \in {r.key : r \in rows}
      BY <2>1, <2>2, <2>3
    <3>2. \A row \in rows : \E other \in rows' : other.key = row.key
      BY <2>1, <2>2, <2>3
    <3>. QED
      BY <3>1, <3>2
  <2>6. \A one, other \in rows' : one.key = other.key => one = other
    BY <2>2, <2>3 DEF IInv, RowsNumbered
  <2>7. RowsNumbered'
    <3>1. PICK n \in 0..MaxKeys : {row.key : row \in rows} = {<<approvals, i>> : i \in 1..n}
      BY DEF IInv, RowsNumbered
    <3>2. {row.key : row \in rows'} = {<<approvals', i>> : i \in 1..n}
      BY <2>5, <3>1
    <3>3. \E m \in 0..MaxKeys : {row.key : row \in rows'} = {<<approvals', i>> : i \in 1..m}
      BY <3>2
    <3>. QED
      BY <2>6, <3>3 DEF RowsNumbered
  <2>. QED
    BY <1>2, <2>2, <2>3, <2>4, <2>7
<1>3. CASE plan.action = "create"
  <2>. DEFINE new == [key |-> NextKey(rows), version |-> plan.version, url |-> plan.url]
  <2>1. rows' = rows \cup {new}
    BY <1>3 DEF Attachment!Persisted
  <2>2. new.version = plan.version
    OBVIOUS
  <2>3. rows' \subseteq Row /\ RowsNumbered'
    BY <1>1, <1>3, <2>1, RowAdded
  <2>. HIDE DEF new
  <2>. QED
    BY <1>3, <2>1, <2>2, <2>3
<1>4. CASE plan.action \notin {"update", "create"}
  <2>1. rows' = rows
    BY <1>4 DEF Attachment!Persisted
  <2>2. RowsNumbered'
    BY <2>1 DEF IInv, RowsNumbered
  <2>. QED
    BY <1>4, <2>1, <2>2 DEF IInv, Types
<1>. QED
  BY <1>2, <1>3, <1>4

LEMMA CommitResultKeeps ==
  ASSUME IInv, NEW w \in Worker, NEW tracked \in BOOLEAN, CommitResult(w, tracked)
  PROVE  IInv'
<1>. DEFINE plan == worker[w].plan
<1>1. /\ worker[w].step = "commit" /\ Attachment!Applicable(plan, rows)
      /\ plan.action = "create" => NextKey(rows)[2] \in 1..MaxKeys
      /\ rows' = Attachment!Persisted(plan, rows, NextKey(rows))
      /\ TrackPortal(w, tracked)
      /\ Settle(worker[w].task, "completed") /\ (Rest(w) \/ GiveUp(w))
      /\ UNCHANGED <<status, selected, drafted, approved, approvals, userVars, asked, session,
                      call, historyVars>>
  BY DEF CommitResult
<1>2. plan \in PlanState /\ worker[w].task \in Task
  BY <1>1, WorkerTypes
<1>3. /\ portal' \in Portal /\ newest' \in Portal
      /\ portalCalm => newest' = chosen /\ (~saving => portal' = chosen)
  <2>1. CASE tracked
    <3>1. portal' = task[worker[w].task].portal
          /\ newest' \in {task[worker[w].task].portal, newest}
      BY <1>1, <2>1 DEF TrackPortal, Stamped
    <3>. QED
      BY <1>1, <1>2, <3>1, TaskTypes DEF IInv, Types, PortalKept
  <2>2. CASE ~tracked
    BY <1>1, <2>2 DEF TrackPortal, IInv, Types, PortalKept
  <2>. QED
    BY <2>1, <2>2
<1>4. /\ honest => (plan.action \in {"update", "create"} => plan.version \in Final)
      /\ calm /\ approvals > 0 /\ honest =>
           /\ plan.action \in {"update", "create"} => plan.version = selected
           /\ \E row \in rows : row.version = selected
  BY <1>1 DEF IInv, DraftsKept, ResumeKept, Attaches
<1>. HIDE DEF plan
<1>5. /\ rows' \subseteq Row /\ RowsNumbered'
      /\ plan.action \in {"update", "create"} => \E row \in rows' : row.version = plan.version
      /\ plan.action \notin {"update", "create"} => rows' = rows
      /\ \A row \in rows' \ rows :
           plan.action \in {"update", "create"} /\ row.version = plan.version
  BY <1>1, <1>2, PersistedRows
<1>6. /\ honest => \A row \in rows' : row.version \in Final
      /\ calm /\ approvals > 0 /\ honest => \E row \in rows' : row.version = selected
  BY <1>4, <1>5 DEF IInv, DraftsKept, DraftsStayDrafts, Final
<1>. QED
  BY <1>1, <1>3, <1>5, <1>6, SettledKeeps

----------------------------------------------------------------------------
(* The invariant and its theorems.                                         *)

LEMMA InitInvariant == Init => IInv
<1>. SUFFICES ASSUME Init PROVE IInv
  OBVIOUS
<1>1. Types
  <2>1. "tailoring_review" \in ApplicationStatus /\ << >> \in Seq(Task)
    BY DEF ApplicationStatus
  <2>. QED
    BY <2>1, Sizes, IdleTyped DEF Init, Types
<1>2. RowsNumbered
  <2>1. {row.key : row \in rows} = {<<approvals, i>> : i \in 1..0} /\ 0 \in 0..MaxKeys
    BY Sizes DEF Init
  <2>. QED
    BY <2>1 DEF Init, RowsNumbered
<1>3. TasksKnown
  <2>1. WellCalled(IdleCall, task) /\ WellEmployed(IdleWorker, task, Len(session))
    BY IdleTyped DEF Init, WellCalled, WellEmployed
  <2>. QED
    BY <2>1, IdleTyped DEF Init, TasksKnown
<1>4. PortalKept /\ ResumeKept
  BY IdleTyped DEF Init, PortalKept, ResumeKept, IsActive
<1>5. DraftsKept
  BY IdleTyped DEF Init, DraftsKept, DraftsStayDrafts, Final, Attaches
<1>. QED
  BY <1>1, <1>2, <1>3, <1>4, <1>5 DEF IInv

LEMMA StutterKeeps ==
  ASSUME IInv, UNCHANGED vars
  PROVE  IInv'
<1>1. /\ UNCHANGED <<status, selected, drafted, approved, approvals, rows, portal, newest>>
      /\ UNCHANGED <<drafting, move, saving, task, asked, session, call, worker>>
      /\ UNCHANGED <<calm, honest, portalCalm, chosen>>
  BY DEF vars, applicationVars, userVars, latchVars, historyVars
<1>2. Types' /\ RowsNumbered'
  BY <1>1 DEF IInv, Types, RowsNumbered
<1>3. TasksKnown' /\ DraftsKept'
  BY <1>1 DEF IInv, TasksKnown, DraftsKept, DraftsStayDrafts, Final
<1>4. PortalKept' /\ ResumeKept'
  BY <1>1 DEF IInv, PortalKept, ResumeKept, IsActive
<1>. QED
  BY <1>2, <1>3, <1>4 DEF IInv

LEMMA StepInvariant == IInv /\ [Next]_vars => IInv'
<1>. SUFFICES ASSUME IInv, [Next]_vars PROVE IInv'
  OBVIOUS
<1>1. CASE UserStep
  BY <1>1, DraftKeeps, BeginMoveKeeps, CommitMoveKeeps, SaveSessionKeeps, SavePortalKeeps,
     AddAttachmentKeeps
  DEF UserStep
<1>2. ASSUME NEW c \in Web, WebStep(c) PROVE IInv'
  BY <1>2, BeginApproveKeeps, LookForApprovalKeeps, CommitApproveKeeps, AbortApproveKeeps
  DEF WebStep
<1>3. ASSUME NEW c \in Operator, OperatorStep(c) PROVE IInv'
  BY <1>3, LookForOperatorKeeps, CommitOperatorKeeps DEF OperatorStep
<1>4. ASSUME NEW t \in Task, Answer(t) PROVE IInv'
  BY <1>4, AnswerKeeps
<1>5. ASSUME NEW w \in Worker, WorkerStepOf(w) PROVE IInv'
  BY <1>5, ClaimKeeps, AskKeeps, AcceptKeeps, GivesUpKeeps, ReadAttachmentsKeeps,
     CommitResultKeeps, FailTaskKeeps, DieKeeps
  DEF WorkerStepOf
<1>. QED
  BY <1>1, <1>2, <1>3, <1>4, <1>5, StutterKeeps DEF Next

\* The inductive invariant holds throughout.
THEOREM HandoffInvariant == Spec => []IInv
<1>1. Init => IInv
  BY InitInvariant
<1>2. IInv /\ [Next]_vars => IInv'
  BY StepInvariant
<1>. QED
  BY <1>1, <1>2, PTL DEF Spec

\* The application, its tasks, the agent's session and the callers keep their types.
THEOREM HandoffTypeCorrect == Spec => []TypeOK
<1>1. IInv => TypeOK
  <2>. SUFFICES ASSUME IInv PROVE TypeOK
    OBVIOUS
  <2>1. ASSUME NEW w \in Worker
        PROVE  /\ worker[w].step \in WorkerStep /\ worker[w].task \in {NoTask} \cup Task
               /\ worker[w].after \in 0..Len(session)
               /\ worker[w].attached \in Resume
    BY WorkerTypes, SessionTypes DEF WellEmployed
  <2>. QED
    BY <2>1 DEF TypeOK, IInv, Types, AnyVersion, MoveState
<1>. QED
  BY <1>1, HandoffInvariant, PTL

\* An approval that found no Latch work under way decides the resume, whatever
\* drafts, moves, tasks, late replies, failures and attachments follow: the selected
\* resume was handed over, and unless the agent named another one it is attached.
THEOREM ApprovedResumeIsAttached == Spec => []AttachedIsApproved
<1>1. IInv => AttachedIsApproved
  BY DEF IInv, ResumeKept, AttachedIsApproved
<1>. QED
  BY <1>1, HandoffInvariant, PTL

\* No draft that nobody approved is selected, handed over or attached, in whatever
\* order approvals, operators, workers and replies take their steps.
THEOREM UnapprovedStayDrafts == Spec => []DraftsStayDrafts
<1>1. IInv => DraftsStayDrafts
  BY DEF IInv, DraftsKept
<1>. QED
  BY <1>1, HandoffInvariant, PTL

\* A portal registered while no Latch work, enqueue or move is under way stays the
\* portal of the application and of its newest session, whatever Latch reports and
\* whichever session the moves stamp later.
THEOREM UsersPortalIsKept == Spec => []PortalIsUsers
<1>1. IInv => PortalIsUsers
  BY DEF IInv, PortalKept, PortalIsUsers
<1>. QED
  BY <1>1, HandoffInvariant, PTL

----------------------------------------------------------------------------
(* Refinement: the Latch queue implements TaskLedger.                      *)

Statuses == [t \in Task |-> task[t].status]
Started  == {t \in Task : task[t].started}

LEMMA LatchLedgerInit == Init => Ledger!Init
  BY IdleTyped DEF Init, Ledger!Init

LEMMA SettleIsLedgerStep ==
  ASSUME IInv, NEW w \in Worker, worker[w].step # "idle",
         NEW outcome \in {"completed", "failed"}, Settle(worker[w].task, outcome)
  PROVE  Ledger!Next
<1>. USE DEF Statuses, Started
<1>1. PICK t \in Task : t = worker[w].task /\ task[t].started
  BY WorkerTypes
<1>2. /\ task'[t].status = outcome
      /\ \A s \in Task : s # t => task'[s] = task[s]
      /\ \A s \in Task : task'[s].started = task[s].started
  <2>1. Settle(t, outcome)
    BY <1>1
  <2>. QED
    BY <1>1, <2>1, SettleWrites
<1>3. Statuses' = [Statuses EXCEPT ![t] = outcome]
  BY <1>2
<1>4. Started' = Started /\ t \in Started
  BY <1>1, <1>2
<1>5. Ledger!Complete(t) \/ Ledger!Fail(t)
  BY <1>3, <1>4 DEF Ledger!Complete, Ledger!Fail
<1>. QED
  BY <1>5 DEF Ledger!Next

LEMMA ClaimIsLedgerStep ==
  ASSUME IInv, NEW w \in Worker, Claim(w)
  PROVE  Ledger!Next
<1>. USE DEF Statuses, Started
<1>1. PICK t \in Task :
        /\ task[t].status = "queued" /\ task' \in [Task -> TaskRow]
        /\ task'[t].status = "processing" /\ task'[t].started
        /\ task'[t].version = task[t].version /\ task'[t].portal = task[t].portal
        /\ task'[t].by = task[t].by
        /\ \A s \in Task : s # t => task'[s] = task[s]
        /\ worker' = [worker EXCEPT ![w] = [IdleWorker EXCEPT !.step = "ask", !.task = t]]
  BY ClaimWrites
<1>2. Statuses' = [Statuses EXCEPT ![t] = "processing"]
  BY <1>1
<1>3. Started' = Started \cup {t}
  BY <1>1
<1>4. ~task[t].started
  BY <1>1 DEF IInv, TasksKnown
<1>5. Ledger!Start(t)
  BY <1>1, <1>2, <1>3, <1>4 DEF Ledger!Start
<1>. QED
  BY <1>5 DEF Ledger!Next

LEMMA EnqueueIsLedgerStep ==
  ASSUME IInv, NEW c \in Caller, Enqueued(c)
  PROVE  Ledger!Next \/ UNCHANGED <<Statuses, Started>>
<1>. USE DEF Statuses, Started
<1>1. CASE task' = task
  BY <1>1
<1>2. ASSUME NEW t \in Task, Enlisted(c, t) PROVE Ledger!Next
  <2>1. task[t].status = "absent" /\ ~task[t].started
    BY <1>2 DEF Enlisted, IInv, TasksKnown
  <2>2. task'[t].status = "queued" /\ ~task'[t].started
    BY <1>2, NewTaskTypes DEF Enlisted
  <2>3. \A s \in Task \ {t} :
          /\ task'[s].started = task[s].started
          /\ IF s = call[c].found THEN task[s].status # "absent" /\ task'[s].status = "failed"
                                  ELSE task'[s].status = task[s].status
    BY <1>2 DEF Enlisted, Displaced
  <2>4. Started' = Started
    BY <2>1, <2>2, <2>3
  <2>5. CASE call[c].found \in Task \ {t}
    <3>1. PICK r \in Task : r = call[c].found /\ r # t
      BY <2>5
    <3>2. task[r].status # "absent" /\ task'[r].status = "failed"
      BY <2>3, <3>1
    <3>3. Statuses' = [Statuses EXCEPT ![r] = "failed", ![t] = "queued"]
      BY <2>2, <2>3, <3>1, <3>2
    <3>4. Ledger!Replace(r, t)
      BY <2>1, <2>4, <3>2, <3>3 DEF Ledger!Replace
    <3>. QED
      BY <3>4 DEF Ledger!Next
  <2>6. CASE call[c].found \notin Task \ {t}
    <3>1. Statuses' = [Statuses EXCEPT ![t] = "queued"]
      BY <2>2, <2>3, <2>6
    <3>2. Ledger!Create(t)
      BY <2>1, <2>4, <3>1 DEF Ledger!Create
    <3>. QED
      BY <3>2 DEF Ledger!Next
  <2>. QED
    BY <2>5, <2>6
<1>. QED
  BY <1>1, <1>2, EnqueuedWrites

LEMMA LatchLedgerStep ==
  ASSUME IInv, [Next]_vars
  PROVE  Ledger!Next \/ UNCHANGED <<Statuses, Started>>
<1>0. ASSUME task' = task PROVE UNCHANGED <<Statuses, Started>>
  BY <1>0 DEF Statuses, Started
<1>1. CASE UserStep
  BY <1>0, <1>1
  DEF UserStep, BeginDraft, CommitDraft, LoseDraft, BeginMove, CommitMove, SaveSession, SavePortal,
      AddAttachment, latchVars
<1>2. ASSUME NEW c \in Web, WebStep(c)
      PROVE  Ledger!Next \/ UNCHANGED <<Statuses, Started>>
  <2>1. CASE CommitApprove(c)
    BY <2>1, EnqueueIsLedgerStep DEF CommitApprove, Caller
  <2>2. CASE ~CommitApprove(c)
    BY <1>0, <1>2, <2>2
    DEF WebStep, BeginApprove, LookForApproval, Look, AbortApprove, latchVars
  <2>. QED
    BY <2>1, <2>2
<1>3. ASSUME NEW c \in Operator, OperatorStep(c)
      PROVE  Ledger!Next \/ UNCHANGED <<Statuses, Started>>
  <2>1. CASE CommitOperator(c)
    BY <2>1, EnqueueIsLedgerStep DEF CommitOperator, Caller
  <2>2. CASE ~CommitOperator(c)
    BY <1>0, <1>3, <2>2 DEF OperatorStep, LookForOperator, Look, latchVars
  <2>. QED
    BY <2>1, <2>2
<1>4. ASSUME NEW t \in Task, Answer(t)
      PROVE  Ledger!Next \/ UNCHANGED <<Statuses, Started>>
  BY <1>0, <1>4 DEF Answer
<1>5. ASSUME NEW w \in Worker, WorkerStepOf(w)
      PROVE  Ledger!Next \/ UNCHANGED <<Statuses, Started>>
  <2>1. CASE Claim(w)
    BY <2>1, ClaimIsLedgerStep
  <2>2. CASE FailTask(w)
    BY <2>2, SettleIsLedgerStep DEF FailTask
  <2>3. ASSUME NEW tracked \in BOOLEAN, CommitResult(w, tracked) PROVE Ledger!Next
    BY <2>3, SettleIsLedgerStep DEF CommitResult
  <2>4. ASSUME NEW attached \in Resume, Accept(w, attached)
        PROVE  task' = task
    BY <2>4 DEF Accept, latchVars
  <2>5. CASE Ask(w) \/ Reject(w) \/ ReadAttachments(w) \/ CommitThrows(w) \/ AbortResult(w)
             \/ Die(w)
    BY <1>0, <2>5 DEF Ask, Reject, ReadAttachments, CommitThrows, AbortResult, Die, latchVars
  <2>. QED
    BY <1>0, <1>5, <2>1, <2>2, <2>3, <2>4, <2>5 DEF WorkerStepOf
<1>6. CASE UNCHANGED vars
  BY <1>0, <1>6 DEF vars, latchVars
<1>. QED
  BY <1>1, <1>2, <1>3, <1>4, <1>5, <1>6 DEF Next

\* The Latch queue keeps the promise of TaskLedger: work on a task starts at most
\* once and from the queue, and no task is ever queued a second time.
THEOREM LatchImplementsLedger == Spec => LedgerSpec
<1>1. Init => Ledger!Init
  BY LatchLedgerInit
<1>2. IInv /\ [Next]_vars => [Ledger!Next]_(Ledger!ledgerVars)
  BY LatchLedgerStep DEF Ledger!ledgerVars, Statuses, Started
<1>. QED
  BY <1>1, <1>2, HandoffInvariant, PTL DEF Spec, LedgerSpec, Ledger!Spec

=============================================================================
