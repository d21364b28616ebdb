----------------------------- MODULE JobsBoard -----------------------------
(***************************************************************************)
(* The board of jobs: Scout's ingestion runs (workers/scout/index.ts), the *)
(* posting checks (posting-check.ts), the user's shortlisting and          *)
(* archiving, and the start of an application (application-start.ts).      *)
(*                                                                         *)
(* A run works through its records one statement at a time, with no        *)
(* transaction around them: it looks a posting up, links or creates a job, *)
(* remembers the status it read, asks for decisions, checks postings, and  *)
(* only then writes a status and a decision for every job it remembered.   *)
(* Other runs and the user act in between.                                 *)
(***************************************************************************)
EXTENDS Naturals, Sequences, FiniteSets

CONSTANTS
  Run,               \* calls of runScoutIngestion
  Key,               \* idempotency keys
  Posting,           \* identities of postings (URL, or company, title and place)
  RecordsOf,         \* the postings a call's records describe, in order
  Starter,           \* requests that start an application
  Verdicts,          \* the decisions a review may return
  Answers,           \* the statuses a posting check may return
  MaxJobs,           \* bound: rows of the job table
  MaxApplications    \* bound: rows of the application table

JobStatus == {"discovered", "shortlisted", "archived"}
PostingCheckStatus == {"live", "probably_live", "uncertain", "dead"}
Verdict == {"shortlist", "archive", "needs_human_review", "defer"}

ASSUME ConstantsAssumption ==
  /\ "none" \notin Key \cup Posting
  /\ RecordsOf \in [Run -> Seq(Posting)]
  /\ Verdicts \subseteq {d \in [verdict : Verdict, auto : BOOLEAN] :
                           d.auto => d.verdict \in {"shortlist", "archive"}}
  /\ Answers \subseteq PostingCheckStatus
  /\ {MaxJobs, MaxApplications} \subseteq Nat \ {0}

VARIABLES
  job,               \* the rows of the job table
  check,             \* each job's newest posting check, and whether it is fresh
  decision,          \* the rows of the decision table, one for a job and a run
  scrape,            \* the row of each run
  source,            \* the source records of each run, in order
  run,               \* where each run is, and what it has in hand
  application,       \* the rows of the application table
  starter,           \* where each starting request is
  said,              \* history: what the user last decided about a job
  saidCalm,          \* history: no run had the job in hand then
  racing,            \* history: keys, postings and jobs looked up by two at once
  cutOff             \* history: applications whose request ended before its task

boardVars == <<job, check, decision>>
scoutVars == <<scrape, source, run>>
startVars == <<application, starter>>
historyVars == <<said, saidCalm, racing, cutOff>>
vars == <<boardVars, scoutVars, startVars, historyVars>>

----------------------------------------------------------------------------

NoKey == "none"
Job == 1..MaxJobs
NoJob == 0
Application == 1..MaxApplications
NoApplication == 0

AbsentJob == [posting |-> "none", status |-> "absent"]
JobExists(j) == job[j].status # "absent"
FreeJobs == {j \in Job : ~JobExists(j)}
\* Faulty variant: archived jobs are left out of the look-up.
OpenJobsOf(posting) == {j \in Job : job[j].posting = posting /\ job[j].status # "archived"}

JobsOf(posting) == {j \in Job : job[j].posting = posting}

NoDecision == [verdict |-> "none", auto |-> FALSE]
NoCheck == [status |-> "none", fresh |-> FALSE]
SaysGone(status) == status \in {"uncertain", "dead"}

RunStep == {"idle", "create", "find", "record", "check", "ask", "write", "note",
            "failing", "done", "dead"}

\* A run's own variables: the record it is at, the job it found for it and the
\* status it read, its pending reviews, the decisions and posting statuses.
IdleRun == [step |-> "idle", key |-> NoKey, next |-> 1, found |-> NoJob,
            previous |-> "absent", reviews |-> <<>>, at |-> 1, errors |-> FALSE,
            verdict |-> [j \in Job |-> NoDecision], posting |-> [j \in Job |-> "none"]]

IdleStarter == [step |-> "idle", job |-> NoJob, application |-> NoApplication]
AbsentApplication == [job |-> NoJob, tasked |-> FALSE]

Review == [job : Job, previous : JobStatus]

TypeOK ==
  /\ \A j \in Job : JobExists(j) => job[j].posting \in Posting /\ job[j].status \in JobStatus
  /\ \A j \in Job : check[j].status \in {"none"} \cup PostingCheckStatus
  /\ \A d \in decision : d.run \in Run /\ d.job \in Job /\ JobExists(d.job)
  /\ \A d, e \in decision : d.run = e.run /\ d.job = e.job => d = e
  /\ \A r \in Run :
       /\ run[r].step \in RunStep
       /\ run[r].reviews \in Seq(Review)
       /\ scrape[r].status \in {"absent", "processing", "completed", "partial", "failed"}
       /\ \A n \in DOMAIN source[r] :
            source[r][n].status \in {"captured", "deduped", "normalized", "errored"}
  /\ \A s \in Starter : starter[s].step \in {"idle", "create", "enqueue"}
  /\ \A a \in Application :
       application[a] = AbsentApplication \/ JobExists(application[a].job)

Init ==
  /\ job = [j \in Job |-> AbsentJob]
  /\ check = [j \in Job |-> NoCheck]
  /\ decision = {}
  /\ scrape = [r \in Run |-> [status |-> "absent", key |-> NoKey]]
  /\ source = [r \in Run |-> <<>>]
  /\ run = [r \in Run |-> IdleRun]
  /\ application = [a \in Application |-> AbsentApplication]
  /\ starter = [s \in Starter |-> IdleStarter]
  /\ said = [j \in Job |-> "nothing"]
  /\ saidCalm = [j \in Job |-> TRUE]
  /\ racing = [keys |-> {}, postings |-> {}, jobs |-> {}]
  /\ cutOff = {}

----------------------------------------------------------------------------
(* Scout: runScoutIngestion.                                               *)

\* Faulty variant: only finished runs count.
HoldsWhenDone(key) == \E r \in Run : /\ scrape[r].key = key
                                     /\ scrape[r].status \in {"completed", "partial"}

Holds(key) == \E r \in Run : /\ scrape[r].key = key
                             /\ scrape[r].status \in {"processing", "completed", "partial"}

\* The look-up of the key, a statement of its own: an unfinished or finished
\* run with the key is returned instead of a new one.
LookUpKey(r, key) ==
  /\ run[r].step = "idle"
  /\ run' = [run EXCEPT ![r].step = IF key # NoKey /\ Holds(key) THEN "done" ELSE "create",
                        ![r].key = key]
  /\ racing' = IF key # NoKey /\ \E o \in Run : run[o].step = "create" /\ run[o].key = key
               THEN [racing EXCEPT !.keys = @ \cup {key}] ELSE racing
  /\ UNCHANGED <<boardVars, scrape, source, startVars, said, saidCalm, cutOff>>

CreateRun(r) ==
  /\ run[r].step = "create"
  /\ scrape' = [scrape EXCEPT ![r] = [status |-> "processing", key |-> run[r].key]]
  /\ run' = [run EXCEPT ![r].step = "find"]
  /\ UNCHANGED <<boardVars, source, startVars, historyVars>>

RecordsLeft(r) == run[r].next <= Len(RecordsOf[r])
PostingAt(r) == RecordsOf[r][run[r].next]

\* Another run is about to create a job for the posting.
AnotherCreates(r, posting) ==
  \E o \in Run \ {r} : run[o].step = "record" /\ run[o].found = NoJob /\ PostingAt(o) = posting

\* The source record is stored and an existing job looked up, with its status.
FindJob(r) ==
  /\ run[r].step = "find"
  /\ RecordsLeft(r)
  /\ source' = [source EXCEPT ![r] = Append(@, [status |-> "captured", job |-> NoJob])]
  /\ \/ \E j \in JobsOf(PostingAt(r)) :
          /\ run' = [run EXCEPT ![r].step = "record", ![r].found = j,
                                ![r].previous = job[j].status]
          /\ racing' = racing
     \/ /\ JobsOf(PostingAt(r)) = {}
        /\ run' = [run EXCEPT ![r].step = "record", ![r].found = NoJob,
                              ![r].previous = "discovered"]
        /\ racing' = IF AnotherCreates(r, PostingAt(r))
                     THEN [racing EXCEPT !.postings = @ \cup {PostingAt(r)}] ELSE racing
  /\ UNCHANGED <<boardVars, scrape, startVars, said, saidCalm, cutOff>>

\* The record cannot be normalised or stored: it is counted and skipped.
SkipRecord(r) ==
  /\ run[r].step = "find"
  /\ RecordsLeft(r)
  /\ run' = [run EXCEPT ![r].next = @ + 1, ![r].errors = TRUE]
  /\ UNCHANGED <<boardVars, scrape, source, startVars, historyVars>>

SetSource(r, status, j) ==
  source' = [source EXCEPT ![r][Len(source[r])] = [status |-> status, job |-> j]]

Remembered(r, j) ==
  [run EXCEPT ![r].step = "find", ![r].next = @ + 1, ![r].found = NoJob,
              ![r].previous = "absent",
              ![r].reviews = Append(@, [job |-> j, previous |-> run[r].previous])]

LinkRecord(r) ==
  /\ run[r].step = "record" /\ run[r].found # NoJob
  /\ SetSource(r, "deduped", run[r].found)
  /\ run' = Remembered(r, run[r].found)
  /\ UNCHANGED <<boardVars, scrape, startVars, historyVars>>

NewJob == CHOOSE j \in FreeJobs : TRUE

CreateJob(r) ==
  /\ run[r].step = "record" /\ run[r].found = NoJob
  /\ FreeJobs # {}
  /\ job' = [job EXCEPT ![NewJob] = [posting |-> PostingAt(r), status |-> "discovered"]]
  /\ SetSource(r, "normalized", NewJob)
  /\ run' = Remembered(r, NewJob)
  /\ UNCHANGED <<check, decision, scrape, startVars, historyVars>>

\* Faulty variant: the error is stored with the record and not counted.
FailRecordQuietly(r, created) ==
  /\ run[r].step = "record"
  /\ ~created
  /\ SetSource(r, "errored", NoJob)
  /\ run' = [run EXCEPT ![r].step = "find", ![r].next = @ + 1, ![r].found = NoJob,
                        ![r].previous = "absent"]
  /\ UNCHANGED <<boardVars, scrape, startVars, historyVars>>

\* A later statement of the record throws: the job may exist already, and is
\* not reviewed by this run.
FailRecord(r, created) ==
  /\ run[r].step = "record"
  /\ created => run[r].found = NoJob /\ FreeJobs # {}
  /\ job' = IF created
            THEN [job EXCEPT ![NewJob] = [posting |-> PostingAt(r), status |-> "discovered"]]
            ELSE job
  /\ SetSource(r, "errored", NoJob)
  /\ run' = [run EXCEPT ![r].step = "find", ![r].next = @ + 1, ![r].found = NoJob,
                        ![r].previous = "absent", ![r].errors = TRUE]
  /\ UNCHANGED <<check, decision, scrape, startVars, historyVars>>

Reviewed(r) == {run[r].reviews[n].job : n \in DOMAIN run[r].reviews}
Candidate(r) == run[r].reviews[run[r].at]

\* resolveScoutDecisions: one decision for each job, by rule or by the agent.
ReviewJobs(r) ==
  /\ run[r].step = "find"
  /\ ~RecordsLeft(r)
  /\ \E d \in [Reviewed(r) -> Verdicts] :
       run' = [run EXCEPT ![r].step = IF Reviewed(r) = {} THEN "write" ELSE "check",
                          ![r].verdict = [j \in Job |-> IF j \in Reviewed(r) THEN d[j]
                                                        ELSE NoDecision]]
  /\ UNCHANGED <<boardVars, scrape, source, startVars, historyVars>>

\* shouldAutoRunPostingCheck, where the checks are not disabled.
WantsCheck(r) ==
  \/ run[r].verdict[Candidate(r).job].verdict = "shortlist"
  \/ Candidate(r).previous = "shortlisted"

\* The loop over the checks goes on to the next candidate, then to the writes.
Checked(state) ==
  IF state.at = Len(state.reviews)
  THEN [state EXCEPT !.step = "write", !.at = 1]
  ELSE [state EXCEPT !.step = "check", !.at = @ + 1]

\* No check is wanted, or the newest one is fresh and taken as it is.
TakeCheck(r) ==
  /\ run[r].step = "check"
  /\ \/ /\ ~WantsCheck(r)
        /\ run' = [run EXCEPT ![r] = Checked(@)]
     \/ /\ WantsCheck(r)
        /\ check[Candidate(r).job].fresh
        /\ run' = [run EXCEPT ![r] = Checked([@ EXCEPT !.posting[Candidate(r).job] =
                                                check[Candidate(r).job].status])]
  /\ UNCHANGED <<boardVars, scrape, source, startVars, historyVars>>

AskCheck(r) ==
  /\ run[r].step = "check"
  /\ WantsCheck(r)
  /\ ~check[Candidate(r).job].fresh
  /\ run' = [run EXCEPT ![r].step = "ask"]
  /\ UNCHANGED <<boardVars, scrape, source, startVars, historyVars>>

\* The agent's answer is stored; a job without a usable URL is uncertain at once.
PersistCheck(j, status) == check' = [check EXCEPT ![j] = [status |-> status, fresh |-> TRUE]]

CheckAnswered(r, status) ==
  /\ run[r].step = "ask"
  /\ PersistCheck(Candidate(r).job, status)
  /\ run' = [run EXCEPT ![r] = Checked([@ EXCEPT !.posting[Candidate(r).job] = status])]
  /\ UNCHANGED <<job, decision, scrape, source, startVars, historyVars>>

\* A check that fails is counted, and the run goes on without a status.
CheckFails(r) ==
  /\ run[r].step = "ask"
  /\ run' = [run EXCEPT ![r] = Checked([@ EXCEPT !.errors = TRUE])]
  /\ UNCHANGED <<boardVars, scrape, source, startVars, historyVars>>

\* allowsAutomaticDecisionWithPostingStatus and its caller.
ActsAutomatically(r) ==
  LET j == Candidate(r).job
  IN /\ Candidate(r).previous = "discovered"
     /\ run[r].verdict[j].auto
     /\ run[r].verdict[j].verdict = "shortlist" => ~SaysGone(run[r].posting[j])

\* resolveResultingStatus.
StatusFor(verdict) == IF verdict = "shortlist" THEN "shortlisted" ELSE "archived"

\* Faulty variant: a decision that is not automatic sends the job to the inbox.
ResultingStatusInbox(r) ==
  IF ActsAutomatically(r) THEN StatusFor(run[r].verdict[Candidate(r).job].verdict)
  ELSE "discovered"

\* The status read with the record is written back where nothing is automatic.
ResultingStatus(r) ==
  IF ActsAutomatically(r) THEN StatusFor(run[r].verdict[Candidate(r).job].verdict)
  ELSE Candidate(r).previous

ReviewsLeft(r) == run[r].at <= Len(run[r].reviews)

WriteStatus(r) ==
  /\ run[r].step = "write"
  /\ ReviewsLeft(r)
  /\ job' = [job EXCEPT ![Candidate(r).job].status = ResultingStatus(r)]
  /\ run' = [run EXCEPT ![r].step = "note"]
  /\ UNCHANGED <<check, decision, scrape, source, startVars, historyVars>>

\* Faulty variant: the decision recorded says what was asked, not what was done.
DecisionRowAsAsked(r) ==
  [run |-> r, job |-> Candidate(r).job, verdict |-> run[r].verdict[Candidate(r).job].verdict,
   auto |-> FALSE]

DecisionRow(r) ==
  [run |-> r, job |-> Candidate(r).job, verdict |-> run[r].verdict[Candidate(r).job].verdict,
   auto |-> ActsAutomatically(r)]

\* Faulty variant: the decision is added although the run has one already.
NoteDecisionTwice(r) ==
  /\ run[r].step = "note"
  /\ decision' = decision \cup {DecisionRow(r)}
  /\ run' = [run EXCEPT ![r].step = "write", ![r].at = @ + 1]
  /\ UNCHANGED <<job, check, scrape, source, startVars, historyVars>>

\* persistScoutDecision: the row of this job and this run is replaced.
NoteDecision(r) ==
  /\ run[r].step = "note"
  /\ decision' = {d \in decision : d.run # r \/ d.job # Candidate(r).job} \cup {DecisionRow(r)}
  /\ run' = [run EXCEPT ![r].step = "write", ![r].at = @ + 1]
  /\ UNCHANGED <<job, check, scrape, source, startVars, historyVars>>

End(r, status, step) ==
  /\ scrape' = [scrape EXCEPT ![r].status = status]
  /\ run' = [run EXCEPT ![r] = [IdleRun EXCEPT !.step = step]]
  /\ UNCHANGED <<boardVars, source, startVars, historyVars>>

FinishRun(r) ==
  /\ run[r].step = "write"
  /\ ~ReviewsLeft(r)
  /\ End(r, IF run[r].errors THEN "partial" ELSE "completed", "done")

\* A statement outside the record's and the check's own catch throws, or the
\* review fails, times out or does not validate.
Throw(r) ==
  /\ run[r].step \in {"find", "record", "check", "write", "note"}
  /\ run' = [run EXCEPT ![r] = [IdleRun EXCEPT !.step = "failing"]]
  /\ UNCHANGED <<boardVars, scrape, source, startVars, historyVars>>

FailRun(r) ==
  /\ run[r].step = "failing"
  /\ End(r, "failed", "done")

\* The process dies; the row keeps its status.
Die(r) ==
  /\ run[r].step \notin {"idle", "done", "dead"}
  /\ run' = [run EXCEPT ![r] = [IdleRun EXCEPT !.step = "dead"]]
  /\ UNCHANGED <<boardVars, scrape, source, startVars, historyVars>>

----------------------------------------------------------------------------
(* The user: shortlisting, archiving and verifying.                        *)

\* The run has read the job's status and has still to write it back.
HasInHand(r, j) == run[r].found = j \/ j \in Reviewed(r)

\* The routes and the page's actions write whatever the status is.
Decide(j, status) ==
  /\ JobExists(j)
  /\ job' = [job EXCEPT ![j].status = status]
  /\ said' = [said EXCEPT ![j] = status]
  /\ saidCalm' = [saidCalm EXCEPT ![j] = \A r \in Run : ~HasInHand(r, j)]
  /\ UNCHANGED <<check, decision, scoutVars, startVars, racing, cutOff>>

\* The check that follows a shortlisting, the user's own verification and the
\* backfill: each stores an answer at some time after it was asked for, or
\* nothing.  The first may find a fresh check instead and store nothing.
CheckPosting(j, status) ==
  /\ JobExists(j)
  /\ PersistCheck(j, status)
  /\ UNCHANGED <<job, decision, scoutVars, startVars, historyVars>>

\* The freshness window of a check passes.
Expire(j) ==
  /\ check[j].fresh
  /\ check' = [check EXCEPT ![j].fresh = FALSE]
  /\ UNCHANGED <<job, decision, scoutVars, startVars, historyVars>>

----------------------------------------------------------------------------
(* The start of an application.                                            *)

ApplicationsOf(j) == {a \in Application : application[a].job = j}

\* Faulty variant: an application whose task is missing is not seen.
BeginStartUntasked(s, j, guarded) ==
  /\ starter[s].step = "idle"
  /\ JobExists(j)
  /\ \A a \in ApplicationsOf(j) : ~application[a].tasked
  /\ guarded => ~SaysGone(check[j].status)
  /\ starter' = [starter EXCEPT ![s] = [step |-> "create", job |-> j,
                                        application |-> NoApplication]]
  /\ UNCHANGED <<boardVars, scoutVars, application, historyVars>>

\* The start route and createApplicationAction look for an application of the
\* job; the route also refuses a job whose newest check says it is gone.  Both pass
\* over an archived application, but no handler archives one.
BeginStart(s, j, guarded) ==
  /\ starter[s].step = "idle"
  /\ JobExists(j)
  /\ ApplicationsOf(j) = {}
  /\ guarded => ~SaysGone(check[j].status)
  /\ starter' = [starter EXCEPT ![s] = [step |-> "create", job |-> j,
                                        application |-> NoApplication]]
  /\ racing' = IF \E o \in Starter : starter[o].step = "create" /\ starter[o].job = j
               THEN [racing EXCEPT !.jobs = @ \cup {j}] ELSE racing
  /\ UNCHANGED <<boardVars, scoutVars, application, said, saidCalm, cutOff>>

FreeApplications == ApplicationsOf(NoJob)

\* startApplicationForJob: the application and its audit in a transaction ...
CommitStart(s) ==
  /\ starter[s].step = "create"
  /\ \E a \in FreeApplications :
       /\ \A o \in FreeApplications : a <= o
       /\ application' = [application EXCEPT ![a].job = starter[s].job]
       /\ starter' = [starter EXCEPT ![s].step = "enqueue", ![s].application = a]
  /\ UNCHANGED <<boardVars, scoutVars, historyVars>>

\* ... and then the Needle task, in another.
EnqueueStart(s) ==
  /\ starter[s].step = "enqueue"
  /\ application' = [application EXCEPT ![starter[s].application].tasked = TRUE]
  /\ starter' = [starter EXCEPT ![s] = IdleStarter]
  /\ UNCHANGED <<boardVars, scoutVars, historyVars>>

\* Either step throws (there is no base resume, the enqueue fails), or the
\* process dies.
StartFails(s) ==
  /\ starter[s].step # "idle"
  /\ starter' = [starter EXCEPT ![s] = IdleStarter]
  /\ cutOff' = (cutOff \cup {starter[s].application}) \ {NoApplication}
  /\ UNCHANGED <<boardVars, scoutVars, application, said, saidCalm, racing>>

----------------------------------------------------------------------------

RunStepOf(r) ==
  \/ \E key \in Key \cup {NoKey} : LookUpKey(r, key)
  \/ CreateRun(r) \/ FindJob(r) \/ SkipRecord(r) \/ LinkRecord(r) \/ CreateJob(r)
  \/ \E created \in BOOLEAN : FailRecord(r, created)
  \/ ReviewJobs(r) \/ TakeCheck(r) \/ AskCheck(r)
  \/ \E status \in Answers : CheckAnswered(r, status)
  \/ CheckFails(r) \/ WriteStatus(r) \/ NoteDecision(r) \/ FinishRun(r)
  \/ Throw(r) \/ FailRun(r) \/ Die(r)

UserStep ==
  \/ \E j \in Job, status \in {"shortlisted", "archived"} : Decide(j, status)
  \/ \E j \in Job, status \in Answers : CheckPosting(j, status)

StarterStepOf(s) ==
  \/ \E j \in Job, guarded \in BOOLEAN : BeginStart(s, j, guarded)
  \/ CommitStart(s) \/ EnqueueStart(s) \/ StartFails(s)

Next ==
  \/ \E r \in Run : RunStepOf(r)
  \/ UserStep
  \/ \E s \in Starter : StarterStepOf(s)
  \/ \E j \in Job : Expire(j)

Spec == Init /\ [][Next]_vars

----------------------------------------------------------------------------

\* What the user decided about a job stands, whatever runs see the posting
\* again: only a run that had the job in hand already may undo it.
UserDecisionStands ==
  \A j \in Job : saidCalm[j] /\ said[j] # "nothing" => job[j].status = said[j]

\* A posting has one job, unless two runs looked it up at the same time.
OneJobPerPosting ==
  \A posting \in Posting \ racing.postings : Cardinality({j \in Job : job[j].posting = posting}) <= 1

\* A key has one run that is under way or done, unless two looked at once.
KeyOnce ==
  \A key \in Key \ racing.keys :
    Cardinality({r \in Run : /\ scrape[r].key = key
                             /\ scrape[r].status \in {"processing", "completed", "partial"}}) <= 1

\* A run that ends well has a decision for every job its records led to, and
\* one that ends as completed has lost no record.
EndedRunsAreWhole ==
  \A r \in Run : scrape[r].status \in {"completed", "partial"} =>
    /\ \A n \in DOMAIN source[r] : source[r][n].status \in {"deduped", "normalized"} =>
         \E d \in decision : d.run = r /\ d.job = source[r][n].job
    /\ scrape[r].status = "completed" =>
         /\ Len(source[r]) = Len(RecordsOf[r])
         /\ \A n \in DOMAIN source[r] : source[r][n].status # "errored"

\* A job that left the inbox without the user has an automatic decision that
\* says so, unless some run broke off or met the posting twice: the decision on
\* its second record replaces the one that moved the job.
MovesAreExplained ==
  \A j \in Job :
    /\ JobExists(j) /\ job[j].status # "discovered" /\ said[j] = "nothing"
    /\ \A r \in Run : scrape[r].status \notin {"processing", "failed"}
    /\ \A r \in Run : \A m, n \in DOMAIN RecordsOf[r] :
         /\ scrape[r].status # "absent"
         /\ RecordsOf[r][m] = job[j].posting /\ RecordsOf[r][n] = job[j].posting
         => m = n
    => \E d \in decision : d.job = j /\ d.auto /\ StatusFor(d.verdict) = job[j].status

\* A job has one application, unless two starts of it overlapped, and that
\* application has its Needle task once its request is over, unless cut off.
StartedOnce ==
  /\ \A j \in Job \ racing.jobs : Cardinality({a \in Application : application[a].job = j}) <= 1
  /\ \A a \in Application \ cutOff :
       application[a].job # NoJob /\ ~application[a].tasked =>
         \E s \in Starter : starter[s].application = a

=============================================================================
