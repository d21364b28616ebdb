--------------------------- MODULE JobsBoardProofs ---------------------------
(***************************************************************************)
(* The user's decisions, the uniqueness of jobs, of runs for a key and of  *)
(* applications, for any runs, records, starting requests and bounds.      *)
(***************************************************************************)
EXTENDS JobsBoard, FiniteSetTheorems, SequenceTheorems, TLAPS

----------------------------------------------------------------------------
(* The inductive invariant.                                                *)

DecisionOrNone == [verdict : Verdict \cup {"none"}, auto : BOOLEAN]

RunState ==
  [step : RunStep, key : Key \cup {NoKey}, next : Nat \ {0}, found : Job \cup {NoJob},
   previous : JobStatus \cup {"absent"}, reviews : Seq(Review), at : Nat \ {0},
   errors : BOOLEAN, verdict : [Job -> DecisionOrNone],
   posting : [Job -> PostingCheckStatus \cup {"none"}]]

JobRow == [posting : Posting \cup {"none"}, status : JobStatus \cup {"absent"}]
CheckRow == [status : PostingCheckStatus \cup {"none"}, fresh : BOOLEAN]
ScrapeRow == [status : {"absent", "processing", "completed", "partial", "failed"},
              key : Key \cup {NoKey}]
SourceRow == [status : {"captured", "deduped", "normalized", "errored"}, job : Job \cup {NoJob}]
StarterState == [step : {"idle", "create", "enqueue"}, job : Job \cup {NoJob},
                 application : Application \cup {NoApplication}]
ApplicationRow == [job : Job \cup {NoJob}, tasked : BOOLEAN]

Types ==
  /\ job \in [Job -> JobRow]
  /\ check \in [Job -> CheckRow]
  /\ scrape \in [Run -> ScrapeRow]
  /\ source \in [Run -> Seq(SourceRow)]
  /\ run \in [Run -> RunState]
  /\ application \in [Application -> ApplicationRow]
  /\ starter \in [Starter -> StarterState]
  /\ said \in [Job -> {"nothing", "shortlisted", "archived"}]
  /\ saidCalm \in [Job -> BOOLEAN]
  /\ racing \in [keys : SUBSET Key, postings : SUBSET Posting, jobs : SUBSET Job]
  /\ cutOff \subseteq Application

\* A row of the job table is there with a posting and a status, or it is not.
JobsAreRows ==
  \A j \in Job : (job[j].status = "absent" <=> job[j].posting = "none")

\* Decisions are about jobs, one for a job and a run.
DecisionsAreRows ==
  /\ \A d \in decision : d.run \in Run /\ d.job \in Job /\ JobExists(d.job)
  /\ \A d, e \in decision : d.run = e.run /\ d.job = e.job => d = e

\* Where a run in state k is in its records (of which rows are stored) and in
\* its reviews, and that the jobs it has in hand are there.
WellPlaced(r, k, jobs, status, rows) ==
  /\ k.step \in {"idle", "create", "find", "record"} => k.at = 1
  /\ k.step = "record" => /\ k.next <= Len(RecordsOf[r])
                          /\ k.previous \in JobStatus
                          /\ rows # <<>>
  /\ k.step \in {"check", "ask", "note"} => k.at <= Len(k.reviews)
  /\ k.step \in {"find", "record", "check", "ask", "write", "note"} => status = "processing"
  /\ k.found # NoJob => jobs[k.found].status # "absent"
  /\ \A n \in 1..Len(k.reviews) : jobs[k.reviews[n].job].status # "absent"

RunsAreWell == \A r \in Run : WellPlaced(r, run[r], job, scrape[r].status, source[r])

\* A run in state k that has in hand a job about which the user decided calmly
\* has read the status the user wrote.
KnowsSaid(k, words, calm) ==
  \A j \in Job : calm[j] /\ words[j] # "nothing" =>
    /\ k.found = j => k.previous = words[j]
    /\ \A n \in 1..Len(k.reviews) : k.reviews[n].job = j => k.reviews[n].previous = words[j]

RunsKnowSaid ==
  /\ \A r \in Run : KnowsSaid(run[r], said, saidCalm)
  /\ \A j \in Job : ~JobExists(j) => said[j] = "nothing"

\* A key that nobody looked up at the same time as another: one run has it,
\* and one that is about to be created for it finds it free.
HasKey(r, key) ==
  scrape[r].key = key /\ scrape[r].status \in {"processing", "completed", "partial"}

KeysHeld ==
  \A key \in Key \ racing.keys :
    /\ \A r, o \in Run : HasKey(r, key) /\ HasKey(o, key) => r = o
    /\ \A r \in Run : run[r].step = "create" /\ run[r].key = key =>
         /\ ~Holds(key)
         /\ \A o \in Run : run[o].step = "create" /\ run[o].key = key => o = r

\* The same of postings.
Creates(r, posting) ==
  run[r].step = "record" /\ run[r].found = NoJob /\ PostingAt(r) = posting

PostingsHeld ==
  \A posting \in Posting \ racing.postings :
    /\ \A i, j \in JobsOf(posting) : i = j
    /\ \A r \in Run : Creates(r, posting) =>
         JobsOf(posting) = {} /\ \A o \in Run : Creates(o, posting) => o = r

\* The same of jobs and their applications; an application without its task
\* has a request that is about to enqueue it.
Starts(s, j) == starter[s].step = "create" /\ starter[s].job = j

StartsHeld ==
  /\ \A j \in Job \ racing.jobs :
       /\ \A a, b \in ApplicationsOf(j) : a = b
       /\ \A s \in Starter : Starts(s, j) =>
            ApplicationsOf(j) = {} /\ \A o \in Starter : Starts(o, j) => o = s
  /\ \A a \in Application \ cutOff :
       application[a].job # NoJob /\ ~application[a].tasked =>
         \E s \in Starter : starter[s].application = a
  /\ \A s \in Starter :
       /\ starter[s].step # "enqueue" => starter[s].application = NoApplication
       /\ starter[s].step = "create" => starter[s].job \in Job /\ JobExists(starter[s].job)
       /\ starter[s].step = "enqueue" => starter[s].application \in Application
  /\ \A a \in Application :
       /\ application[a].job = NoJob => ~application[a].tasked
       /\ application[a].job # NoJob => JobExists(application[a].job)
  /\ \A s \in Starter : starter[s].step = "enqueue" =>
       application[starter[s].application].job # NoJob

IInv ==
  /\ Types
  /\ JobsAreRows
  /\ DecisionsAreRows
  /\ RunsAreWell
  /\ UserDecisionStands
  /\ RunsKnowSaid
  /\ KeysHeld
  /\ PostingsHeld
  /\ StartsHeld

----------------------------------------------------------------------------
(* Steps of a run that leave the jobs alone.                               *)

LEMMA RunTypes ==
  ASSUME Types, NEW r \in Run
  PROVE  /\ run[r] \in RunState
         /\ run[r].step \in RunStep
         /\ run[r].key \in Key \cup {NoKey}
         /\ run[r].next \in Nat \ {0}
         /\ run[r].found \in Job \cup {NoJob}
         /\ run[r].previous \in JobStatus \cup {"absent"}
         /\ run[r].reviews \in Seq(Review)
         /\ run[r].at \in Nat \ {0}
         /\ scrape[r] \in ScrapeRow
         /\ source[r] \in Seq(SourceRow)
  BY DEF Types, RunState

LEMMA RecordsTyped ==
  ASSUME NEW r \in Run
  PROVE  RecordsOf[r] \in Seq(Posting) /\ Len(RecordsOf[r]) \in Nat
  BY ConstantsAssumption

\* A state of a run that is not about to create anything.
Settled(k) == k.step \notin {"idle", "create"} /\ ~(k.step = "record" /\ k.found = NoJob)

\* A run that was about to create its row is the only one to disturb KeysHeld,
\* one that was about to create a job the only one to disturb PostingsHeld.
LEMMA KeysKeep ==
  ASSUME IInv, NEW r \in Run, run'[r].step # "create",
         \A o \in Run : o # r => run'[o] = run[o],
         \A o \in Run : \A key \in Key : HasKey(o, key)' => HasKey(o, key),
         UNCHANGED racing
  PROVE  KeysHeld'
<1>1. \A o \in Run : run'[o].step = "create" => run'[o] = run[o]
  OBVIOUS
<1>2. \A key \in Key : Holds(key)' => Holds(key)
  BY DEF Holds, HasKey
<1>. QED
  BY <1>1, <1>2 DEF IInv, KeysHeld

LEMMA PostingsKeep ==
  ASSUME IInv, NEW r \in Run, ~(run'[r].step = "record" /\ run'[r].found = NoJob),
         \A o \in Run : o # r => run'[o] = run[o],
         \A j \in Job : job'[j].posting = job[j].posting,
         racing'.postings = racing.postings
  PROVE  PostingsHeld'
<1>1. \A o \in Run : \A posting : Creates(o, posting)' => Creates(o, posting)
  BY DEF Creates, PostingAt
<1>2. \A posting : JobsOf(posting)' = JobsOf(posting)
  BY DEF JobsOf
<1>. QED
  BY <1>1, <1>2 DEF IInv, PostingsHeld

\* What else a step of one run that leaves the jobs alone has to preserve.
LEMMA StepKeeps ==
  ASSUME IInv, NEW r \in Run, NEW new \in RunState, run' = [run EXCEPT ![r] = new],
         UNCHANGED <<job, startVars, said, saidCalm, cutOff>>,
         racing' \in [keys : SUBSET Key, postings : SUBSET Posting, jobs : SUBSET Job],
         racing'.jobs = racing.jobs,
         check' \in [Job -> CheckRow], DecisionsAreRows',
         source' \in [Run -> Seq(SourceRow)], scrape' \in [Run -> ScrapeRow],
         \A o \in Run \ {r} : source'[o] = source[o] /\ scrape'[o] = scrape[o],
         WellPlaced(r, new, job, scrape'[r].status, source'[r]),
         KnowsSaid(new, said, saidCalm),
         KeysHeld', PostingsHeld'
  PROVE  IInv'
<1>0. run'[r] = new /\ \A o \in Run : o # r => run'[o] = run[o]
  BY DEF IInv, Types
<1>1. Types'
  BY DEF IInv, Types, startVars
<1>2. JobsAreRows'
  BY DEF IInv, JobsAreRows
<1>3. RunsAreWell'
  BY <1>0 DEF IInv, RunsAreWell
<1>4. UserDecisionStands'
  BY DEF IInv, UserDecisionStands
<1>5. RunsKnowSaid'
  BY <1>0 DEF IInv, RunsKnowSaid, JobExists
<1>8. StartsHeld'
  BY DEF IInv, StartsHeld, ApplicationsOf, Starts, startVars, JobExists
<1>. QED
  BY <1>1, <1>2, <1>3, <1>4, <1>5, <1>8 DEF IInv

LEMMA RunKeeps ==
  ASSUME IInv, NEW r \in Run, NEW new \in RunState, run' = [run EXCEPT ![r] = new],
         Settled(new),
         UNCHANGED <<job, scrape, startVars, historyVars>>,
         check' \in [Job -> CheckRow], DecisionsAreRows',
         source' \in [Run -> Seq(SourceRow)],
         \A o \in Run \ {r} : source'[o] = source[o],
         WellPlaced(r, new, job, scrape[r].status, source'[r]),
         KnowsSaid(new, said, saidCalm)
  PROVE  IInv'
<1>1. run'[r] = new /\ \A o \in Run : o # r => run'[o] = run[o]
  BY DEF IInv, Types
<1>2. /\ UNCHANGED <<said, saidCalm, racing, cutOff>>
      /\ racing' \in [keys : SUBSET Key, postings : SUBSET Posting, jobs : SUBSET Job]
      /\ scrape' \in [Run -> ScrapeRow]
  BY DEF IInv, Types, historyVars
<1>3. KeysHeld'
  BY <1>1, <1>2, KeysKeep DEF Settled, HasKey
<1>4. PostingsHeld'
  BY <1>1, <1>2, PostingsKeep DEF Settled
<1>. QED
  BY <1>2, <1>3, <1>4, StepKeeps

LEMMA InvariantParts ==
  ASSUME IInv, NEW r \in Run
  PROVE  /\ WellPlaced(r, run[r], job, scrape[r].status, source[r])
         /\ KnowsSaid(run[r], said, saidCalm)
  BY DEF IInv, RunsAreWell, RunsKnowSaid

\* The same, for a step of the run alone.
LEMMA OwnStepKeeps ==
  ASSUME IInv, NEW r \in Run, NEW new \in RunState, run' = [run EXCEPT ![r] = new],
         Settled(new),
         UNCHANGED <<boardVars, scrape, source, startVars, historyVars>>,
         WellPlaced(r, new, job, scrape[r].status, source[r]),
         KnowsSaid(new, said, saidCalm)
  PROVE  IInv'
<1>1. check' \in [Job -> CheckRow] /\ source' \in [Run -> Seq(SourceRow)]
  BY DEF IInv, Types, boardVars
<1>2. DecisionsAreRows'
  BY DEF IInv, DecisionsAreRows, boardVars, JobExists
<1>3. UNCHANGED <<job, scrape, source, startVars, historyVars>>
  BY DEF boardVars
<1>. QED
  BY <1>1, <1>2, <1>3, RunKeeps

LEMMA IdleRunTyped == IdleRun \in RunState
<1>. DEFINE v == [j \in Job |-> NoDecision]
            p == [j \in Job |-> "none"]
<1>1. v \in [Job -> DecisionOrNone] /\ p \in [Job -> PostingCheckStatus \cup {"none"}]
  BY DEF NoDecision, DecisionOrNone
<1>2. /\ "idle" \in RunStep /\ NoJob \in Job \cup {NoJob} /\ <<>> \in Seq(Review)
      /\ 1 \in Nat \ {0}
  BY DEF RunStep
<1>3. IdleRun = [step |-> "idle", key |-> NoKey, next |-> 1, found |-> NoJob,
                 previous |-> "absent", reviews |-> <<>>, at |-> 1, errors |-> FALSE,
                 verdict |-> v, posting |-> p]
  BY DEF IdleRun
<1>. HIDE DEF v, p
<1>. QED
  BY <1>1, <1>2, <1>3 DEF RunState

\* Without jobs in hand there is nothing to know.
LEMMA EmptyHands ==
  ASSUME NEW s \in RunStep
  PROVE  LET new == [IdleRun EXCEPT !.step = s]
         IN  /\ new \in RunState /\ new.step = s /\ new.found = NoJob /\ new.at = 1
             /\ new.reviews = <<>> /\ KnowsSaid(new, said, saidCalm)
<1>. DEFINE new == [IdleRun EXCEPT !.step = s]
<1>1. /\ new.step = s /\ new.found = NoJob /\ new.at = 1 /\ new.reviews = <<>>
  BY DEF IdleRun
<1>2. IdleRun \in RunState
  BY IdleRunTyped
<1>3. new \in RunState
  BY <1>2 DEF RunState
<1>4. KnowsSaid(new, said, saidCalm)
  BY <1>1 DEF KnowsSaid, Job, NoJob
<1>. QED
  BY <1>1, <1>3, <1>4

LEMMA BreakOffKeeps ==
  ASSUME IInv, NEW r \in Run, Throw(r) \/ Die(r)
  PROVE  IInv'
<1>1. PICK s \in {"failing", "dead"} : run' = [run EXCEPT ![r] = [IdleRun EXCEPT !.step = s]]
  BY DEF Throw, Die
<1>. DEFINE new == [IdleRun EXCEPT !.step = s]
<1>2. UNCHANGED <<boardVars, scrape, source, startVars, historyVars>>
  BY DEF Throw, Die
<1>3. s \in RunStep
  BY DEF RunStep
<1>4. /\ new \in RunState /\ new.step = s /\ new.found = NoJob /\ new.reviews = <<>>
      /\ KnowsSaid(new, said, saidCalm)
  BY <1>3, EmptyHands
<1>. HIDE DEF new
<1>5. Settled(new) /\ WellPlaced(r, new, job, scrape[r].status, source[r])
  BY <1>4 DEF Settled, WellPlaced
<1>. QED
  BY <1>1, <1>2, <1>4, <1>5, OwnStepKeeps DEF new

LEMMA SkipRecordKeeps ==
  ASSUME IInv, NEW r \in Run, SkipRecord(r)
  PROVE  IInv'
<1>. DEFINE new == [run[r] EXCEPT !.next = @ + 1, !.errors = TRUE]
<1>1. /\ run' = [run EXCEPT ![r] = new] /\ run[r].step = "find"
      /\ UNCHANGED <<boardVars, scrape, source, startVars, historyVars>>
  BY DEF SkipRecord
<1>2. run[r] \in RunState /\ run[r].next + 1 \in Nat \ {0}
  BY RunTypes DEF IInv
<1>3. new \in RunState
  BY <1>2 DEF RunState
<1>4. /\ new.step = "find" /\ new.at = run[r].at /\ new.found = run[r].found
      /\ new.previous = run[r].previous /\ new.reviews = run[r].reviews
  BY <1>1, <1>2 DEF RunState
<1>. HIDE DEF new
<1>5. WellPlaced(r, new, job, scrape[r].status, source[r]) /\ KnowsSaid(new, said, saidCalm)
  BY <1>1, <1>4, InvariantParts DEF WellPlaced, KnowsSaid
<1>. QED
  BY <1>1, <1>3, <1>4, <1>5, OwnStepKeeps DEF Settled

\* A record is done: its job joins the reviews with the status read for it.
LEMMA RememberedState ==
  ASSUME IInv, NEW r \in Run, NEW j \in Job, run[r].step = "record", run' = Remembered(r, j)
  PROVE  \E new \in RunState :
           /\ run' = [run EXCEPT ![r] = new]
           /\ new.step = "find" /\ new.found = NoJob /\ new.at = 1
           /\ Len(new.reviews) = Len(run[r].reviews) + 1 /\ Len(run[r].reviews) \in Nat
           /\ \A n \in 1..Len(run[r].reviews) : new.reviews[n] = run[r].reviews[n]
           /\ new.reviews[Len(run[r].reviews) + 1].job = j
           /\ new.reviews[Len(run[r].reviews) + 1].previous = run[r].previous
<1>. DEFINE item == [job |-> j, previous |-> run[r].previous]
            new == [run[r] EXCEPT !.step = "find", !.next = @ + 1, !.found = NoJob,
                                  !.previous = "absent", !.reviews = Append(@, item)]
<1>1. run[r] \in RunState /\ run[r].reviews \in Seq(Review)
  BY RunTypes DEF IInv
<1>2. run[r].at = 1 /\ run[r].previous \in JobStatus
  BY InvariantParts DEF WellPlaced
<1>3. item \in Review /\ item.job = j /\ item.previous = run[r].previous
  BY <1>2 DEF Review
<1>4. run' = [run EXCEPT ![r] = new]
  BY DEF Remembered
<1>. HIDE DEF item
<1>5. /\ Append(run[r].reviews, item) \in Seq(Review)
      /\ Len(Append(run[r].reviews, item)) = Len(run[r].reviews) + 1
      /\ \A n \in 1..Len(run[r].reviews) : Append(run[r].reviews, item)[n] = run[r].reviews[n]
      /\ Append(run[r].reviews, item)[Len(run[r].reviews) + 1] = item
      /\ Len(run[r].reviews) \in Nat
  BY <1>1, <1>3, AppendProperties
<1>6. "find" \in RunStep /\ run[r].next + 1 \in Nat \ {0}
  BY RunTypes DEF RunStep, IInv
<1>7. new \in RunState
  BY <1>1, <1>5, <1>6 DEF RunState
<1>8. /\ new.step = "find" /\ new.found = NoJob /\ new.at = run[r].at
      /\ new.reviews = Append(run[r].reviews, item)
  BY <1>1 DEF RunState
<1>. HIDE DEF new
<1>. QED
  BY <1>2, <1>3, <1>4, <1>5, <1>7, <1>8

\* The run stays well placed when the job is there ...
LEMMA RememberedPlaced ==
  ASSUME IInv, NEW r \in Run, NEW j \in Job, run[r].step = "record", NEW new \in RunState,
         new.step = "find", new.found = NoJob, new.at = 1,
         Len(new.reviews) = Len(run[r].reviews) + 1, Len(run[r].reviews) \in Nat,
         \A n \in 1..Len(run[r].reviews) : new.reviews[n] = run[r].reviews[n],
         new.reviews[Len(run[r].reviews) + 1].job = j,
         NEW jobs, NEW rows, jobs[j].status # "absent",
         \A i \in Job : job[i].status # "absent" => jobs[i].status # "absent"
  PROVE  WellPlaced(r, new, jobs, scrape[r].status, rows)
<1>1. WellPlaced(r, run[r], job, scrape[r].status, source[r])
  BY InvariantParts
<1>2. \A n \in 1..Len(run[r].reviews) : run[r].reviews[n].job \in Job
  <2>1. \A n \in 1..Len(run[r].reviews) : run[r].reviews[n] \in Review
    BY RunTypes, ElementOfSeq DEF IInv
  <2>. QED
    BY <2>1 DEF Review
<1>3. \A n \in 1..Len(new.reviews) :
        n \in 1..Len(run[r].reviews) \/ n = Len(run[r].reviews) + 1
  OBVIOUS
<1>. QED
  BY <1>1, <1>2, <1>3 DEF WellPlaced

\* ... and knows what the user said when the status it read is that, if anything.
LEMMA RememberedKnows ==
  ASSUME IInv, NEW r \in Run, NEW j \in Job, run[r].step = "record", NEW new \in RunState,
         new.step = "find", new.found = NoJob, new.at = 1,
         Len(new.reviews) = Len(run[r].reviews) + 1, Len(run[r].reviews) \in Nat,
         \A n \in 1..Len(run[r].reviews) : new.reviews[n] = run[r].reviews[n],
         new.reviews[Len(run[r].reviews) + 1].job = j,
         new.reviews[Len(run[r].reviews) + 1].previous = run[r].previous,
         saidCalm[j] /\ said[j] # "nothing" => run[r].previous = said[j]
  PROVE  KnowsSaid(new, said, saidCalm)
<1>1. KnowsSaid(run[r], said, saidCalm)
  BY InvariantParts
<1>2. \A n \in 1..Len(new.reviews) :
        n \in 1..Len(run[r].reviews) \/ n = Len(run[r].reviews) + 1
  OBVIOUS
<1>. SUFFICES ASSUME NEW i \in Job, saidCalm[i] /\ said[i] # "nothing"
              PROVE  /\ new.found = i => new.previous = said[i]
                     /\ \A n \in 1..Len(new.reviews) :
                          new.reviews[n].job = i => new.reviews[n].previous = said[i]
  BY DEF KnowsSaid
<1>3. new.found # i
  BY DEF Job, NoJob
<1>4. \A n \in 1..Len(run[r].reviews) :
        run[r].reviews[n].job = i => run[r].reviews[n].previous = said[i]
  BY <1>1 DEF KnowsSaid
<1>5. ASSUME NEW n \in 1..Len(new.reviews), new.reviews[n].job = i
      PROVE  new.reviews[n].previous = said[i]
  BY <1>2, <1>4, <1>5
<1>. QED
  BY <1>3, <1>5

LEMMA SetSourceTyped ==
  ASSUME IInv, NEW r \in Run, run[r].step = "record", NEW j \in Job \cup {NoJob},
         NEW status \in {"captured", "deduped", "normalized", "errored"}, SetSource(r, status, j)
  PROVE  /\ source' \in [Run -> Seq(SourceRow)]
         /\ \A o \in Run \ {r} : source'[o] = source[o]
<1>. DEFINE row == [status |-> status, job |-> j]
<1>1. source[r] \in Seq(SourceRow) /\ source[r] # <<>> /\ source \in [Run -> Seq(SourceRow)]
  BY InvariantParts, RunTypes DEF WellPlaced, IInv, Types
<1>2. Len(source[r]) \in 1..Len(source[r])
  BY <1>1, EmptySeq, LenProperties
<1>3. row \in SourceRow
  BY DEF SourceRow
<1>4. source' = [source EXCEPT ![r] = [source[r] EXCEPT ![Len(source[r])] = row]]
  BY DEF SetSource
<1>. HIDE DEF row
<1>5. [source[r] EXCEPT ![Len(source[r])] = row] \in Seq(SourceRow)
  BY <1>1, <1>2, <1>3, ExceptSeq
<1>. QED
  BY <1>1, <1>4, <1>5

LEMMA LinkRecordKeeps ==
  ASSUME IInv, NEW r \in Run, LinkRecord(r)
  PROVE  IInv'
<1>. DEFINE j == run[r].found
<1>1. /\ run[r].step = "record" /\ j \in Job /\ run' = Remembered(r, j)
      /\ SetSource(r, "deduped", j)
      /\ UNCHANGED <<boardVars, scrape, startVars, historyVars>>
  BY RunTypes DEF LinkRecord, IInv
<1>2. PICK new \in RunState :
        /\ run' = [run EXCEPT ![r] = new]
        /\ new.step = "find" /\ new.found = NoJob /\ new.at = 1
        /\ Len(new.reviews) = Len(run[r].reviews) + 1 /\ Len(run[r].reviews) \in Nat
        /\ \A n \in 1..Len(run[r].reviews) : new.reviews[n] = run[r].reviews[n]
        /\ new.reviews[Len(run[r].reviews) + 1].job = j
        /\ new.reviews[Len(run[r].reviews) + 1].previous = run[r].previous
  BY <1>1, RememberedState
<1>3. job[j].status # "absent" /\ (saidCalm[j] /\ said[j] # "nothing" => run[r].previous = said[j])
  BY <1>1, InvariantParts DEF WellPlaced, KnowsSaid, Job, NoJob
<1>4. WellPlaced(r, new, job, scrape[r].status, source'[r]) /\ KnowsSaid(new, said, saidCalm)
  BY <1>1, <1>2, <1>3, RememberedPlaced, RememberedKnows
<1>5. source' \in [Run -> Seq(SourceRow)] /\ \A o \in Run \ {r} : source'[o] = source[o]
  BY <1>1, SetSourceTyped
<1>6. /\ UNCHANGED <<job, scrape, startVars, historyVars>>
      /\ check' \in [Job -> CheckRow] /\ DecisionsAreRows'
  BY <1>1 DEF boardVars, IInv, Types, DecisionsAreRows, JobExists
<1>7. Settled(new)
  BY <1>2 DEF Settled
<1>. QED
  BY <1>2, <1>4, <1>5, <1>6, <1>7, RunKeeps

LEMMA ReviewJobsKeeps ==
  ASSUME IInv, NEW r \in Run, ReviewJobs(r)
  PROVE  IInv'
<1>1. PICK d \in [Reviewed(r) -> Verdicts] :
        run' = [run EXCEPT ![r].step = IF Reviewed(r) = {} THEN "write" ELSE "check",
                           ![r].verdict = [j \in Job |-> IF j \in Reviewed(r) THEN d[j]
                                                         ELSE NoDecision]]
  BY DEF ReviewJobs
<1>. DEFINE next == IF Reviewed(r) = {} THEN "write" ELSE "check"
            v == [j \in Job |-> IF j \in Reviewed(r) THEN d[j] ELSE NoDecision]
            new == [run[r] EXCEPT !.step = next, !.verdict = v]
<1>2. run' = [run EXCEPT ![r] = new]
  BY <1>1
<1>3. /\ run[r].step = "find" /\ UNCHANGED <<boardVars, scrape, source, startVars, historyVars>>
      /\ run[r] \in RunState /\ run[r].reviews \in Seq(Review)
  BY RunTypes DEF ReviewJobs, IInv
<1>4. v \in [Job -> DecisionOrNone]
  <2>1. Verdicts \cup {NoDecision} \subseteq DecisionOrNone
    <3>1. NoDecision \in DecisionOrNone
      BY DEF DecisionOrNone, NoDecision
    <3>2. \A e \in [verdict : Verdict, auto : BOOLEAN] : e \in DecisionOrNone
      BY DEF DecisionOrNone
    <3>3. \A e \in Verdicts : e \in [verdict : Verdict, auto : BOOLEAN]
      BY ConstantsAssumption
    <3>. QED
      BY <3>1, <3>2, <3>3
  <2>. QED
    BY <2>1
<1>5. next \in RunStep /\ next \in {"write", "check"}
  BY DEF RunStep
<1>6. next = "check" => 1 <= Len(run[r].reviews)
  <2>1. Len(run[r].reviews) \in Nat /\ DOMAIN run[r].reviews = 1..Len(run[r].reviews)
    BY <1>3, LenProperties
  <2>. QED
    BY <2>1 DEF Reviewed
<1>. HIDE DEF next, v
<1>7. new \in RunState
  BY <1>3, <1>4, <1>5 DEF RunState
<1>8. /\ new.step = next /\ new.at = run[r].at /\ new.found = run[r].found
      /\ new.previous = run[r].previous /\ new.reviews = run[r].reviews
  BY <1>3 DEF RunState
<1>. HIDE DEF new
<1>9. WellPlaced(r, new, job, scrape[r].status, source[r]) /\ KnowsSaid(new, said, saidCalm)
  BY <1>3, <1>5, <1>6, <1>8, InvariantParts DEF WellPlaced, KnowsSaid
<1>. QED
  BY <1>2, <1>3, <1>5, <1>7, <1>8, <1>9, OwnStepKeeps DEF Settled

LEMMA CheckedState ==
  ASSUME NEW k \in RunState, k.at <= Len(k.reviews)
  PROVE  /\ Checked(k) \in RunState
         /\ Checked(k).step \in {"write", "check"}
         /\ Checked(k).step = "check" => Checked(k).at <= Len(k.reviews)
         /\ Checked(k).found = k.found /\ Checked(k).previous = k.previous
         /\ Checked(k).reviews = k.reviews
<1>1. /\ k.at \in Nat \ {0} /\ k.at + 1 \in Nat \ {0} /\ Len(k.reviews) \in Nat
      /\ 1 \in Nat \ {0}
      /\ {"write", "check"} \subseteq RunStep
  BY LenProperties DEF RunState, RunStep
<1>2. CASE k.at = Len(k.reviews)
  <2>. DEFINE new == [k EXCEPT !.step = "write", !.at = 1]
  <2>1. /\ new \in RunState /\ new.step = "write" /\ new.found = k.found
        /\ new.previous = k.previous /\ new.reviews = k.reviews
    BY <1>1 DEF RunState
  <2>2. Checked(k) = new
    BY <1>2 DEF Checked
  <2>. QED
    BY <2>1, <2>2
<1>3. CASE k.at # Len(k.reviews)
  <2>. DEFINE new == [k EXCEPT !.step = "check", !.at = @ + 1]
  <2>1. /\ new \in RunState /\ new.step = "check" /\ new.found = k.found
        /\ new.previous = k.previous /\ new.reviews = k.reviews /\ new.at = k.at + 1
    BY <1>1 DEF RunState
  <2>2. Checked(k) = new
    BY <1>3 DEF Checked
  <2>3. k.at + 1 <= Len(k.reviews)
    BY <1>1, <1>3
  <2>. QED
    BY <2>1, <2>2, <2>3
<1>. QED
  BY <1>2, <1>3

\* A check is over; the run has at most noted its answer.
LEMMA CheckedKeeps ==
  ASSUME IInv, NEW r \in Run, run[r].step \in {"check", "ask"}, NEW k \in RunState,
         k.at = run[r].at, k.found = run[r].found, k.previous = run[r].previous,
         k.reviews = run[r].reviews,
         run' = [run EXCEPT ![r] = Checked(k)],
         UNCHANGED <<job, decision, scrape, source, startVars, historyVars>>,
         check' \in [Job -> CheckRow]
  PROVE  IInv'
<1>1. WellPlaced(r, run[r], job, scrape[r].status, source[r]) /\ KnowsSaid(run[r], said, saidCalm)
  BY InvariantParts
<1>2. k.at <= Len(k.reviews)
  BY <1>1 DEF WellPlaced
<1>. DEFINE new == Checked(k)
<1>3. /\ new \in RunState /\ new.step \in {"write", "check"}
      /\ new.step = "check" => new.at <= Len(k.reviews)
      /\ new.found = k.found /\ new.previous = k.previous /\ new.reviews = k.reviews
  BY <1>2, CheckedState
<1>. HIDE DEF new
<1>4. WellPlaced(r, new, job, scrape[r].status, source'[r]) /\ KnowsSaid(new, said, saidCalm)
  BY <1>1, <1>3 DEF WellPlaced, KnowsSaid
<1>5. DecisionsAreRows' /\ source' \in [Run -> Seq(SourceRow)]
  BY DEF IInv, Types, DecisionsAreRows, JobExists
<1>6. Settled(new)
  BY <1>3 DEF Settled
<1>. QED
  BY <1>3, <1>4, <1>5, <1>6, RunKeeps DEF new

\* Run r when it has noted the answer about job j.
Noted(r, j, status) == [run[r] EXCEPT !.posting[j] = status]

LEMMA NotedState ==
  ASSUME IInv, NEW r \in Run, NEW j, NEW status \in PostingCheckStatus \cup {"none"}
  PROVE  /\ Noted(r, j, status) \in RunState
         /\ Noted(r, j, status).at = run[r].at
         /\ Noted(r, j, status).found = run[r].found
         /\ Noted(r, j, status).previous = run[r].previous
         /\ Noted(r, j, status).reviews = run[r].reviews
<1>1. run[r] \in RunState
  BY RunTypes DEF IInv
<1>2. [run[r].posting EXCEPT ![j] = status] \in [Job -> PostingCheckStatus \cup {"none"}]
  BY <1>1 DEF RunState
<1>. QED
  BY <1>1, <1>2 DEF RunState, Noted

LEMMA CheckStatusTyped ==
  ASSUME IInv, NEW r \in Run, run[r].step \in {"check", "ask"}
  PROVE  Candidate(r).job \in Job /\ check[Candidate(r).job].status \in PostingCheckStatus \cup {"none"}
<1>1. run[r].at \in 1..Len(run[r].reviews) /\ run[r].reviews \in Seq(Review)
  <2>1. run[r].reviews \in Seq(Review) /\ run[r].at \in Nat \ {0}
    BY RunTypes DEF IInv
  <2>2. run[r].at <= Len(run[r].reviews)
    BY InvariantParts DEF WellPlaced
  <2>3. Len(run[r].reviews) \in Nat
    BY <2>1, LenProperties
  <2>. QED
    BY <2>1, <2>2, <2>3
<1>2. Candidate(r) \in Review
  BY <1>1, ElementOfSeq DEF Candidate
<1>. QED
  BY <1>2 DEF Review, IInv, Types, CheckRow

LEMMA TakeCheckKeeps ==
  ASSUME IInv, NEW r \in Run, TakeCheck(r)
  PROVE  IInv'
<1>1. /\ run[r].step = "check" /\ run[r] \in RunState
      /\ UNCHANGED <<job, check, decision, scrape, source, startVars, historyVars>>
      /\ check' \in [Job -> CheckRow]
  BY RunTypes DEF TakeCheck, IInv, Types, boardVars
<1>2. CASE run' = [run EXCEPT ![r] = Checked(@)]
  BY <1>1, <1>2, CheckedKeeps
<1>3. CASE run' = [run EXCEPT ![r] = Checked([@ EXCEPT !.posting[Candidate(r).job] =
                                                check[Candidate(r).job].status])]
  <2>. DEFINE k == Noted(r, Candidate(r).job, check[Candidate(r).job].status)
  <2>1. /\ k \in RunState /\ k.at = run[r].at /\ k.found = run[r].found
        /\ k.previous = run[r].previous /\ k.reviews = run[r].reviews
    BY <1>1, CheckStatusTyped, NotedState
  <2>2. run' = [run EXCEPT ![r] = Checked(k)]
    BY <1>3 DEF Noted
  <2>. HIDE DEF k
  <2>. QED
    BY <1>1, <2>1, <2>2, CheckedKeeps
<1>. QED
  BY <1>2, <1>3 DEF TakeCheck

LEMMA CheckAnsweredKeeps ==
  ASSUME IInv, NEW r \in Run, NEW status \in Answers, CheckAnswered(r, status)
  PROVE  IInv'
<1>. DEFINE k == Noted(r, Candidate(r).job, status)
<1>1. /\ run[r].step = "ask" /\ run' = [run EXCEPT ![r] = Checked(k)]
      /\ UNCHANGED <<job, decision, scrape, source, startVars, historyVars>>
      /\ PersistCheck(Candidate(r).job, status)
  BY DEF CheckAnswered, Noted
<1>2. status \in PostingCheckStatus
  BY ConstantsAssumption
<1>3. /\ k \in RunState /\ k.at = run[r].at /\ k.found = run[r].found
      /\ k.previous = run[r].previous /\ k.reviews = run[r].reviews
  BY <1>2, NotedState
<1>. HIDE DEF k
<1>4. check' \in [Job -> CheckRow]
  BY <1>1, <1>2 DEF PersistCheck, IInv, Types, CheckRow
<1>. QED
  BY <1>1, <1>3, <1>4, CheckedKeeps

LEMMA CheckFailsKeeps ==
  ASSUME IInv, NEW r \in Run, CheckFails(r)
  PROVE  IInv'
<1>. DEFINE k == [run[r] EXCEPT !.errors = TRUE]
<1>1. /\ run[r].step = "ask" /\ run' = [run EXCEPT ![r] = Checked(k)]
      /\ UNCHANGED <<job, decision, scrape, source, startVars, historyVars>>
      /\ check' \in [Job -> CheckRow] /\ run[r] \in RunState
  BY RunTypes DEF CheckFails, IInv, Types, boardVars
<1>2. /\ k \in RunState /\ k.at = run[r].at /\ k.found = run[r].found
      /\ k.previous = run[r].previous /\ k.reviews = run[r].reviews
  BY <1>1 DEF RunState
<1>. HIDE DEF k
<1>. QED
  BY <1>1, <1>2, CheckedKeeps

LEMMA AskCheckKeeps ==
  ASSUME IInv, NEW r \in Run, AskCheck(r)
  PROVE  IInv'
<1>. DEFINE new == [run[r] EXCEPT !.step = "ask"]
<1>1. /\ run[r].step = "check" /\ run' = [run EXCEPT ![r] = new] /\ run[r] \in RunState
      /\ UNCHANGED <<boardVars, scrape, source, startVars, historyVars>>
  BY RunTypes DEF AskCheck, IInv
<1>2. /\ new \in RunState /\ new.step = "ask" /\ new.at = run[r].at /\ new.found = run[r].found
      /\ new.previous = run[r].previous /\ new.reviews = run[r].reviews
  BY <1>1 DEF RunState, RunStep
<1>. HIDE DEF new
<1>3. WellPlaced(r, new, job, scrape[r].status, source[r]) /\ KnowsSaid(new, said, saidCalm)
  BY <1>1, <1>2, InvariantParts DEF WellPlaced, KnowsSaid
<1>. QED
  BY <1>1, <1>2, <1>3, OwnStepKeeps DEF Settled

\* The candidate of a run that is to write or to note a decision.
LEMMA CandidateIsThere ==
  ASSUME IInv, NEW r \in Run, run[r].step \in {"write", "note"}, run[r].at <= Len(run[r].reviews)
  PROVE  /\ run[r].at \in 1..Len(run[r].reviews)
         /\ Candidate(r) \in Review
         /\ Candidate(r).job \in Job /\ JobExists(Candidate(r).job)
<1>1. run[r].reviews \in Seq(Review) /\ run[r].at \in Nat \ {0}
  BY RunTypes DEF IInv
<1>2. Len(run[r].reviews) \in Nat
  BY <1>1, LenProperties
<1>3. run[r].at \in 1..Len(run[r].reviews)
  BY <1>1, <1>2
<1>4. Candidate(r) \in Review
  BY <1>1, <1>3, ElementOfSeq DEF Candidate
<1>5. JobExists(Candidate(r).job)
  BY <1>3, InvariantParts DEF WellPlaced, Candidate, JobExists
<1>. QED
  BY <1>3, <1>4, <1>5 DEF Review

LEMMA NoteDecisionKeeps ==
  ASSUME IInv, NEW r \in Run, NoteDecision(r)
  PROVE  IInv'
<1>. DEFINE new == [run[r] EXCEPT !.step = "write", !.at = @ + 1]
            j == Candidate(r).job
<1>1. /\ run[r].step = "note" /\ run' = [run EXCEPT ![r] = new] /\ run[r] \in RunState
      /\ UNCHANGED <<job, check, scrape, source, startVars, historyVars>>
      /\ run[r].at + 1 \in Nat \ {0}
  <2>1. run[r] \in RunState /\ run[r].at \in Nat \ {0}
    BY RunTypes DEF IInv
  <2>2. /\ run[r].step = "note" /\ run' = [run EXCEPT ![r] = new]
        /\ UNCHANGED <<job, check, scrape, source, startVars, historyVars>>
    BY DEF NoteDecision
  <2>. QED
    BY <2>1, <2>2
<1>2. /\ new \in RunState /\ new.step = "write" /\ new.found = run[r].found
      /\ new.previous = run[r].previous /\ new.reviews = run[r].reviews
  BY <1>1 DEF RunState, RunStep
<1>. HIDE DEF new
<1>3. WellPlaced(r, new, job, scrape[r].status, source[r]) /\ KnowsSaid(new, said, saidCalm)
  BY <1>1, <1>2, InvariantParts DEF WellPlaced, KnowsSaid
<1>4. j \in Job /\ JobExists(j)
  BY <1>1, InvariantParts, CandidateIsThere DEF WellPlaced
<1>5. DecisionsAreRows'
  <2>1. DecisionRow(r).run = r /\ DecisionRow(r).job = j
    BY DEF DecisionRow
  <2>2. decision' = {d \in decision : d.run # r \/ d.job # j} \cup {DecisionRow(r)}
    BY DEF NoteDecision
  <2>3. DecisionsAreRows /\ \A i \in Job : JobExists(i)' <=> JobExists(i)
    BY <1>1 DEF IInv, JobExists
  <2>. HIDE DEF j
  <2>. QED
    BY <1>4, <2>1, <2>2, <2>3 DEF DecisionsAreRows
<1>6. check' \in [Job -> CheckRow] /\ source' \in [Run -> Seq(SourceRow)]
  BY <1>1 DEF IInv, Types
<1>. QED
  BY <1>1, <1>2, <1>3, <1>5, <1>6, RunKeeps DEF Settled

----------------------------------------------------------------------------
(* Steps that create or end a run, and that look a posting up.             *)

LEMMA LookUpKeyKeeps ==
  ASSUME IInv, NEW r \in Run, NEW key \in Key \cup {NoKey}, LookUpKey(r, key)
  PROVE  IInv'
<1>. DEFINE next == IF key # NoKey /\ Holds(key) THEN "done" ELSE "create"
            new == [run[r] EXCEPT !.step = next, !.key = key]
<1>1. /\ run[r].step = "idle" /\ run' = [run EXCEPT ![r] = new] /\ run[r] \in RunState
      /\ UNCHANGED <<boardVars, scrape, source, startVars, said, saidCalm, cutOff>>
  BY RunTypes DEF LookUpKey, IInv
<1>2. next \in RunStep /\ next \in {"done", "create"} /\ (next = "create" /\ key # NoKey => ~Holds(key))
  BY DEF RunStep
<1>. HIDE DEF next
<1>3. /\ new \in RunState /\ new.step = next /\ new.key = key /\ new.at = run[r].at
      /\ new.found = run[r].found /\ new.previous = run[r].previous
      /\ new.reviews = run[r].reviews
  BY <1>1, <1>2 DEF RunState
<1>. HIDE DEF new
<1>4. run'[r] = new /\ \A o \in Run : o # r => run'[o] = run[o]
  BY <1>1 DEF IInv, Types
<1>5. WellPlaced(r, new, job, scrape'[r].status, source'[r]) /\ KnowsSaid(new, said, saidCalm)
  BY <1>1, <1>2, <1>3, InvariantParts DEF WellPlaced, KnowsSaid
<1>6. racing' = IF key # NoKey /\ \E o \in Run : run[o].step = "create" /\ run[o].key = key
                THEN [racing EXCEPT !.keys = @ \cup {key}] ELSE racing
  BY DEF LookUpKey
<1>7. racing \in [keys : SUBSET Key, postings : SUBSET Posting, jobs : SUBSET Job]
  BY DEF IInv, Types
<1>8. /\ racing' \in [keys : SUBSET Key, postings : SUBSET Posting, jobs : SUBSET Job]
      /\ racing'.postings = racing.postings /\ racing'.jobs = racing.jobs
      /\ racing.keys \subseteq racing'.keys
      /\ key # NoKey /\ (\E o \in Run : run[o].step = "create" /\ run[o].key = key)
           => key \in racing'.keys
  BY <1>6, <1>7
<1>9. KeysHeld'
  <2>. SUFFICES ASSUME NEW k \in Key \ racing'.keys
                PROVE  /\ \A a, o \in Run : HasKey(a, k)' /\ HasKey(o, k)' => a = o
                       /\ \A a \in Run : run'[a].step = "create" /\ run'[a].key = k =>
                            /\ ~Holds(k)'
                            /\ \A o \in Run : run'[o].step = "create" /\ run'[o].key = k => o = a
    BY DEF KeysHeld
  <2>1. /\ \A o \in Run : HasKey(o, k)' <=> HasKey(o, k)
        /\ Holds(k)' <=> Holds(k)
    BY <1>1 DEF HasKey, Holds
  <2>2. k \in Key \ racing.keys
    BY <1>8
  <2>3. /\ \A a, o \in Run : HasKey(a, k) /\ HasKey(o, k) => a = o
        /\ \A a \in Run : run[a].step = "create" /\ run[a].key = k =>
             /\ ~Holds(k)
             /\ \A o \in Run : run[o].step = "create" /\ run[o].key = k => o = a
    BY <2>2 DEF IInv, KeysHeld
  <2>4. k # NoKey
    BY ConstantsAssumption DEF NoKey
  <2>5. CASE key = k
    <3>1. \A o \in Run : ~(run[o].step = "create" /\ run[o].key = k)
      BY <1>8, <2>4, <2>5
    <3>2. \A o \in Run : run'[o].step = "create" /\ run'[o].key = k => o = r /\ ~Holds(k)
      BY <1>2, <1>3, <1>4, <2>4, <2>5, <3>1
    <3>. QED
      BY <2>1, <2>3, <3>2
  <2>6. CASE key # k
    <3>1. \A o \in Run : run'[o].step = "create" /\ run'[o].key = k =>
                           o # r /\ run[o].step = "create" /\ run[o].key = k
      BY <1>3, <1>4, <2>6
    <3>. QED
      BY <2>1, <2>3, <3>1
  <2>. QED
    BY <2>5, <2>6
<1>10. PostingsHeld'
  BY <1>1, <1>2, <1>3, <1>4, <1>8, PostingsKeep DEF boardVars
<1>11. /\ check' \in [Job -> CheckRow] /\ DecisionsAreRows'
       /\ source' \in [Run -> Seq(SourceRow)] /\ scrape' \in [Run -> ScrapeRow]
       /\ UNCHANGED <<job, startVars, said, saidCalm, cutOff>>
       /\ \A o \in Run \ {r} : source'[o] = source[o] /\ scrape'[o] = scrape[o]
  BY <1>1 DEF IInv, Types, boardVars, DecisionsAreRows, JobExists
<1>. QED
  BY <1>1, <1>3, <1>5, <1>8, <1>9, <1>10, <1>11, StepKeeps

LEMMA CreateRunKeeps ==
  ASSUME IInv, NEW r \in Run, CreateRun(r)
  PROVE  IInv'
<1>. DEFINE new == [run[r] EXCEPT !.step = "find"]
            row == [status |-> "processing", key |-> run[r].key]
<1>1. /\ run[r].step = "create" /\ run' = [run EXCEPT ![r] = new] /\ run[r] \in RunState
      /\ scrape' = [scrape EXCEPT ![r] = row]
      /\ UNCHANGED <<boardVars, source, startVars, historyVars>>
  BY RunTypes DEF CreateRun, IInv
<1>2. /\ new \in RunState /\ new.step = "find" /\ new.at = run[r].at
      /\ new.found = run[r].found /\ new.previous = run[r].previous
      /\ new.reviews = run[r].reviews
  BY <1>1 DEF RunState, RunStep
<1>3. row \in ScrapeRow /\ row.status = "processing" /\ row.key = run[r].key
  BY RunTypes DEF IInv, ScrapeRow
<1>. HIDE DEF new, row
<1>4. /\ run'[r] = new /\ \A o \in Run : o # r => run'[o] = run[o]
      /\ scrape'[r] = row /\ \A o \in Run : o # r => scrape'[o] = scrape[o]
      /\ scrape' \in [Run -> ScrapeRow]
  BY <1>1, <1>3 DEF IInv, Types
<1>5. WellPlaced(r, new, job, scrape'[r].status, source'[r]) /\ KnowsSaid(new, said, saidCalm)
  BY <1>1, <1>2, <1>3, <1>4, InvariantParts DEF WellPlaced, KnowsSaid
<1>6. KeysHeld'
  <2>. SUFFICES ASSUME NEW k \in Key \ racing.keys
                PROVE  /\ \A a, o \in Run : HasKey(a, k)' /\ HasKey(o, k)' => a = o
                       /\ \A a \in Run : run'[a].step = "create" /\ run'[a].key = k =>
                            /\ ~Holds(k)'
                            /\ \A o \in Run : run'[o].step = "create" /\ run'[o].key = k => o = a
    BY <1>1 DEF KeysHeld, historyVars
  <2>1. /\ \A a, o \in Run : HasKey(a, k) /\ HasKey(o, k) => a = o
        /\ \A a \in Run : run[a].step = "create" /\ run[a].key = k =>
             /\ ~Holds(k)
             /\ \A o \in Run : run[o].step = "create" /\ run[o].key = k => o = a
    BY DEF IInv, KeysHeld
  <2>2. \A o \in Run : run'[o].step = "create" => o # r /\ run'[o] = run[o]
    BY <1>2, <1>4
  <2>3. \A o \in Run : o # r => (HasKey(o, k)' <=> HasKey(o, k))
    BY <1>4 DEF HasKey
  <2>4. HasKey(r, k)' => run[r].key = k
    BY <1>3, <1>4 DEF HasKey
  <2>5. Holds(k) <=> \E o \in Run : HasKey(o, k)
    BY DEF Holds, HasKey
  <2>6. Holds(k)' <=> \E o \in Run : HasKey(o, k)'
    BY DEF Holds, HasKey
  <2>7. CASE run[r].key = k
    BY <1>1, <2>1, <2>2, <2>3, <2>5, <2>7
  <2>8. CASE run[r].key # k
    <3>1. ~HasKey(r, k)'
      BY <2>4, <2>8
    <3>2. \A o \in Run : HasKey(o, k)' => HasKey(o, k)
      BY <2>3, <3>1
    <3>. QED
      BY <2>1, <2>2, <2>5, <2>6, <3>2
  <2>. QED
    BY <2>7, <2>8
<1>7. PostingsHeld'
  BY <1>1, <1>2, <1>4, PostingsKeep DEF boardVars, historyVars
<1>8. /\ check' \in [Job -> CheckRow] /\ DecisionsAreRows'
      /\ source' \in [Run -> Seq(SourceRow)]
      /\ UNCHANGED <<job, startVars, said, saidCalm, racing, cutOff>>
      /\ racing' \in [keys : SUBSET Key, postings : SUBSET Posting, jobs : SUBSET Job]
      /\ \A o \in Run \ {r} : source'[o] = source[o] /\ scrape'[o] = scrape[o]
  BY <1>1, <1>4 DEF IInv, Types, boardVars, DecisionsAreRows, JobExists, historyVars
<1>. QED
  BY <1>1, <1>2, <1>4, <1>5, <1>6, <1>7, <1>8, StepKeeps

LEMMA EndKeeps ==
  ASSUME IInv, NEW r \in Run, FinishRun(r) \/ FailRun(r)
  PROVE  IInv'
<1>. DEFINE new == [IdleRun EXCEPT !.step = "done"]
<1>1. PICK status \in {"partial", "completed", "failed"} :
        /\ End(r, status, "done")
        /\ status # "failed" => run[r].step = "write"
  BY DEF FinishRun, FailRun
<1>2. /\ run' = [run EXCEPT ![r] = new] /\ scrape' = [scrape EXCEPT ![r].status = status]
      /\ UNCHANGED <<boardVars, source, startVars, historyVars>>
  BY <1>1 DEF End
<1>3. "done" \in RunStep
  BY DEF RunStep
<1>4. /\ new \in RunState /\ new.step = "done" /\ new.found = NoJob /\ new.reviews = <<>>
      /\ KnowsSaid(new, said, saidCalm)
  BY <1>3, EmptyHands
<1>. HIDE DEF new
<1>5. WellPlaced(r, new, job, scrape'[r].status, source'[r])
  BY <1>4 DEF WellPlaced
<1>6. /\ run'[r] = new /\ \A o \in Run : o # r => run'[o] = run[o]
      /\ scrape' \in [Run -> ScrapeRow] /\ \A o \in Run : o # r => scrape'[o] = scrape[o]
      /\ scrape'[r].key = scrape[r].key /\ scrape'[r].status = status
  BY <1>2 DEF IInv, Types, ScrapeRow
<1>7. KeysHeld'
  <2>1. status # "failed" => scrape[r].status = "processing"
    BY <1>1, InvariantParts DEF WellPlaced
  <2>2. \A o \in Run : \A key \in Key : HasKey(o, key)' => HasKey(o, key)
    BY <1>6, <2>1 DEF HasKey
  <2>. QED
    BY <1>2, <1>4, <1>6, <2>2, KeysKeep DEF historyVars
<1>8. PostingsHeld'
  BY <1>2, <1>4, <1>6, PostingsKeep DEF boardVars, historyVars
<1>9. /\ check' \in [Job -> CheckRow] /\ DecisionsAreRows'
      /\ source' \in [Run -> Seq(SourceRow)]
      /\ UNCHANGED <<job, startVars, said, saidCalm, racing, cutOff>>
      /\ racing' \in [keys : SUBSET Key, postings : SUBSET Posting, jobs : SUBSET Job]
      /\ \A o \in Run \ {r} : source'[o] = source[o] /\ scrape'[o] = scrape[o]
  BY <1>2, <1>6 DEF IInv, Types, boardVars, DecisionsAreRows, JobExists, historyVars
<1>. QED
  BY <1>2, <1>4, <1>5, <1>6, <1>7, <1>8, <1>9, StepKeeps

LEMMA PostingTyped ==
  ASSUME IInv, NEW r \in Run, RecordsLeft(r)
  PROVE  PostingAt(r) \in Posting /\ PostingAt(r) # "none"
<1>1. run[r].next \in Nat \ {0} /\ RecordsOf[r] \in Seq(Posting) /\ Len(RecordsOf[r]) \in Nat
  BY RunTypes, RecordsTyped DEF IInv
<1>2. run[r].next \in 1..Len(RecordsOf[r])
  BY <1>1 DEF RecordsLeft
<1>3. PostingAt(r) \in Posting
  BY <1>1, <1>2, ElementOfSeq DEF PostingAt
<1>. QED
  BY <1>3, ConstantsAssumption

LEMMA FindJobKeeps ==
  ASSUME IInv, NEW r \in Run, FindJob(r)
  PROVE  IInv'
<1>. DEFINE p == PostingAt(r)
<1>1. PICK j \in Job \cup {NoJob}, previous \in JobStatus :
        /\ run' = [run EXCEPT ![r].step = "record", ![r].found = j, ![r].previous = previous]
        /\ \/ j \in JobsOf(p) /\ previous = job[j].status /\ racing' = racing
           \/ /\ j = NoJob /\ JobsOf(p) = {}
              /\ racing' = IF AnotherCreates(r, p)
                           THEN [racing EXCEPT !.postings = @ \cup {p}] ELSE racing
  <2>1. CASE JobsOf(p) = {} /\ run' = [run EXCEPT ![r].step = "record", ![r].found = NoJob,
                                                  ![r].previous = "discovered"]
             /\ racing' = IF AnotherCreates(r, p)
                          THEN [racing EXCEPT !.postings = @ \cup {p}] ELSE racing
    BY <2>1 DEF JobStatus
  <2>2. ASSUME NEW j \in JobsOf(p), racing' = racing,
               run' = [run EXCEPT ![r].step = "record", ![r].found = j,
                                  ![r].previous = job[j].status]
        PROVE  job[j].status \in JobStatus /\ j \in Job
    <3>1. j \in Job /\ job[j].posting # "none" /\ job[j] \in JobRow
      BY PostingTyped DEF FindJob, JobsOf, IInv, Types
    <3>. QED
      BY <3>1 DEF IInv, JobsAreRows, JobRow
  <2>. QED
    BY <2>1, <2>2 DEF FindJob
<1>. DEFINE new == [run[r] EXCEPT !.step = "record", !.found = j, !.previous = previous]
            row == [status |-> "captured", job |-> NoJob]
<1>2. /\ run[r].step = "find" /\ RecordsLeft(r) /\ run' = [run EXCEPT ![r] = new]
      /\ run[r] \in RunState /\ source' = [source EXCEPT ![r] = Append(@, row)]
      /\ UNCHANGED <<boardVars, scrape, startVars, said, saidCalm, cutOff>>
  BY <1>1, RunTypes DEF FindJob, IInv
<1>3. /\ new \in RunState /\ new.step = "record" /\ new.found = j /\ new.previous = previous
      /\ new.at = run[r].at /\ new.next = run[r].next /\ new.reviews = run[r].reviews
  BY <1>2 DEF RunState, RunStep
<1>4. row \in SourceRow
  BY DEF SourceRow
<1>. HIDE DEF new, row
<1>5. /\ run'[r] = new /\ \A o \in Run : o # r => run'[o] = run[o]
  BY <1>2 DEF IInv, Types
<1>6. /\ source' \in [Run -> Seq(SourceRow)] /\ source'[r] # <<>>
      /\ \A o \in Run \ {r} : source'[o] = source[o]
  <2>1. source[r] \in Seq(SourceRow) /\ source \in [Run -> Seq(SourceRow)]
    BY DEF IInv, Types
  <2>2. Append(source[r], row) \in Seq(SourceRow) /\ Append(source[r], row) # <<>>
    BY <2>1, <1>4, AppendProperties
  <2>. QED
    BY <2>1, <2>2, <1>2
<1>7. j # NoJob => j \in Job /\ j \in JobsOf(p) /\ previous = job[j].status /\ job[j].status # "absent"
  BY <1>1 DEF JobStatus
<1>8. WellPlaced(r, new, job, scrape'[r].status, source'[r])
  BY <1>2, <1>3, <1>6, <1>7, InvariantParts DEF WellPlaced, RecordsLeft
<1>9. KnowsSaid(new, said, saidCalm)
  <2>1. KnowsSaid(run[r], said, saidCalm)
    BY InvariantParts
  <2>. SUFFICES ASSUME NEW i \in Job, saidCalm[i] /\ said[i] # "nothing"
                PROVE  /\ new.found = i => new.previous = said[i]
                       /\ \A n \in 1..Len(new.reviews) :
                            new.reviews[n].job = i => new.reviews[n].previous = said[i]
    BY DEF KnowsSaid
  <2>2. new.found = i => new.previous = said[i]
    BY <1>3, <1>7 DEF Job, NoJob, IInv, UserDecisionStands
  <2>. QED
    BY <1>3, <2>1, <2>2 DEF KnowsSaid
<1>10. /\ racing \in [keys : SUBSET Key, postings : SUBSET Posting, jobs : SUBSET Job]
       /\ racing' \in [keys : SUBSET Key, postings : SUBSET Posting, jobs : SUBSET Job]
       /\ racing'.jobs = racing.jobs /\ racing'.keys = racing.keys
       /\ racing.postings \subseteq racing'.postings
       /\ racing' = racing \/ racing' = [racing EXCEPT !.postings = @ \cup {p}]
       /\ j = NoJob /\ AnotherCreates(r, p) => p \in racing'.postings
  <2>1. racing \in [keys : SUBSET Key, postings : SUBSET Posting, jobs : SUBSET Job]
    BY DEF IInv, Types
  <2>2. p \in Posting
    BY <1>2, PostingTyped
  <2>3. j \in JobsOf(p) => j # NoJob
    BY DEF JobsOf, Job, NoJob
  <2>. HIDE DEF p
  <2>. QED
    BY <1>1, <2>1, <2>2, <2>3
<1>11. KeysHeld'
  <2>1. \A o \in Run : run'[o].step = "create" => run'[o] = run[o]
    BY <1>3, <1>5
  <2>2. \A o \in Run : \A key : HasKey(o, key)' <=> HasKey(o, key)
    BY <1>2 DEF HasKey
  <2>3. \A key : Holds(key)' <=> Holds(key)
    BY <1>2 DEF Holds
  <2>. QED
    BY <1>10, <2>1, <2>2, <2>3 DEF IInv, KeysHeld
<1>12. PostingsHeld'
  <2>. SUFFICES ASSUME NEW q \in Posting \ racing'.postings
                PROVE  /\ \A a, b \in JobsOf(q)' : a = b
                       /\ \A o \in Run : Creates(o, q)' =>
                            JobsOf(q)' = {} /\ \A u \in Run : Creates(u, q)' => u = o
    BY DEF PostingsHeld
  <2>1. JobsOf(q)' = JobsOf(q)
    BY <1>2 DEF JobsOf, boardVars
  <2>2. /\ \A a, b \in JobsOf(q) : a = b
        /\ \A o \in Run : Creates(o, q) =>
             JobsOf(q) = {} /\ \A u \in Run : Creates(u, q) => u = o
    BY <1>10 DEF IInv, PostingsHeld
  <2>3. \A o \in Run : o # r => (Creates(o, q)' <=> Creates(o, q))
    BY <1>5 DEF Creates, PostingAt
  <2>4. Creates(r, q)' => q = p /\ j = NoJob
    BY <1>3, <1>5 DEF Creates, PostingAt
  <2>5. Creates(r, q)' => \A o \in Run : o # r => ~Creates(o, q)
    <3>. SUFFICES ASSUME Creates(r, q)', NEW o \in Run, o # r, Creates(o, q) PROVE FALSE
      OBVIOUS
    <3>1. AnotherCreates(r, p)
      BY <2>4 DEF Creates, AnotherCreates
    <3>. QED
      BY <3>1, <2>4, <1>10
  <2>6. Creates(r, q)' => JobsOf(q) = {}
    BY <1>1, <2>4 DEF JobsOf, Job, NoJob
  <2>7. ~Creates(r, q)
    BY <1>2 DEF Creates
  <2>. QED
    BY <2>1, <2>2, <2>3, <2>5, <2>6, <2>7
<1>13. /\ check' \in [Job -> CheckRow] /\ DecisionsAreRows'
       /\ scrape' \in [Run -> ScrapeRow]
       /\ UNCHANGED <<job, startVars, said, saidCalm, cutOff>>
       /\ \A o \in Run \ {r} : source'[o] = source[o] /\ scrape'[o] = scrape[o]
  BY <1>2, <1>6 DEF IInv, Types, boardVars, DecisionsAreRows, JobExists
<1>. QED
  BY <1>2, <1>3, <1>6, <1>8, <1>9, <1>10, <1>11, <1>12, <1>13, StepKeeps

----------------------------------------------------------------------------
(* Steps of a run that write jobs.                                         *)

LEMMA JobStepKeeps ==
  ASSUME IInv, NEW r \in Run, NEW new \in RunState, run' = [run EXCEPT ![r] = new],
         Settled(new),
         UNCHANGED <<check, decision, scrape, startVars, historyVars>>,
         job' \in [Job -> JobRow], JobsAreRows', \A i \in Job : JobExists(i) => JobExists(i)',
         source' \in [Run -> Seq(SourceRow)],
         \A o \in Run \ {r} : source'[o] = source[o],
         WellPlaced(r, new, job', scrape[r].status, source'[r]),
         KnowsSaid(new, said, saidCalm),
         UserDecisionStands', PostingsHeld'
  PROVE  IInv'
<1>1. /\ run'[r] = new /\ \A o \in Run : o # r => run'[o] = run[o]
      /\ run' \in [Run -> RunState]
  BY DEF IInv, Types
<1>2. Types'
  BY <1>1 DEF IInv, Types, startVars, historyVars
<1>3. DecisionsAreRows'
  BY DEF IInv, DecisionsAreRows
<1>4. RunsAreWell'
  <2>. SUFFICES ASSUME NEW o \in Run
                PROVE  WellPlaced(o, run'[o], job', scrape'[o].status, source'[o])
    BY DEF RunsAreWell
  <2>1. CASE o = r
    BY <1>1, <2>1
  <2>2. CASE o # r
    <3>1. WellPlaced(o, run[o], job, scrape[o].status, source[o])
      BY InvariantParts
    <3>2. /\ run[o].found # NoJob => run[o].found \in Job
          /\ \A n \in 1..Len(run[o].reviews) : run[o].reviews[n].job \in Job
      <4>1. \A n \in 1..Len(run[o].reviews) : run[o].reviews[n] \in Review
        BY RunTypes, ElementOfSeq DEF IInv
      <4>. QED
        BY <4>1, RunTypes DEF Review, IInv
    <3>. QED
      BY <1>1, <2>2, <3>1, <3>2 DEF WellPlaced, JobExists
  <2>. QED
    BY <2>1, <2>2
<1>5. RunsKnowSaid'
  BY <1>1 DEF IInv, RunsKnowSaid, historyVars
<1>6. KeysHeld'
  BY <1>1, KeysKeep DEF Settled, HasKey, historyVars
<1>7. StartsHeld'
  <2>1. StartsHeld
    BY DEF IInv
  <2>2. UNCHANGED <<application, starter, racing, cutOff>>
    BY DEF startVars, historyVars
  <2>3. \A a \in Application : application[a].job # NoJob => application[a].job \in Job
    BY DEF IInv, Types, ApplicationRow
  <2>. QED
    BY <2>1, <2>2, <2>3 DEF StartsHeld, ApplicationsOf, Starts
<1>. QED
  BY <1>2, <1>3, <1>4, <1>5, <1>6, <1>7 DEF IInv

\* A run that found no job creates one.
LEMMA JobCreated ==
  ASSUME IInv, NEW r \in Run, run[r].step = "record", run[r].found = NoJob, FreeJobs # {},
         job' = [job EXCEPT ![NewJob] = [posting |-> PostingAt(r), status |-> "discovered"]],
         ~(run'[r].step = "record" /\ run'[r].found = NoJob),
         \A o \in Run : o # r => run'[o] = run[o],
         UNCHANGED historyVars
  PROVE  /\ NewJob \in Job /\ said[NewJob] = "nothing" /\ job'[NewJob].status # "absent"
         /\ job' \in [Job -> JobRow] /\ JobsAreRows'
         /\ \A i \in Job : JobExists(i) => JobExists(i)'
         /\ UserDecisionStands' /\ PostingsHeld'
<1>. DEFINE n == NewJob
            p == PostingAt(r)
            row == [posting |-> p, status |-> "discovered"]
<1>1. n \in FreeJobs
  BY DEF NewJob
<1>2. n \in Job /\ job[n].status = "absent" /\ job[n].posting = "none"
  BY <1>1 DEF FreeJobs, JobExists, IInv, JobsAreRows
<1>3. p \in Posting /\ p # "none"
  BY PostingTyped, InvariantParts DEF WellPlaced, RecordsLeft
<1>4. row \in JobRow /\ row.posting = p /\ row.status = "discovered"
  BY <1>3 DEF JobRow, JobStatus
<1>5. job' = [job EXCEPT ![n] = row]
  OBVIOUS
<1>. HIDE DEF n, p, row
<1>6. /\ job' \in [Job -> JobRow] /\ job'[n] = row
      /\ \A i \in Job : i # n => job'[i] = job[i]
  BY <1>2, <1>4, <1>5 DEF IInv, Types
<1>7. said[n] = "nothing"
  BY <1>2 DEF IInv, RunsKnowSaid, JobExists
<1>8. JobsAreRows'
  BY <1>3, <1>4, <1>6 DEF IInv, JobsAreRows
<1>9. \A i \in Job : JobExists(i) => JobExists(i)'
  BY <1>2, <1>6 DEF JobExists
<1>10. UserDecisionStands'
  BY <1>6, <1>7 DEF IInv, UserDecisionStands, historyVars
<1>11. PostingsHeld'
  <2>. SUFFICES ASSUME NEW q \in Posting \ racing.postings
                PROVE  /\ \A a, b \in JobsOf(q)' : a = b
                       /\ \A o \in Run : Creates(o, q)' =>
                            JobsOf(q)' = {} /\ \A u \in Run : Creates(u, q)' => u = o
    BY DEF PostingsHeld, historyVars
  <2>1. /\ \A a, b \in JobsOf(q) : a = b
        /\ \A o \in Run : Creates(o, q) =>
             JobsOf(q) = {} /\ \A u \in Run : Creates(u, q) => u = o
    BY DEF IInv, PostingsHeld
  <2>2. \A o \in Run : Creates(o, q)' => o # r /\ Creates(o, q)
    BY DEF Creates, PostingAt
  <2>3. CASE q = p
    <3>1. Creates(r, q)
      BY <2>3 DEF Creates, p
    <3>2. JobsOf(q) = {} /\ \A o \in Run : ~Creates(o, q)'
      BY <2>1, <2>2, <3>1
    <3>3. \A a \in JobsOf(q)' : a = n
      BY <1>6, <3>2 DEF JobsOf
    <3>. QED
      BY <3>2, <3>3
  <2>4. CASE q # p
    <3>1. JobsOf(q)' = JobsOf(q)
      <4>1. job[n].posting # q /\ job'[n].posting # q
        BY <1>2, <1>4, <1>6, <2>4, ConstantsAssumption
      <4>. QED
        BY <4>1, <1>6 DEF JobsOf
    <3>. QED
      BY <2>1, <2>2, <3>1
  <2>. QED
    BY <2>3, <2>4
<1>12. n = NewJob
  BY DEF n
<1>. QED
  BY <1>2, <1>4, <1>6, <1>7, <1>8, <1>9, <1>10, <1>11, <1>12

LEMMA CreateJobKeeps ==
  ASSUME IInv, NEW r \in Run, CreateJob(r)
  PROVE  IInv'
<1>. DEFINE j == NewJob
<1>1. /\ run[r].step = "record" /\ run[r].found = NoJob /\ FreeJobs # {}
      /\ job' = [job EXCEPT ![j] = [posting |-> PostingAt(r), status |-> "discovered"]]
      /\ SetSource(r, "normalized", j) /\ run' = Remembered(r, j)
      /\ UNCHANGED <<check, decision, scrape, startVars, historyVars>>
  BY DEF CreateJob
<1>2. j \in Job
  BY <1>1 DEF NewJob, FreeJobs
<1>. HIDE DEF j
<1>3. PICK new \in RunState :
        /\ run' = [run EXCEPT ![r] = new]
        /\ new.step = "find" /\ new.found = NoJob /\ new.at = 1
        /\ Len(new.reviews) = Len(run[r].reviews) + 1 /\ Len(run[r].reviews) \in Nat
        /\ \A n \in 1..Len(run[r].reviews) : new.reviews[n] = run[r].reviews[n]
        /\ new.reviews[Len(run[r].reviews) + 1].job = j
        /\ new.reviews[Len(run[r].reviews) + 1].previous = run[r].previous
  BY <1>1, <1>2, RememberedState
<1>4. run'[r] = new /\ \A o \in Run : o # r => run'[o] = run[o]
  BY <1>3 DEF IInv, Types
<1>5. /\ said[j] = "nothing" /\ job'[j].status # "absent"
      /\ job' \in [Job -> JobRow] /\ JobsAreRows'
      /\ \A i \in Job : JobExists(i) => JobExists(i)'
      /\ UserDecisionStands' /\ PostingsHeld'
  <2>1. UNCHANGED historyVars
    BY <1>1
  <2>. QED
    BY <1>1, <1>3, <1>4, <2>1, JobCreated DEF j
<1>6. \A i \in Job : job[i].status # "absent" => job'[i].status # "absent"
  BY <1>5 DEF JobExists
<1>7. WellPlaced(r, new, job', scrape[r].status, source'[r]) /\ KnowsSaid(new, said, saidCalm)
  <2>1. run[r].step = "record" /\ (saidCalm[j] /\ said[j] # "nothing" => run[r].previous = said[j])
    BY <1>1, <1>5
  <2>2. ASSUME NEW jobs, NEW rows, jobs[j].status # "absent",
               \A i \in Job : job[i].status # "absent" => jobs[i].status # "absent"
        PROVE  WellPlaced(r, new, jobs, scrape[r].status, rows)
    BY <1>2, <1>3, <2>1, <2>2, RememberedPlaced
  <2>3. KnowsSaid(new, said, saidCalm)
    BY <1>2, <1>3, <2>1, RememberedKnows
  <2>. QED
    BY <1>5, <1>6, <2>2, <2>3
<1>8. source' \in [Run -> Seq(SourceRow)] /\ \A o \in Run \ {r} : source'[o] = source[o]
  BY <1>1, <1>2, SetSourceTyped
<1>9. Settled(new)
  BY <1>3 DEF Settled
<1>. QED
  BY <1>1, <1>3, <1>5, <1>7, <1>8, <1>9, JobStepKeeps

LEMMA FailRecordKeeps ==
  ASSUME IInv, NEW r \in Run, NEW created \in BOOLEAN, FailRecord(r, created)
  PROVE  IInv'
<1>. DEFINE new == [run[r] EXCEPT !.step = "find", !.next = @ + 1, !.found = NoJob,
                                  !.previous = "absent", !.errors = TRUE]
<1>1. /\ run[r].step = "record" /\ run[r] \in RunState
      /\ run' = [run EXCEPT ![r] = new]
      /\ SetSource(r, "errored", NoJob)
      /\ UNCHANGED <<check, decision, scrape, startVars, historyVars>>
      /\ created => run[r].found = NoJob /\ FreeJobs # {}
  BY RunTypes DEF FailRecord, IInv
<1>2. run[r].next + 1 \in Nat \ {0} /\ "find" \in RunStep
  BY RunTypes DEF IInv, RunStep
<1>3. /\ new \in RunState /\ new.step = "find" /\ new.found = NoJob
      /\ new.at = run[r].at /\ new.reviews = run[r].reviews
  BY <1>1, <1>2 DEF RunState
<1>. HIDE DEF new
<1>4. run'[r] = new /\ \A o \in Run : o # r => run'[o] = run[o]
  BY <1>1 DEF IInv, Types
<1>5. /\ job' \in [Job -> JobRow] /\ JobsAreRows'
      /\ \A i \in Job : JobExists(i) => JobExists(i)'
      /\ UserDecisionStands' /\ PostingsHeld'
  <2>1. CASE created
    <3>1. job' = [job EXCEPT ![NewJob] = [posting |-> PostingAt(r), status |-> "discovered"]]
      BY <2>1 DEF FailRecord
    <3>2. UNCHANGED historyVars
      BY <1>1
    <3>. QED
      BY <1>1, <1>3, <1>4, <2>1, <3>1, <3>2, JobCreated
  <2>2. CASE ~created
    <3>1. job' = job /\ UNCHANGED historyVars
      BY <1>1, <2>2 DEF FailRecord
    <3>2. PostingsHeld'
      BY <1>3, <1>4, <3>1, PostingsKeep DEF historyVars
    <3>. QED
      BY <3>1, <3>2 DEF IInv, Types, JobsAreRows, UserDecisionStands, JobExists, historyVars
  <2>. QED
    BY <2>1, <2>2
<1>6. WellPlaced(r, new, job', scrape[r].status, source'[r])
  <2>1. \A n \in 1..Len(run[r].reviews) : run[r].reviews[n].job \in Job
    <3>1. \A n \in 1..Len(run[r].reviews) : run[r].reviews[n] \in Review
      BY RunTypes, ElementOfSeq DEF IInv
    <3>. QED
      BY <3>1 DEF Review
  <2>. QED
    BY <1>1, <1>3, <1>5, <2>1, InvariantParts DEF WellPlaced, JobExists
<1>7. KnowsSaid(new, said, saidCalm)
  BY <1>3, InvariantParts DEF KnowsSaid, Job, NoJob
<1>8. source' \in [Run -> Seq(SourceRow)] /\ \A o \in Run \ {r} : source'[o] = source[o]
  BY <1>1, SetSourceTyped
<1>9. Settled(new)
  BY <1>3 DEF Settled
<1>. QED
  BY <1>1, <1>3, <1>5, <1>6, <1>7, <1>8, <1>9, JobStepKeeps

LEMMA WriteStatusKeeps ==
  ASSUME IInv, NEW r \in Run, WriteStatus(r)
  PROVE  IInv'
<1>. DEFINE new == [run[r] EXCEPT !.step = "note"]
            j == Candidate(r).job
            result == ResultingStatus(r)
<1>1. /\ run[r].step = "write" /\ run[r].at <= Len(run[r].reviews) /\ run[r] \in RunState
      /\ run' = [run EXCEPT ![r] = new]
      /\ job' = [job EXCEPT ![j].status = result]
      /\ UNCHANGED <<check, decision, scrape, source, startVars, historyVars>>
  BY RunTypes DEF WriteStatus, ReviewsLeft, IInv
<1>2. /\ run[r].at \in 1..Len(run[r].reviews)
      /\ Candidate(r) \in Review /\ j \in Job /\ JobExists(j)
  BY <1>1, CandidateIsThere
<1>3. result \in JobStatus /\ result # "absent"
  BY <1>2 DEF ResultingStatus, StatusFor, Review, JobStatus
<1>4. saidCalm[j] /\ said[j] # "nothing" => result = said[j]
  <2>. SUFFICES ASSUME saidCalm[j], said[j] # "nothing" PROVE result = said[j]
    OBVIOUS
  <2>1. Candidate(r).previous = said[j]
    BY <1>2, InvariantParts DEF KnowsSaid, Candidate
  <2>2. said[j] \in {"shortlisted", "archived"}
    BY <1>2 DEF IInv, Types
  <2>. QED
    BY <2>1, <2>2 DEF ResultingStatus, ActsAutomatically
<1>5. /\ new \in RunState /\ new.step = "note" /\ new.found = run[r].found
      /\ new.previous = run[r].previous /\ new.at = run[r].at /\ new.reviews = run[r].reviews
  BY <1>1 DEF RunState, RunStep
<1>. HIDE DEF new, j, result
<1>6. /\ job' \in [Job -> JobRow]
      /\ job'[j].status = result /\ job'[j].posting = job[j].posting
      /\ \A i \in Job : i # j => job'[i] = job[i]
  BY <1>1, <1>2, <1>3 DEF IInv, Types, JobRow
<1>7. JobsAreRows' /\ \A i \in Job : JobExists(i) => JobExists(i)'
  BY <1>2, <1>3, <1>6 DEF IInv, JobsAreRows, JobExists
<1>8. UserDecisionStands'
  BY <1>1, <1>4, <1>6 DEF IInv, UserDecisionStands, historyVars
<1>9. run'[r] = new /\ \A o \in Run : o # r => run'[o] = run[o]
  BY <1>1 DEF IInv, Types
<1>10. PostingsHeld'
  BY <1>1, <1>5, <1>6, <1>9, PostingsKeep DEF historyVars
<1>11. WellPlaced(r, new, job', scrape[r].status, source'[r])
  <2>1. \A n \in 1..Len(run[r].reviews) : run[r].reviews[n].job \in Job
    <3>1. \A n \in 1..Len(run[r].reviews) : run[r].reviews[n] \in Review
      BY RunTypes, ElementOfSeq DEF IInv
    <3>. QED
      BY <3>1 DEF Review
  <2>2. run[r].found # NoJob => run[r].found \in Job
    BY RunTypes DEF IInv
  <2>. QED
    BY <1>1, <1>5, <1>7, <2>1, <2>2, InvariantParts DEF WellPlaced, JobExists
<1>12. KnowsSaid(new, said, saidCalm)
  BY <1>5, InvariantParts DEF KnowsSaid
<1>13. source' \in [Run -> Seq(SourceRow)] /\ Settled(new)
  BY <1>1, <1>5 DEF IInv, Types, Settled
<1>. QED
  BY <1>1, <1>5, <1>6, <1>7, <1>8, <1>10, <1>11, <1>12, <1>13, JobStepKeeps

----------------------------------------------------------------------------
(* Steps of the user.                                                      *)

LEMMA UserKeeps ==
  ASSUME IInv, UNCHANGED <<decision, scoutVars, startVars, racing, cutOff>>,
         job' \in [Job -> JobRow], check' \in [Job -> CheckRow],
         said' \in [Job -> {"nothing", "shortlisted", "archived"}],
         saidCalm' \in [Job -> BOOLEAN],
         \A i \in Job : job'[i].posting = job[i].posting,
         \A i \in Job : JobExists(i)' <=> JobExists(i),
         UserDecisionStands', RunsKnowSaid'
  PROVE  IInv'
<1>1. Types'
  BY DEF IInv, Types, scoutVars, startVars
<1>2. JobsAreRows'
  BY DEF IInv, JobsAreRows, JobExists
<1>3. DecisionsAreRows'
  BY DEF IInv, DecisionsAreRows
<1>4. RunsAreWell'
  <2>. SUFFICES ASSUME NEW r \in Run
                PROVE  WellPlaced(r, run[r], job', scrape[r].status, source[r])
    BY DEF RunsAreWell, scoutVars
  <2>1. /\ run[r].found # NoJob => run[r].found \in Job
        /\ \A n \in 1..Len(run[r].reviews) : run[r].reviews[n].job \in Job
    <3>1. \A n \in 1..Len(run[r].reviews) : run[r].reviews[n] \in Review
      BY RunTypes, ElementOfSeq DEF IInv
    <3>. QED
      BY <3>1, RunTypes DEF Review, IInv
  <2>. QED
    BY <2>1, InvariantParts DEF WellPlaced, JobExists
<1>5. KeysHeld'
  BY DEF IInv, KeysHeld, HasKey, Holds, scoutVars
<1>6. PostingsHeld'
  <2>1. \A posting : JobsOf(posting)' = JobsOf(posting)
    BY DEF JobsOf
  <2>2. \A posting : \A r \in Run : Creates(r, posting)' <=> Creates(r, posting)
    BY DEF Creates, PostingAt, scoutVars
  <2>. QED
    BY <2>1, <2>2 DEF IInv, PostingsHeld
<1>7. StartsHeld'
  <2>1. \A a \in Application : application[a].job # NoJob => application[a].job \in Job
    BY DEF IInv, Types, ApplicationRow
  <2>. QED
    BY <2>1 DEF IInv, StartsHeld, ApplicationsOf, Starts, startVars
<1>. QED
  BY <1>1, <1>2, <1>3, <1>4, <1>5, <1>6, <1>7 DEF IInv

LEMMA DecideKeeps ==
  ASSUME IInv, NEW j \in Job, NEW status \in {"shortlisted", "archived"}, Decide(j, status)
  PROVE  IInv'
<1>1. /\ JobExists(j)
      /\ UNCHANGED <<check, decision, scoutVars, startVars, racing, cutOff>>
  BY DEF Decide
<1>2. /\ said' \in [Job -> {"nothing", "shortlisted", "archived"}]
      /\ saidCalm' \in [Job -> BOOLEAN]
      /\ said'[j] = status /\ \A i \in Job : i # j => said'[i] = said[i]
      /\ \A i \in Job : i # j => saidCalm'[i] = saidCalm[i]
      /\ saidCalm'[j] <=> \A r \in Run : ~HasInHand(r, j)
  BY DEF Decide, IInv, Types
<1>3. /\ job' \in [Job -> JobRow] /\ \A i \in Job : i # j => job'[i] = job[i]
      /\ job'[j].status = status /\ job'[j].posting = job[j].posting
  BY DEF Decide, IInv, Types, JobRow, JobStatus
<1>4. /\ \A i \in Job : job'[i].posting = job[i].posting
      /\ \A i \in Job : JobExists(i)' <=> JobExists(i)
  BY <1>1, <1>3 DEF JobExists
<1>5. UserDecisionStands'
  BY <1>2, <1>3 DEF IInv, UserDecisionStands
<1>6. RunsKnowSaid'
  <2>1. ASSUME NEW r \in Run PROVE KnowsSaid(run[r], said', saidCalm')
    <3>. SUFFICES ASSUME NEW i \in Job, saidCalm'[i], said'[i] # "nothing"
                  PROVE  /\ run[r].found = i => run[r].previous = said'[i]
                         /\ \A n \in 1..Len(run[r].reviews) :
                              run[r].reviews[n].job = i => run[r].reviews[n].previous = said'[i]
      BY DEF KnowsSaid
    <3>1. CASE i = j
      <4>1. run[r].found # j /\ j \notin Reviewed(r)
        BY <1>2, <3>1 DEF HasInHand
      <4>2. DOMAIN run[r].reviews = 1..Len(run[r].reviews)
        BY RunTypes DEF IInv
      <4>. QED
        BY <3>1, <4>1, <4>2 DEF Reviewed
    <3>2. CASE i # j
      BY <1>2, <3>2, InvariantParts DEF KnowsSaid
    <3>. QED
      BY <3>1, <3>2
  <2>2. \A i \in Job : ~JobExists(i)' => said'[i] = "nothing"
    BY <1>1, <1>2, <1>4 DEF IInv, RunsKnowSaid
  <2>. QED
    BY <1>1, <2>1, <2>2 DEF RunsKnowSaid, scoutVars
<1>7. check' \in [Job -> CheckRow]
  BY <1>1 DEF IInv, Types
<1>. QED
  BY <1>1, <1>2, <1>3, <1>4, <1>5, <1>6, <1>7, UserKeeps

LEMMA CheckRowKeeps ==
  ASSUME IInv, check' \in [Job -> CheckRow],
         UNCHANGED <<job, decision, scoutVars, startVars, historyVars>>
  PROVE  IInv'
<1>1. /\ UNCHANGED <<decision, scoutVars, startVars, racing, cutOff>>
      /\ UNCHANGED <<job, run, said, saidCalm>>
  BY DEF scoutVars, historyVars
<1>2. /\ job' \in [Job -> JobRow] /\ saidCalm' \in [Job -> BOOLEAN]
      /\ said' \in [Job -> {"nothing", "shortlisted", "archived"}]
      /\ \A i \in Job : job'[i].posting = job[i].posting
      /\ \A i \in Job : JobExists(i)' <=> JobExists(i)
  BY <1>1 DEF IInv, Types, JobExists
<1>3. UserDecisionStands' /\ RunsKnowSaid'
  BY <1>1 DEF IInv, UserDecisionStands, RunsKnowSaid, JobExists
<1>. QED
  BY <1>1, <1>2, <1>3, UserKeeps

LEMMA ChecksKeep ==
  ASSUME IInv, NEW j \in Job, Expire(j) \/ \E status \in Answers : CheckPosting(j, status)
  PROVE  IInv'
<1>1. check \in [Job -> CheckRow] /\ check[j].status \in PostingCheckStatus \cup {"none"}
  BY DEF IInv, Types, CheckRow
<1>2. CASE Expire(j)
  <2>1. check' \in [Job -> CheckRow]
    BY <1>1, <1>2 DEF Expire, CheckRow
  <2>. QED
    BY <1>2, <2>1, CheckRowKeeps DEF Expire
<1>3. ASSUME NEW status \in Answers, CheckPosting(j, status) PROVE IInv'
  <2>1. check' \in [Job -> CheckRow]
    BY <1>1, <1>3, ConstantsAssumption DEF CheckPosting, PersistCheck, CheckRow
  <2>. QED
    BY <1>3, <2>1, CheckRowKeeps DEF CheckPosting
<1>. QED
  BY <1>2, <1>3

----------------------------------------------------------------------------
(* Steps of the requests that start an application.                        *)

LEMMA StarterKeeps ==
  ASSUME IInv, UNCHANGED <<boardVars, scoutVars, said, saidCalm>>,
         racing' \in [keys : SUBSET Key, postings : SUBSET Posting, jobs : SUBSET Job],
         racing'.keys = racing.keys, racing'.postings = racing.postings,
         application' \in [Application -> ApplicationRow],
         starter' \in [Starter -> StarterState], cutOff' \subseteq Application,
         StartsHeld'
  PROVE  IInv'
<1>1. Types'
  BY DEF IInv, Types, boardVars, scoutVars
<1>2. JobsAreRows' /\ DecisionsAreRows' /\ UserDecisionStands'
  BY DEF IInv, JobsAreRows, DecisionsAreRows, UserDecisionStands, JobExists, boardVars
<1>3. RunsAreWell' /\ RunsKnowSaid'
  BY DEF IInv, RunsAreWell, RunsKnowSaid, JobExists, boardVars, scoutVars
<1>4. KeysHeld'
  BY DEF IInv, KeysHeld, HasKey, Holds, scoutVars
<1>5. PostingsHeld'
  <2>1. \A posting : JobsOf(posting)' = JobsOf(posting)
    BY DEF JobsOf, boardVars
  <2>2. \A posting : \A r \in Run : Creates(r, posting)' <=> Creates(r, posting)
    BY DEF Creates, PostingAt, scoutVars
  <2>. QED
    BY <2>1, <2>2 DEF IInv, PostingsHeld
<1>. QED
  BY <1>1, <1>2, <1>3, <1>4, <1>5 DEF IInv

LEMMA StarterTypes ==
  ASSUME IInv
  PROVE  /\ starter \in [Starter -> StarterState] /\ application \in [Application -> ApplicationRow]
         /\ \A s \in Starter : /\ starter[s].step \in {"idle", "create", "enqueue"}
                               /\ starter[s].job \in Job \cup {NoJob}
                               /\ starter[s].application \in Application \cup {NoApplication}
         /\ \A a \in Application : application[a].job \in Job \cup {NoJob}
         /\ NoApplication \notin Application /\ NoJob \notin Job
         /\ IdleStarter \in StarterState
         /\ racing \in [keys : SUBSET Key, postings : SUBSET Posting, jobs : SUBSET Job]
         /\ cutOff \subseteq Application
         /\ StartsHeld
<1>1. /\ starter \in [Starter -> StarterState] /\ application \in [Application -> ApplicationRow]
      /\ racing \in [keys : SUBSET Key, postings : SUBSET Posting, jobs : SUBSET Job]
      /\ cutOff \subseteq Application /\ StartsHeld
  BY DEF IInv, Types
<1>2. \A s \in Starter : /\ starter[s].step \in {"idle", "create", "enqueue"}
                         /\ starter[s].job \in Job \cup {NoJob}
                         /\ starter[s].application \in Application \cup {NoApplication}
  BY <1>1 DEF StarterState
<1>3. \A a \in Application : application[a].job \in Job \cup {NoJob}
  BY <1>1 DEF ApplicationRow
<1>4. NoApplication \notin Application /\ NoJob \notin Job
  BY DEF Application, NoApplication, Job, NoJob
<1>5. IdleStarter \in StarterState
  BY DEF IdleStarter, StarterState
<1>. QED
  BY <1>1, <1>2, <1>3, <1>4, <1>5

LEMMA BeginStartKeeps ==
  ASSUME IInv, NEW s \in Starter, NEW j \in Job, NEW guarded \in BOOLEAN,
         BeginStart(s, j, guarded)
  PROVE  IInv'
<1>. DEFINE new == [step |-> "create", job |-> j, application |-> NoApplication]
<1>1. /\ starter[s].step = "idle" /\ JobExists(j) /\ ApplicationsOf(j) = {}
      /\ starter' = [starter EXCEPT ![s] = new]
      /\ UNCHANGED <<boardVars, scoutVars, application, said, saidCalm, cutOff>>
  BY DEF BeginStart
<1>2. /\ new \in StarterState /\ new.step = "create" /\ new.job = j
      /\ new.application = NoApplication
  BY DEF StarterState
<1>. HIDE DEF new
<1>3. /\ starter' \in [Starter -> StarterState] /\ starter'[s] = new
      /\ \A o \in Starter : o # s => starter'[o] = starter[o]
  BY <1>1, <1>2, StarterTypes
<1>4. /\ racing' \in [keys : SUBSET Key, postings : SUBSET Posting, jobs : SUBSET Job]
      /\ racing'.keys = racing.keys /\ racing'.postings = racing.postings
      /\ racing.jobs \subseteq racing'.jobs
      /\ j \in racing'.jobs \/ \A o \in Starter : ~Starts(o, j)
  BY StarterTypes DEF BeginStart, Starts
<1>5. StartsHeld'
  <2>1. \A i : ApplicationsOf(i)' = ApplicationsOf(i)
    BY <1>1 DEF ApplicationsOf
  <2>2. ASSUME NEW i \in Job \ racing'.jobs
        PROVE  /\ \A a, b \in ApplicationsOf(i)' : a = b
               /\ \A t \in Starter : Starts(t, i)' =>
                    ApplicationsOf(i)' = {} /\ \A o \in Starter : Starts(o, i)' => o = t
    <3>1. /\ \A a, b \in ApplicationsOf(i) : a = b
          /\ \A t \in Starter : Starts(t, i) =>
               ApplicationsOf(i) = {} /\ \A o \in Starter : Starts(o, i) => o = t
      BY <1>4, <2>2, StarterTypes DEF StartsHeld
    <3>2. \A o \in Starter : o # s => (Starts(o, i)' <=> Starts(o, i))
      BY <1>3 DEF Starts
    <3>3. Starts(s, i)' => i = j /\ \A o \in Starter : ~Starts(o, i)
      BY <1>2, <1>3, <1>4, <2>2 DEF Starts
    <3>. QED
      BY <1>1, <2>1, <3>1, <3>2, <3>3
  <2>3. ASSUME NEW a \in Application \ cutOff', application'[a].job # NoJob,
               ~application'[a].tasked
        PROVE  \E o \in Starter : starter'[o].application = a
    <3>1. PICK o \in Starter : starter[o].application = a
      BY <1>1, <2>3, StarterTypes DEF StartsHeld
    <3>2. o # s
      BY <1>1, <3>1, StarterTypes DEF StartsHeld
    <3>. QED
      BY <1>3, <3>1, <3>2
  <2>4. \A t \in Starter :
          /\ starter'[t].step # "enqueue" => starter'[t].application = NoApplication
          /\ starter'[t].step = "create" => starter'[t].job \in Job /\ JobExists(starter'[t].job)
          /\ starter'[t].step = "enqueue" => starter'[t].application \in Application
          /\ starter'[t].step = "enqueue" => application[starter'[t].application].job # NoJob
    BY <1>1, <1>2, <1>3, StarterTypes DEF StartsHeld
  <2>. QED
    BY <1>1, <2>2, <2>3, <2>4, StarterTypes DEF StartsHeld, JobExists, boardVars
<1>. QED
  BY <1>1, <1>3, <1>4, <1>5, StarterTypes, StarterKeeps

LEMMA CommitStartKeeps ==
  ASSUME IInv, NEW s \in Starter, CommitStart(s)
  PROVE  IInv'
<1>. DEFINE j == starter[s].job
<1>1. PICK a \in FreeApplications :
        /\ application' = [application EXCEPT ![a].job = j]
        /\ starter' = [starter EXCEPT ![s].step = "enqueue", ![s].application = a]
  BY DEF CommitStart
<1>2. /\ starter[s].step = "create"
      /\ UNCHANGED <<boardVars, scoutVars, historyVars>>
  BY DEF CommitStart
<1>3. a \in Application /\ application[a].job = NoJob
  BY DEF FreeApplications, ApplicationsOf
<1>4. /\ j \in Job /\ j # NoJob /\ JobExists(j) /\ starter[s].application = NoApplication
      /\ ~application[a].tasked
  BY <1>2, <1>3, StarterTypes DEF StartsHeld
<1>5. /\ starter' \in [Starter -> StarterState]
      /\ starter'[s].step = "enqueue" /\ starter'[s].application = a
      /\ \A o \in Starter : o # s => starter'[o] = starter[o]
  BY <1>1, <1>3, StarterTypes DEF StarterState
<1>6. /\ application' \in [Application -> ApplicationRow]
      /\ application'[a].job = j /\ application'[a].tasked = application[a].tasked
      /\ \A b \in Application : b # a => application'[b] = application[b]
  BY <1>1, <1>3, <1>4, StarterTypes DEF ApplicationRow
<1>. HIDE DEF j
<1>7. UNCHANGED <<said, saidCalm, racing, cutOff, job>>
  BY <1>2 DEF historyVars, boardVars
<1>8. StartsHeld'
  <2>1. ASSUME NEW i \in Job \ racing'.jobs
        PROVE  /\ \A b, c \in ApplicationsOf(i)' : b = c
               /\ \A t \in Starter : Starts(t, i)' =>
                    ApplicationsOf(i)' = {} /\ \A o \in Starter : Starts(o, i)' => o = t
    <3>1. /\ \A b, c \in ApplicationsOf(i) : b = c
          /\ \A t \in Starter : Starts(t, i) =>
               ApplicationsOf(i) = {} /\ \A o \in Starter : Starts(o, i) => o = t
      BY <1>7, <2>1, StarterTypes DEF StartsHeld
    <3>2. \A o \in Starter : Starts(o, i)' => Starts(o, i) /\ o # s
      BY <1>5 DEF Starts
    <3>3. CASE i = j
      <4>1. Starts(s, i)
        BY <1>2, <3>3 DEF Starts, j
      <4>2. ApplicationsOf(i) = {} /\ \A o \in Starter : ~Starts(o, i)'
        BY <3>1, <3>2, <4>1
      <4>3. \A b \in ApplicationsOf(i)' : b = a
        BY <1>6, <4>2 DEF ApplicationsOf
      <4>. QED
        BY <4>2, <4>3
    <3>4. CASE i # j
      <4>1. ApplicationsOf(i)' = ApplicationsOf(i)
        BY <1>3, <1>6, <2>1, <3>4, StarterTypes DEF ApplicationsOf
      <4>. QED
        BY <3>1, <3>2, <4>1
    <3>. QED
      BY <3>3, <3>4
  <2>2. ASSUME NEW b \in Application \ cutOff', application'[b].job # NoJob,
               ~application'[b].tasked
        PROVE  \E o \in Starter : starter'[o].application = b
    <3>1. CASE b = a
      BY <1>5, <3>1
    <3>2. CASE b # a
      <4>1. PICK o \in Starter : starter[o].application = b
        BY <1>6, <1>7, <2>2, <3>2, StarterTypes DEF StartsHeld
      <4>2. o # s
        BY <1>4, <4>1, StarterTypes
      <4>. QED
        BY <1>5, <4>1, <4>2
    <3>. QED
      BY <3>1, <3>2
  <2>3. \A t \in Starter :
          /\ starter'[t].step # "enqueue" => starter'[t].application = NoApplication
          /\ starter'[t].step = "create" => starter'[t].job \in Job /\ JobExists(starter'[t].job)
          /\ starter'[t].step = "enqueue" => starter'[t].application \in Application
    BY <1>3, <1>5, StarterTypes DEF StartsHeld
  <2>4. \A b \in Application :
          /\ application'[b].job = NoJob => ~application'[b].tasked
          /\ application'[b].job # NoJob => JobExists(application'[b].job)
    BY <1>4, <1>6, StarterTypes DEF StartsHeld
  <2>5. \A t \in Starter : starter'[t].step = "enqueue" =>
          application'[starter'[t].application].job # NoJob
    BY <1>3, <1>4, <1>5, <1>6, StarterTypes DEF StartsHeld
  <2>. QED
    BY <1>7, <2>1, <2>2, <2>3, <2>4, <2>5 DEF StartsHeld, JobExists
<1>9. racing'.keys = racing.keys /\ racing'.postings = racing.postings
  BY <1>7
<1>. QED
  BY <1>2, <1>5, <1>6, <1>7, <1>8, <1>9, StarterTypes, StarterKeeps

\* A request is over: whatever application it was about has its task or is
\* known to be cut off.
LEMMA RequestEnds ==
  ASSUME IInv, NEW s \in Starter, starter' = [starter EXCEPT ![s] = IdleStarter],
         UNCHANGED <<boardVars, scoutVars, said, saidCalm, racing>>,
         application' \in [Application -> ApplicationRow],
         \A a \in Application : application'[a].job = application[a].job,
         \A a \in Application : a # starter[s].application => application'[a] = application[a],
         cutOff \subseteq cutOff', cutOff' \subseteq Application,
         \A a \in Application : a = starter[s].application =>
           (a \in cutOff' /\ application'[a] = application[a]) \/ application'[a].tasked,
         starter[s].step = "enqueue" \/ UNCHANGED application
  PROVE  IInv'
<1>1. /\ starter' \in [Starter -> StarterState] /\ starter'[s] = IdleStarter
      /\ \A o \in Starter : o # s => starter'[o] = starter[o]
  BY StarterTypes
<1>2. IdleStarter.step = "idle" /\ IdleStarter.application = NoApplication
  BY DEF IdleStarter
<1>3. \A i : ApplicationsOf(i)' = ApplicationsOf(i)
  BY DEF ApplicationsOf
<1>4. \A i : \A o \in Starter : Starts(o, i)' => Starts(o, i)
  BY <1>1, <1>2 DEF Starts
<1>5. ASSUME NEW a \in Application \ cutOff', application'[a].job # NoJob, ~application'[a].tasked
      PROVE  \E o \in Starter : starter'[o].application = a
  <2>1. a # starter[s].application /\ application'[a] = application[a] /\ a \notin cutOff
    BY <1>5
  <2>2. PICK o \in Starter : starter[o].application = a
    BY <1>5, <2>1, StarterTypes DEF StartsHeld
  <2>. QED
    BY <1>1, <2>1, <2>2
<1>6. \A t \in Starter :
        /\ starter'[t].step # "enqueue" => starter'[t].application = NoApplication
        /\ starter'[t].step = "create" => starter'[t].job \in Job /\ JobExists(starter'[t].job)
        /\ starter'[t].step = "enqueue" => starter'[t].application \in Application
        /\ starter'[t].step = "enqueue" => application'[starter'[t].application].job # NoJob
  BY <1>1, <1>2, StarterTypes DEF StartsHeld
<1>7. \A a \in Application :
        /\ application'[a].job = NoJob => ~application'[a].tasked
        /\ application'[a].job # NoJob => JobExists(application'[a].job)
  <2>1. \A a \in Application : application'[a].job # NoJob => JobExists(application'[a].job)
    BY StarterTypes DEF StartsHeld
  <2>2. ASSUME NEW a \in Application, application'[a].job = NoJob PROVE ~application'[a].tasked
    <3>1. application'[a] = application[a]
      BY <2>2, StarterTypes DEF StartsHeld
    <3>. QED
      BY <2>2, <3>1, StarterTypes DEF StartsHeld
  <2>. QED
    BY <2>1, <2>2
<1>8. StartsHeld'
  <2>1. \A i \in Job \ racing'.jobs :
          /\ \A a, b \in ApplicationsOf(i)' : a = b
          /\ \A t \in Starter : Starts(t, i)' =>
               ApplicationsOf(i)' = {} /\ \A o \in Starter : Starts(o, i)' => o = t
    BY <1>3, <1>4, StarterTypes DEF StartsHeld
  <2>. QED
    BY <2>1, <1>5, <1>6, <1>7 DEF StartsHeld, JobExists, boardVars
<1>9. racing'.keys = racing.keys /\ racing'.postings = racing.postings
  OBVIOUS
<1>. QED
  BY <1>1, <1>8, <1>9, StarterTypes, StarterKeeps

LEMMA EnqueueStartKeeps ==
  ASSUME IInv, NEW s \in Starter, EnqueueStart(s)
  PROVE  IInv'
<1>. DEFINE a == starter[s].application
<1>1. /\ starter[s].step = "enqueue"
      /\ application' = [application EXCEPT ![a].tasked = TRUE]
      /\ starter' = [starter EXCEPT ![s] = IdleStarter]
      /\ UNCHANGED <<boardVars, scoutVars, said, saidCalm, racing, cutOff>>
  BY DEF EnqueueStart, historyVars
<1>2. a \in Application
  BY <1>1, StarterTypes DEF StartsHeld
<1>3. /\ application' \in [Application -> ApplicationRow]
      /\ \A b \in Application : application'[b].job = application[b].job
      /\ \A b \in Application : b # a => application'[b] = application[b]
      /\ application'[a].tasked
  <2>. DEFINE row == [application[a] EXCEPT !.tasked = TRUE]
  <2>1. /\ application \in [Application -> ApplicationRow]
        /\ application' = [application EXCEPT ![a] = row]
    BY <1>1, StarterTypes
  <2>2. application[a] \in ApplicationRow
    BY <1>2, <2>1
  <2>. HIDE DEF a
  <2>3. row \in ApplicationRow /\ row.job = application[a].job /\ row.tasked
    BY <2>2 DEF ApplicationRow
  <2>. HIDE DEF row
  <2>. QED
    BY <1>2, <2>1, <2>3
<1>4. cutOff \subseteq cutOff' /\ cutOff' \subseteq Application
  BY <1>1, StarterTypes
<1>. QED
  BY <1>1, <1>3, <1>4, RequestEnds

LEMMA StartFailsKeeps ==
  ASSUME IInv, NEW s \in Starter, StartFails(s)
  PROVE  IInv'
<1>1. /\ starter' = [starter EXCEPT ![s] = IdleStarter]
      /\ cutOff' = (cutOff \cup {starter[s].application}) \ {NoApplication}
      /\ UNCHANGED <<boardVars, scoutVars, application, said, saidCalm, racing>>
  BY DEF StartFails
<1>2. /\ cutOff \subseteq cutOff' /\ cutOff' \subseteq Application
      /\ \A a \in Application : a = starter[s].application => a \in cutOff'
  BY <1>1, StarterTypes
<1>3. application' \in [Application -> ApplicationRow]
  BY <1>1, StarterTypes
<1>. QED
  BY <1>1, <1>2, <1>3, RequestEnds

----------------------------------------------------------------------------
(* The invariant.                                                          *)

LEMMA InitInvariant == Init => IInv
<1>. SUFFICES ASSUME Init PROVE IInv
  OBVIOUS
<1>1. Types
  <2>1. job \in [Job -> JobRow] /\ check \in [Job -> CheckRow]
    BY DEF Init, AbsentJob, NoCheck, JobRow, CheckRow
  <2>2. scrape \in [Run -> ScrapeRow] /\ source \in [Run -> Seq(SourceRow)]
    BY DEF Init, ScrapeRow
  <2>3. run \in [Run -> RunState]
    BY IdleRunTyped DEF Init
  <2>4. application \in [Application -> ApplicationRow] /\ starter \in [Starter -> StarterState]
    BY DEF Init, AbsentApplication, IdleStarter, ApplicationRow, StarterState
  <2>5. /\ said \in [Job -> {"nothing", "shortlisted", "archived"}]
        /\ saidCalm \in [Job -> BOOLEAN]
        /\ racing \in [keys : SUBSET Key, postings : SUBSET Posting, jobs : SUBSET Job]
        /\ cutOff \subseteq Application
    BY DEF Init
  <2>. QED
    BY <2>1, <2>2, <2>3, <2>4, <2>5 DEF Types
<1>2. JobsAreRows /\ DecisionsAreRows /\ UserDecisionStands
  BY DEF Init, JobsAreRows, DecisionsAreRows, UserDecisionStands, AbsentJob
<1>3. \A r \in Run : /\ run[r].step = "idle" /\ run[r].found = NoJob /\ run[r].at = 1
                     /\ run[r].reviews = <<>>
                     /\ scrape[r].status = "absent"
  BY DEF Init, IdleRun
<1>4. RunsAreWell
  BY <1>3 DEF RunsAreWell, WellPlaced
<1>5. RunsKnowSaid
  BY DEF Init, RunsKnowSaid, KnowsSaid
<1>6. KeysHeld
  BY <1>3 DEF KeysHeld, HasKey
<1>7. PostingsHeld
  <2>1. \A posting \in Posting : JobsOf(posting) = {}
    BY ConstantsAssumption DEF Init, JobsOf, AbsentJob
  <2>. QED
    BY <1>3, <2>1 DEF PostingsHeld, Creates
<1>8. StartsHeld
  <2>1. /\ \A s \in Starter : starter[s].step = "idle" /\ starter[s].application = NoApplication
        /\ \A a \in Application : application[a].job = NoJob /\ ~application[a].tasked
    BY DEF Init, IdleStarter, AbsentApplication
  <2>2. \A j \in Job : ApplicationsOf(j) = {}
    BY <2>1 DEF ApplicationsOf, Job, NoJob
  <2>. QED
    BY <2>1, <2>2 DEF StartsHeld, Starts
<1>. QED
  BY <1>1, <1>2, <1>4, <1>5, <1>6, <1>7, <1>8 DEF IInv

LEMMA RunStepKeeps ==
  ASSUME IInv, NEW r \in Run, RunStepOf(r)
  PROVE  IInv'
<1>1. ASSUME NEW key \in Key \cup {NoKey}, LookUpKey(r, key) PROVE IInv'
  BY <1>1, LookUpKeyKeeps
<1>2. CASE CreateRun(r)
  BY <1>2, CreateRunKeeps
<1>3. CASE FindJob(r)
  BY <1>3, FindJobKeeps
<1>4. CASE SkipRecord(r)
  BY <1>4, SkipRecordKeeps
<1>5. CASE LinkRecord(r)
  BY <1>5, LinkRecordKeeps
<1>6. CASE CreateJob(r)
  BY <1>6, CreateJobKeeps
<1>7. ASSUME NEW created \in BOOLEAN, FailRecord(r, created) PROVE IInv'
  BY <1>7, FailRecordKeeps
<1>8. CASE ReviewJobs(r)
  BY <1>8, ReviewJobsKeeps
<1>9. CASE TakeCheck(r)
  BY <1>9, TakeCheckKeeps
<1>10. CASE AskCheck(r)
  BY <1>10, AskCheckKeeps
<1>11. ASSUME NEW status \in Answers, CheckAnswered(r, status) PROVE IInv'
  BY <1>11, CheckAnsweredKeeps
<1>12. CASE CheckFails(r)
  BY <1>12, CheckFailsKeeps
<1>13. CASE WriteStatus(r)
  BY <1>13, WriteStatusKeeps
<1>14. CASE NoteDecision(r)
  BY <1>14, NoteDecisionKeeps
<1>15. CASE FinishRun(r) \/ FailRun(r)
  BY <1>15, EndKeeps
<1>16. CASE Throw(r) \/ Die(r)
  BY <1>16, BreakOffKeeps
<1>. QED
  BY <1>1, <1>2, <1>3, <1>4, <1>5, <1>6, <1>7, <1>8, <1>9, <1>10, <1>11, <1>12, <1>13, <1>14,
     <1>15, <1>16 DEF RunStepOf

LEMMA StepInvariant == IInv /\ [Next]_vars => IInv'
<1>. SUFFICES ASSUME IInv, [Next]_vars PROVE IInv'
  OBVIOUS
<1>1. ASSUME NEW r \in Run, RunStepOf(r) PROVE IInv'
  BY <1>1, RunStepKeeps
<1>2. CASE UserStep
  BY <1>2, DecideKeeps, ChecksKeep DEF UserStep
<1>3. ASSUME NEW s \in Starter, StarterStepOf(s) PROVE IInv'
  <2>1. ASSUME NEW j \in Job, NEW guarded \in BOOLEAN, BeginStart(s, j, guarded) PROVE IInv'
    BY <2>1, BeginStartKeeps
  <2>. QED
    BY <1>3, <2>1, CommitStartKeeps, EnqueueStartKeeps, StartFailsKeeps DEF StarterStepOf
<1>4. ASSUME NEW j \in Job, Expire(j) PROVE IInv'
  BY <1>4, ChecksKeep
<1>5. CASE UNCHANGED vars
  <2>1. /\ UNCHANGED <<job, decision, scoutVars, startVars, historyVars>>
        /\ check' = check
    BY <1>5 DEF vars, boardVars
  <2>2. check' \in [Job -> CheckRow]
    BY <2>1 DEF IInv, Types
  <2>. QED
    BY <2>1, <2>2, CheckRowKeeps
<1>. QED
  BY <1>1, <1>2, <1>3, <1>4, <1>5 DEF Next

\* The board keeps what the following theorems need, whatever runs, users and
\* starting requests do in between.
THEOREM BoardInvariant == Spec => []IInv
  BY InitInvariant, StepInvariant, PTL DEF Spec

----------------------------------------------------------------------------
(* What it gives.                                                          *)

LEMMA AtMostOne ==
  ASSUME NEW S, \A x, y \in S : x = y
  PROVE  Cardinality(S) <= 1
<1>1. CASE S = {}
  BY <1>1, FS_EmptySet
<1>2. CASE S # {}
  <2>1. PICK x : S = {x}
    BY <1>2
  <2>. QED
    BY <2>1, FS_Singleton
<1>. QED
  BY <1>1, <1>2

LEMMA InvariantImplies ==
  IInv => /\ TypeOK /\ UserDecisionStands /\ OneJobPerPosting /\ KeyOnce /\ StartedOnce
<1>. SUFFICES ASSUME IInv
              PROVE  TypeOK /\ UserDecisionStands /\ OneJobPerPosting /\ KeyOnce /\ StartedOnce
  OBVIOUS
<1>1. TypeOK
  <2>1. \A j \in Job : JobExists(j) => job[j].posting \in Posting /\ job[j].status \in JobStatus
    BY DEF IInv, Types, JobsAreRows, JobExists, JobRow
  <2>2. \A j \in Job : check[j].status \in {"none"} \cup PostingCheckStatus
    BY DEF IInv, Types, CheckRow
  <2>3. \A r \in Run :
          /\ run[r].step \in RunStep
          /\ run[r].reviews \in Seq(Review)
          /\ scrape[r].status \in {"absent", "processing", "completed", "partial", "failed"}
    BY RunTypes DEF IInv, ScrapeRow
  <2>4. ASSUME NEW r \in Run, NEW n \in DOMAIN source[r]
        PROVE  source[r][n].status \in {"captured", "deduped", "normalized", "errored"}
    <3>1. source[r][n] \in SourceRow
      BY RunTypes, ElementOfSeq DEF IInv
    <3>. QED
      BY <3>1 DEF SourceRow
  <2>5. \A s \in Starter : starter[s].step \in {"idle", "create", "enqueue"}
    BY StarterTypes
  <2>6. ASSUME NEW a \in Application
        PROVE  application[a] = AbsentApplication \/ JobExists(application[a].job)
    <3>1. application[a] \in ApplicationRow
      BY StarterTypes
    <3>2. CASE application[a].job = NoJob
      <4>1. application[a].tasked = FALSE
        BY <3>1, <3>2, StarterTypes DEF StartsHeld, ApplicationRow
      <4>. QED
        BY <3>1, <3>2, <4>1 DEF ApplicationRow, AbsentApplication
    <3>3. CASE application[a].job # NoJob
      BY <3>3, StarterTypes DEF StartsHeld
    <3>. QED
      BY <3>2, <3>3
  <2>7. DecisionsAreRows
    BY DEF IInv
  <2>. QED
    BY <2>1, <2>2, <2>3, <2>4, <2>5, <2>6, <2>7 DEF TypeOK, DecisionsAreRows
<1>2. OneJobPerPosting
  <2>1. \A posting \in Posting \ racing.postings : Cardinality(JobsOf(posting)) <= 1
    BY AtMostOne DEF IInv, PostingsHeld
  <2>. QED
    BY <2>1 DEF OneJobPerPosting, JobsOf
<1>3. KeyOnce
  <2>. SUFFICES ASSUME NEW key \in Key \ racing.keys
                PROVE  Cardinality({r \in Run :
                         /\ scrape[r].key = key
                         /\ scrape[r].status \in {"processing", "completed", "partial"}}) <= 1
    BY DEF KeyOnce
  <2>1. \A r, o \in Run : HasKey(r, key) /\ HasKey(o, key) => r = o
    BY DEF IInv, KeysHeld
  <2>2. \A r, o \in {u \in Run : HasKey(u, key)} : r = o
    BY <2>1
  <2>3. Cardinality({u \in Run : HasKey(u, key)}) <= 1
    BY <2>2, AtMostOne
  <2>. QED
    BY <2>3 DEF HasKey
<1>4. StartedOnce
  <2>1. \A j \in Job \ racing.jobs : Cardinality(ApplicationsOf(j)) <= 1
    BY AtMostOne DEF IInv, StartsHeld
  <2>. QED
    BY <2>1 DEF IInv, StartsHeld, StartedOnce, ApplicationsOf
<1>. QED
  BY <1>1, <1>2, <1>3, <1>4 DEF IInv

\* Rows, runs and requests have their types, for any bounds.
THEOREM BoardTypeCorrect == Spec => []TypeOK
  BY BoardInvariant, InvariantImplies, PTL

\* workers/scout/index.ts writes back the status it read: what the user decided
\* stands, unless a run had the job in hand when the user decided.
THEOREM UserDecisionIsKept == Spec => []UserDecisionStands
  BY BoardInvariant, InvariantImplies, PTL

\* A posting has one job, although the look-up and the creation are statements
\* of their own, unless two runs looked it up before either created its job.
THEOREM PostingHasOneJob == Spec => []OneJobPerPosting
  BY BoardInvariant, InvariantImplies, PTL

\* A key has one run under way or done, unless two calls looked it up before
\* either created its run.
THEOREM KeyHasOneRun == Spec => []KeyOnce
  BY BoardInvariant, InvariantImplies, PTL

\* A job has one application and the application its task, unless two requests
\* overlapped or one was cut off.
THEOREM JobIsStartedOnce == Spec => []StartedOnce
  BY BoardInvariant, InvariantImplies, PTL

=============================================================================
