---------------------------- MODULE ScoutRunProofs ----------------------------
(***************************************************************************)
(* What Scout's runs leave behind when they end, for any runs, records and *)
(* bounds: a decision for every job their records led to, and an automatic *)
(* one for every job that left the inbox without the user.                 *)
(***************************************************************************)
EXTENDS JobsBoardProofs

----------------------------------------------------------------------------
(* The inductive invariant.                                                *)

AtWork == {"find", "record", "check", "ask", "write", "note"}

\* What run r leaves: its status, the rows of its records and the decisions.
Left(r, status, rows, decisions) ==
  status \in {"completed", "partial"} =>
    /\ \A n \in 1..Len(rows) : rows[n].status \in {"deduped", "normalized"} =>
         \E d \in decisions : d.run = r /\ d.job = rows[n].job
    /\ status = "completed" =>
         /\ Len(rows) = Len(RecordsOf[r])
         /\ \A n \in 1..Len(rows) : rows[n].status # "errored"

\* A run that has not begun has read nothing.
NothingRead(k, rows) ==
  k.step \in {"idle", "create"} => k.next = 1 /\ k.reviews = <<>> /\ rows = <<>>

\* Every record that led to a job is among the run's reviews.
Collected(k, rows) ==
  k.step \in AtWork =>
    \A n \in 1..Len(rows) : rows[n].status \in {"deduped", "normalized"} =>
      \E m \in 1..Len(k.reviews) : k.reviews[m].job = rows[n].job

\* Unless the run has counted an error, its rows are those of the records it has
\* been through, and none is errored.
Accounted(r, k, rows) ==
  /\ k.step = "find" => k.next - 1 <= Len(RecordsOf[r])
  /\ k.step \in AtWork /\ ~k.errors =>
       /\ \A n \in 1..Len(rows) : rows[n].status # "errored"
       /\ k.step = "find" => Len(rows) = k.next - 1
       /\ k.step = "record" => Len(rows) = k.next
       /\ k.step \in {"check", "ask", "write", "note"} => Len(rows) = Len(RecordsOf[r])

\* The reviews before the one at hand have their decisions.
Decided(r, k, decisions) ==
  k.step \in {"write", "note"} =>
    \A m \in 1..Len(k.reviews) : m < k.at =>
      \E d \in decisions : d.run = r /\ d.job = k.reviews[m].job

Whole(r, k, status, rows, decisions) ==
  /\ Left(r, status, rows, decisions)
  /\ NothingRead(k, rows)
  /\ Collected(k, rows)
  /\ Accounted(r, k, rows)
  /\ Decided(r, k, decisions)

RunsAreWhole == \A r \in Run : Whole(r, run[r], scrape[r].status, source[r], decision)

----------------------------------------------------------------------------
(* Steps.                                                                  *)

\* What is in hand before a step.
LEMMA RunBefore ==
  ASSUME IInv, RunsAreWhole, NEW r \in Run
  PROVE  /\ Whole(r, run[r], scrape[r].status, source[r], decision)
         /\ WellPlaced(r, run[r], job, scrape[r].status, source[r])
         /\ run[r] \in RunState /\ run[r].reviews \in Seq(Review)
         /\ Len(run[r].reviews) \in Nat /\ Len(source[r]) \in Nat /\ Len(RecordsOf[r]) \in Nat
         /\ run[r].next \in Nat \ {0} /\ run[r].at \in Nat \ {0}
         /\ run[r].errors \in BOOLEAN /\ source[r] \in Seq(SourceRow)
<1>1. run[r] \in RunState /\ run[r].reviews \in Seq(Review) /\ source[r] \in Seq(SourceRow)
  BY RunTypes DEF IInv
<1>2. /\ Len(run[r].reviews) \in Nat /\ Len(source[r]) \in Nat /\ Len(RecordsOf[r]) \in Nat
  BY <1>1, RecordsTyped, LenProperties
<1>3. run[r].next \in Nat \ {0} /\ run[r].at \in Nat \ {0} /\ run[r].errors \in BOOLEAN
  BY <1>1 DEF RunState
<1>. QED
  BY <1>1, <1>2, <1>3, InvariantParts DEF RunsAreWhole

\* A step of run r leaves the other runs what they have.
LEMMA RunStepWhole ==
  ASSUME IInv, RunsAreWhole, NEW r \in Run,
         \A o \in Run \ {r} : run'[o] = run[o] /\ source'[o] = source[o] /\ scrape'[o] = scrape[o],
         \A d \in decision : d.run # r => d \in decision',
         Whole(r, run'[r], scrape'[r].status, source'[r], decision')
  PROVE  RunsAreWhole'
<1>1. ASSUME NEW o \in Run \ {r}
      PROVE  Whole(o, run'[o], scrape'[o].status, source'[o], decision')
  <2>1. Whole(o, run[o], scrape[o].status, source[o], decision)
    BY DEF RunsAreWhole
  <2>2. /\ Left(o, scrape[o].status, source[o], decision')
        /\ Decided(o, run[o], decision')
    BY <2>1 DEF Whole, Left, Decided
  <2>. QED
    BY <2>1, <2>2 DEF Whole
<1>. QED
  BY <1>1 DEF RunsAreWhole

\* A step that leaves records, decisions and the rows of runs alone and takes
\* run r to state k.
LEMMA OwnStepWhole ==
  ASSUME IInv, RunsAreWhole, NEW r \in Run, NEW k, run' = [run EXCEPT ![r] = k],
         UNCHANGED <<scrape, source, decision>>,
         NothingRead(k, source[r]), Collected(k, source[r]), Accounted(r, k, source[r]),
         Decided(r, k, decision)
  PROVE  RunsAreWhole'
<1>1. run'[r] = k /\ \A o \in Run \ {r} : run'[o] = run[o]
  BY DEF IInv, Types
<1>2. Whole(r, k, scrape[r].status, source[r], decision)
  BY RunBefore DEF Whole
<1>. QED
  BY <1>1, <1>2, RunStepWhole

LEMMA LookUpKeyWhole ==
  ASSUME IInv, RunsAreWhole, NEW r \in Run, NEW key \in Key \cup {NoKey}, LookUpKey(r, key)
  PROVE  RunsAreWhole'
<1>. DEFINE next == IF key # NoKey /\ Holds(key) THEN "done" ELSE "create"
            k == [run[r] EXCEPT !.step = next, !.key = key]
<1>1. /\ run[r].step = "idle" /\ run' = [run EXCEPT ![r] = k]
      /\ UNCHANGED <<scrape, source, decision>>
  BY DEF LookUpKey, boardVars
<1>2. /\ k.step = next /\ k.next = run[r].next /\ k.reviews = run[r].reviews
      /\ next \in {"done", "create"}
  BY RunBefore DEF RunState
<1>. HIDE DEF next, k
<1>3. NothingRead(k, source[r])
  BY <1>1, <1>2, RunBefore DEF Whole, NothingRead
<1>4. Collected(k, source[r]) /\ Accounted(r, k, source[r]) /\ Decided(r, k, decision)
  BY <1>2 DEF Collected, Accounted, Decided, AtWork
<1>. QED
  BY <1>1, <1>3, <1>4, OwnStepWhole

LEMMA CreateRunWhole ==
  ASSUME IInv, RunsAreWhole, NEW r \in Run, CreateRun(r)
  PROVE  RunsAreWhole'
<1>. DEFINE k == [run[r] EXCEPT !.step = "find"]
<1>1. /\ run[r].step = "create" /\ run' = [run EXCEPT ![r] = k]
      /\ scrape' = [scrape EXCEPT ![r] = [status |-> "processing", key |-> run[r].key]]
      /\ UNCHANGED <<source, decision>>
  BY DEF CreateRun, boardVars
<1>2. run'[r] = k /\ scrape'[r].status = "processing"
      /\ \A o \in Run \ {r} : run'[o] = run[o] /\ scrape'[o] = scrape[o]
  BY <1>1 DEF IInv, Types
<1>3. k.step = "find" /\ k.next = 1 /\ source[r] = <<>>
  BY <1>1, RunBefore DEF RunState, Whole, NothingRead
<1>. HIDE DEF k
<1>4. Whole(r, k, "processing", source[r], decision)
  BY <1>3, RecordsTyped DEF Whole, Left, NothingRead, Collected, Accounted, Decided
<1>. QED
  BY <1>1, <1>2, <1>4, RunStepWhole

LEMMA FindJobWhole ==
  ASSUME IInv, RunsAreWhole, NEW r \in Run, FindJob(r)
  PROVE  RunsAreWhole'
<1>. DEFINE row == [status |-> "captured", job |-> NoJob]
<1>1. /\ run[r].step = "find" /\ RecordsLeft(r) /\ UNCHANGED <<scrape, decision>>
      /\ source' = [source EXCEPT ![r] = Append(source[r], row)]
  BY DEF FindJob, boardVars
<1>2. PICK j, s : run' = [run EXCEPT ![r].step = "record", ![r].found = j, ![r].previous = s]
  BY DEF FindJob
<1>. DEFINE k == [run[r] EXCEPT !.step = "record", !.found = j, !.previous = s]
<1>3. run'[r] = k /\ \A o \in Run \ {r} : run'[o] = run[o]
  BY <1>2, RunBefore DEF IInv, Types, RunState
<1>4. /\ k.step = "record" /\ k.next = run[r].next /\ k.reviews = run[r].reviews
      /\ k.errors = run[r].errors
  BY RunBefore DEF RunState
<1>. HIDE DEF k
<1>5. row \in SourceRow /\ row.status = "captured"
  BY DEF SourceRow
<1>. HIDE DEF row
<1>6. /\ source'[r] = Append(source[r], row)
      /\ \A o \in Run \ {r} : source'[o] = source[o]
  BY <1>1 DEF IInv, Types
<1>7. /\ Len(source'[r]) = Len(source[r]) + 1
      /\ \A n \in 1..Len(source[r]) : source'[r][n] = source[r][n]
      /\ source'[r][Len(source[r]) + 1] = row
  BY <1>5, <1>6, RunBefore, AppendProperties
<1>8. \A n \in 1..Len(source'[r]) : n \in 1..Len(source[r]) \/ n = Len(source[r]) + 1
  BY <1>7, RunBefore
<1>9. Collected(k, source'[r])
  BY <1>1, <1>4, <1>5, <1>7, <1>8, RunBefore DEF Whole, Collected, AtWork
<1>10. Accounted(r, k, source'[r])
  BY <1>1, <1>4, <1>5, <1>7, <1>8, RunBefore DEF Whole, Accounted, AtWork
<1>11. Left(r, scrape[r].status, source'[r], decision)
  BY <1>1, RunBefore DEF WellPlaced, Left
<1>12. Whole(r, k, scrape[r].status, source'[r], decision)
  BY <1>4, <1>9, <1>10, <1>11 DEF Whole, NothingRead, Decided
<1>. QED
  BY <1>1, <1>3, <1>6, <1>12, RunStepWhole

LEMMA SkipRecordWhole ==
  ASSUME IInv, RunsAreWhole, NEW r \in Run, SkipRecord(r)
  PROVE  RunsAreWhole'
<1>. DEFINE k == [run[r] EXCEPT !.next = @ + 1, !.errors = TRUE]
<1>1. /\ run[r].step = "find" /\ RecordsLeft(r) /\ run' = [run EXCEPT ![r] = k]
      /\ UNCHANGED <<scrape, source, decision>>
  BY DEF SkipRecord, boardVars
<1>2. /\ k.step = "find" /\ k.next = run[r].next + 1 /\ k.reviews = run[r].reviews /\ k.errors
  BY <1>1, RunBefore DEF RunState
<1>. HIDE DEF k
<1>3. NothingRead(k, source[r]) /\ Decided(r, k, decision)
  BY <1>2 DEF NothingRead, Decided
<1>4. Collected(k, source[r])
  BY <1>1, <1>2, RunBefore DEF Whole, Collected, AtWork
<1>5. Accounted(r, k, source[r])
  BY <1>1, <1>2, RunBefore DEF Accounted, RecordsLeft
<1>. QED
  BY <1>1, <1>3, <1>4, <1>5, OwnStepWhole

\* The last row of a run at a record is written, the others stay.
LEMMA RowWritten ==
  ASSUME IInv, RunsAreWhole, NEW r \in Run, run[r].step = "record", NEW status, NEW j,
         SetSource(r, status, j)
  PROVE  /\ Len(source'[r]) = Len(source[r]) /\ Len(source[r]) \in 1..Len(source[r])
         /\ source'[r][Len(source[r])].status = status /\ source'[r][Len(source[r])].job = j
         /\ \A n \in 1..Len(source[r]) : n # Len(source[r]) => source'[r][n] = source[r][n]
         /\ \A o \in Run \ {r} : source'[o] = source[o]
<1>. DEFINE row == [status |-> status, job |-> j]
<1>1. source[r] \in Seq(SourceRow) /\ source[r] # <<>> /\ source \in [Run -> Seq(SourceRow)]
  BY RunBefore DEF WellPlaced, IInv, Types
<1>2. Len(source[r]) \in 1..Len(source[r]) /\ DOMAIN source[r] = 1..Len(source[r])
  BY <1>1, EmptySeq, LenProperties
<1>3. row.status = status /\ row.job = j
  OBVIOUS
<1>4. source' = [source EXCEPT ![r] = [source[r] EXCEPT ![Len(source[r])] = row]]
  BY DEF SetSource
<1>. HIDE DEF row
<1>5. source'[r] = [source[r] EXCEPT ![Len(source[r])] = row]
      /\ \A o \in Run \ {r} : source'[o] = source[o]
  BY <1>1, <1>4
<1>6. DOMAIN source'[r] = 1..Len(source[r])
  BY <1>2, <1>5
<1>7. Len(source'[r]) = Len(source[r])
  <2>1. source'[r] = [n \in 1..Len(source[r]) |-> source'[r][n]]
    BY <1>2, <1>5
  <2>. QED
    BY <1>6, RunBefore, <1>1, <1>5
<1>. QED
  BY <1>2, <1>3, <1>5, <1>7

\* A record led to job j, which joins the reviews.
LEMMA RememberedWhole ==
  ASSUME IInv, RunsAreWhole, NEW r \in Run, run[r].step = "record", NEW j \in Job,
         NEW status \in {"deduped", "normalized"}, SetSource(r, status, j),
         run' = Remembered(r, j), UNCHANGED <<scrape, decision>>
  PROVE  RunsAreWhole'
<1>1. PICK new \in RunState :
        /\ run' = [run EXCEPT ![r] = new]
        /\ new.step = "find" /\ new.found = NoJob /\ new.at = 1
        /\ Len(new.reviews) = Len(run[r].reviews) + 1 /\ Len(run[r].reviews) \in Nat
        /\ \A n \in 1..Len(run[r].reviews) : new.reviews[n] = run[r].reviews[n]
        /\ new.reviews[Len(run[r].reviews) + 1].job = j
        /\ new.reviews[Len(run[r].reviews) + 1].previous = run[r].previous
  BY RememberedState
<1>2. run'[r] = new /\ \A o \in Run \ {r} : run'[o] = run[o]
  BY <1>1 DEF IInv, Types
<1>3. new.next = run[r].next + 1 /\ new.errors = run[r].errors
  <2>1. run'[r].next = run[r].next + 1 /\ run'[r].errors = run[r].errors
    BY RunBefore DEF Remembered, IInv, Types, RunState
  <2>. QED
    BY <1>2, <2>1
<1>4. /\ Len(source'[r]) = Len(source[r]) /\ Len(source[r]) \in 1..Len(source[r])
      /\ source'[r][Len(source[r])].status = status /\ source'[r][Len(source[r])].job = j
      /\ \A n \in 1..Len(source[r]) : n # Len(source[r]) => source'[r][n] = source[r][n]
      /\ \A o \in Run \ {r} : source'[o] = source[o]
  BY RowWritten
<1>5. Collected(new, source'[r])
  <2>1. ASSUME NEW n \in 1..Len(source[r]), source'[r][n].status \in {"deduped", "normalized"}
        PROVE  \E m \in 1..Len(new.reviews) : new.reviews[m].job = source'[r][n].job
    <3>1. CASE n = Len(source[r])
      <4>1. Len(run[r].reviews) + 1 \in 1..Len(new.reviews)
        BY <1>1
      <4>. QED
        BY <1>1, <1>4, <3>1, <4>1
    <3>2. CASE n # Len(source[r])
      <4>1. PICK m \in 1..Len(run[r].reviews) : run[r].reviews[m].job = source[r][n].job
        BY <1>4, <2>1, <3>2, RunBefore DEF Whole, Collected, AtWork
      <4>2. m \in 1..Len(new.reviews) /\ new.reviews[m] = run[r].reviews[m]
        BY <1>1
      <4>. QED
        BY <1>4, <3>2, <4>1, <4>2
    <3>. QED
      BY <3>1, <3>2
  <2>. QED
    BY <1>4, <2>1 DEF Collected
<1>6. Accounted(r, new, source'[r])
  <2>1. new.next - 1 <= Len(RecordsOf[r])
    BY <1>3, RunBefore DEF WellPlaced
  <2>2. ASSUME ~new.errors
        PROVE  /\ \A n \in 1..Len(source'[r]) : source'[r][n].status # "errored"
               /\ Len(source'[r]) = new.next - 1
    BY <1>3, <1>4, <2>2, RunBefore DEF Whole, Accounted, AtWork
  <2>. QED
    BY <1>1, <2>1, <2>2 DEF Accounted
<1>7. Left(r, scrape[r].status, source'[r], decision)
  BY RunBefore DEF WellPlaced, Left
<1>8. Whole(r, new, scrape[r].status, source'[r], decision)
  BY <1>1, <1>5, <1>6, <1>7 DEF Whole, NothingRead, Decided
<1>. QED
  BY <1>2, <1>4, <1>8, RunStepWhole

LEMMA LinkRecordWhole ==
  ASSUME IInv, RunsAreWhole, NEW r \in Run, LinkRecord(r)
  PROVE  RunsAreWhole'
<1>1. PICK j \in Job : j = run[r].found
  BY RunTypes DEF LinkRecord, IInv
<1>2. /\ run[r].step = "record" /\ run' = Remembered(r, j) /\ SetSource(r, "deduped", j)
      /\ UNCHANGED <<scrape, decision>>
  BY <1>1 DEF LinkRecord, boardVars
<1>. QED
  BY <1>2, RememberedWhole

LEMMA CreateJobWhole ==
  ASSUME IInv, RunsAreWhole, NEW r \in Run, CreateJob(r)
  PROVE  RunsAreWhole'
<1>1. PICK j \in Job : j = NewJob
  BY DEF CreateJob, NewJob, FreeJobs
<1>2. /\ run[r].step = "record" /\ run' = Remembered(r, j) /\ SetSource(r, "normalized", j)
      /\ UNCHANGED <<scrape, decision>>
  BY <1>1 DEF CreateJob
<1>. QED
  BY <1>2, RememberedWhole

LEMMA FailRecordWhole ==
  ASSUME IInv, RunsAreWhole, NEW r \in Run, NEW created \in BOOLEAN, FailRecord(r, created)
  PROVE  RunsAreWhole'
<1>. DEFINE k == [run[r] EXCEPT !.step = "find", !.next = @ + 1, !.found = NoJob,
                                !.previous = "absent", !.errors = TRUE]
<1>1. /\ run[r].step = "record" /\ SetSource(r, "errored", NoJob)
      /\ run' = [run EXCEPT ![r] = k] /\ UNCHANGED <<scrape, decision>>
  BY DEF FailRecord
<1>2. run'[r] = k /\ \A o \in Run \ {r} : run'[o] = run[o]
  BY <1>1 DEF IInv, Types
<1>3. /\ k.step = "find" /\ k.next = run[r].next + 1 /\ k.reviews = run[r].reviews /\ k.errors
  BY RunBefore DEF RunState
<1>. HIDE DEF k
<1>4. /\ Len(source'[r]) = Len(source[r]) /\ Len(source[r]) \in 1..Len(source[r])
      /\ source'[r][Len(source[r])].status = "errored"
      /\ \A n \in 1..Len(source[r]) : n # Len(source[r]) => source'[r][n] = source[r][n]
      /\ \A o \in Run \ {r} : source'[o] = source[o]
  BY <1>1, RowWritten
<1>5. Collected(k, source'[r])
  BY <1>1, <1>3, <1>4, RunBefore DEF Whole, Collected, AtWork
<1>6. Accounted(r, k, source'[r])
  BY <1>1, <1>3, RunBefore DEF WellPlaced, Accounted
<1>7. Left(r, scrape[r].status, source'[r], decision)
  BY <1>1, RunBefore DEF WellPlaced, Left
<1>8. Whole(r, k, scrape[r].status, source'[r], decision)
  BY <1>3, <1>5, <1>6, <1>7 DEF Whole, NothingRead, Decided
<1>. QED
  BY <1>1, <1>2, <1>4, <1>8, RunStepWhole

LEMMA ReviewJobsWhole ==
  ASSUME IInv, RunsAreWhole, NEW r \in Run, ReviewJobs(r)
  PROVE  RunsAreWhole'
<1>1. PICK v : run' = [run EXCEPT ![r].step = IF Reviewed(r) = {} THEN "write" ELSE "check",
                                  ![r].verdict = v]
  BY DEF ReviewJobs
<1>. DEFINE next == IF Reviewed(r) = {} THEN "write" ELSE "check"
            k == [run[r] EXCEPT !.step = next, !.verdict = v]
<1>2. /\ run[r].step = "find" /\ ~RecordsLeft(r) /\ run' = [run EXCEPT ![r] = k]
      /\ UNCHANGED <<scrape, source, decision>>
  BY <1>1 DEF ReviewJobs, boardVars
<1>3. /\ k.step = next /\ k.next = run[r].next /\ k.reviews = run[r].reviews
      /\ k.errors = run[r].errors /\ k.at = run[r].at /\ next \in {"write", "check"}
  BY RunBefore DEF RunState
<1>. HIDE DEF next, k
<1>4. NothingRead(k, source[r])
  BY <1>3 DEF NothingRead
<1>5. Collected(k, source[r])
  BY <1>2, <1>3, RunBefore DEF Whole, Collected, AtWork
<1>6. Accounted(r, k, source[r])
  <2>1. run[r].next - 1 = Len(RecordsOf[r])
    BY <1>2, RunBefore DEF Whole, Accounted, RecordsLeft
  <2>. QED
    BY <1>2, <1>3, <2>1, RunBefore DEF Whole, Accounted, AtWork
<1>7. Decided(r, k, decision)
  BY <1>2, <1>3, RunBefore DEF WellPlaced, Decided
<1>. QED
  BY <1>2, <1>4, <1>5, <1>6, <1>7, OwnStepWhole

\* A check is over; the run has at most noted its answer, or counted an error.
LEMMA CheckedWhole ==
  ASSUME IInv, RunsAreWhole, NEW r \in Run, run[r].step \in {"check", "ask"}, NEW k \in RunState,
         k.at = run[r].at, k.next = run[r].next, k.reviews = run[r].reviews,
         ~k.errors => ~run[r].errors,
         run' = [run EXCEPT ![r] = Checked(k)], UNCHANGED <<scrape, source, decision>>
  PROVE  RunsAreWhole'
<1>. DEFINE new == Checked(k)
<1>1. /\ new.reviews = k.reviews /\ new.errors = k.errors /\ new.step \in {"write", "check"}
      /\ new.step = "write" => new.at = 1
  BY DEF Checked, RunState
<1>. HIDE DEF new
<1>2. NothingRead(new, source[r]) /\ Decided(r, new, decision)
  BY <1>1, RunBefore DEF NothingRead, Decided
<1>3. Collected(new, source[r])
  BY <1>1, RunBefore DEF Whole, Collected, AtWork
<1>4. Accounted(r, new, source[r])
  BY <1>1, RunBefore DEF Whole, Accounted, AtWork
<1>. QED
  BY <1>2, <1>3, <1>4, OwnStepWhole DEF new

LEMMA ChecksWhole ==
  ASSUME IInv, RunsAreWhole, NEW r \in Run,
         TakeCheck(r) \/ (\E status \in Answers : CheckAnswered(r, status)) \/ CheckFails(r)
  PROVE  RunsAreWhole'
<1>1. run[r].step \in {"check", "ask"} /\ UNCHANGED <<scrape, source, decision>>
  BY DEF TakeCheck, CheckAnswered, CheckFails, boardVars
<1>2. CASE run' = [run EXCEPT ![r] = Checked(@)]
  BY <1>1, <1>2, RunBefore, CheckedWhole
<1>3. ASSUME NEW status \in PostingCheckStatus \cup {"none"},
             run' = [run EXCEPT ![r] = Checked(Noted(r, Candidate(r).job, status))]
      PROVE  RunsAreWhole'
  <2>. DEFINE k == Noted(r, Candidate(r).job, status)
  <2>1. k \in RunState /\ k.at = run[r].at /\ k.reviews = run[r].reviews
    BY NotedState
  <2>2. k.next = run[r].next /\ k.errors = run[r].errors
    BY RunBefore DEF Noted, RunState
  <2>3. run' = [run EXCEPT ![r] = Checked(k)]
    BY <1>3
  <2>. HIDE DEF k
  <2>. QED
    BY <1>1, <2>1, <2>2, <2>3, CheckedWhole
<1>4. CASE TakeCheck(r)
  <2>1. CASE run' = [run EXCEPT ![r] = Checked([@ EXCEPT !.posting[Candidate(r).job] =
                                                  check[Candidate(r).job].status])]
    <3>1. check[Candidate(r).job].status \in PostingCheckStatus \cup {"none"}
      BY <1>1, CheckStatusTyped
    <3>2. run' = [run EXCEPT ![r] = Checked(Noted(r, Candidate(r).job,
                                                  check[Candidate(r).job].status))]
      BY <2>1 DEF Noted
    <3>. QED
      BY <1>3, <3>1, <3>2
  <2>. QED
    BY <1>2, <1>4, <2>1 DEF TakeCheck
<1>5. ASSUME NEW status \in Answers, CheckAnswered(r, status) PROVE RunsAreWhole'
  <2>1. status \in PostingCheckStatus
    BY ConstantsAssumption
  <2>2. run' = [run EXCEPT ![r] = Checked(Noted(r, Candidate(r).job, status))]
    BY <1>5 DEF CheckAnswered, Noted
  <2>. QED
    BY <1>3, <2>1, <2>2
<1>6. CASE CheckFails(r)
  <2>. DEFINE k == [run[r] EXCEPT !.errors = TRUE]
  <2>1. run' = [run EXCEPT ![r] = Checked(k)]
    BY <1>6 DEF CheckFails
  <2>2. /\ k \in RunState /\ k.at = run[r].at /\ k.next = run[r].next /\ k.errors
        /\ k.reviews = run[r].reviews
    BY RunBefore DEF RunState
  <2>. HIDE DEF k
  <2>. QED
    BY <1>1, <2>1, <2>2, CheckedWhole
<1>. QED
  BY <1>4, <1>5, <1>6

\* AskCheck and WriteStatus move the run on with the same records and reviews.
LEMMA MovedOnWhole ==
  ASSUME IInv, RunsAreWhole, NEW r \in Run, AskCheck(r) \/ WriteStatus(r)
  PROVE  RunsAreWhole'
<1>1. PICK step \in {"ask", "note"} :
        /\ run' = [run EXCEPT ![r].step = step]
        /\ run[r].step = (IF step = "ask" THEN "check" ELSE "write")
  BY DEF AskCheck, WriteStatus
<1>2. UNCHANGED <<scrape, source, decision>>
  BY DEF AskCheck, WriteStatus, boardVars
<1>. DEFINE k == [run[r] EXCEPT !.step = step]
<1>3. /\ run' = [run EXCEPT ![r] = k] /\ k.step = step /\ k.at = run[r].at
      /\ k.reviews = run[r].reviews /\ k.errors = run[r].errors
  BY <1>1, RunBefore DEF RunState
<1>. HIDE DEF k
<1>4. NothingRead(k, source[r]) /\ Decided(r, k, decision)
  BY <1>1, <1>3, RunBefore DEF Whole, NothingRead, Decided
<1>5. Collected(k, source[r])
  BY <1>1, <1>3, RunBefore DEF Whole, Collected, AtWork
<1>6. Accounted(r, k, source[r])
  BY <1>1, <1>3, RunBefore DEF Whole, Accounted, AtWork
<1>. QED
  BY <1>2, <1>3, <1>4, <1>5, <1>6, OwnStepWhole

LEMMA NoteDecisionWhole ==
  ASSUME IInv, RunsAreWhole, NEW r \in Run, NoteDecision(r)
  PROVE  RunsAreWhole'
<1>. DEFINE k == [run[r] EXCEPT !.step = "write", !.at = @ + 1]
            j == Candidate(r).job
<1>1. /\ run[r].step = "note" /\ run' = [run EXCEPT ![r] = k] /\ UNCHANGED <<scrape, source>>
      /\ decision' = {d \in decision : d.run # r \/ d.job # j} \cup {DecisionRow(r)}
  BY DEF NoteDecision
<1>2. run'[r] = k /\ \A o \in Run \ {r} : run'[o] = run[o]
  BY <1>1 DEF IInv, Types
<1>3. /\ k.step = "write" /\ k.at = run[r].at + 1 /\ k.reviews = run[r].reviews
      /\ k.errors = run[r].errors
  BY RunBefore DEF RunState
<1>4. DecisionRow(r).run = r /\ DecisionRow(r).job = j /\ j = run[r].reviews[run[r].at].job
  BY DEF DecisionRow, Candidate
<1>. HIDE DEF k, j
<1>5. /\ \A d \in decision : d.run # r => d \in decision'
      /\ \E d \in decision' : d.run = r /\ d.job = j
      /\ \A d \in decision : d.run = r => \E e \in decision' : e.run = r /\ e.job = d.job
  BY <1>1, <1>4
<1>6. Decided(r, k, decision')
  <2>. SUFFICES ASSUME NEW m \in 1..Len(run[r].reviews), m < run[r].at + 1
                PROVE  \E d \in decision' : d.run = r /\ d.job = run[r].reviews[m].job
    BY <1>3 DEF Decided
  <2>1. CASE m = run[r].at
    BY <1>4, <1>5, <2>1
  <2>2. CASE m # run[r].at
    <3>1. m < run[r].at
      BY <2>2, RunBefore
    <3>2. PICK d \in decision : d.run = r /\ d.job = run[r].reviews[m].job
      BY <1>1, <3>1, RunBefore DEF Whole, Decided
    <3>. QED
      BY <1>5, <3>2
  <2>. QED
    BY <2>1, <2>2
<1>7. Collected(k, source[r])
  BY <1>1, <1>3, RunBefore DEF Whole, Collected, AtWork
<1>8. Accounted(r, k, source[r])
  BY <1>1, <1>3, RunBefore DEF Whole, Accounted, AtWork
<1>9. Left(r, scrape[r].status, source[r], decision')
  BY <1>1, RunBefore DEF WellPlaced, Left
<1>10. Whole(r, k, scrape[r].status, source[r], decision')
  BY <1>3, <1>6, <1>7, <1>8, <1>9 DEF Whole, NothingRead
<1>. QED
  BY <1>1, <1>2, <1>5, <1>10, RunStepWhole

\* A run that is over, failing or dead has no record, review or decision before it.
LEMMA OverWhole ==
  ASSUME NEW r, NEW step \in {"done", "failing", "dead"}, NEW rows, NEW decisions
  PROVE  LET k == [IdleRun EXCEPT !.step = step]
         IN  NothingRead(k, rows) /\ Collected(k, rows) /\ Accounted(r, k, rows)
             /\ Decided(r, k, decisions)
<1>. DEFINE k == [IdleRun EXCEPT !.step = step]
<1>1. k.step = step
  BY DEF IdleRun
<1>. HIDE DEF k
<1>2. NothingRead(k, rows) /\ Collected(k, rows) /\ Accounted(r, k, rows) /\ Decided(r, k, decisions)
  BY <1>1 DEF NothingRead, Collected, Accounted, Decided, AtWork
<1>. QED
  BY <1>2 DEF k

\* A run ends: with every review decided, or as failed.
LEMMA EndWhole ==
  ASSUME IInv, RunsAreWhole, NEW r \in Run, FinishRun(r) \/ FailRun(r)
  PROVE  RunsAreWhole'
<1>1. PICK status \in {"partial", "completed", "failed"} :
        /\ End(r, status, "done")
        /\ status # "failed" => run[r].step = "write" /\ ~ReviewsLeft(r)
        /\ status = "completed" => ~run[r].errors
  BY DEF FinishRun, FailRun
<1>. DEFINE k == [IdleRun EXCEPT !.step = "done"]
<1>2. /\ run'[r] = k /\ scrape'[r].status = status
      /\ \A o \in Run \ {r} : run'[o] = run[o] /\ scrape'[o] = scrape[o]
      /\ UNCHANGED <<source, decision>>
  BY <1>1 DEF End, IInv, Types, ScrapeRow, boardVars
<1>3. Left(r, status, source[r], decision)
  <2>. SUFFICES ASSUME status # "failed"
                PROVE  /\ \A n \in 1..Len(source[r]) :
                            source[r][n].status \in {"deduped", "normalized"} =>
                              \E d \in decision : d.run = r /\ d.job = source[r][n].job
                       /\ status = "completed" =>
                            /\ Len(source[r]) = Len(RecordsOf[r])
                            /\ \A n \in 1..Len(source[r]) : source[r][n].status # "errored"
    BY DEF Left
  <2>1. run[r].step = "write" /\ \A m \in 1..Len(run[r].reviews) : m < run[r].at
    BY <1>1, RunBefore DEF ReviewsLeft
  <2>2. \A m \in 1..Len(run[r].reviews) :
          \E d \in decision : d.run = r /\ d.job = run[r].reviews[m].job
    BY <2>1, RunBefore DEF Whole, Decided
  <2>3. \A n \in 1..Len(source[r]) : source[r][n].status \in {"deduped", "normalized"} =>
          \E m \in 1..Len(run[r].reviews) : run[r].reviews[m].job = source[r][n].job
    BY <2>1, RunBefore DEF Whole, Collected, AtWork
  <2>4. status = "completed" =>
          /\ Len(source[r]) = Len(RecordsOf[r])
          /\ \A n \in 1..Len(source[r]) : source[r][n].status # "errored"
    BY <1>1, <2>1, RunBefore DEF Whole, Accounted, AtWork
  <2>5. \A n \in 1..Len(source[r]) : source[r][n].status \in {"deduped", "normalized"} =>
          \E d \in decision : d.run = r /\ d.job = source[r][n].job
    BY <2>2, <2>3
  <2>. QED
    BY <2>4, <2>5
<1>4. Whole(r, k, status, source[r], decision)
  BY <1>3, OverWhole DEF Whole
<1>. HIDE DEF k
<1>. QED
  BY <1>2, <1>4, RunStepWhole

LEMMA BreakOffWhole ==
  ASSUME IInv, RunsAreWhole, NEW r \in Run, Throw(r) \/ Die(r)
  PROVE  RunsAreWhole'
<1>1. PICK step \in {"failing", "dead"} : run' = [run EXCEPT ![r] = [IdleRun EXCEPT !.step = step]]
  BY DEF Throw, Die
<1>2. UNCHANGED <<scrape, source, decision>>
  BY DEF Throw, Die, boardVars
<1>. QED
  BY <1>1, <1>2, OverWhole, OwnStepWhole

\* Whatever leaves the runs, their rows and the decisions alone.
LEMMA OtherStepsWhole ==
  ASSUME RunsAreWhole, UNCHANGED <<run, scrape, source, decision>>
  PROVE  RunsAreWhole'
  BY DEF RunsAreWhole

LEMMA ScoutStepWhole ==
  ASSUME IInv, RunsAreWhole, [Next]_vars
  PROVE  RunsAreWhole'
<1>1. ASSUME NEW r \in Run, RunStepOf(r) PROVE RunsAreWhole'
  <2>1. ASSUME NEW key \in Key \cup {NoKey}, LookUpKey(r, key) PROVE RunsAreWhole'
    BY <2>1, LookUpKeyWhole
  <2>2. CASE CreateRun(r) \/ FindJob(r) \/ SkipRecord(r) \/ LinkRecord(r) \/ CreateJob(r)
    BY <2>2, CreateRunWhole, FindJobWhole, SkipRecordWhole, LinkRecordWhole, CreateJobWhole
  <2>3. ASSUME NEW created \in BOOLEAN, FailRecord(r, created) PROVE RunsAreWhole'
    BY <2>3, FailRecordWhole
  <2>4. CASE \/ ReviewJobs(r) \/ TakeCheck(r) \/ AskCheck(r) \/ CheckFails(r)
             \/ \E status \in Answers : CheckAnswered(r, status)
    BY <2>4, ReviewJobsWhole, ChecksWhole, MovedOnWhole
  <2>5. CASE WriteStatus(r) \/ NoteDecision(r) \/ FinishRun(r) \/ FailRun(r) \/ Throw(r) \/ Die(r)
    BY <2>5, MovedOnWhole, NoteDecisionWhole, EndWhole, BreakOffWhole
  <2>. QED
    BY <1>1, <2>1, <2>2, <2>3, <2>4, <2>5 DEF RunStepOf
<1>2. CASE UserStep
  BY <1>2, OtherStepsWhole DEF UserStep, Decide, CheckPosting, scoutVars
<1>3. ASSUME NEW s \in Starter, StarterStepOf(s) PROVE RunsAreWhole'
  BY <1>3, OtherStepsWhole
  DEF StarterStepOf, BeginStart, CommitStart, EnqueueStart, StartFails, scoutVars, boardVars
<1>4. ASSUME NEW j \in Job, Expire(j) PROVE RunsAreWhole'
  BY <1>4, OtherStepsWhole DEF Expire, scoutVars
<1>5. CASE UNCHANGED vars
  BY <1>5, OtherStepsWhole DEF vars, scoutVars, boardVars
<1>. QED
  BY <1>1, <1>2, <1>3, <1>4, <1>5 DEF Next

LEMMA InitWhole == Init => RunsAreWhole
<1>. SUFFICES ASSUME Init, NEW r \in Run
              PROVE  Whole(r, run[r], scrape[r].status, source[r], decision)
  BY DEF RunsAreWhole
<1>1. /\ run[r].step = "idle" /\ run[r].next = 1 /\ run[r].reviews = <<>>
      /\ source[r] = <<>> /\ scrape[r].status = "absent"
  BY DEF Init, IdleRun
<1>. QED
  BY <1>1 DEF Whole, Left, NothingRead, Collected, Accounted, Decided, AtWork

\* A run is whole at every step, whatever other runs and the user do.
THEOREM ScoutRunInvariant == Spec => []RunsAreWhole
<1>1. IInv /\ RunsAreWhole /\ [Next]_vars => RunsAreWhole'
  BY ScoutStepWhole
<1>. QED
  BY <1>1, InitWhole, BoardInvariant, PTL DEF Spec

\* workers/scout/index.ts reports completed or partial only when every job its
\* records led to has its decision, and completed only when no record was lost.
THEOREM ScoutRunsEndWhole == Spec => []EndedRunsAreWhole
<1>1. IInv /\ RunsAreWhole => EndedRunsAreWhole
  <2>. SUFFICES ASSUME IInv, RunsAreWhole, NEW r \in Run
                PROVE  DOMAIN source[r] = 1..Len(source[r]) /\ Left(r, scrape[r].status, source[r], decision)
    BY DEF EndedRunsAreWhole, Left
  <2>. QED
    BY RunBefore, LenProperties DEF Whole
<1>. QED
  BY <1>1, BoardInvariant, ScoutRunInvariant, PTL

----------------------------------------------------------------------------
(* Why a job left the inbox: the reasons of its status, and of any status   *)
(* some run has read and may write back.                                   *)

\* The run's records describe the posting once.
MeetsOnce(r, posting) ==
  \A m, n \in 1..Len(RecordsOf[r]) :
    RecordsOf[r][m] = posting /\ RecordsOf[r][n] = posting => m = n

\* The job of each review, and the one found, has the posting of a record the
\* run has been through, so that a posting met once is reviewed once.
Met(r, k, jobs, status) ==
  /\ k.step \in {"idle", "create"} => status = "absent"
  /\ k.step = "record" => IF k.found = NoJob THEN k.previous = "discovered"
                          ELSE jobs[k.found].posting = RecordsOf[r][k.next]
  /\ k.step \in {"find", "record"} => \A n \in 1..Len(k.reviews) :
       \E i \in 1..Len(RecordsOf[r]) :
         i < k.next /\ RecordsOf[r][i] = jobs[k.reviews[n].job].posting
  /\ \A m, n \in 1..Len(k.reviews) :
       k.reviews[m].job = k.reviews[n].job /\ MeetsOnce(r, jobs[k.reviews[m].job].posting) => m = n

RunsHaveMet == \A r \in Run : Met(r, run[r], job, scrape[r].status)

\* A run in state k has read status for job j and has still to write it back.
HasRead(k, j, status) ==
  \/ k.found = j /\ k.previous = status
  \/ \E n \in 1..Len(k.reviews) : k.reviews[n].job = j /\ k.reviews[n].previous = status

BrokeOff(r) ==
  \/ scrape[r].status = "failed"
  \/ run[r].step \in {"failing", "dead"} /\ scrape[r].status = "processing"

Says(d, j, status) == d.job = j /\ d.auto /\ StatusFor(d.verdict) = status

\* A run in state k has no review of job j before it, and replaces no decision.
Past(k, j) ==
  /\ k.step \in {"write", "note", "done", "failing", "dead"}
  /\ k.step \in {"write", "note"} => \A n \in 1..Len(k.reviews) : k.reviews[n].job = j => n < k.at

\* Some run broke off, or an automatic decision for the status stands or is
\* about to be noted.
Explained(j, status) ==
  \/ \E r \in Run : BrokeOff(r)
  \/ \E d \in decision : Says(d, j, status) /\ Past(run[d.run], j)
  \/ \E r \in Run : run[r].step = "note" /\ Says(DecisionRow(r), j, status)

MetOnce(j) == \A r \in Run : scrape[r].status # "absent" => MeetsOnce(r, job[j].posting)

\* The status is the job's, or some run may write it back.
AtStake(j, status) ==
  /\ said[j] = "nothing" /\ MetOnce(j)
  /\ job[j].status = status \/ \E r \in Run : HasRead(run[r], j, status)

MovesHaveReasons ==
  \A j \in Job : \A status \in {"shortlisted", "archived"} :
    AtStake(j, status) => Explained(j, status)

LEMMA HandsAreThere ==
  ASSUME IInv, NEW r \in Run
  PROVE  /\ run[r] \in RunState /\ Len(run[r].reviews) \in Nat /\ Len(RecordsOf[r]) \in Nat
         /\ run[r].next \in Nat \ {0} /\ run[r].at \in Nat \ {0}
         /\ \A n \in 1..Len(run[r].reviews) :
              run[r].reviews[n].job \in Job /\ JobExists(run[r].reviews[n].job)
         /\ run[r].found # NoJob => run[r].found \in Job /\ JobExists(run[r].found)
         /\ \A j \in Job : \A status : HasRead(run[r], j, status) => JobExists(j)
<1>1. run[r] \in RunState /\ run[r].reviews \in Seq(Review) /\ Len(RecordsOf[r]) \in Nat
  BY RunTypes, RecordsTyped DEF IInv
<1>2. \A n \in 1..Len(run[r].reviews) : run[r].reviews[n] \in Review
  BY <1>1, ElementOfSeq
<1>3. \A n \in 1..Len(run[r].reviews) :
        run[r].reviews[n].job \in Job /\ JobExists(run[r].reviews[n].job)
  BY <1>2, InvariantParts DEF WellPlaced, Review, JobExists
<1>4. run[r].found # NoJob => run[r].found \in Job /\ JobExists(run[r].found)
  BY <1>1, InvariantParts DEF WellPlaced, RunState, JobExists
<1>5. \A j \in Job : \A status : HasRead(run[r], j, status) => JobExists(j)
  BY <1>3, <1>4 DEF HasRead, Job, NoJob
<1>6. Len(run[r].reviews) \in Nat
  BY <1>1, LenProperties
<1>. QED
  BY <1>1, <1>3, <1>4, <1>5, <1>6 DEF RunState

\* What a run has met stays so while jobs keep their postings.
LEMMA OthersHaveMet ==
  ASSUME IInv, RunsHaveMet, NEW r \in Run,
         \A o \in Run \ {r} : run'[o] = run[o] /\ scrape'[o].status = scrape[o].status,
         \A j \in Job : JobExists(j) => job'[j].posting = job[j].posting,
         Met(r, run'[r], job', scrape'[r].status)
  PROVE  RunsHaveMet'
<1>1. ASSUME NEW o \in Run \ {r}
      PROVE  Met(o, run[o], job', scrape[o].status)
  <2>1. /\ \A n \in 1..Len(run[o].reviews) :
             job'[run[o].reviews[n].job].posting = job[run[o].reviews[n].job].posting
        /\ run[o].found # NoJob => job'[run[o].found].posting = job[run[o].found].posting
    BY HandsAreThere
  <2>. QED
    BY <2>1 DEF RunsHaveMet, Met
<1>. QED
  BY <1>1 DEF RunsHaveMet

Early == {"idle", "create", "find", "record", "check", "ask"}

\* A step of a run that has still to write its first status.  It may create a
\* job, or read the status of one.
LEMMA EarlyStepMoves ==
  ASSUME IInv, RunsHaveMet, MovesHaveReasons, NEW r \in Run, NEW k,
         run' = [run EXCEPT ![r] = k], run[r].step \in Early, UNCHANGED <<decision, said>>,
         \A o \in Run \ {r} : scrape'[o].status = scrape[o].status,
         \/ scrape'[r].status = scrape[r].status
         \/ run[r].step = "create" /\ scrape'[r].status = "processing",
         \A j \in Job : job'[j] # job[j] =>
                          ~JobExists(j) /\ job'[j].status = "discovered",
         Met(r, k, job', scrape'[r].status),
         \A j \in Job : \A status \in {"shortlisted", "archived"} : HasRead(k, j, status) =>
           HasRead(run[r], j, status) \/ job[j].status = status
  PROVE  RunsHaveMet' /\ MovesHaveReasons'
<1>1. run'[r] = k /\ \A o \in Run \ {r} : run'[o] = run[o]
  BY DEF IInv, Types
<1>2. RunsHaveMet'
  BY <1>1, OthersHaveMet
<1>3. ASSUME NEW j \in Job, NEW status \in {"shortlisted", "archived"}, AtStake(j, status)'
      PROVE  AtStake(j, status)
  <2>1. job[j].status = status \/ \E o \in Run : HasRead(run[o], j, status)
    BY <1>1, <1>3 DEF AtStake
  <2>2. JobExists(j)
    BY <2>1, HandsAreThere DEF JobExists
  <2>3. job'[j] = job[j]
    BY <2>2
  <2>4. MetOnce(j)
    BY <1>3, <2>3 DEF AtStake, MetOnce, MeetsOnce
  <2>. QED
    BY <1>3, <2>1, <2>4 DEF AtStake
<1>4. ASSUME NEW j \in Job, NEW status, Explained(j, status)
      PROVE  Explained(j, status)'
  <2>1. ASSUME NEW o \in Run, BrokeOff(o)
        PROVE  BrokeOff(o)'
    <3>1. CASE o = r
      <4>1. scrape[r].status = "failed" /\ run[r].step # "create"
        BY <2>1, <3>1 DEF BrokeOff, Early, RunsHaveMet, Met
      <4>. QED
        BY <3>1, <4>1 DEF BrokeOff
    <3>2. CASE o # r
      BY <1>1, <2>1, <3>2 DEF BrokeOff
    <3>. QED
      BY <3>1, <3>2
  <2>2. ASSUME NEW d \in decision, Says(d, j, status), Past(run[d.run], j)
        PROVE  Past(run'[d.run], j)
    <3>1. d.run # r /\ d.run \in Run
      BY <2>2 DEF Past, Early, IInv, DecisionsAreRows
    <3>. QED
      BY <1>1, <2>2, <3>1
  <2>3. ASSUME NEW o \in Run, run[o].step = "note", Says(DecisionRow(o), j, status)
        PROVE  run'[o].step = "note" /\ Says(DecisionRow(o)', j, status)
    <3>1. o # r
      BY <2>3 DEF Early
    <3>2. DecisionRow(o)' = DecisionRow(o)
      BY <1>1, <3>1 DEF DecisionRow, Candidate, ActsAutomatically
    <3>. QED
      BY <1>1, <2>3, <3>1, <3>2
  <2>. QED
    BY <1>4, <2>1, <2>2, <2>3 DEF Explained, Says
<1>. QED
  BY <1>2, <1>3, <1>4 DEF MovesHaveReasons

\* A run that keeps its reviews, and what it found or nothing, has met no more.
LEMMA KeptHands ==
  ASSUME IInv, RunsHaveMet, NEW r \in Run, NEW k, NEW status, NEW jobs,
         k.reviews = run[r].reviews, k.next \in Nat,
         k.found # NoJob => k.found = run[r].found /\ k.previous = run[r].previous,
         k.step # "record",
         k.step \in {"idle", "create"} => run[r].step = "idle" /\ status = scrape[r].status,
         k.step = "find" => \/ run[r].reviews = <<>>
                            \/ run[r].step \in {"find", "record"} /\ run[r].next <= k.next,
         \A j \in Job : JobExists(j) => jobs[j].posting = job[j].posting
  PROVE  /\ Met(r, k, jobs, status)
         /\ \A j \in Job : \A s : HasRead(k, j, s) => HasRead(run[r], j, s)
<1>1. \A n \in 1..Len(run[r].reviews) :
        jobs[run[r].reviews[n].job].posting = job[run[r].reviews[n].job].posting
  BY HandsAreThere
<1>2. Met(r, run[r], job, scrape[r].status)
  BY DEF RunsHaveMet
<1>3. k.step = "find" => \A n \in 1..Len(k.reviews) : \E i \in 1..Len(RecordsOf[r]) :
        i < k.next /\ RecordsOf[r][i] = jobs[k.reviews[n].job].posting
  <2>. SUFFICES ASSUME k.step = "find", NEW n \in 1..Len(run[r].reviews)
                PROVE  \E i \in 1..Len(RecordsOf[r]) :
                         i < k.next /\ RecordsOf[r][i] = jobs[run[r].reviews[n].job].posting
    OBVIOUS
  <2>1. run[r].reviews # <<>>
    OBVIOUS
  <2>2. PICK i \in 1..Len(RecordsOf[r]) :
          i < run[r].next /\ RecordsOf[r][i] = job[run[r].reviews[n].job].posting
    BY <1>2, <2>1 DEF Met
  <2>3. i < k.next
    BY <2>1, <2>2, HandsAreThere
  <2>. QED
    BY <1>1, <2>2, <2>3
<1>4. \A m, n \in 1..Len(k.reviews) :
        k.reviews[m].job = k.reviews[n].job /\ MeetsOnce(r, jobs[k.reviews[m].job].posting) => m = n
  BY <1>1, <1>2 DEF Met
<1>5. k.step \in {"idle", "create"} => status = "absent"
  BY <1>2 DEF Met
<1>6. Met(r, k, jobs, status)
  BY <1>3, <1>4, <1>5 DEF Met
<1>. QED
  BY <1>6 DEF HasRead, Job, NoJob

LEMMA LookUpKeyMoves ==
  ASSUME IInv, RunsHaveMet, MovesHaveReasons, NEW r \in Run, NEW key \in Key \cup {NoKey},
         LookUpKey(r, key)
  PROVE  RunsHaveMet' /\ MovesHaveReasons'
<1>. DEFINE next == IF key # NoKey /\ Holds(key) THEN "done" ELSE "create"
            k == [run[r] EXCEPT !.step = next, !.key = key]
<1>1. /\ run[r].step = "idle" /\ run' = [run EXCEPT ![r] = k]
      /\ UNCHANGED <<job, scrape, decision, said>>
  BY DEF LookUpKey, boardVars
<1>2. /\ k.step = next /\ k.next = run[r].next /\ k.reviews = run[r].reviews
      /\ k.found = run[r].found /\ k.previous = run[r].previous /\ next \in {"done", "create"}
  BY HandsAreThere DEF RunState
<1>. HIDE DEF next, k
<1>3. /\ Met(r, k, job', scrape'[r].status)
      /\ \A j \in Job : \A s : HasRead(k, j, s) => HasRead(run[r], j, s)
  BY <1>1, <1>2, HandsAreThere, KeptHands
<1>. QED
  BY <1>1, <1>3, EarlyStepMoves DEF Early

LEMMA CreateRunMoves ==
  ASSUME IInv, RunsAreWhole, RunsHaveMet, MovesHaveReasons, NEW r \in Run, CreateRun(r)
  PROVE  RunsHaveMet' /\ MovesHaveReasons'
<1>. DEFINE k == [run[r] EXCEPT !.step = "find"]
<1>1. /\ run[r].step = "create" /\ run' = [run EXCEPT ![r] = k]
      /\ scrape' = [scrape EXCEPT ![r] = [status |-> "processing", key |-> run[r].key]]
      /\ UNCHANGED <<job, decision, said>>
  BY DEF CreateRun, boardVars, historyVars
<1>2. scrape'[r].status = "processing" /\ \A o \in Run \ {r} : scrape'[o] = scrape[o]
  BY <1>1 DEF IInv, Types
<1>3. /\ k.step = "find" /\ k.next = run[r].next /\ k.reviews = run[r].reviews
      /\ k.found = run[r].found /\ k.previous = run[r].previous /\ run[r].reviews = <<>>
  BY <1>1, RunBefore DEF RunState, Whole, NothingRead
<1>. HIDE DEF k
<1>4. /\ Met(r, k, job', scrape'[r].status)
      /\ \A j \in Job : \A s : HasRead(k, j, s) => HasRead(run[r], j, s)
  BY <1>1, <1>3, HandsAreThere, KeptHands
<1>. QED
  BY <1>1, <1>2, <1>4, EarlyStepMoves DEF Early

LEMMA SkipRecordMoves ==
  ASSUME IInv, RunsHaveMet, MovesHaveReasons, NEW r \in Run, SkipRecord(r)
  PROVE  RunsHaveMet' /\ MovesHaveReasons'
<1>. DEFINE k == [run[r] EXCEPT !.next = @ + 1, !.errors = TRUE]
<1>1. /\ run[r].step = "find" /\ run' = [run EXCEPT ![r] = k]
      /\ UNCHANGED <<job, scrape, decision, said>>
  BY DEF SkipRecord, boardVars, historyVars
<1>2. /\ k.step = "find" /\ k.next = run[r].next + 1 /\ k.reviews = run[r].reviews
      /\ k.found = run[r].found /\ k.previous = run[r].previous
  BY <1>1, HandsAreThere DEF RunState
<1>. HIDE DEF k
<1>3. /\ Met(r, k, job', scrape'[r].status)
      /\ \A j \in Job : \A s : HasRead(k, j, s) => HasRead(run[r], j, s)
  <2>1. k.next \in Nat /\ run[r].next <= k.next
    BY <1>2, HandsAreThere
  <2>. QED
    BY <1>1, <1>2, <2>1, KeptHands
<1>. QED
  BY <1>1, <1>3, EarlyStepMoves DEF Early

\* A job that is created was not there, and has the record's posting.
LEMMA NewJobRow ==
  ASSUME IInv, NEW r \in Run, FreeJobs # {}, run[r].step = "record",
         job' = [job EXCEPT ![NewJob] = [posting |-> PostingAt(r), status |-> "discovered"]]
  PROVE  /\ NewJob \in Job /\ ~JobExists(NewJob)
         /\ job'[NewJob].status = "discovered" /\ job'[NewJob].posting = PostingAt(r)
         /\ \A j \in Job : j # NewJob => job'[j] = job[j]
<1>1. NewJob \in FreeJobs
  BY DEF NewJob
<1>2. NewJob \in Job /\ ~JobExists(NewJob)
  BY <1>1 DEF FreeJobs
<1>. QED
  BY <1>2 DEF IInv, Types

LEMMA FailRecordMoves ==
  ASSUME IInv, RunsHaveMet, MovesHaveReasons, NEW r \in Run, NEW created \in BOOLEAN,
         FailRecord(r, created)
  PROVE  RunsHaveMet' /\ MovesHaveReasons'
<1>. DEFINE k == [run[r] EXCEPT !.step = "find", !.next = @ + 1, !.found = NoJob,
                                !.previous = "absent", !.errors = TRUE]
<1>1. /\ run[r].step = "record" /\ run' = [run EXCEPT ![r] = k]
      /\ UNCHANGED <<scrape, decision, said>>
  BY DEF FailRecord, historyVars
<1>2. /\ k.step = "find" /\ k.next = run[r].next + 1 /\ k.reviews = run[r].reviews
      /\ k.found = NoJob
  BY HandsAreThere DEF RunState
<1>. HIDE DEF k
<1>3. \A j \in Job : job'[j] # job[j] => ~JobExists(j) /\ job'[j].status = "discovered"
  <2>1. CASE created
    BY <1>1, <2>1, NewJobRow DEF FailRecord
  <2>2. CASE ~created
    BY <2>2 DEF FailRecord
  <2>. QED
    BY <2>1, <2>2
<1>4. /\ Met(r, k, job', scrape'[r].status)
      /\ \A j \in Job : \A s : HasRead(k, j, s) => HasRead(run[r], j, s)
  <2>1. k.next \in Nat /\ run[r].next <= k.next
    BY <1>2, HandsAreThere
  <2>2. \A j \in Job : JobExists(j) => job'[j].posting = job[j].posting
    BY <1>3
  <2>. QED
    BY <1>1, <1>2, <2>1, <2>2, KeptHands
<1>. QED
  BY <1>1, <1>3, <1>4, EarlyStepMoves DEF Early

LEMMA FindJobMoves ==
  ASSUME IInv, RunsHaveMet, MovesHaveReasons, NEW r \in Run, FindJob(r)
  PROVE  RunsHaveMet' /\ MovesHaveReasons'
<1>1. PICK j, s :
        /\ run' = [run EXCEPT ![r].step = "record", ![r].found = j, ![r].previous = s]
        /\ \/ j \in JobsOf(PostingAt(r)) /\ s = job[j].status
           \/ j = NoJob /\ s = "discovered"
  BY DEF FindJob
<1>. DEFINE k == [run[r] EXCEPT !.step = "record", !.found = j, !.previous = s]
<1>2. /\ run[r].step = "find" /\ run' = [run EXCEPT ![r] = k]
      /\ UNCHANGED <<job, scrape, decision, said>>
  BY <1>1 DEF FindJob, boardVars
<1>3. /\ k.step = "record" /\ k.next = run[r].next /\ k.reviews = run[r].reviews
      /\ k.found = j /\ k.previous = s
  BY HandsAreThere DEF RunState
<1>. HIDE DEF k
<1>4. Met(r, k, job, scrape[r].status)
  <2>1. Met(r, run[r], job, scrape[r].status)
    BY DEF RunsHaveMet
  <2>2. k.found # NoJob => job[k.found].posting = RecordsOf[r][k.next]
    BY <1>1, <1>3 DEF JobsOf, PostingAt
  <2>3. k.found = NoJob => k.previous = "discovered"
    BY <1>1, <1>3 DEF JobsOf, Job, NoJob
  <2>. QED
    BY <1>2, <1>3, <2>1, <2>2, <2>3 DEF Met
<1>5. \A i \in Job : \A status : HasRead(k, i, status) =>
        HasRead(run[r], i, status) \/ job[i].status = status
  BY <1>1, <1>3 DEF HasRead, Job, NoJob
<1>. QED
  BY <1>2, <1>4, <1>5, EarlyStepMoves DEF Early

\* A record is done: its job joins the reviews.
LEMMA RememberedMoves ==
  ASSUME IInv, RunsHaveMet, MovesHaveReasons, NEW r \in Run, run[r].step = "record",
         NEW j \in Job, run' = Remembered(r, j), UNCHANGED <<scrape, decision, said>>,
         \A i \in Job : job'[i] # job[i] => ~JobExists(i) /\ job'[i].status = "discovered",
         job'[j].posting = PostingAt(r),
         \/ run[r].found = j
         \/ run[r].previous = "discovered"
  PROVE  RunsHaveMet' /\ MovesHaveReasons'
<1>1. PICK new \in RunState :
        /\ run' = [run EXCEPT ![r] = new]
        /\ new.step = "find" /\ new.found = NoJob /\ new.at = 1
        /\ Len(new.reviews) = Len(run[r].reviews) + 1 /\ Len(run[r].reviews) \in Nat
        /\ \A n \in 1..Len(run[r].reviews) : new.reviews[n] = run[r].reviews[n]
        /\ new.reviews[Len(run[r].reviews) + 1].job = j
        /\ new.reviews[Len(run[r].reviews) + 1].previous = run[r].previous
  BY RememberedState
<1>2. new.next = run[r].next + 1
  <2>1. run'[r].next = run[r].next + 1
    BY HandsAreThere DEF Remembered, IInv, Types, RunState
  <2>. QED
    BY <1>1, <2>1 DEF IInv, Types
<1>. DEFINE last == Len(run[r].reviews) + 1
<1>3. \A n \in 1..Len(new.reviews) : n \in 1..Len(run[r].reviews) \/ n = last
  BY <1>1
<1>4. \A n \in 1..Len(run[r].reviews) :
        job'[new.reviews[n].job].posting = job[run[r].reviews[n].job].posting
  BY <1>1, HandsAreThere
<1>5. Met(r, run[r], job, scrape[r].status) /\ run[r].next \in 1..Len(RecordsOf[r])
  BY HandsAreThere, InvariantParts DEF RunsHaveMet, WellPlaced
<1>6. \A n \in 1..Len(new.reviews) : \E i \in 1..Len(RecordsOf[r]) :
        i < new.next /\ RecordsOf[r][i] = job'[new.reviews[n].job].posting
  <2>1. ASSUME NEW n \in 1..Len(run[r].reviews)
        PROVE  \E i \in 1..Len(RecordsOf[r]) :
                 i < run[r].next /\ RecordsOf[r][i] = job'[new.reviews[n].job].posting
    BY <1>4, <1>5 DEF Met
  <2>2. RecordsOf[r][run[r].next] = job'[new.reviews[last].job].posting
    BY <1>1 DEF PostingAt
  <2>. SUFFICES ASSUME NEW n \in 1..Len(new.reviews)
                PROVE  \E i \in 1..Len(RecordsOf[r]) :
                         i < run[r].next + 1 /\ RecordsOf[r][i] = job'[new.reviews[n].job].posting
    BY <1>2
  <2>3. CASE n = last
    <3>1. PICK i \in 1..Len(RecordsOf[r]) : i = run[r].next
      BY <1>5
    <3>2. RecordsOf[r][i] = job'[new.reviews[n].job].posting
      BY <2>2, <2>3, <3>1
    <3>3. i < run[r].next + 1
      BY <3>1
    <3>. QED
      BY <3>2, <3>3
  <2>4. CASE n # last
    <3>1. n \in 1..Len(run[r].reviews)
      BY <1>3, <2>4
    <3>2. PICK i \in 1..Len(RecordsOf[r]) :
            i < run[r].next /\ RecordsOf[r][i] = job'[new.reviews[n].job].posting
      BY <2>1, <3>1
    <3>. QED
      BY <1>5, <3>2
  <2>. QED
    BY <2>3, <2>4
<1>7. ASSUME NEW n \in 1..Len(run[r].reviews), new.reviews[n].job = j,
             MeetsOnce(r, job'[j].posting)
      PROVE  FALSE
  <2>1. PICK i \in 1..Len(RecordsOf[r]) : i < run[r].next /\ RecordsOf[r][i] = job'[j].posting
    BY <1>4, <1>5, <1>7 DEF Met
  <2>2. RecordsOf[r][run[r].next] = job'[j].posting
    BY DEF PostingAt
  <2>3. i = run[r].next
    BY <1>5, <1>7, <2>1, <2>2 DEF MeetsOnce
  <2>. QED
    BY <2>1, <2>3, <1>5
<1>8. ASSUME NEW m \in 1..Len(new.reviews), NEW n \in 1..Len(new.reviews),
             new.reviews[m].job = new.reviews[n].job,
             MeetsOnce(r, job'[new.reviews[m].job].posting)
      PROVE  m = n
  <2>1. CASE m \in 1..Len(run[r].reviews) /\ n \in 1..Len(run[r].reviews)
    <3>1. run[r].reviews[m].job = run[r].reviews[n].job
          /\ MeetsOnce(r, job[run[r].reviews[m].job].posting)
      BY <1>1, <1>4, <1>8, <2>1
    <3>. QED
      BY <1>5, <2>1, <3>1 DEF Met
  <2>2. CASE m = last
    BY <1>1, <1>3, <1>7, <1>8, <2>2
  <2>3. CASE n = last
    BY <1>1, <1>3, <1>7, <1>8, <2>3
  <2>. QED
    BY <1>3, <2>1, <2>2, <2>3
<1>9. Met(r, new, job', scrape'[r].status)
  BY <1>1, <1>6, <1>8 DEF Met
<1>10. ASSUME NEW i \in Job, NEW status \in {"shortlisted", "archived"}, HasRead(new, i, status)
       PROVE  HasRead(run[r], i, status)
  <2>1. PICK n \in 1..Len(new.reviews) : new.reviews[n].job = i /\ new.reviews[n].previous = status
    BY <1>1, <1>10 DEF HasRead, Job, NoJob
  <2>2. CASE n = last
    BY <1>1, <2>1, <2>2 DEF HasRead
  <2>3. CASE n \in 1..Len(run[r].reviews)
    BY <1>1, <2>1, <2>3 DEF HasRead
  <2>. QED
    BY <1>3, <2>2, <2>3
<1>11. run[r].step \in Early /\ run' = [run EXCEPT ![r] = new]
  BY <1>1 DEF Early
<1>12. \A i \in Job : \A status \in {"shortlisted", "archived"} : HasRead(new, i, status) =>
         HasRead(run[r], i, status) \/ job[i].status = status
  BY <1>10
<1>13. /\ \A o \in Run \ {r} : scrape'[o].status = scrape[o].status
       /\ scrape'[r].status = scrape[r].status
  OBVIOUS
<1>. QED
  BY <1>9, <1>11, <1>12, <1>13, EarlyStepMoves

LEMMA LinkRecordMoves ==
  ASSUME IInv, RunsHaveMet, MovesHaveReasons, NEW r \in Run, LinkRecord(r)
  PROVE  RunsHaveMet' /\ MovesHaveReasons'
<1>1. PICK j \in Job : j = run[r].found
  BY HandsAreThere DEF LinkRecord
<1>2. /\ run[r].step = "record" /\ run' = Remembered(r, j) /\ run[r].found # NoJob
      /\ UNCHANGED <<job, scrape, decision, said>>
  BY <1>1 DEF LinkRecord, boardVars, historyVars
<1>3. job[j].posting = PostingAt(r)
  BY <1>1, <1>2 DEF RunsHaveMet, Met, PostingAt
<1>. QED
  BY <1>1, <1>2, <1>3, RememberedMoves

LEMMA CreateJobMoves ==
  ASSUME IInv, RunsHaveMet, MovesHaveReasons, NEW r \in Run, CreateJob(r)
  PROVE  RunsHaveMet' /\ MovesHaveReasons'
<1>1. PICK j \in Job : j = NewJob
  BY DEF CreateJob, NewJob, FreeJobs
<1>2. /\ run[r].step = "record" /\ run[r].found = NoJob /\ run' = Remembered(r, j)
      /\ UNCHANGED <<scrape, decision, said>>
  BY <1>1 DEF CreateJob, historyVars
<1>3. /\ job'[j].posting = PostingAt(r)
      /\ \A i \in Job : job'[i] # job[i] => ~JobExists(i) /\ job'[i].status = "discovered"
  BY <1>1, <1>2, NewJobRow DEF CreateJob
<1>4. run[r].previous = "discovered"
  BY <1>2 DEF RunsHaveMet, Met
<1>. QED
  BY <1>2, <1>3, <1>4, RememberedMoves

\* Reviewing and checking leave the jobs in hand what they are.
LEMMA JudgingMoves ==
  ASSUME IInv, RunsHaveMet, MovesHaveReasons, NEW r \in Run, run[r].step \in Early, NEW k,
         run' = [run EXCEPT ![r] = k], k.step \in {"check", "ask", "write"}, k.next \in Nat,
         k.reviews = run[r].reviews, k.found = run[r].found, k.previous = run[r].previous,
         UNCHANGED <<job, scrape, decision, said>>
  PROVE  RunsHaveMet' /\ MovesHaveReasons'
<1>1. /\ Met(r, k, job', scrape'[r].status)
      /\ \A j \in Job : \A s : HasRead(k, j, s) => HasRead(run[r], j, s)
  BY KeptHands
<1>. QED
  BY <1>1, EarlyStepMoves

LEMMA ReviewJobsMoves ==
  ASSUME IInv, RunsHaveMet, MovesHaveReasons, NEW r \in Run, ReviewJobs(r)
  PROVE  RunsHaveMet' /\ MovesHaveReasons'
<1>1. PICK v : run' = [run EXCEPT ![r].step = IF Reviewed(r) = {} THEN "write" ELSE "check",
                                  ![r].verdict = v]
  BY DEF ReviewJobs
<1>. DEFINE next == IF Reviewed(r) = {} THEN "write" ELSE "check"
            k == [run[r] EXCEPT !.step = next, !.verdict = v]
<1>2. /\ run[r].step = "find" /\ run' = [run EXCEPT ![r] = k]
      /\ UNCHANGED <<job, scrape, decision, said>>
  BY <1>1 DEF ReviewJobs, boardVars, historyVars
<1>3. /\ k.step = next /\ k.next = run[r].next /\ k.reviews = run[r].reviews
      /\ k.found = run[r].found /\ k.previous = run[r].previous /\ next \in {"write", "check"}
  BY HandsAreThere DEF RunState
<1>. HIDE DEF next, k
<1>. QED
  BY <1>2, <1>3, HandsAreThere, JudgingMoves DEF Early

LEMMA AskCheckMoves ==
  ASSUME IInv, RunsHaveMet, MovesHaveReasons, NEW r \in Run, AskCheck(r)
  PROVE  RunsHaveMet' /\ MovesHaveReasons'
<1>. DEFINE k == [run[r] EXCEPT !.step = "ask"]
<1>1. /\ run[r].step = "check" /\ run' = [run EXCEPT ![r] = k]
      /\ UNCHANGED <<job, scrape, decision, said>>
  BY DEF AskCheck, boardVars, historyVars
<1>2. /\ k.step = "ask" /\ k.next = run[r].next /\ k.reviews = run[r].reviews
      /\ k.found = run[r].found /\ k.previous = run[r].previous
  BY HandsAreThere DEF RunState
<1>. HIDE DEF k
<1>. QED
  BY <1>1, <1>2, HandsAreThere, JudgingMoves DEF Early

LEMMA CheckedMoves ==
  ASSUME IInv, RunsHaveMet, MovesHaveReasons, NEW r \in Run, run[r].step \in {"check", "ask"},
         NEW k \in RunState, k.at = run[r].at, k.reviews = run[r].reviews,
         k.found = run[r].found, k.previous = run[r].previous,
         run' = [run EXCEPT ![r] = Checked(k)], UNCHANGED <<job, scrape, decision, said>>
  PROVE  RunsHaveMet' /\ MovesHaveReasons'
<1>1. k.at <= Len(k.reviews)
  BY InvariantParts DEF WellPlaced
<1>. DEFINE new == Checked(k)
<1>2. /\ new \in RunState /\ new.step \in {"write", "check"} /\ new.reviews = k.reviews
      /\ new.found = k.found /\ new.previous = k.previous
  BY <1>1, CheckedState
<1>. HIDE DEF new
<1>3. new.next \in Nat
  BY <1>2 DEF RunState
<1>4. run' = [run EXCEPT ![r] = new] /\ run[r].step \in Early
  BY DEF new, Early
<1>. QED
  BY <1>2, <1>3, <1>4, JudgingMoves

LEMMA ChecksMoves ==
  ASSUME IInv, RunsHaveMet, MovesHaveReasons, NEW r \in Run,
         TakeCheck(r) \/ (\E status \in Answers : CheckAnswered(r, status)) \/ CheckFails(r)
  PROVE  RunsHaveMet' /\ MovesHaveReasons'
<1>1. run[r].step \in {"check", "ask"} /\ UNCHANGED <<job, scrape, decision, said>>
  BY DEF TakeCheck, CheckAnswered, CheckFails, boardVars, historyVars
<1>2. CASE run' = [run EXCEPT ![r] = Checked(@)]
  BY <1>1, <1>2, HandsAreThere, CheckedMoves
<1>3. ASSUME NEW status \in PostingCheckStatus \cup {"none"},
             run' = [run EXCEPT ![r] = Checked(Noted(r, Candidate(r).job, status))]
      PROVE  RunsHaveMet' /\ MovesHaveReasons'
  <2>. DEFINE k == Noted(r, Candidate(r).job, status)
  <2>1. /\ k \in RunState /\ k.at = run[r].at /\ k.reviews = run[r].reviews
        /\ k.found = run[r].found /\ k.previous = run[r].previous
    BY NotedState
  <2>2. run' = [run EXCEPT ![r] = Checked(k)]
    BY <1>3
  <2>. HIDE DEF k
  <2>. QED
    BY <1>1, <2>1, <2>2, CheckedMoves
<1>4. CASE TakeCheck(r)
  <2>1. CASE run' = [run EXCEPT ![r] = Checked([@ EXCEPT !.posting[Candidate(r).job] =
                                                  check[Candidate(r).job].status])]
    <3>1. check[Candidate(r).job].status \in PostingCheckStatus \cup {"none"}
      BY <1>1, CheckStatusTyped
    <3>2. run' = [run EXCEPT ![r] = Checked(Noted(r, Candidate(r).job,
                                                  check[Candidate(r).job].status))]
      BY <2>1 DEF Noted
    <3>. QED
      BY <1>3, <3>1, <3>2
  <2>. QED
    BY <1>2, <1>4, <2>1 DEF TakeCheck
<1>5. ASSUME NEW status \in Answers, CheckAnswered(r, status)
      PROVE  RunsHaveMet' /\ MovesHaveReasons'
  <2>1. status \in PostingCheckStatus
    BY ConstantsAssumption
  <2>2. run' = [run EXCEPT ![r] = Checked(Noted(r, Candidate(r).job, status))]
    BY <1>5 DEF CheckAnswered, Noted
  <2>. QED
    BY <1>3, <2>1, <2>2
<1>6. CASE CheckFails(r)
  <2>. DEFINE k == [run[r] EXCEPT !.errors = TRUE]
  <2>1. run' = [run EXCEPT ![r] = Checked(k)]
    BY <1>6 DEF CheckFails
  <2>2. /\ k \in RunState /\ k.at = run[r].at /\ k.reviews = run[r].reviews
        /\ k.found = run[r].found /\ k.previous = run[r].previous
    BY HandsAreThere DEF RunState
  <2>. HIDE DEF k
  <2>. QED
    BY <1>1, <2>1, <2>2, CheckedMoves
<1>. QED
  BY <1>4, <1>5, <1>6

\* A step of a run that may write statuses or decisions, or is over.
LEMMA LateStepMoves ==
  ASSUME IInv, RunsHaveMet, MovesHaveReasons, NEW r \in Run, NEW k,
         run' = [run EXCEPT ![r] = k], UNCHANGED said,
         \A o \in Run \ {r} : scrape'[o].status = scrape[o].status,
         scrape'[r].status = "absent" => scrape[r].status = "absent",
         \A j \in Job : job'[j].posting = job[j].posting,
         k.step \notin {"idle", "create", "find", "record"}, k.next \in Nat,
         \/ k.reviews = run[r].reviews /\ k.found = run[r].found /\ k.previous = run[r].previous
         \/ k.reviews = <<>> /\ k.found = NoJob,
         BrokeOff(r) => BrokeOff(r)',
         \A j \in Job : \A status \in {"shortlisted", "archived"} :
           MetOnce(j) /\ said[j] = "nothing" =>
             /\ \A d \in decision : Says(d, j, status) /\ Past(run[d.run], j) =>
                  d \in decision' /\ (d.run = r => Past(k, j))
             /\ run[r].step = "note" /\ Says(DecisionRow(r), j, status) => Explained(j, status)'
             /\ job'[j].status = status /\ job[j].status # status =>
                  HasRead(run[r], j, status) \/ Explained(j, status)'
  PROVE  RunsHaveMet' /\ MovesHaveReasons'
<1>1. run'[r] = k /\ \A o \in Run \ {r} : run'[o] = run[o]
  BY DEF IInv, Types
<1>2. /\ Met(r, k, job', scrape'[r].status)
      /\ \A j \in Job : \A s : HasRead(k, j, s) => HasRead(run[r], j, s)
  <2>1. CASE k.reviews = <<>> /\ k.found = NoJob
    BY <2>1 DEF Met, HasRead, Job, NoJob
  <2>2. CASE k.reviews = run[r].reviews /\ k.found = run[r].found /\ k.previous = run[r].previous
    BY <2>2, KeptHands
  <2>. QED
    BY <2>1, <2>2
<1>3. RunsHaveMet'
  BY <1>1, <1>2, OthersHaveMet
<1>. SUFFICES ASSUME NEW j \in Job, NEW status \in {"shortlisted", "archived"},
                     AtStake(j, status)', ~Explained(j, status)'
              PROVE  FALSE
  BY <1>3 DEF MovesHaveReasons
<1>4. MetOnce(j) /\ said[j] = "nothing"
  <2>1. \A o \in Run : scrape[o].status # "absent" => scrape'[o].status # "absent"
    OBVIOUS
  <2>2. MetOnce(j)' /\ said'[j] = "nothing"
    BY DEF AtStake
  <2>. QED
    BY <2>1, <2>2 DEF MetOnce, MeetsOnce
<1>5. AtStake(j, status)
  <2>1. job[j].status = status \/ \E o \in Run : HasRead(run[o], j, status)
    BY <1>1, <1>2, <1>4 DEF AtStake
  <2>. QED
    BY <1>4, <2>1 DEF AtStake
<1>6. Explained(j, status)
  BY <1>5 DEF MovesHaveReasons
<1>7. ASSUME NEW o \in Run, BrokeOff(o) PROVE FALSE
  <2>1. CASE o = r
    BY <1>7, <2>1 DEF Explained
  <2>2. CASE o # r
    BY <1>1, <1>7, <2>2 DEF Explained, BrokeOff
  <2>. QED
    BY <2>1, <2>2
<1>8. ASSUME NEW d \in decision, Says(d, j, status), Past(run[d.run], j) PROVE FALSE
  <2>1. d \in decision' /\ (d.run = r => Past(k, j)) /\ d.run \in Run
    BY <1>4, <1>8 DEF IInv, DecisionsAreRows
  <2>2. Past(run'[d.run], j)
    BY <1>1, <1>8, <2>1
  <2>. QED
    BY <1>8, <2>1, <2>2 DEF Explained, Says
<1>9. ASSUME NEW o \in Run, run[o].step = "note", Says(DecisionRow(o), j, status) PROVE FALSE
  <2>1. o # r
    BY <1>4, <1>9
  <2>2. DecisionRow(o)' = DecisionRow(o)
    BY <1>1, <2>1 DEF DecisionRow, Candidate, ActsAutomatically
  <2>. QED
    BY <1>1, <1>9, <2>1, <2>2 DEF Explained, Says
<1>. QED
  BY <1>6, <1>7, <1>8, <1>9 DEF Explained

LEMMA WriteStatusMoves ==
  ASSUME IInv, RunsHaveMet, MovesHaveReasons, NEW r \in Run, WriteStatus(r)
  PROVE  RunsHaveMet' /\ MovesHaveReasons'
<1>. DEFINE k == [run[r] EXCEPT !.step = "note"]
            i == Candidate(r).job
            result == ResultingStatus(r)
<1>1. /\ run[r].step = "write" /\ run[r].at <= Len(run[r].reviews)
      /\ run' = [run EXCEPT ![r] = k]
      /\ job' = [job EXCEPT ![i].status = result]
      /\ UNCHANGED <<scrape, decision, said>>
  BY DEF WriteStatus, ReviewsLeft, historyVars
<1>2. /\ run[r].at \in 1..Len(run[r].reviews) /\ i \in Job
      /\ i = run[r].reviews[run[r].at].job
  BY <1>1, CandidateIsThere DEF Candidate
<1>3. /\ k.step = "note" /\ k.next = run[r].next /\ k.reviews = run[r].reviews
      /\ k.found = run[r].found /\ k.previous = run[r].previous /\ k.at = run[r].at
      /\ k.verdict = run[r].verdict /\ k.posting = run[r].posting
  BY HandsAreThere DEF RunState
<1>4. run'[r] = k
  BY <1>1 DEF IInv, Types
<1>. HIDE DEF k
<1>5. DecisionRow(r)' = DecisionRow(r)
  BY <1>3, <1>4 DEF DecisionRow, Candidate, ActsAutomatically
<1>6. /\ job'[i].status = result /\ \A j \in Job : job'[j].posting = job[j].posting
      /\ \A j \in Job : j # i => job'[j].status = job[j].status
  BY <1>1, <1>2 DEF IInv, Types, JobRow
<1>7. ~BrokeOff(r)
  BY <1>1, InvariantParts DEF BrokeOff, WellPlaced
<1>8. ASSUME NEW j \in Job, Past(run[r], j) PROVE Past(k, j)
  BY <1>1, <1>3, <1>8 DEF Past
<1>9. ASSUME NEW j \in Job, NEW status, job'[j].status = status, job[j].status # status
      PROVE  HasRead(run[r], j, status) \/ Explained(j, status)'
  <2>1. j = i /\ status = result
    BY <1>6, <1>9
  <2>2. CASE ActsAutomatically(r)
    <3>1. Says(DecisionRow(r), j, status)
      BY <2>1, <2>2 DEF Says, DecisionRow, ResultingStatus
    <3>. QED
      BY <1>3, <1>4, <1>5, <3>1 DEF Explained, Says
  <2>3. CASE ~ActsAutomatically(r)
    <3>1. status = run[r].reviews[run[r].at].previous
      BY <2>1, <2>3 DEF ResultingStatus, Candidate
    <3>. QED
      BY <1>2, <2>1, <3>1 DEF HasRead
  <2>. QED
    BY <2>2, <2>3
<1>. QED
  BY <1>1, <1>3, <1>6, <1>7, <1>8, <1>9, HandsAreThere, LateStepMoves

LEMMA NoteDecisionMoves ==
  ASSUME IInv, RunsHaveMet, MovesHaveReasons, NEW r \in Run, NoteDecision(r)
  PROVE  RunsHaveMet' /\ MovesHaveReasons'
<1>. DEFINE k == [run[r] EXCEPT !.step = "write", !.at = @ + 1]
            i == Candidate(r).job
            row == DecisionRow(r)
<1>1. /\ run[r].step = "note" /\ run' = [run EXCEPT ![r] = k]
      /\ decision' = {d \in decision : d.run # r \/ d.job # i} \cup {row}
      /\ UNCHANGED <<job, scrape, said>>
  BY DEF NoteDecision, historyVars
<1>2. /\ scrape[r].status = "processing" /\ run[r].at <= Len(run[r].reviews)
  BY <1>1, InvariantParts DEF WellPlaced
<1>3. run[r].at \in 1..Len(run[r].reviews) /\ i = run[r].reviews[run[r].at].job
  BY <1>1, <1>2, CandidateIsThere DEF Candidate
<1>4. /\ k.step = "write" /\ k.next = run[r].next /\ k.reviews = run[r].reviews
      /\ k.found = run[r].found /\ k.previous = run[r].previous /\ k.at = run[r].at + 1
  BY HandsAreThere DEF RunState
<1>5. run'[r] = k
  BY <1>1 DEF IInv, Types
<1>6. row.run = r /\ row.job = i
  BY DEF DecisionRow
<1>. HIDE DEF k, i
<1>7. ~BrokeOff(r)
  BY <1>1, <1>2 DEF BrokeOff
<1>8. ASSUME NEW j \in Job, NEW status, NEW d \in decision, Says(d, j, status), Past(run[d.run], j)
      PROVE  d \in decision' /\ (d.run = r => Past(k, j))
  <2>1. CASE d.run = r
    <3>1. \A n \in 1..Len(run[r].reviews) : run[r].reviews[n].job = j => n < run[r].at
      BY <1>1, <1>8, <2>1 DEF Past
    <3>2. d.job # i
      BY <1>3, <1>8, <3>1, HandsAreThere DEF Says
    <3>3. Past(k, j)
      BY <1>4, <3>1, HandsAreThere DEF Past
    <3>. QED
      BY <1>1, <3>2, <3>3
  <2>2. CASE d.run # r
    BY <1>1, <2>2
  <2>. QED
    BY <2>1, <2>2
<1>9. ASSUME NEW j \in Job, NEW status, MetOnce(j), Says(row, j, status)
      PROVE  Explained(j, status)'
  <2>1. j = i /\ MeetsOnce(r, job[i].posting)
    BY <1>2, <1>6, <1>9 DEF Says, MetOnce
  <2>2. \A n \in 1..Len(run[r].reviews) : run[r].reviews[n].job = i => n = run[r].at
    BY <1>3, <2>1 DEF RunsHaveMet, Met
  <2>3. Past(k, j)
    BY <1>4, <2>1, <2>2, HandsAreThere DEF Past
  <2>4. row \in decision' /\ Past(run'[row.run], j)
    BY <1>1, <1>5, <1>6, <2>3
  <2>. QED
    BY <1>9, <2>4 DEF Explained, Says
<1>. HIDE DEF row
<1>10. \A j \in Job : \A status \in {"shortlisted", "archived"} :
         MetOnce(j) /\ said[j] = "nothing" =>
         /\ \A d \in decision : Says(d, j, status) /\ Past(run[d.run], j) =>
              d \in decision' /\ (d.run = r => Past(k, j))
         /\ run[r].step = "note" /\ Says(DecisionRow(r), j, status) => Explained(j, status)'
         /\ job'[j].status = status /\ job[j].status # status =>
              HasRead(run[r], j, status) \/ Explained(j, status)'
  BY <1>1, <1>8, <1>9 DEF row
<1>. QED
  BY <1>1, <1>4, <1>7, <1>10, HandsAreThere, LateStepMoves

\* A run that is over.
LEMMA OverMoves ==
  ASSUME IInv, RunsHaveMet, MovesHaveReasons, NEW r \in Run,
         FinishRun(r) \/ FailRun(r) \/ Throw(r) \/ Die(r)
  PROVE  RunsHaveMet' /\ MovesHaveReasons'
<1>1. PICK step \in {"done", "failing", "dead"} :
        run' = [run EXCEPT ![r] = [IdleRun EXCEPT !.step = step]]
  BY DEF FinishRun, FailRun, End, Throw, Die
<1>. DEFINE k == [IdleRun EXCEPT !.step = step]
<1>2. /\ k.step = step /\ k.reviews = <<>> /\ k.found = NoJob /\ k.next = 1
  BY DEF IdleRun
<1>3. run' = [run EXCEPT ![r] = k]
  BY <1>1
<1>. HIDE DEF k
<1>4. run'[r] = k
  BY <1>3 DEF IInv, Types
<1>5. /\ UNCHANGED <<job, decision, said>>
      /\ \A o \in Run \ {r} : scrape'[o].status = scrape[o].status
      /\ scrape'[r].status = "absent" => scrape[r].status = "absent"
      /\ FailRun(r) => scrape'[r].status = "failed"
      /\ Throw(r) \/ Die(r) => scrape' = scrape
  BY DEF FinishRun, FailRun, End, Throw, Die, boardVars, historyVars, IInv, Types, ScrapeRow
<1>6. \A j \in Job : Past(k, j)
  BY <1>2 DEF Past
<1>7. FinishRun(r) => run[r].step = "write" /\ scrape[r].status = "processing"
  BY InvariantParts DEF FinishRun, WellPlaced
<1>8. Throw(r) \/ Die(r) => k.step \in {"failing", "dead"}
  BY <1>4 DEF Throw, Die, IdleRun, IInv, Types
<1>9. BrokeOff(r) => BrokeOff(r)'
  BY <1>4, <1>5, <1>7, <1>8 DEF BrokeOff
<1>10. ASSUME run[r].step = "note", NEW j, NEW status PROVE Explained(j, status)'
  <2>1. Throw(r) \/ Die(r)
    BY <1>7, <1>10 DEF FailRun
  <2>2. scrape[r].status = "processing"
    BY <1>10, InvariantParts DEF WellPlaced
  <2>. QED
    BY <1>4, <1>5, <1>8, <2>1, <2>2 DEF Explained, BrokeOff
<1>11. \A j \in Job : \A status \in {"shortlisted", "archived"} :
         MetOnce(j) /\ said[j] = "nothing" =>
         /\ \A d \in decision : Says(d, j, status) /\ Past(run[d.run], j) =>
              d \in decision' /\ (d.run = r => Past(k, j))
         /\ run[r].step = "note" /\ Says(DecisionRow(r), j, status) => Explained(j, status)'
         /\ job'[j].status = status /\ job[j].status # status =>
              HasRead(run[r], j, status) \/ Explained(j, status)'
  BY <1>5, <1>6, <1>10
<1>12. \A j \in Job : job'[j].posting = job[j].posting
  BY <1>5
<1>13. /\ k.step \notin {"idle", "create", "find", "record"} /\ k.next \in Nat
       /\ k.reviews = <<>> /\ k.found = NoJob /\ said' = said
  BY <1>2, <1>5
<1>14. /\ \A o \in Run \ {r} : scrape'[o].status = scrape[o].status
       /\ scrape'[r].status = "absent" => scrape[r].status = "absent"
  BY <1>5
<1>. QED
  BY <1>3, <1>9, <1>11, <1>12, <1>13, <1>14, LateStepMoves

\* What explains a move hangs on the runs and on the decisions.
LEMMA SameExplanations ==
  ASSUME UNCHANGED <<run, scrape, decision>>, NEW j, NEW status, Explained(j, status)
  PROVE  Explained(j, status)'
<1>1. \A r \in Run : /\ BrokeOff(r)' <=> BrokeOff(r)
                     /\ DecisionRow(r)' = DecisionRow(r)
  BY DEF BrokeOff, DecisionRow, Candidate, ActsAutomatically
<1>. QED
  BY <1>1 DEF Explained, Says

LEMMA DecideMoves ==
  ASSUME IInv, RunsHaveMet, MovesHaveReasons, NEW i \in Job, NEW s \in {"shortlisted", "archived"},
         Decide(i, s)
  PROVE  RunsHaveMet' /\ MovesHaveReasons'
<1>1. UNCHANGED <<run, scrape, decision>>
  BY DEF Decide, scoutVars
<1>2. /\ \A j \in Job : job'[j].posting = job[j].posting
      /\ \A j \in Job : j # i => job'[j] = job[j] /\ said'[j] = said[j]
      /\ said'[i] = s
  BY DEF Decide, IInv, Types, JobRow
<1>3. RunsHaveMet'
  <2>. SUFFICES ASSUME NEW r \in Run PROVE Met(r, run[r], job', scrape[r].status)
    BY <1>1 DEF RunsHaveMet
  <2>1. /\ \A n \in 1..Len(run[r].reviews) :
             job'[run[r].reviews[n].job].posting = job[run[r].reviews[n].job].posting
        /\ run[r].found # NoJob => job'[run[r].found].posting = job[run[r].found].posting
    BY <1>2, HandsAreThere
  <2>. QED
    BY <2>1 DEF RunsHaveMet, Met
<1>4. ASSUME NEW j \in Job, NEW status \in {"shortlisted", "archived"}, AtStake(j, status)'
      PROVE  AtStake(j, status)
  <2>1. j # i
    BY <1>2, <1>4 DEF AtStake
  <2>. QED
    BY <1>1, <1>2, <1>4, <2>1 DEF AtStake, MetOnce, MeetsOnce
<1>5. \A j, status : Explained(j, status) => Explained(j, status)'
  BY <1>1, SameExplanations
<1>. QED
  BY <1>3, <1>4, <1>5 DEF MovesHaveReasons

LEMMA QuietMoves ==
  ASSUME RunsHaveMet, MovesHaveReasons, UNCHANGED <<job, run, scrape, decision, said>>
  PROVE  RunsHaveMet' /\ MovesHaveReasons'
<1>1. RunsHaveMet'
  BY DEF RunsHaveMet, Met
<1>2. \A j \in Job : \A status : AtStake(j, status)' => AtStake(j, status)
  BY DEF AtStake, MetOnce
<1>3. \A j, status : Explained(j, status) => Explained(j, status)'
  BY SameExplanations
<1>. QED
  BY <1>1, <1>2, <1>3 DEF MovesHaveReasons

LEMMA InitMoves == Init => RunsHaveMet /\ MovesHaveReasons
<1>. SUFFICES ASSUME Init PROVE RunsHaveMet /\ MovesHaveReasons
  OBVIOUS
<1>1. \A r \in Run : /\ run[r].step = "idle" /\ run[r].reviews = <<>> /\ run[r].found = NoJob
                     /\ scrape[r].status = "absent"
  BY DEF Init, IdleRun
<1>2. \A j \in Job : job[j].status = "absent"
  BY DEF Init, AbsentJob
<1>3. RunsHaveMet
  BY <1>1 DEF RunsHaveMet, Met
<1>4. \A j \in Job : \A status \in {"shortlisted", "archived"} : ~AtStake(j, status)
  BY <1>1, <1>2 DEF AtStake, HasRead, Job, NoJob
<1>. QED
  BY <1>3, <1>4 DEF MovesHaveReasons

LEMMA StepMoves ==
  ASSUME IInv, RunsAreWhole, RunsHaveMet, MovesHaveReasons, [Next]_vars
  PROVE  RunsHaveMet' /\ MovesHaveReasons'
<1>1. ASSUME NEW r \in Run, RunStepOf(r) PROVE RunsHaveMet' /\ MovesHaveReasons'
  <2>1. CASE \/ \E key \in Key \cup {NoKey} : LookUpKey(r, key)
             \/ CreateRun(r) \/ FindJob(r) \/ SkipRecord(r) \/ LinkRecord(r) \/ CreateJob(r)
    BY <2>1, LookUpKeyMoves, CreateRunMoves, FindJobMoves, SkipRecordMoves, LinkRecordMoves,
       CreateJobMoves
  <2>2. CASE \E created \in BOOLEAN : FailRecord(r, created)
    BY <2>2, FailRecordMoves
  <2>3. CASE \/ ReviewJobs(r) \/ TakeCheck(r) \/ AskCheck(r) \/ CheckFails(r)
             \/ \E status \in Answers : CheckAnswered(r, status)
    BY <2>3, ReviewJobsMoves, ChecksMoves, AskCheckMoves
  <2>4. CASE WriteStatus(r) \/ NoteDecision(r) \/ FinishRun(r) \/ FailRun(r) \/ Throw(r) \/ Die(r)
    BY <2>4, WriteStatusMoves, NoteDecisionMoves, OverMoves
  <2>. QED
    BY <1>1, <2>1, <2>2, <2>3, <2>4 DEF RunStepOf
<1>2. CASE UserStep
  <2>1. ASSUME NEW j \in Job, NEW status \in Answers, CheckPosting(j, status)
        PROVE  RunsHaveMet' /\ MovesHaveReasons'
    BY <2>1, QuietMoves DEF CheckPosting, scoutVars, historyVars
  <2>. QED
    BY <1>2, <2>1, DecideMoves DEF UserStep
<1>3. ASSUME NEW s \in Starter, StarterStepOf(s) PROVE RunsHaveMet' /\ MovesHaveReasons'
  BY <1>3, QuietMoves
     DEF StarterStepOf, BeginStart, CommitStart, EnqueueStart, StartFails, boardVars, scoutVars,
         historyVars
<1>4. ASSUME NEW j \in Job, Expire(j) PROVE RunsHaveMet' /\ MovesHaveReasons'
  BY <1>4, QuietMoves DEF Expire, scoutVars, historyVars
<1>5. CASE UNCHANGED vars
  BY <1>5, QuietMoves DEF vars, boardVars, scoutVars, historyVars
<1>. QED
  BY <1>1, <1>2, <1>3, <1>4, <1>5 DEF Next

\* When no run is under way and none has broken off, the reason is a decision.
LEMMA ReasonsExplain == IInv /\ MovesHaveReasons => MovesAreExplained
<1>. SUFFICES ASSUME IInv, MovesHaveReasons, NEW j \in Job, JobExists(j),
                     job[j].status # "discovered", said[j] = "nothing",
                     \A r \in Run : scrape[r].status \notin {"processing", "failed"},
                     \A r \in Run : \A m, n \in DOMAIN RecordsOf[r] :
                       /\ scrape[r].status # "absent"
                       /\ RecordsOf[r][m] = job[j].posting /\ RecordsOf[r][n] = job[j].posting
                       => m = n
              PROVE  \E d \in decision : d.job = j /\ d.auto /\ StatusFor(d.verdict) = job[j].status
  BY DEF MovesAreExplained
<1>1. job[j].status \in {"shortlisted", "archived"}
  BY DEF IInv, Types, JobRow, JobStatus, JobExists
<1>2. MetOnce(j)
  BY RecordsTyped, LenProperties DEF MetOnce, MeetsOnce
<1>3. Explained(j, job[j].status)
  BY <1>1, <1>2 DEF MovesHaveReasons, AtStake
<1>4. \A r \in Run : ~BrokeOff(r) /\ run[r].step # "note"
  BY InvariantParts DEF BrokeOff, WellPlaced
<1>. QED
  BY <1>3, <1>4 DEF Explained, Says

\* A job that left the inbox without the user has an automatic decision that
\* says so, unless some run broke off or met its posting twice.
THEOREM MovesHaveDecisions == Spec => []MovesAreExplained
<1>1. Init => RunsHaveMet /\ MovesHaveReasons
  BY InitMoves
<1>2. IInv /\ RunsAreWhole /\ (RunsHaveMet /\ MovesHaveReasons) /\ [Next]_vars
        => (RunsHaveMet /\ MovesHaveReasons)'
  BY StepMoves
<1>3. IInv /\ (RunsHaveMet /\ MovesHaveReasons) => MovesAreExplained
  BY ReasonsExplain
<1>. QED
  BY <1>1, <1>2, <1>3, BoardInvariant, ScoutRunInvariant, PTL DEF Spec

==============================================================================
