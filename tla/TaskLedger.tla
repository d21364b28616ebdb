----------------------------- MODULE TaskLedger -----------------------------
(***************************************************************************)
(* What a work queue of this system promises about every task it holds,   *)
(* whatever the workers and the web clients do: a task is created queued,  *)
(* its work is started at most once and only while it is queued, only a    *)
(* started task is completed, and nothing ever puts a task back into the   *)
(* queue.  NeedleQueue is shown to implement this specification.           *)
(*                                                                         *)
(* The promise is deliberately silent on how long a settled task keeps its *)
(* outcome: the code updates a task by its id alone, so a late worker or a *)
(* late recovery may still turn `failed' into `completed' or back.         *)
(***************************************************************************)

CONSTANT Task               \* the identities of the tasks

VARIABLES ledger,           \* the status of each task
          started           \* the tasks some worker has begun to execute

ledgerVars == <<ledger, started>>

Unsettled == {"queued", "processing"}
Settled   == {"completed", "failed"}
Status    == {"absent"} \cup Unsettled \cup Settled

Init ==
  /\ ledger = [t \in Task |-> "absent"]
  /\ started = {}

Create(t) ==
  /\ ledger[t] = "absent"
  /\ ledger' = [ledger EXCEPT ![t] = "queued"]
  /\ UNCHANGED started

Start(t) ==
  /\ ledger[t] = "queued"
  /\ t \notin started
  /\ ledger' = [ledger EXCEPT ![t] = "processing"]
  /\ started' = started \cup {t}

Complete(t) ==
  /\ t \in started
  /\ ledger' = [ledger EXCEPT ![t] = "completed"]
  /\ UNCHANGED started

Fail(t) ==
  /\ t \in started
  /\ ledger' = [ledger EXCEPT ![t] = "failed"]
  /\ UNCHANGED started

\* A stale task r gives way to the new task t of the same request.
Replace(r, t) ==
  /\ ledger[r] # "absent"
  /\ ledger[t] = "absent"
  /\ ledger' = [ledger EXCEPT ![r] = "failed", ![t] = "queued"]
  /\ UNCHANGED started

Next ==
  \/ \E t \in Task : Create(t) \/ Start(t) \/ Complete(t) \/ Fail(t)
  \/ \E r, t \in Task : Replace(r, t)

Spec == Init /\ [][Next]_ledgerVars

=============================================================================
