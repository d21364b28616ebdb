---------------------------- MODULE LatchContract ----------------------------
(***************************************************************************)
(* What the Latch worker makes of its agent's reply (workers/latch/src/    *)
(* agent.ts, packages/contracts/src/latch.ts): the request is checked, the *)
(* reply is brought into one shape from the two its agents use, and it is  *)
(* then validated, by itself and against the request.                      *)
(*                                                                         *)
(* Texts are left out.  `complete' says that the fields not modelled have  *)
(* the types the contract gives them; a list is the set of the kinds of    *)
(* its items.                                                              *)
(***************************************************************************)
EXTENDS FiniteSets

\* `issues': what the schema of a request objects to; `ours': the request names
\* the agent this worker is configured for.
Request == [issues : SUBSET {"boundary", "other"}, ours : BOOLEAN]

\* An item of a list of blockers: a text, an object with a code of the contract
\* or another one, such an object with `hard: false', or anything else.
Item == {"text", "coded", "miscoded", "soft", "junk"}

\* The version a reply names, compared with the one that was handed to it.
Named == {"none", "same", "other", "empty"}

Reply ==
  [shape : {"readiness", "result", "neither"}, complete : BOOLEAN,
   status : {"completed", "blocked", "failed"}, failure : BOOLEAN,
   ready : BOOLEAN, blockers : {{}} \cup {{list} : list \in SUBSET Item},
   application : BOOLEAN, intent : BOOLEAN, boundary : BOOLEAN, policy : BOOLEAN,
   selected : Named, attached : Named]

----------------------------------------------------------------------------

\* A field that is not an array counts as an empty one.
Listed(reply) == UNION reply.blockers

Objects(items) == items \cap {"coded", "miscoded", "soft"}

\* normalizeReadinessIssues: the code a listed item gets.
IssueCode(item) == IF item = "miscoded" THEN "miscoded" ELSE "coded"

\* Faulty variant: an item that is only a text is dropped.
normalizeReadinessIssuesObjects(items) == {IssueCode(item) : item \in Objects(items)}

normalizeReadinessIssues(items) == {IssueCode(item) : item \in items}

\* The readiness of the reply in the contract's shape.  The `result' shape tells
\* hard blockers from soft ones among its objects; what is no object is dropped.
Readiness(reply) ==
  IF reply.shape = "readiness"
  THEN [ready |-> reply.ready,
        hardBlockers |-> normalizeReadinessIssues(Listed(reply)),
        softWarnings |-> {}]
  ELSE LET hard == Objects(Listed(reply)) \ {"soft"}
       IN  [ready |-> reply.status = "completed" /\ hard = {},
            hardBlockers |-> normalizeReadinessIssues(hard),
            softWarnings |-> normalizeReadinessIssues(Objects(Listed(reply)) \ hard)]

\* A reply that selects no résumé is given the one of the request, and one that
\* attaches none the one it selects.
SelectedResume(reply) == IF reply.selected = "none" THEN "same" ELSE reply.selected
AttachedResume(reply) ==
  IF reply.attached = "none" THEN SelectedResume(reply) ELSE reply.attached

buildLatchTaskRequest(request) ==
  CASE request.issues = {"boundary"} -> "latch_agent_invalid_boundary"
    [] "other" \in request.issues -> "latch_agent_invalid_request"
    [] OTHER -> IF request.ours THEN "ok" ELSE "latch_agent_invalid_boundary"

MatchesSchema(reply) ==
  /\ reply.shape # "neither" /\ reply.complete /\ reply.policy /\ reply.intent /\ reply.boundary
  /\ "miscoded" \notin Readiness(reply).hardBlockers \cup Readiness(reply).softWarnings

validateLatchAgentResponse(reply) ==
  /\ MatchesSchema(reply)
  /\ reply.status = "failed" <=> reply.failure
  /\ ~(Readiness(reply).ready /\ Readiness(reply).hardBlockers # {})
  /\ reply.status = "blocked" =>
       ~Readiness(reply).ready /\ Readiness(reply).hardBlockers # {}

\* An empty selection passes, and the attached version is not looked at.
MatchesRequest(reply) == reply.application /\ SelectedResume(reply) \in {"same", "empty"}

Verdict(request, reply) ==
  CASE buildLatchTaskRequest(request) # "ok" -> buildLatchTaskRequest(request)
    [] OTHER -> CASE ~validateLatchAgentResponse(reply) -> "latch_agent_invalid_response"
                  [] OTHER -> IF MatchesRequest(reply) THEN "accepted"
                              ELSE "latch_agent_response_mismatch"

----------------------------------------------------------------------------

\* The blockers a reply gives, in the words of its shape.
Blockers(reply) ==
  IF reply.shape = "result" THEN Listed(reply) \ {"soft"} ELSE Listed(reply)

\* What an accepted reply may hide, and no more.  It is taken for ready against a
\* blocker it gives only if it is a result and none of its blockers is an object:
\* those are dropped.  A blocked one is not ready and keeps a blocker.  One that is
\* not completed is ready only by its own word.  The résumé it selects is the
\* approved one or none, but the version it attaches is any it names.
HidesOnlyWhatIsDropped(request, reply) ==
  Verdict(request, reply) = "accepted" =>
    /\ Readiness(reply).ready /\ Blockers(reply) # {} =>
         reply.shape = "result" /\ Objects(Blockers(reply)) = {}
    /\ reply.status = "blocked" =>
         /\ ~Readiness(reply).ready /\ Blockers(reply) # {}
         /\ reply.shape = "result" => Objects(Blockers(reply)) # {}
    /\ Readiness(reply).ready /\ reply.status # "completed" =>
         reply.shape = "readiness" /\ reply.ready
    /\ SelectedResume(reply) \in {"same", "empty"}
    /\ AttachedResume(reply) = "other" => reply.attached = "other"

==============================================================================
