------------------------------ MODULE Readiness ------------------------------
(***************************************************************************)
(* evaluateApplicationReadiness (packages/readiness/src/index.ts): from    *)
(* the records of an application to what blocks its submit review, how far *)
(* it is, and what to do next; and what the page shows of an answer.       *)
(*                                                                         *)
(* A stored answer is a record {value, required, ...} with a value that is *)
(* a text, blank or null: the page stores a trimmed text, Latch and the    *)
(* profile store null where there is no value.  `attached' holds the       *)
(* résumé versions of the résumé attachments.                              *)
(***************************************************************************)
EXTENDS Integers, FiniteSets

CONSTANT NoVersion      \* no résumé version

Answer == [value : {"text", "blank", "null"}, required : BOOLEAN,
           reviewState : {"accepted", "needs_review", "blocked"}, sure : BOOLEAN]

\* The applications with the given answer fields and résumé versions.
Application(fields, versions) ==
  [tailored : versions \cup {NoVersion}, attached : SUBSET (versions \cup {NoVersion}),
   answers : UNION {[some -> Answer] : some \in SUBSET fields},
   session : {"none", "not_started", "in_progress", "ready_for_review", "submitted", "abandoned"}]

Answers(i) == {i.answers[f] : f \in DOMAIN i.answers}
Fields(i, Test(_)) == {f \in DOMAIN i.answers : Test(i.answers[f])}

----------------------------------------------------------------------------

\* `value ?? answerJson': a null value gives the record it is stored in.
extractValue(a) == IF a.value = "null" THEN "record" ELSE a.value

isRequired(a) == a.required

\* Faulty variant: a text is not trimmed.
hasValueUntrimmed(v) == v # "null"

hasValue(v) == v \notin {"null", "blank"}

\* What the page and the packet show of it: `record.value ?? null'.
answerValueFromJson(a) == a.value

Required(i) == Fields(i, isRequired)
Missing(i) == {f \in Required(i) : ~hasValue(extractValue(i.answers[f]))}
Blocked(i) == Fields(i, LAMBDA a : a.reviewState = "blocked")
LowConfidence(i) == Fields(i, LAMBDA a : a.reviewState = "needs_review" \/ ~a.sure)

HasTailored(i) == i.tailored # NoVersion
MatchingAttachment(i) == HasTailored(i) /\ i.tailored \in i.attached

hardBlockers(i) ==
  {b \in {"tailored_resume_missing", "resume_attachment_missing", "resume_attachment_mismatch",
          "required_answers_missing", "blocked_answers_present"} :
     CASE b = "tailored_resume_missing" -> ~HasTailored(i)
       [] b = "resume_attachment_missing" -> i.attached = {}
       [] b = "resume_attachment_mismatch" ->
            i.attached # {} /\ HasTailored(i) /\ ~MatchingAttachment(i)
       [] b = "required_answers_missing" -> Missing(i) # {}
       [] b = "blocked_answers_present" -> Blocked(i) # {}}

softWarnings(i) ==
  {w \in {"low_confidence_answers_present", "portal_session_missing", "portal_session_not_ready"} :
     CASE w = "low_confidence_answers_present" -> LowConfidence(i) # {}
       [] w = "portal_session_missing" -> i.session = "none"
       [] w = "portal_session_not_ready" ->
            i.session \notin {"none", "ready_for_review", "submitted"}}

\* Thirds of a hundred, the answers' third in proportion, rounded.
completionPercent(i) ==
  LET n == IF Required(i) = {} THEN 1 ELSE Cardinality(Required(i))
      done == IF Required(i) = {} THEN 1 ELSE Cardinality(Required(i) \ Missing(i))
      resume == (IF HasTailored(i) THEN 1 ELSE 0) + (IF MatchingAttachment(i) THEN 1 ELSE 0)
  IN  (200 * (resume * n + done) + 3 * n) \div (6 * n)

recommendedNextAction(i) ==
  CASE ~HasTailored(i) -> "select_resume"
    [] HasTailored(i) /\ i.attached = {} -> "attach_resume"
    [] HasTailored(i) /\ i.attached # {} /\ Missing(i) # {} -> "complete_answers"
    [] OTHER -> CASE Blocked(i) # {} -> "resolve_blocked"
                  [] Blocked(i) = {} /\ LowConfidence(i) # {} -> "review_answers"
                  [] OTHER -> IF i.session = "none" THEN "register_session" ELSE "final_review"

ready(i) == hardBlockers(i) = {}

----------------------------------------------------------------------------

\* From the 67th required answer on, the third of the answers rounds up to a whole
\* one when a single answer is missing.
RoundsUp == 67

\* The required answers that count as given while page and packet show no text.
GivenButNotShown(i) ==
  {f \in Required(i) \ Missing(i) : answerValueFromJson(i.answers[f]) # "text"}

\* Where the three summaries of one application, and what the page shows of it,
\* differ.  Readiness and completion: only by a missing answer that the rounding
\* hides.  Readiness and next action: only when nothing is wrong but the attached
\* file, which is another version's; the final review is then recommended although
\* the application is not ready.  Count and page: exactly by the required answers
\* that were stored as null, which count as given and show nothing.
SummariesDifferOnlyHere(i) ==
  /\ ready(i) =>
       /\ completionPercent(i) = 100 /\ Blocked(i) = {}
       /\ recommendedNextAction(i) \in {"review_answers", "register_session", "final_review"}
  /\ completionPercent(i) = 100 /\ ~ready(i) =>
       Blocked(i) # {} \/ (Missing(i) # {} /\ Cardinality(Required(i)) >= RoundsUp)
  /\ recommendedNextAction(i) = "final_review" /\ ~ready(i) <=>
       /\ hardBlockers(i) = {"resume_attachment_mismatch"}
       /\ softWarnings(i) \subseteq {"portal_session_not_ready"}
  /\ GivenButNotShown(i) = {f \in Required(i) : i.answers[f].value = "null"}

==============================================================================
