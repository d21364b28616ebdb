-------------------------------- MODULE Rules --------------------------------
(***************************************************************************)
(* The pure rules of the system, each asked of every question of a kind: a *)
(* state is a question, and its only steps are to the next question and,   *)
(* for an application that moves about the pages, to where it moves.       *)
(***************************************************************************)
EXTENDS Integers, Sequences, FiniteSets, ResumeLayout

Scout == INSTANCE ScoutRules
Ready == INSTANCE Readiness WITH NoVersion <- "none"
Latch == INSTANCE LatchContract
Fill == INSTANCE Density
Site == INSTANCE Pages

CONSTANTS
  Ages,           \* postings: their ages in days
  Counts,         \* how often people agreed with Scout or overrode it
  AnswerFields,   \* answer fields of an application
  Versions,       \* its résumé versions
  Exchanges,      \* requests to the Latch agent, with its replies
  Documents,      \* résumés
  Baselines,      \* the layouts of the résumés drafts start from
  FirstDrafts,    \* drafts, with their layouts
  SecondDrafts    \* drafts made when a denser one was asked for

ASSUME PostingsAssumption == Ages \subseteq Nat /\ Counts \subseteq Nat

ASSUME FieldsAssumption == IsFiniteSet(AnswerFields)

ASSUME ExchangesAssumption == Exchanges \subseteq Latch!Request \X Latch!Reply

ASSUME DocumentsAssumption == Documents \subseteq Document

ASSUME DraftsAssumption ==
  Baselines \subseteq Fill!Measure /\ FirstDrafts \cup SecondDrafts \subseteq Fill!Candidate

VARIABLE question
vars == <<question>>

----------------------------------------------------------------------------

AskPosting ==
  \E posting \in Scout!Posting(Ages), history \in Scout!History(Counts) :
    question' = [topic |-> "posting", posting |-> posting, history |-> history]

AskReadiness ==
  \E application \in Ready!Application(AnswerFields, Versions) :
    question' = [topic |-> "readiness", application |-> application]

AskReply ==
  \E exchange \in Exchanges :
    question' = [topic |-> "reply", request |-> exchange[1], reply |-> exchange[2]]

AskDocument ==
  \E document \in Documents : question' = [topic |-> "document", document |-> document]

AskDraft ==
  \E layout \in Baselines, first \in FirstDrafts, second \in SecondDrafts :
    question' = [topic |-> "draft", base |-> Fill!buildDensityBaselineProfile(layout),
                 first |-> first, second |-> second]

AskApplication == question' = [topic |-> "application", application |-> Site!Created]

\* What a form on a page, or a worker, makes of the application.
ApplicationMoves ==
  /\ question.topic = "application"
  /\ \E next \in Site!Step(question.application) :
       question' = [topic |-> "application", application |-> next]

----------------------------------------------------------------------------

Init == question = [topic |-> "none"]

Ask ==
  /\ question.topic = "none"
  /\ AskPosting \/ AskReadiness \/ AskReply \/ AskDocument \/ AskDraft \/ AskApplication

Answered == question.topic # "none" /\ question' = [topic |-> "none"]

Next == Ask \/ ApplicationMoves \/ Answered

Spec == Init /\ [][Next]_vars

----------------------------------------------------------------------------

\* A doubt about a posting's title, its scores or its risks sends it to a person,
\* and no other doubt does; nothing is archived without one
\* (buildScoutDecisionDraft).  That a missing salary or a history of archived jobs
\* does not, and that the archiving rule never applies, differs from what the
\* specification of the first milestone and the decision's own reasons say.
OnlyBarringDoubtsGoToAPerson ==
  question.topic = "posting" =>
    Scout!OnlyBarringDoubtsGoToAPerson(question.posting, question.history)

\* Scout treats no posting worse for saying more in its favour (scoreScoutJob and
\* buildScoutDecisionDraft).
BetterIsNotWorse ==
  question.topic = "posting" => Scout!BetterIsNotWorse(question.posting, question.history)

\* The readiness verdict, the completion, the next action and the answers shown
\* differ in three ways and no other: a rounded completion, a final review that is
\* recommended for the wrong file, and a required answer that is null
\* (evaluateApplicationReadiness, answerValueFromJson).
SummariesDifferOnlyHere ==
  question.topic = "readiness" => Ready!SummariesDifferOnlyHere(question.application)

\* A reply of the Latch agent that is accepted hides no blocker but those that a
\* result gives as texts, and selects no other résumé; the version it attaches is
\* not checked (normalizeLatchAgentResponse and the validations behind it).
HidesOnlyWhatIsDropped ==
  question.topic = "reply" => Latch!HidesOnlyWhatIsDropped(question.request, question.reply)

\* A résumé is printed in full, on the paper, and what is wrapped within its boxes;
\* header lines and titles may be too long for theirs (buildLayout, paginate,
\* pageContentStream, buildLayoutMetrics).
ResumeIsWhole == question.topic = "document" => PrintedWhole(question.document)

\* Asking for a denser draft does no harm to the one there is
\* (analyzeResumeDensity and chooseBestDensityCandidate).
RetryDoesNoHarm ==
  question.topic = "draft" =>
    Fill!RetryDoesNoHarm(question.first, question.second, question.base)

\* The pages offer every reached application a way to its submission.
HasAWayOut == question.topic = "application" => Site!HasAWayOut(question.application)

==============================================================================
