----------------------------- MODULE RulesProofs -----------------------------
(***************************************************************************)
(* The rules, for every question of their kinds: postings of any age with  *)
(* any history, applications with any answer fields, every exchange with   *)
(* the Latch agent, drafts of any layout, and an application wherever the  *)
(* pages and the workers have brought it.                                  *)
(***************************************************************************)
EXTENDS Rules, LayoutProofs, FiniteSetTheorems, TLAPS

----------------------------------------------------------------------------
(* The instances count with copies of the standard operator.               *)

LEMMA OneCardinality ==
  /\ \A S : Scout!Cardinality(S) = Cardinality(S)
  /\ \A S : Ready!Cardinality(S) = Cardinality(S)
  BY DEF Scout!Cardinality, Ready!Cardinality, Cardinality

----------------------------------------------------------------------------
(* Scout's judgement of a posting.                                         *)

\* No posting scores as low as the rule for archiving asks.
LEMMA ScoresAreNumbers ==
  ASSUME NEW p
  PROVE  /\ Scout!fitScore(p) \in Int /\ Scout!fitScore(p) >= 55
         /\ Scout!companyQualityScore(p) \in Int /\ Scout!aiRelevanceScore(p) \in Int
         /\ Scout!freshnessScore(p) \in 35..90
         /\ Scout!priorityScore(p) \in Int
         /\ Scout!risks(p) \in Int
<1>1. Scout!freshnessScore(p) \in {90, 70, 35, 50}
  BY DEF Scout!freshnessScore, Scout!freshnessBucket, Scout!AgeBucket
<1>2. /\ Scout!fitScore(p) \in Int /\ Scout!fitScore(p) >= 55
      /\ Scout!companyQualityScore(p) \in Int /\ Scout!aiRelevanceScore(p) \in Int
  BY DEF Scout!fitScore, Scout!companyQualityScore, Scout!aiRelevanceScore, Scout!Points
<1>3. Scout!risks(p) \in Int
  BY DEF Scout!risks, Scout!Points
<1>4. \A n \in Int : n \div 100 \in Int
  OBVIOUS
<1>. QED
  BY <1>1, <1>2, <1>3, <1>4 DEF Scout!priorityScore

\* A posting that matches well is in doubt for two reasons at most.
LEMMA GoodMatchIsClear ==
  ASSUME NEW p, NEW h, Scout!GoodMatch(p)
  PROVE  Scout!ambiguityFlags(p, h) \subseteq {"salary_missing", "historical_archive_bias"}
<1>. SUFFICES ASSUME NEW flag \in Scout!ambiguityFlags(p, h)
              PROVE  flag \in {"salary_missing", "historical_archive_bias"}
  OBVIOUS
<1>1. /\ p.title = "exact"
      /\ ~(Scout!fitScore(p) < 72)
      /\ ~(Scout!priorityScore(p) < 78)
      /\ ~(Scout!risks(p) >= 2)
  BY ScoresAreNumbers DEF Scout!GoodMatch
<1>2. \/ flag = "adjacent_analyst_title" /\ p.title = "adjacent"
      \/ flag = "non_target_title" /\ p.title = "other"
      \/ flag \in {"salary_missing", "historical_archive_bias"}
      \/ Scout!fitScore(p) < 72
      \/ Scout!priorityScore(p) < 78
      \/ Scout!risks(p) >= 2
  BY DEF Scout!ambiguityFlags
<1>. QED
  BY <1>1, <1>2

\* What Scout decides by itself is to shortlist a good match.
LEMMA AutoIsGoodMatch ==
  ASSUME NEW p, NEW h
  PROVE  /\ Scout!GoodMatch(p) =>
              Scout!decision(p, h) = Scout!Decided("shortlist",
                                       Scout!ActsAt(Scout!shortlistConfidence(p, h)))
         /\ Scout!decision(p, h).auto => Scout!GoodMatch(p)
<1>1. ~Scout!PoorMatch(p)
  BY ScoresAreNumbers DEF Scout!PoorMatch
<1>2. CASE Scout!GoodMatch(p)
  BY <1>1, <1>2 DEF Scout!decision
<1>3. CASE ~Scout!GoodMatch(p)
  <2>1. Scout!decision(p, h).auto = FALSE
    BY <1>1, <1>3 DEF Scout!decision, Scout!Decided
  <2>. QED
    BY <1>3, <2>1
<1>. QED
  BY <1>2, <1>3

\* A good match is sure enough, with both of its doubts and any history.
LEMMA GoodMatchIsSure ==
  ASSUME NEW p, NEW h, Scout!GoodMatch(p)
  PROVE  Scout!ActsAt(Scout!shortlistConfidence(p, h))
<1>. DEFINE flags == Scout!ambiguityFlags(p, h)
            two == {"salary_missing"} \cup {"historical_archive_bias"}
<1>1. IsFiniteSet(two) /\ Cardinality(two) <= 2
  <2>1. IsFiniteSet({"salary_missing"}) /\ Cardinality({"salary_missing"}) = 1
    BY FS_Singleton
  <2>. QED
    BY <2>1, FS_AddElement
<1>2. Cardinality(flags) \in Nat /\ Cardinality(flags) <= 2
  <2>1. flags \subseteq two
    BY GoodMatchIsClear
  <2>. HIDE DEF flags, two
  <2>2. /\ IsFiniteSet(flags) /\ Cardinality(flags) <= Cardinality(two)
        /\ Cardinality(two) \in Nat
    BY <1>1, <2>1, FS_Subset, FS_CardinalityType
  <2>. QED
    BY <1>1, <2>2, FS_CardinalityType
<1>3. Scout!Cardinality(flags) = Cardinality(flags)
  BY OneCardinality
<1>4. Scout!shortlistConfidenceDelta(h) \in 0..12 /\ Scout!archiveConfidenceDelta(h) \in 0..12
  BY DEF Scout!shortlistConfidenceDelta, Scout!archiveConfidenceDelta, Scout!Points
<1>5. Scout!priorityScore(p) >= 78 /\ Scout!fitScore(p) >= 72 /\ Scout!risks(p) <= 1
  BY DEF Scout!GoodMatch
<1>. HIDE DEF flags
<1>6. /\ Scout!shortlistConfidence(p, h) \in Int
      /\ Scout!shortlistConfidence(p, h) >= 70000
  BY <1>2, <1>3, <1>4, <1>5, ScoresAreNumbers DEF Scout!shortlistConfidence, flags
<1>7. \A sum \in Int : sum >= 70000 => Scout!Hundredths(sum) >= 85
  BY DEF Scout!Hundredths
<1>. QED
  BY <1>6, <1>7 DEF Scout!ActsAt

LEMMA DoubtsGoToAPerson ==
  ASSUME NEW p, NEW h
  PROVE  Scout!OnlyBarringDoubtsGoToAPerson(p, h)
<1>1. Scout!GoodMatch(p) => /\ Scout!decision(p, h) = Scout!Decided("shortlist", TRUE)
                            /\ Scout!ambiguityFlags(p, h) \cap Scout!Barring = {}
  <2>. SUFFICES ASSUME Scout!GoodMatch(p)
                PROVE  /\ Scout!decision(p, h) = Scout!Decided("shortlist", TRUE)
                       /\ Scout!ambiguityFlags(p, h) \cap Scout!Barring = {}
    OBVIOUS
  <2>1. Scout!ActsAt(Scout!shortlistConfidence(p, h)) = TRUE
    BY GoodMatchIsSure DEF Scout!ActsAt
  <2>2. Scout!decision(p, h) = Scout!Decided("shortlist", TRUE)
    BY <2>1, AutoIsGoodMatch
  <2>3. Scout!ambiguityFlags(p, h) \cap Scout!Barring = {}
    BY GoodMatchIsClear DEF Scout!Barring
  <2>. QED
    BY <2>2, <2>3
<1>2. ~Scout!GoodMatch(p) =>
        Scout!decision(p, h) =
          Scout!Decided(IF Scout!Unclear(p, h) THEN "needs_human_review" ELSE "defer", FALSE)
  <2>1. ~Scout!PoorMatch(p)
    BY ScoresAreNumbers DEF Scout!PoorMatch
  <2>. QED
    BY <2>1 DEF Scout!decision
<1>3. Scout!ambiguityFlags(p, h) \cap Scout!Barring # {} => Scout!Unclear(p, h)
  BY DEF Scout!Unclear
<1>. QED
  BY <1>1, <1>2, <1>3 DEF Scout!OnlyBarringDoubtsGoToAPerson, Scout!Decided

\* An improved posting scores no less, has no more risks, and is in doubt for no
\* other reason than it was.
LEMMA BetterScores ==
  ASSUME NEW p \in Scout!Posting(Ages), NEW b \in Scout!Improved(p)
  PROVE  /\ b.title = p.title /\ (~b.paid => ~p.paid)
         /\ Scout!fitScore(b) >= Scout!fitScore(p)
         /\ Scout!priorityScore(b) >= Scout!priorityScore(p)
         /\ Scout!risks(b) <= Scout!risks(p)
<1>1. /\ b.title = p.title /\ (p.analyst = b.analyst) /\ (p.paid => b.paid)
      /\ (p.analytics => b.analytics) /\ (p.ai => b.ai) /\ (p.url => b.url)
      /\ (p.described => b.described) /\ b.place = p.place
      /\ b.flag = p.flag \/ b.flag = "remote"
      /\ b.posted = p.posted \/ b.posted = {0}
  BY DEF Scout!Improved, Scout!Posting
<1>2. Scout!WantedPlace(p) => Scout!WantedPlace(b)
  BY <1>1 DEF Scout!WantedPlace, Scout!inferWorkMode
<1>3. Scout!fitScore(b) >= Scout!fitScore(p)
  BY <1>1, <1>2 DEF Scout!fitScore, Scout!Points
<1>4. /\ Scout!companyQualityScore(b) >= Scout!companyQualityScore(p)
      /\ Scout!aiRelevanceScore(b) >= Scout!aiRelevanceScore(p)
  BY <1>1 DEF Scout!companyQualityScore, Scout!aiRelevanceScore, Scout!Points
<1>5. /\ b.posted = {0} => Scout!freshnessBucket(b.posted) = "fresh"
      /\ Scout!freshnessScore(b) >= Scout!freshnessScore(p)
      /\ Scout!freshnessBucket(b.posted) = "stale" => Scout!freshnessBucket(p.posted) = "stale"
  <2>1. b.posted = {0} => Scout!freshnessBucket(b.posted) = "fresh"
    BY DEF Scout!freshnessBucket, Scout!AgeBucket
  <2>2. CASE b.posted = p.posted
    BY <2>1, <2>2, ScoresAreNumbers DEF Scout!freshnessScore
  <2>3. CASE b.posted = {0}
    <3>1. Scout!freshnessScore(b) = 90
      BY <2>1, <2>3 DEF Scout!freshnessScore
    <3>. QED
      BY <2>1, <2>3, <3>1, ScoresAreNumbers
  <2>. QED
    BY <1>1, <2>1, <2>2, <2>3
<1>6. Scout!priorityScore(b) >= Scout!priorityScore(p)
  <2>1. \A x, y \in Int : x <= y => x \div 100 <= y \div 100
    OBVIOUS
  <2>. QED
    BY <1>3, <1>4, <1>5, <2>1, ScoresAreNumbers DEF Scout!priorityScore
<1>7. Scout!risks(b) <= Scout!risks(p)
  BY <1>1, <1>2, <1>5 DEF Scout!risks, Scout!Points
<1>. QED
  BY <1>1, <1>3, <1>6, <1>7
\* Fewer doubts and risks and better scores make Scout no less sure.
LEMMA BetterIsSurer ==
  ASSUME NEW p \in Scout!Posting(Ages), NEW h \in Scout!History(Counts),
         NEW b \in Scout!Improved(p), Scout!GoodMatch(p)
  PROVE  /\ Scout!GoodMatch(b)
         /\ Scout!shortlistConfidence(p, h) \in Int /\ Scout!shortlistConfidence(b, h) \in Int
         /\ Scout!shortlistConfidence(p, h) <= Scout!shortlistConfidence(b, h)
<1>1. Scout!GoodMatch(b)
  BY BetterScores, ScoresAreNumbers DEF Scout!GoodMatch
<1>2. Scout!ambiguityFlags(b, h) \subseteq Scout!ambiguityFlags(p, h)
  <2>. SUFFICES ASSUME NEW flag \in Scout!ambiguityFlags(b, h)
                PROVE  flag \in Scout!ambiguityFlags(p, h)
    OBVIOUS
  <2>1. flag \in {"salary_missing", "historical_archive_bias"}
    BY <1>1, GoodMatchIsClear
  <2>2. \/ flag = "salary_missing" /\ ~b.paid
        \/ /\ flag = "historical_archive_bias"
           /\ Scout!archiveConfidenceDelta(h) > Scout!shortlistConfidenceDelta(h)
    BY <2>1 DEF Scout!ambiguityFlags
  <2>. QED
    BY <2>2, BetterScores DEF Scout!ambiguityFlags
<1>3. IsFiniteSet(Scout!ambiguityFlags(p, h))
  <2>1. IsFiniteSet({"salary_missing"})
    BY FS_Singleton
  <2>2. IsFiniteSet({"salary_missing"} \cup {"historical_archive_bias"})
    BY <2>1, FS_AddElement
  <2>. QED
    BY <2>2, GoodMatchIsClear, FS_Subset
<1>4. /\ Cardinality(Scout!ambiguityFlags(b, h)) \in Nat
      /\ Cardinality(Scout!ambiguityFlags(p, h)) \in Nat
      /\ Cardinality(Scout!ambiguityFlags(b, h)) <= Cardinality(Scout!ambiguityFlags(p, h))
  BY <1>2, <1>3, FS_Subset, FS_CardinalityType
<1>5. Scout!shortlistConfidenceDelta(h) \in Int /\ Scout!archiveConfidenceDelta(h) \in Int
  BY DEF Scout!shortlistConfidenceDelta, Scout!archiveConfidenceDelta, Scout!Points
<1>6. /\ Scout!risks(b) <= Scout!risks(p) /\ Scout!fitScore(b) >= Scout!fitScore(p)
      /\ Scout!priorityScore(b) >= Scout!priorityScore(p)
  BY BetterScores
<1>7. /\ Scout!Cardinality(Scout!ambiguityFlags(b, h)) = Cardinality(Scout!ambiguityFlags(b, h))
      /\ Scout!Cardinality(Scout!ambiguityFlags(p, h)) = Cardinality(Scout!ambiguityFlags(p, h))
  BY OneCardinality
<1>. QED
  BY <1>1, <1>4, <1>5, <1>6, <1>7, ScoresAreNumbers DEF Scout!shortlistConfidence

LEMMA BetterPostingIsNotWorse ==
  ASSUME NEW p \in Scout!Posting(Ages), NEW h \in Scout!History(Counts)
  PROVE  Scout!BetterIsNotWorse(p, h)
<1>. SUFFICES ASSUME Scout!decision(p, h) = Scout!Decided("shortlist", TRUE),
                     NEW b \in Scout!Improved(p)
              PROVE  Scout!decision(b, h) = Scout!Decided("shortlist", TRUE)
  BY DEF Scout!BetterIsNotWorse
<1>1. Scout!GoodMatch(p) /\ Scout!ActsAt(Scout!shortlistConfidence(p, h))
  BY AutoIsGoodMatch DEF Scout!Decided
<1>2. Scout!ActsAt(Scout!shortlistConfidence(b, h))
  <2>1. \A x, y \in Int : x <= y => x \div 780 <= y \div 780
    OBVIOUS
  <2>2. \A x, y \in Int : x <= y /\ Scout!ActsAt(x) => Scout!ActsAt(y)
    BY <2>1 DEF Scout!ActsAt, Scout!Hundredths
  <2>. QED
    BY <1>1, <2>2, BetterIsSurer
<1>. QED
  BY <1>1, <1>2, BetterIsSurer, AutoIsGoodMatch DEF Scout!ActsAt

----------------------------------------------------------------------------
(* The replies of the Latch agent.                                         *)

LEMMA NormalizedIsEmpty ==
  ASSUME NEW items
  PROVE  Latch!normalizeReadinessIssues(items) = {} <=> items = {}
  BY DEF Latch!normalizeReadinessIssues

\* An accepted reply was asked for by a sound request, validates, and matches.
LEMMA AcceptedIsValid ==
  ASSUME NEW request \in Latch!Request, NEW reply \in Latch!Reply,
         Latch!Verdict(request, reply) = "accepted"
  PROVE  Latch!validateLatchAgentResponse(reply) /\ Latch!MatchesRequest(reply)
<1>1. Latch!buildLatchTaskRequest(request) = "ok"
  <2>. SUFFICES ASSUME Latch!buildLatchTaskRequest(request) # "ok"
                PROVE  FALSE
    OBVIOUS
  <2>1. Latch!buildLatchTaskRequest(request) = "accepted"
    BY DEF Latch!Verdict
  <2>. QED
    BY <2>1 DEF Latch!buildLatchTaskRequest
<1>. QED
  BY <1>1 DEF Latch!Verdict

LEMMA AcceptedReplyHidesLittle ==
  ASSUME NEW request \in Latch!Request, NEW reply \in Latch!Reply
  PROVE  Latch!HidesOnlyWhatIsDropped(request, reply)
<1>. DEFINE IsReady == Latch!Readiness(reply).ready
            Given == Latch!Blockers(reply)
<1>. SUFFICES ASSUME Latch!Verdict(request, reply) = "accepted"
              PROVE  /\ IsReady /\ Given # {} =>
                          reply.shape = "result" /\ Latch!Objects(Given) = {}
                     /\ reply.status = "blocked" =>
                          /\ ~IsReady /\ Given # {}
                          /\ reply.shape = "result" => Latch!Objects(Given) # {}
                     /\ IsReady /\ reply.status # "completed" =>
                          reply.shape = "readiness" /\ reply.ready
                     /\ Latch!SelectedResume(reply) \in {"same", "empty"}
                     /\ Latch!AttachedResume(reply) = "other" => reply.attached = "other"
  BY DEF Latch!HidesOnlyWhatIsDropped
<1>1. Latch!validateLatchAgentResponse(reply) /\ Latch!MatchesRequest(reply)
  BY AcceptedIsValid
<1>2. /\ Latch!SelectedResume(reply) \in {"same", "empty"}
      /\ Latch!AttachedResume(reply) = "other" => reply.attached = "other"
  BY <1>1 DEF Latch!MatchesRequest, Latch!AttachedResume
<1>3. CASE reply.shape = "readiness"
  <2>1. Latch!Readiness(reply).hardBlockers # {} <=> Given # {}
    BY <1>3, NormalizedIsEmpty DEF Latch!Readiness, Latch!Blockers
  <2>2. IsReady = reply.ready
    BY <1>3 DEF Latch!Readiness
  <2>. HIDE DEF Given
  <2>. QED
    BY <1>1, <1>2, <1>3, <2>1, <2>2 DEF Latch!validateLatchAgentResponse
<1>4. CASE reply.shape = "result"
  <2>. DEFINE hard == Latch!Objects(Latch!Listed(reply)) \ {"soft"}
  <2>1. /\ IsReady <=> reply.status = "completed" /\ hard = {}
        /\ Latch!Readiness(reply).hardBlockers = Latch!normalizeReadinessIssues(hard)
    BY <1>4 DEF Latch!Readiness
  <2>2. Latch!Readiness(reply).hardBlockers # {} <=> hard # {}
    BY <2>1, NormalizedIsEmpty
  <2>3. hard = Latch!Objects(Given) /\ (hard # {} => Given # {})
    BY <1>4 DEF Latch!Blockers, Latch!Objects
  <2>. HIDE DEF hard, Given
  <2>. QED
    BY <1>1, <1>2, <1>4, <2>1, <2>2, <2>3 DEF Latch!validateLatchAgentResponse
<1>. QED
  BY <1>1, <1>3, <1>4 DEF Latch!validateLatchAgentResponse, Latch!MatchesSchema, Latch!Reply

----------------------------------------------------------------------------
(* The readiness of an application.                                        *)

\* A quotient of a hundred, for the denominators of completionPercent.
LEMMA HundredSixths ==
  ASSUME NEW n \in Nat \ {0}, NEW x \in Int
  PROVE  x \div (6 * n) = 100 <=> 600 * n <= x /\ x < 606 * n
  OBVIOUS

LEMMA RequiredAnswers ==
  ASSUME NEW i \in Ready!Application(AnswerFields, Versions)
  PROVE  /\ Ready!Missing(i) \subseteq Ready!Required(i)
         /\ IsFiniteSet(Ready!Required(i))
         /\ Cardinality(Ready!Required(i)) \in Nat
         /\ Cardinality(Ready!Required(i) \ Ready!Missing(i)) \in Nat
         /\ Ready!Required(i) # {} => Cardinality(Ready!Required(i)) > 0
         /\ Ready!Missing(i) # {} =>
              Cardinality(Ready!Required(i) \ Ready!Missing(i)) < Cardinality(Ready!Required(i))
<1>1. Ready!Missing(i) \subseteq Ready!Required(i)
  BY DEF Ready!Missing
<1>2. DOMAIN i.answers \subseteq AnswerFields
  BY DEF Ready!Application
<1>3. IsFiniteSet(Ready!Required(i))
  BY <1>2, FieldsAssumption, FS_Subset DEF Ready!Required, Ready!Fields
<1>. DEFINE done == Ready!Required(i) \ Ready!Missing(i)
<1>4. /\ IsFiniteSet(done) /\ Cardinality(done) <= Cardinality(Ready!Required(i))
      /\ Cardinality(done) = Cardinality(Ready!Required(i)) => done = Ready!Required(i)
  BY <1>3, FS_Subset
<1>5. Ready!Missing(i) # {} => done # Ready!Required(i)
  BY <1>1
<1>. HIDE DEF done
<1>6. Cardinality(done) \in Nat /\ Cardinality(Ready!Required(i)) \in Nat
  BY <1>3, <1>4, FS_CardinalityType
<1>7. Ready!Required(i) # {} => Cardinality(Ready!Required(i)) # 0
  BY <1>3, FS_EmptySet
<1>. QED
  BY <1>1, <1>3, <1>4, <1>5, <1>6, <1>7 DEF done

\* The application is complete when its résumé is attached and no answer missing,
\* and with less than that from RoundsUp required answers on.
LEMMA Complete ==
  ASSUME NEW i \in Ready!Application(AnswerFields, Versions)
  PROVE  /\ Ready!MatchingAttachment(i) /\ Ready!Missing(i) = {} =>
              Ready!completionPercent(i) = 100
         /\ Ready!completionPercent(i) = 100 =>
              /\ Ready!MatchingAttachment(i)
              /\ Ready!Missing(i) = {} \/ Cardinality(Ready!Required(i)) >= Ready!RoundsUp
<1>. DEFINE n == IF Ready!Required(i) = {} THEN 1 ELSE Cardinality(Ready!Required(i))
            done == IF Ready!Required(i) = {} THEN 1
                    ELSE Cardinality(Ready!Required(i) \ Ready!Missing(i))
            resume == (IF Ready!HasTailored(i) THEN 1 ELSE 0)
                        + (IF Ready!MatchingAttachment(i) THEN 1 ELSE 0)
            sum == 200 * (resume * n + done) + 3 * n
<1>1. /\ n \in Nat \ {0} /\ done \in Nat /\ done <= n
      /\ Ready!Missing(i) = {} => done = n
      /\ Ready!Missing(i) # {} => done <= n - 1 /\ n = Cardinality(Ready!Required(i))
  <2>1. CASE Ready!Missing(i) = {}
    BY <2>1, RequiredAnswers
  <2>2. CASE Ready!Missing(i) # {}
    <3>1. Ready!Required(i) # {}
      BY <2>2, RequiredAnswers
    <3>. QED
      BY <2>2, <3>1, RequiredAnswers
  <2>. QED
    BY <2>1, <2>2
<1>2. /\ resume \in {0, 1, 2}
      /\ Ready!MatchingAttachment(i) <=> resume = 2
  BY DEF Ready!MatchingAttachment
<1>3. Ready!completionPercent(i) = sum \div (6 * n)
  BY OneCardinality DEF Ready!completionPercent
<1>. HIDE DEF n, done, resume
<1>4. /\ sum \in Int
      /\ resume = 0 => sum = 200 * done + 3 * n
      /\ resume = 1 => sum = 200 * done + 203 * n
      /\ resume = 2 => sum = 200 * done + 403 * n
  BY <1>1, <1>2
<1>. HIDE DEF sum
<1>5. Ready!completionPercent(i) = 100 <=> 600 * n <= sum /\ sum < 606 * n
  BY <1>1, <1>3, <1>4, HundredSixths
<1>. QED
  BY <1>1, <1>2, <1>4, <1>5 DEF Ready!RoundsUp

LEMMA SummariesCompared ==
  ASSUME NEW i \in Ready!Application(AnswerFields, Versions)
  PROVE  Ready!SummariesDifferOnlyHere(i)
<1>. DEFINE final == Ready!recommendedNextAction(i) = "final_review"
            mismatch == Ready!hardBlockers(i) = {"resume_attachment_mismatch"}
            waiting == Ready!softWarnings(i) \subseteq {"portal_session_not_ready"}
<1>1. Ready!MatchingAttachment(i) => Ready!HasTailored(i) /\ i.attached # {}
  BY DEF Ready!MatchingAttachment
<1>2. /\ "tailored_resume_missing" \in Ready!hardBlockers(i) <=> ~Ready!HasTailored(i)
      /\ "resume_attachment_missing" \in Ready!hardBlockers(i) <=> i.attached = {}
      /\ "resume_attachment_mismatch" \in Ready!hardBlockers(i) <=>
           i.attached # {} /\ Ready!HasTailored(i) /\ ~Ready!MatchingAttachment(i)
      /\ "required_answers_missing" \in Ready!hardBlockers(i) <=> Ready!Missing(i) # {}
      /\ "blocked_answers_present" \in Ready!hardBlockers(i) <=> Ready!Blocked(i) # {}
  BY DEF Ready!hardBlockers
<1>3. \A b \in Ready!hardBlockers(i) :
        b \in {"tailored_resume_missing", "resume_attachment_missing",
               "resume_attachment_mismatch", "required_answers_missing",
               "blocked_answers_present"}
  BY DEF Ready!hardBlockers
<1>4. Ready!ready(i) <=>
        Ready!MatchingAttachment(i) /\ Ready!Missing(i) = {} /\ Ready!Blocked(i) = {}
  BY <1>1, <1>2, <1>3 DEF Ready!ready
<1>5. Ready!ready(i) =>
        Ready!recommendedNextAction(i) \in {"review_answers", "register_session", "final_review"}
  BY <1>1, <1>4 DEF Ready!recommendedNextAction
<1>6. /\ "low_confidence_answers_present" \in Ready!softWarnings(i) <=> Ready!LowConfidence(i) # {}
      /\ "portal_session_missing" \in Ready!softWarnings(i) <=> i.session = "none"
      /\ \A w \in Ready!softWarnings(i) :
           w \in {"low_confidence_answers_present", "portal_session_missing",
                  "portal_session_not_ready"}
  BY DEF Ready!softWarnings
<1>7. waiting <=> Ready!LowConfidence(i) = {} /\ i.session # "none"
  BY <1>6
<1>8. final <=> /\ Ready!HasTailored(i) /\ i.attached # {} /\ Ready!Missing(i) = {}
                /\ Ready!Blocked(i) = {} /\ Ready!LowConfidence(i) = {} /\ i.session # "none"
  BY DEF Ready!recommendedNextAction
<1>9. mismatch <=> /\ i.attached # {} /\ Ready!HasTailored(i) /\ ~Ready!MatchingAttachment(i)
                   /\ Ready!Missing(i) = {} /\ Ready!Blocked(i) = {}
  BY <1>2, <1>3
<1>10. final /\ ~Ready!ready(i) <=> mismatch /\ waiting
  BY <1>1, <1>4, <1>7, <1>8, <1>9
<1>11. ASSUME NEW f \in Ready!Required(i)
       PROVE  f \in Ready!GivenButNotShown(i) <=> i.answers[f].value = "null"
  <2>1. i.answers[f].value \in {"text", "blank", "null"}
    <3>1. f \in DOMAIN i.answers
      BY DEF Ready!Required, Ready!Fields
    <3>2. i.answers[f] \in Ready!Answer
      BY <3>1 DEF Ready!Application
    <3>. QED
      BY <3>2 DEF Ready!Answer
  <2>. QED
    BY <1>11, <2>1 DEF Ready!GivenButNotShown, Ready!Missing, Ready!hasValue,
                      Ready!extractValue, Ready!answerValueFromJson
<1>12. Ready!GivenButNotShown(i) = {f \in Ready!Required(i) : i.answers[f].value = "null"}
  BY <1>11 DEF Ready!GivenButNotShown
<1>. QED
  BY <1>4, <1>5, <1>10, <1>12, Complete, OneCardinality DEF Ready!SummariesDifferOnlyHere

----------------------------------------------------------------------------
(* The density of a draft.                                                 *)

\* Against its own measures a draft loses points for its skill lines at most.
LEMMA OwnBaseline ==
  ASSUME NEW m \in Fill!Measure
  PROVE  LET base == Fill!buildDensityBaselineProfile(m)
         IN  /\ "whitespace" \notin Fill!Reasons(m, base)
             /\ Fill!PageScore(m, base) \in Int
             /\ Fill!PageScore(m, base) >= 60
<1>. DEFINE base == Fill!buildDensityBaselineProfile(m)
<1>1. /\ base.whitespace = m.whitespace /\ base.skills = m.skills /\ base.final = m.final
      /\ base.lines = m.lines /\ base.oneLine = m.oneLine
      /\ m.whitespace \in Nat /\ m.oneLine \in 0..100 /\ m.skills \in Nat
      /\ m.final \in Nat /\ m.lines \in Nat
  <2>1. /\ m.whitespace \in 0..Fill!Usable /\ m.oneLine \in 0..100 /\ m.skills \in Nat
        /\ m.final \in Nat /\ m.lines \in Nat
    BY DEF Fill!Measure
  <2>2. m.whitespace \in Nat
    <3>1. \A top \in Int : \A x \in 0..top : x \in Nat
      OBVIOUS
    <3>2. Fill!Usable \in Int
      BY SMT DEF Fill!Usable
    <3>. QED
      BY <2>1, <3>1, <3>2
  <2>. QED
    BY <2>1, <2>2 DEF Fill!buildDensityBaselineProfile
<1>. HIDE DEF base
<1>2. /\ Fill!whitespaceLimit(base) \in Nat \ {0} /\ m.whitespace < Fill!whitespaceLimit(base)
      /\ Fill!oneLineBulletMax(base) \in Nat /\ m.oneLine < Fill!oneLineBulletMax(base)
      /\ Fill!totalLinesMin(base) \in Nat /\ m.lines >= Fill!totalLinesMin(base)
      /\ Fill!skillsLineMax(base) \in Int
  BY <1>1 DEF Fill!whitespaceLimit, Fill!oneLineBulletMax, Fill!totalLinesMin,
              Fill!skillsLineMax, Fill!Most, Fill!Least, Fill!PageHeight
<1>3. \A d \in Nat \ {0} : (0 * 4000) \div d = 0 /\ (0 * 2000) \div d = 0 /\ (0 * 1000) \div d = 0
  OBVIOUS
<1>4. Fill!WhitespacePenalty(m, base) = 0
  <2>1. Fill!Excess(m.whitespace, Fill!whitespaceLimit(base)) = 0
    BY <1>1, <1>2 DEF Fill!Excess, Fill!Most
  <2>. QED
    BY <1>2, <1>3, <2>1 DEF Fill!WhitespacePenalty, Fill!clamp, Fill!Most, Fill!Least
<1>5. Fill!OneLinePenalty(m, base) = 0
  <2>1. Fill!Excess(m.oneLine, Fill!oneLineBulletMax(base)) = 0
    BY <1>1, <1>2 DEF Fill!Excess, Fill!Most
  <2>2. Fill!Most(100 - Fill!oneLineBulletMax(base), 1) \in Nat \ {0}
    BY <1>2 DEF Fill!Most
  <2>. QED
    BY <1>3, <2>1, <2>2 DEF Fill!OneLinePenalty, Fill!clamp, Fill!Most, Fill!Least
<1>6. Fill!TotalLinesPenalty(m, base) = 0
  <2>1. Fill!Excess(Fill!totalLinesMin(base), m.lines) = 0
    BY <1>1, <1>2 DEF Fill!Excess, Fill!Most
  <2>2. Fill!Most(Fill!totalLinesMin(base), 1) \in Nat \ {0}
    BY <1>2 DEF Fill!Most
  <2>. QED
    BY <1>3, <2>1, <2>2 DEF Fill!TotalLinesPenalty, Fill!clamp, Fill!Most, Fill!Least
<1>7. Fill!SkillsPenalty(m, base) \in 0..1000
  BY <1>1, <1>2 DEF Fill!SkillsPenalty, Fill!clamp, Fill!Excess, Fill!Most, Fill!Least
<1>8. ~Fill!WeakFinalSection(m, base)
  BY <1>1 DEF Fill!WeakFinalSection, Fill!Usable
<1>9. Fill!PageScore(m, base) \in Int /\ Fill!PageScore(m, base) >= 60
  BY <1>4, <1>5, <1>6, <1>7, <1>8 DEF Fill!PageScore, Fill!clamp, Fill!Most, Fill!Least
<1>10. "whitespace" \notin Fill!Reasons(m, base)
  BY <1>1, <1>2 DEF Fill!Reasons
<1>. QED
  BY <1>9, <1>10 DEF base

LEMMA DraftIsNotHarmed ==
  ASSUME NEW first \in Fill!Candidate, NEW second, NEW base
  PROVE  Fill!RetryDoesNoHarm(first, second, base)
<1>. DEFINE kept == Fill!Kept(first, second, base)
            assessed == Fill!analyzeResumeDensity(first.measure, base)
<1>1. ASSUME NEW m, NEW b
      PROVE  /\ Fill!Overflows(m) => /\ Fill!analyzeResumeDensity(m, b).status = "overflow"
                                     /\ Fill!analyzeResumeDensity(m, b).score = 20
             /\ ~Fill!Overflows(m) =>
                  Fill!analyzeResumeDensity(m, b).status = Fill!PageStatus(m, b)
  BY DEF Fill!analyzeResumeDensity
<1>2. Fill!analyzeResumeDensity(first.measure,
                                Fill!buildDensityBaselineProfile(first.measure)).status
        # "underfilled"
  <2>. DEFINE m == first.measure
              own == Fill!buildDensityBaselineProfile(m)
  <2>1. m \in Fill!Measure
    BY DEF Fill!Candidate
  <2>. HIDE DEF m
  <2>2. /\ "whitespace" \notin Fill!Reasons(m, own)
        /\ Fill!PageScore(m, own) \in Int /\ Fill!PageScore(m, own) >= 60
    BY <2>1, OwnBaseline
  <2>. HIDE DEF own
  <2>3. Fill!PageStatus(m, own) # "underfilled"
    BY <2>2 DEF Fill!PageStatus
  <2>. QED
    BY <1>1, <2>3 DEF m, own
<1>3. \/ kept = first
      \/ /\ kept = second /\ assessed.status = "underfilled"
         /\ Fill!analyzeResumeDensity(second.measure, base).score > assessed.score
  BY DEF Fill!Kept, Fill!chooseBestDensityCandidate, Fill!shouldRetryForDensity
<1>4. ~Fill!Overflows(first.measure) /\ Fill!Overflows(kept.measure) => assessed.score < 20
  BY <1>1, <1>3
<1>5. Fill!buildQaMetadata(kept, base) = "pass" => ~Fill!Overflows(kept.measure)
  BY <1>1 DEF Fill!buildQaMetadata
<1>6. assessed.status = "pass" => kept = first
  BY <1>3
<1>. QED
  BY <1>2, <1>4, <1>5, <1>6 DEF Fill!RetryDoesNoHarm

----------------------------------------------------------------------------
(* The way of an application through the pages.                            *)

\* The states one step more leads from.
LEMMA OneStepMore ==
  /\ Site!CanBeSubmittedIn \in [0..9 -> SUBSET Site!Application]
  /\ Site!CanBeSubmittedIn[0] = {s \in Site!Application : s.status = "submitted"}
  /\ \A n \in 1..9 : Site!CanBeSubmittedIn[n] =
       Site!CanBeSubmittedIn[n - 1]
         \cup {s \in Site!Application : Site!Forward(s) \cap Site!CanBeSubmittedIn[n - 1] # {}}
<1>. DEFINE V == SUBSET Site!Application
            none == {s \in Site!Application : s.status = "submitted"}
            More(T) == T \cup {s \in Site!Application : Site!Forward(s) \cap T # {}}
            step == [n \in 1..9 |-> [T \in V |-> More(T)]]
            Body(g) == [n \in 0..9 |-> IF n = 0 THEN none ELSE More(g[n - 1])]
<1>1. none \in V
  OBVIOUS
<1>2. \A T \in V : More(T) \in V
  OBVIOUS
<1>. HIDE DEF More, none, V
<1>3. step \in [1..9 -> [V -> V]]
  BY <1>2
<1>4. \A n \in 1..9, T \in V : step[n][T] = More(T)
  OBVIOUS
<1>. HIDE DEF step
<1>5. PICK f \in [0..9 -> V] : f[0] = none /\ \A i \in 1..9 : f[i] = step[i][f[i - 1]]
  <2>1. Iterated(9, V, none, step)
    BY <1>1, <1>3, Iterates
  <2>. QED
    BY <2>1 DEF Iterated
<1>6. f = Body(f)
  <2>1. ASSUME NEW n \in 0..9 PROVE f[n] = IF n = 0 THEN none ELSE More(f[n - 1])
    BY <1>4, <1>5
  <2>. QED
    BY <1>5, <2>1
<1>7. Site!CanBeSubmittedIn = CHOOSE g : g = Body(g)
  BY DEF Site!CanBeSubmittedIn, none, More
<1>8. Site!CanBeSubmittedIn = Body(Site!CanBeSubmittedIn)
  BY <1>6, <1>7
<1>. DEFINE L == Site!CanBeSubmittedIn
<1>. HIDE DEF L
<1>9. L = Body(L)
  BY <1>8 DEF L
<1>10. DOMAIN L = 0..9 /\ L[0] = none /\ \A n \in 1..9 : L[n] = More(L[n - 1])
  BY <1>9
<1>11. \A n \in 0..9 : L[n] \in V
  <2>. DEFINE S == {n \in 0..9 : L[n] \in V}
  <2>1. 0 \in S
    BY <1>1, <1>10
  <2>2. \A k \in 1..9 : k - 1 \in S => k \in S
    BY <1>2, <1>10
  <2>3. S \in SUBSET (0..9)
    OBVIOUS
  <2>. HIDE DEF S
  <2>4. S = 0..9
    BY <2>1, <2>2, <2>3, Induction
  <2>. QED
    BY <2>4 DEF S
<1>12. L \in [0..9 -> V]
  BY <1>9, <1>11
<1>. QED
  BY <1>10, <1>12 DEF L, V, none, More

LEMMA Nearer ==
  ASSUME NEW n \in 0..8, NEW s \in Site!Application,
         NEW t \in Site!Forward(s), t \in Site!CanBeSubmittedIn[n]
  PROVE  s \in Site!CanBeSubmittedIn[n + 1]
<1>1. n + 1 \in 1..9 /\ (n + 1) - 1 = n
  OBVIOUS
<1>. QED
  BY <1>1, OneStepMore

LEMMA NeverFarther ==
  ASSUME NEW m \in 0..9
  PROVE  Site!CanBeSubmittedIn[m] \subseteq Site!CanBeSubmitted
<1>. DEFINE S == {k \in 0..9 : 9 - k \in 0..9
                                 /\ Site!CanBeSubmittedIn[9 - k] \subseteq Site!CanBeSubmitted}
<1>1. 0 \in S
  BY DEF Site!CanBeSubmitted
<1>2. ASSUME NEW k \in 1..9, k - 1 \in S
      PROVE  k \in S
  <2>1. 9 - (k - 1) \in 1..9 /\ (9 - (k - 1)) - 1 = 9 - k /\ 9 - k \in 0..9
    OBVIOUS
  <2>2. Site!CanBeSubmittedIn[9 - k] \subseteq Site!CanBeSubmittedIn[9 - (k - 1)]
    BY <2>1, OneStepMore
  <2>. QED
    BY <1>2, <2>1, <2>2
<1>. HIDE DEF S
<1>3. S \in SUBSET (0..9)
  BY DEF S
<1>. DEFINE nine == 9
<1>4. nine \in Nat /\ S \in SUBSET (0..nine) /\ \A k \in 1..nine : k - 1 \in S => k \in S
  BY <1>2, <1>3
<1>. HIDE DEF nine
<1>5. S = 0..nine
  BY <1>1, <1>4, Induction
<1>6. 9 - m \in S /\ 9 - (9 - m) = m
  BY <1>5 DEF nine
<1>. QED
  BY <1>6 DEF S

\* The way from the workspace: the packet is brought up to date and submitted.
LEMMA WayFromOperations ==
  ASSUME NEW s \in Site!Application
  PROVE  /\ s.status = "submitted" => s \in Site!CanBeSubmittedIn[0]
         /\ s.status = "submit_review" => s \in Site!CanBeSubmittedIn[2]
         /\ s.status = "applying" => s \in Site!CanBeSubmittedIn[3]
<1>1. \A t \in Site!Application : t.status = "submitted" => t \in Site!CanBeSubmittedIn[0]
  BY OneStepMore
<1>2. ASSUME NEW t \in Site!Application, t.status = "submit_review", t.packet = "current"
      PROVE  t \in Site!CanBeSubmittedIn[1]
  <2>. DEFINE u == [t EXCEPT !.status = "submitted"]
  <2>1. u \in Site!Application /\ u.status = "submitted"
    BY DEF Site!Application, Site!ApplicationStatus
  <2>2. u \in Site!Forward(t)
    BY <1>2 DEF Site!Forward, Site!Offered, Site!MarkSubmitted
  <2>. HIDE DEF u
  <2>3. t \in Site!CanBeSubmittedIn[0 + 1]
    BY <1>1, <2>1, <2>2, Nearer
  <2>. QED
    BY <2>3
<1>3. ASSUME NEW t \in Site!Application, t.status = "submit_review"
      PROVE  t \in Site!CanBeSubmittedIn[2]
  <2>. DEFINE u == [t EXCEPT !.packet = "current"]
  <2>1. u \in Site!Application /\ u.status = "submit_review" /\ u.packet = "current"
    BY <1>3 DEF Site!Application
  <2>2. u \in Site!Forward(t)
    BY <1>3 DEF Site!Forward, Site!Offered, Site!RefreshPacket
  <2>. HIDE DEF u
  <2>3. t \in Site!CanBeSubmittedIn[1 + 1]
    BY <1>2, <2>1, <2>2, Nearer
  <2>. QED
    BY <2>3
<1>4. ASSUME NEW t \in Site!Application, t.status = "applying", t.ready
      PROVE  t \in Site!CanBeSubmittedIn[2]
  <2>. DEFINE u == [t EXCEPT !.status = "submit_review", !.packet = "current"]
  <2>1. u \in Site!Application /\ u.status = "submit_review" /\ u.packet = "current"
    BY <1>4 DEF Site!Application, Site!ApplicationStatus
  <2>2. u \in Site!Forward(t)
    BY <1>4 DEF Site!Forward, Site!Offered, Site!MoveToSubmitReview
  <2>. HIDE DEF u
  <2>3. t \in Site!CanBeSubmittedIn[1 + 1]
    BY <1>2, <2>1, <2>2, Nearer
  <2>. QED
    BY <2>3
<1>5. ASSUME NEW t \in Site!Application, t.status = "applying"
      PROVE  t \in Site!CanBeSubmittedIn[3]
  <2>. DEFINE u == [t EXCEPT !.ready = TRUE, !.packet = Site!Dirtied(t)]
  <2>1. u \in Site!Application /\ u.status = "applying" /\ u.ready
    BY <1>5 DEF Site!Application, Site!Dirtied
  <2>2. u \in Site!EditWorkspace(t)
    BY <1>5 DEF Site!EditWorkspace, Site!OnApplicationPage, Site!getApplyingQueue
  <2>3. u \in Site!Forward(t)
    BY <2>2 DEF Site!Forward, Site!Offered
  <2>. HIDE DEF u
  <2>4. t \in Site!CanBeSubmittedIn[2 + 1]
    BY <1>4, <2>1, <2>3, Nearer
  <2>. QED
    BY <2>4
<1>. QED
  BY <1>1, <1>3, <1>5

\* An application that is tailored, by the task it waits for: a fresh draft is one
\* approval away from operations.
LEMMA WayFromTailoring ==
  ASSUME NEW s \in Site!Application, s.status \in {"tailoring", "tailoring_review", "paused"}
  PROVE  s.task # "orphaned" => s \in Site!CanBeSubmitted
<1>. DEFINE Tailored == {t \in Site!Application :
                           t.status \in {"tailoring", "tailoring_review", "paused"}}
            Drafted(t) == [t EXCEPT !.task = "none", !.status = "tailoring_review",
                                    !.run = "generated_for_review", !.draft = TRUE]
<1>1. ASSUME NEW t \in Tailored
      PROVE  Drafted(t) \in Site!CanBeSubmittedIn[4]
  <2>. DEFINE u == Drafted(t)
              v == [u EXCEPT !.status = "applying", !.run = "approved", !.ready = u.ready]
  <2>1. /\ u \in Site!Application /\ u.status = "tailoring_review" /\ u.draft
        /\ u.run = "generated_for_review" /\ u.task = "none"
    BY DEF Site!Application, Site!ApplicationStatus, Site!TailoringRunStatus
  <2>. HIDE DEF u
  <2>2. v \in Site!Application /\ v.status = "applying"
    BY <2>1 DEF Site!Application, Site!ApplicationStatus, Site!TailoringRunStatus
  <2>3. u.ready \in BOOLEAN
    BY <2>1 DEF Site!Application
  <2>4. v \in Site!Approve(u)
    <3>1. Site!OnTailoringPage(u) /\ ~Site!HasActiveTask(u)
      BY <2>1 DEF Site!OnTailoringPage, Site!getTailoringQueue, Site!HasActiveTask
    <3>2. u.run # "none" /\ Site!canTransitionTailoringRun(u.run, "approved")
      BY <2>1 DEF Site!canTransitionTailoringRun, Site!tailoringRunTransitions
    <3>3. Site!MayBecome(u.status, "applying")
      BY <2>1 DEF Site!MayBecome, Site!canTransitionApplication, Site!applicationTransitions
    <3>. QED
      BY <2>1, <2>3, <3>1, <3>2, <3>3 DEF Site!Approve
  <2>5. v \in Site!Forward(u)
    BY <2>4 DEF Site!Forward, Site!Offered
  <2>. HIDE DEF v
  <2>6. u \in Site!CanBeSubmittedIn[3 + 1]
    BY <2>1, <2>2, <2>5, WayFromOperations, Nearer
  <2>. QED
    BY <2>6 DEF u
<1>2. ASSUME NEW t \in Tailored, t.task = "processing_generate"
      PROVE  t \in Site!CanBeSubmittedIn[5]
  <2>. DEFINE u == Drafted(t)
  <2>1. ~Site!Refused(t)
    BY <1>2 DEF Site!Refused, Site!MayBecome, Site!canTransitionApplication,
         Site!applicationTransitions
  <2>2. u \in Site!Draft(t)
    BY <1>2, <2>1 DEF Site!Draft, Site!Worked
  <2>3. u \in Site!Forward(t)
    BY <2>2 DEF Site!Forward
  <2>4. u \in Site!CanBeSubmittedIn[4]
    BY <1>1
  <2>. HIDE DEF u
  <2>5. t \in Site!CanBeSubmittedIn[4 + 1]
    BY <2>3, <2>4, Nearer
  <2>. QED
    BY <2>5
<1>3. ASSUME NEW t \in Tailored, t.task = "generate"
      PROVE  t \in Site!CanBeSubmittedIn[6]
  <2>. DEFINE u == [t EXCEPT !.task = "processing_generate"]
  <2>1. u \in Tailored /\ u.task = "processing_generate"
    BY DEF Site!Application
  <2>2. u \in Site!Forward(t)
    BY <1>3 DEF Site!Forward, Site!Claim
  <2>. HIDE DEF u
  <2>3. t \in Site!CanBeSubmittedIn[5 + 1]
    BY <1>2, <2>1, <2>2, Nearer
  <2>. QED
    BY <2>3
<1>4. ASSUME NEW t \in Tailored, t.task = "none"
      PROVE  t \in Site!CanBeSubmittedIn[7]
  <2>. DEFINE u == [t EXCEPT !.task = "generate"]
  <2>1. u \in Tailored /\ u.task = "generate"
    BY DEF Site!Application
  <2>2. u \in Site!Generate(t)
    BY <1>4 DEF Site!Generate, Site!OnTailoringPage, Site!getTailoringQueue, Site!HasActiveTask
  <2>3. u \in Site!Forward(t)
    BY <2>2 DEF Site!Forward, Site!Offered
  <2>. HIDE DEF u
  <2>4. t \in Site!CanBeSubmittedIn[6 + 1]
    BY <1>3, <2>1, <2>3, Nearer
  <2>. QED
    BY <2>4
<1>5. ASSUME NEW t \in Tailored, t.task = "processing_edits"
      PROVE  t \in Site!CanBeSubmittedIn[8]
  <2>1. CASE Site!Refused(t)
    <3>. DEFINE u == [t EXCEPT !.task = "none"]
    <3>1. u \in Tailored /\ u.task = "none"
      BY DEF Site!Application
    <3>2. u \in Site!Draft(t)
      BY <1>5, <2>1 DEF Site!Draft, Site!Worked
    <3>3. u \in Site!Forward(t)
      BY <3>2 DEF Site!Forward
    <3>. HIDE DEF u
    <3>4. t \in Site!CanBeSubmittedIn[7 + 1]
      BY <1>4, <3>1, <3>3, Nearer
    <3>. QED
      BY <3>4
  <2>2. CASE ~Site!Refused(t)
    <3>. DEFINE u == Drafted(t)
    <3>1. u \in Site!Draft(t)
      BY <1>5, <2>2 DEF Site!Draft, Site!Worked
    <3>2. u \in Site!Forward(t)
      BY <3>1 DEF Site!Forward
    <3>3. u \in Site!CanBeSubmittedIn[4]
      BY <1>1
    <3>. HIDE DEF u
    <3>4. t \in Site!CanBeSubmittedIn[4 + 1]
      BY <3>2, <3>3, Nearer
    <3>5. t \in Site!CanBeSubmittedIn[5 + 1]
      BY <3>4, OneStepMore
    <3>6. t \in Site!CanBeSubmittedIn[6 + 1]
      BY <3>5, OneStepMore
    <3>. QED
      BY <3>6, OneStepMore
  <2>. QED
    BY <2>1, <2>2
<1>6. ASSUME NEW t \in Tailored, t.task = "edits"
      PROVE  t \in Site!CanBeSubmittedIn[9]
  <2>. DEFINE u == [t EXCEPT !.task = "processing_edits"]
  <2>1. u \in Tailored /\ u.task = "processing_edits"
    BY DEF Site!Application
  <2>2. u \in Site!Forward(t)
    BY <1>6 DEF Site!Forward, Site!Claim
  <2>. HIDE DEF u
  <2>3. t \in Site!CanBeSubmittedIn[8 + 1]
    BY <1>5, <2>1, <2>2, Nearer
  <2>. QED
    BY <2>3
<1>7. s \in Tailored
  OBVIOUS
<1>8. s.task \in {"none", "generate", "edits", "processing_generate", "processing_edits",
                  "orphaned"}
  BY DEF Site!Application
<1>. HIDE DEF Tailored
<1>9. s.task # "orphaned" => \E m \in 5..9 : s \in Site!CanBeSubmittedIn[m]
  BY <1>2, <1>3, <1>4, <1>5, <1>6, <1>7, <1>8
<1>. QED
  BY <1>9, NeverFarther

\* What the pages and the workers may make of an application.
Live == {s \in Site!Application : s.status # "archived"}

LEMMA LiveHasAWayOut ==
  ASSUME NEW s \in Live
  PROVE  Site!HasAWayOut(s)
<1>1. s \in Site!Application
  BY DEF Live
<1>2. s.status \in {"tailoring", "tailoring_review", "paused", "applying", "submit_review",
                    "submitted"}
  BY DEF Live, Site!Application, Site!ApplicationStatus
<1>3. CASE s.status \in {"tailoring", "tailoring_review", "paused"}
  BY <1>1, <1>3, WayFromTailoring DEF Site!HasAWayOut
<1>4. CASE s.status \in {"applying", "submit_review", "submitted"}
  BY <1>1, <1>4, WayFromOperations, NeverFarther DEF Site!HasAWayOut
<1>. QED
  BY <1>2, <1>3, <1>4

LEMMA LiveStays ==
  ASSUME NEW s \in Live, NEW t \in Site!Step(s)
  PROVE  t \in Live
<1>1. CASE t \in Site!Generate(s) \cup Site!RequestEdits(s)
  BY <1>1 DEF Live, Site!Application, Site!Generate, Site!RequestEdits
<1>2. CASE t \in Site!Approve(s)
  <2>1. PICK r \in BOOLEAN : t = [s EXCEPT !.status = "applying", !.run = "approved", !.ready = r]
    BY <1>2 DEF Site!Approve
  <2>. QED
    BY <2>1 DEF Live, Site!Application, Site!ApplicationStatus, Site!TailoringRunStatus
<1>3. CASE t \in Site!Pause(s)
  BY <1>3 DEF Live, Site!Application, Site!Pause, Site!ApplicationStatus,
       Site!TailoringRunStatus
<1>4. CASE t \in Site!EditWorkspace(s) \cup Site!LatchWrites(s)
  <2>1. PICK r \in BOOLEAN : t = [s EXCEPT !.ready = r, !.packet = Site!Dirtied(s)]
    BY <1>4 DEF Site!EditWorkspace, Site!LatchWrites
  <2>2. Site!Dirtied(s) \in {"none", "current", "dirty"}
    BY DEF Live, Site!Application, Site!Dirtied
  <2>. QED
    BY <2>1, <2>2 DEF Live, Site!Application
<1>5. CASE t \in Site!MoveToSubmitReview(s) \cup Site!BackToApplying(s) \cup Site!RefreshPacket(s)
                   \cup Site!MarkSubmitted(s)
  BY <1>5 DEF Live, Site!Application, Site!ApplicationStatus, Site!MoveToSubmitReview,
       Site!BackToApplying, Site!RefreshPacket, Site!MarkSubmitted
<1>6. CASE t \in Site!Claim(s) \cup Site!WorkerDies(s)
  BY <1>6 DEF Live, Site!Application, Site!Claim, Site!WorkerDies
<1>7. CASE t \in Site!Draft(s) \cup Site!DraftFails(s)
  <2>1. ASSUME NEW status \in Site!ApplicationStatus \ {"archived"},
               NEW run \in Site!TailoringRunStatus, NEW draft \in BOOLEAN,
               t \in Site!Worked(s, status, run, draft)
        PROVE  t \in Live
    <3>1. CASE t = [s EXCEPT !.task = "none"]
      BY <3>1 DEF Live, Site!Application
    <3>2. CASE t = [s EXCEPT !.task = "none", !.status = status, !.run = run, !.draft = draft]
      BY <3>2 DEF Live, Site!Application
    <3>. QED
      BY <2>1, <3>1, <3>2 DEF Site!Worked
  <2>2. s.status \in Site!ApplicationStatus \ {"archived"}
    BY DEF Live, Site!Application
  <2>3. /\ "tailoring_review" \in Site!ApplicationStatus \ {"archived"}
        /\ "tailoring" \in Site!ApplicationStatus \ {"archived"}
        /\ "generated_for_review" \in Site!TailoringRunStatus /\ "failed" \in Site!TailoringRunStatus
    BY DEF Site!ApplicationStatus, Site!TailoringRunStatus
  <2>4. CASE t \in Site!Draft(s)
    BY <2>1, <2>3, <2>4 DEF Site!Draft
  <2>5. CASE t \in Site!DraftFails(s)
    BY <2>1, <2>2, <2>3, <2>5 DEF Site!DraftFails
  <2>. QED
    BY <1>7, <2>4, <2>5
<1>. QED
  BY <1>1, <1>2, <1>3, <1>4, <1>5, <1>6, <1>7 DEF Site!Step, Site!Offered

----------------------------------------------------------------------------
(* The questions that are asked.                                           *)

Asked ==
  \/ question.topic = "none"
  \/ /\ question.topic = "posting"
     /\ question.posting \in Scout!Posting(Ages) /\ question.history \in Scout!History(Counts)
  \/ /\ question.topic = "readiness"
     /\ question.application \in Ready!Application(AnswerFields, Versions)
  \/ /\ question.topic = "reply"
     /\ question.request \in Latch!Request /\ question.reply \in Latch!Reply
  \/ question.topic = "document" /\ question.document \in Document
  \/ question.topic = "draft" /\ question.first \in Fill!Candidate
  \/ question.topic = "application" /\ question.application \in Live

LEMMA AlwaysAsked == Spec => []Asked
<1>1. Init => Asked
  BY DEF Init, Asked
<1>2. Asked /\ [Next]_vars => Asked'
  <2>. SUFFICES ASSUME Asked, [Next]_vars
                PROVE  Asked'
    OBVIOUS
  <2>1. CASE AskPosting
    BY <2>1 DEF AskPosting, Asked
  <2>2. CASE AskReadiness
    BY <2>2 DEF AskReadiness, Asked
  <2>3. CASE AskReply
    BY <2>3, ExchangesAssumption DEF AskReply, Asked
  <2>4. CASE AskDocument
    BY <2>4, DocumentsAssumption DEF AskDocument, Asked
  <2>5. CASE AskDraft
    BY <2>5, DraftsAssumption DEF AskDraft, Asked
  <2>6. CASE AskApplication
    <3>1. Site!Created \in Live
      BY DEF Live, Site!Created, Site!Application, Site!ApplicationStatus
    <3>. QED
      BY <2>6, <3>1 DEF AskApplication, Asked
  <2>7. CASE ApplicationMoves
    <3>1. question.application \in Live
      BY <2>7 DEF ApplicationMoves, Asked
    <3>. QED
      BY <2>7, <3>1, LiveStays DEF ApplicationMoves, Asked
  <2>8. CASE Answered
    BY <2>8 DEF Answered, Asked
  <2>9. CASE UNCHANGED vars
    BY <2>9 DEF vars, Asked
  <2>. QED
    BY <2>1, <2>2, <2>3, <2>4, <2>5, <2>6, <2>7, <2>8, <2>9 DEF Next, Ask
<1>. QED
  BY <1>1, <1>2, PTL DEF Spec

\* A doubt about a posting's title, scores or risks sends it to a person, and the two
\* other doubts do not; no posting is archived without one: at any age, with any history.
THEOREM ScoutAsksWhenInDoubt == Spec => []OnlyBarringDoubtsGoToAPerson
<1>1. Asked => OnlyBarringDoubtsGoToAPerson
  BY DoubtsGoToAPerson DEF OnlyBarringDoubtsGoToAPerson
<1>. QED
  BY <1>1, AlwaysAsked, PTL

\* Scout treats no posting worse for saying more in its favour, at any age and with
\* any history.
THEOREM BetterPostingsFareNoWorse == Spec => []BetterIsNotWorse
<1>1. Asked => BetterIsNotWorse
  BY BetterPostingIsNotWorse DEF Asked, BetterIsNotWorse
<1>. QED
  BY <1>1, AlwaysAsked, PTL

\* Readiness, completion, next action and the answers shown differ in the three ways
\* the property names and in no other, with any number of answers and of versions.
THEOREM SummariesDifferAsStated == Spec => []SummariesDifferOnlyHere
<1>1. Asked => SummariesDifferOnlyHere
  BY SummariesCompared DEF Asked, SummariesDifferOnlyHere
<1>. QED
  BY <1>1, AlwaysAsked, PTL

\* An accepted reply of the Latch agent hides only blockers that are no objects, and
\* selects no résumé but the approved one, whatever was asked and replied.
THEOREM RepliesHideOnlyWhatIsDropped == Spec => []HidesOnlyWhatIsDropped
<1>1. Asked => HidesOnlyWhatIsDropped
  BY AcceptedReplyHidesLittle DEF Asked, HidesOnlyWhatIsDropped
<1>. QED
  BY <1>1, AlwaysAsked, PTL

\* The retry for a denser draft does no harm, for drafts of any measures.
THEOREM RetriesAreHarmless == Spec => []RetryDoesNoHarm
<1>1. Asked => RetryDoesNoHarm
  BY DraftIsNotHarmed DEF Asked, RetryDoesNoHarm
<1>. QED
  BY <1>1, AlwaysAsked, PTL

\* Wherever the pages and the workers bring an application, the pages offer it a
\* way to its submission.
THEOREM ApplicationsAreNotStuck == Spec => []HasAWayOut
<1>1. Asked => HasAWayOut
  BY LiveHasAWayOut DEF Asked, HasAWayOut
<1>. QED
  BY <1>1, AlwaysAsked, PTL

\* A résumé is printed in full, on the paper, and what is wrapped within its boxes, for
\* every document, with header lines and titles of any length (buildLayout, paginate,
\* pageContentStream, buildLayoutMetrics).
THEOREM ResumesAreWhole == Spec => []ResumeIsWhole
<1>1. Asked => ResumeIsWhole
  BY DocumentsArePrintedWhole DEF Asked, ResumeIsWhole
<1>. QED
  BY <1>1, AlwaysAsked, PTL

=============================================================================
