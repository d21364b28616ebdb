----------------------------- MODULE ScoutRules -----------------------------
(***************************************************************************)
(* Scout's own judgement of a posting (packages/domain/src/scout.ts,       *)
(* workers/scout/learning.ts, buildScoutDecisionDraft of                   *)
(* workers/scout/index.ts): from what the posting says and what people did *)
(* with earlier jobs of its kind to a decision.                            *)
(*                                                                         *)
(* The texts are abstracted to what the patterns tell apart.  Scores are   *)
(* in tenths, as clamp() leaves them; confidences are compared with 0.85   *)
(* after rounding to hundredths.  No sum met here lies half way between    *)
(* two roundings of a score.                                               *)
(***************************************************************************)
EXTENDS Integers, FiniteSets

\* What a posting says.  `analyst', `analytics' and `ai' are the three patterns
\* over title and description, `place' is the normalised location, `posted' holds
\* the age in days where a date is known.
Posting(ages) ==
  {p \in [title : {"exact", "adjacent", "other"}, analyst : BOOLEAN, analytics : BOOLEAN,
          ai : BOOLEAN, flag : {"remote", "hybrid", "neither"},
          place : {"unknown", "remote", "wanted", "elsewhere"}, posted : {{}} \cup {{a} : a \in ages},
          url : BOOLEAN, described : BOOLEAN, paid : BOOLEAN] :
     p.title = "exact" => p.analyst}

\* What people did with Scout's decisions on jobs of the same bucket.
History(counts) ==
  [shortlistOverride : counts, archiveOverride : counts,
   shortlistAgree : counts, archiveAgree : counts]

----------------------------------------------------------------------------

inferWorkMode(p) ==
  CASE p.flag # "neither" -> p.flag
    [] p.place = "remote" -> "remote"
    [] p.place = "unknown" -> "unknown"
    [] OTHER -> "onsite"

AgeBucket(age) == IF age <= 7 THEN "fresh" ELSE IF age <= 21 THEN "recent" ELSE "stale"

freshnessBucket(posted) ==
  IF posted = {} THEN "unknown" ELSE AgeBucket(CHOOSE age \in posted : TRUE)

Points(condition, points) == IF condition THEN points ELSE 0

WantedPlace(p) == inferWorkMode(p) = "remote" \/ p.place = "wanted"

fitScore(p) ==
  55 + Points(p.analyst, 22) + Points(p.analytics, 10) + Points(WantedPlace(p), 8)
companyQualityScore(p) == 55 + Points(p.ai, 8)
aiRelevanceScore(p) == 45 + Points(p.ai, 28)

\* Faulty variant: a stale posting counts as a fresh one does.
freshnessScoreSwapped(p) ==
  [fresh |-> 35, recent |-> 70, stale |-> 90, unknown |-> 50][freshnessBucket(p.posted)]

freshnessScore(p) ==
  [fresh |-> 90, recent |-> 70, stale |-> 35, unknown |-> 50][freshnessBucket(p.posted)]

priorityScore(p) ==
  (40 * fitScore(p) + 15 * companyQualityScore(p) + 20 * aiRelevanceScore(p)
     + 25 * freshnessScore(p) + 50) \div 100

risks(p) ==
  Points(~WantedPlace(p) /\ p.place = "unknown", 1)
    + Points(freshnessBucket(p.posted) = "stale", 1) + Points(~p.url, 1) + Points(~p.described, 1)

----------------------------------------------------------------------------
(* loadScoutLearningSignal; the deltas are in hundredths.                  *)

shortlistConfidenceDelta(h) ==
  Points(h.shortlistOverride >= 2 /\ h.shortlistOverride > h.archiveOverride, 8)
    + Points(h.shortlistAgree >= 3 /\ h.shortlistAgree > h.archiveAgree, 4)

archiveConfidenceDelta(h) ==
  Points(h.archiveOverride >= 2 /\ h.archiveOverride > h.shortlistOverride, 8)
    + Points(h.archiveAgree >= 3 /\ h.archiveAgree > h.shortlistAgree, 4)

suppressAdjacentAmbiguity(p, h) ==
  /\ p.title = "adjacent"
  /\ h.shortlistOverride >= 2
  /\ h.shortlistOverride >= h.archiveOverride

----------------------------------------------------------------------------
(* buildScoutDecisionDraft.                                                *)

ambiguityFlags(p, h) ==
  {flag \in {"adjacent_analyst_title", "non_target_title", "salary_missing", "borderline_fit",
             "borderline_priority", "high_risk_count", "historical_archive_bias"} :
     \/ flag = "adjacent_analyst_title" /\ p.title = "adjacent" /\ ~suppressAdjacentAmbiguity(p, h)
     \/ flag = "non_target_title" /\ p.title = "other"
     \/ flag = "salary_missing" /\ ~p.paid
     \/ flag = "borderline_fit" /\ 55 <= fitScore(p) /\ fitScore(p) < 72
     \/ flag = "borderline_priority" /\ 60 <= priorityScore(p) /\ priorityScore(p) < 78
     \/ flag = "high_risk_count" /\ risks(p) >= 2
     \/ flag = "historical_archive_bias"
          /\ archiveConfidenceDelta(h) > shortlistConfidenceDelta(h)}

\* The sums of the two confidences, in units of 1/78000.
Hundredths(sum) == IF sum < 0 THEN 0 ELSE (sum + 390) \div 780
ActsAt(sum) == Hundredths(sum) >= 85

shortlistConfidence(p, h) ==
  43680 + 325 * priorityScore(p) + 300 * fitScore(p)
    + 780 * shortlistConfidenceDelta(h) - 351 * archiveConfidenceDelta(h)
    - 6240 * Cardinality(ambiguityFlags(p, h)) - 3120 * risks(p)

\* Here in units of 1/546000.
archiveConfidence(p, h) ==
  262080 + 2600 * (100 - priorityScore(p)) + 2100 * (100 - fitScore(p))
    + 5460 * archiveConfidenceDelta(h) - 2457 * shortlistConfidenceDelta(h)
    + 32760 * risks(p)

Decided(verdict, auto) == [verdict |-> verdict, auto |-> auto]

\* Faulty variant: the title does not have to be the target title.
GoodMatchAnyTitle(p) == priorityScore(p) >= 78 /\ fitScore(p) >= 72 /\ risks(p) <= 1

GoodMatch(p) ==
  p.title = "exact" /\ priorityScore(p) >= 78 /\ fitScore(p) >= 72 /\ risks(p) <= 1
PoorMatch(p) == p.title # "exact" /\ priorityScore(p) <= 42 /\ fitScore(p) <= 48

Unclear(p, h) == ambiguityFlags(p, h) # {} \/ priorityScore(p) >= 68 \/ fitScore(p) >= 65

decision(p, h) ==
  IF GoodMatch(p) THEN Decided("shortlist", ActsAt(shortlistConfidence(p, h)))
  ELSE IF PoorMatch(p) THEN Decided("archive", archiveConfidence(p, h) >= 461370)
  ELSE Decided(IF Unclear(p, h) THEN "needs_human_review" ELSE "defer", FALSE)

----------------------------------------------------------------------------

\* The doubts that keep Scout from acting.  A missing salary and a history of
\* archived jobs are doubts too, but keep it from nothing.
Barring ==
  {"adjacent_analyst_title", "non_target_title", "borderline_fit", "borderline_priority",
   "high_risk_count"}

\* A posting in one of these doubts goes to a person; every good match is shortlisted
\* without one, because no good match falls below the confidence that is asked for,
\* whatever its other doubts; and nothing is archived, because no posting scores as
\* low as that rule asks.
OnlyBarringDoubtsGoToAPerson(p, h) ==
  /\ ambiguityFlags(p, h) \cap Barring # {} =>
       decision(p, h) = Decided("needs_human_review", FALSE)
  /\ GoodMatch(p) <=> decision(p, h) = Decided("shortlist", TRUE)
  /\ decision(p, h).verdict \in {"shortlist", "needs_human_review", "defer"}
  /\ decision(p, h).auto <=> decision(p, h).verdict = "shortlist"

\* The postings that are better than p in one respect.
Improved(p) ==
  {[p EXCEPT !.ai = TRUE], [p EXCEPT !.analytics = TRUE], [p EXCEPT !.url = TRUE],
   [p EXCEPT !.described = TRUE], [p EXCEPT !.paid = TRUE], [p EXCEPT !.flag = "remote"],
   [p EXCEPT !.posted = {0}]}

\* A better posting is not treated worse: what Scout would shortlist by itself,
\* it also shortlists by itself when the posting says more in its favour.
BetterIsNotWorse(p, h) ==
  decision(p, h) = Decided("shortlist", TRUE) =>
    \A better \in Improved(p) : decision(better, h) = Decided("shortlist", TRUE)

=============================================================================
