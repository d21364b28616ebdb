------------------------------- MODULE Density -------------------------------
(***************************************************************************)
(* Does a draft fill its page (packages/tailoring/src/density.ts), and     *)
(* which of a draft and its second attempt is kept (workers/needle/src/    *)
(* service.ts).                                                            *)
(*                                                                         *)
(* A measure is [pages, whitespace, oneLine, skills, final, lines]:        *)
(* whitespace in hundredths of a point, the share of one-line bullets in   *)
(* per cent, the others in lines.  Penalties are in hundredths, rounded    *)
(* down.                                                                   *)
(***************************************************************************)
EXTENDS Integers, FiniteSets

Least(a, b) == IF a < b THEN a ELSE b
Most(a, b) == IF a < b THEN b ELSE a

Usable == 74200         \* the height between the margins
PageHeight == 79200

clamp(value, min, max) == Most(min, Least(max, value))
Excess(value, limit) == Most(0, value - limit)

----------------------------------------------------------------------------

Measure ==
  [pages : Nat \ {0}, whitespace : 0..Usable, oneLine : 0..100, skills : Nat, final : Nat,
   lines : Nat]

\* What the baseline keeps of a measure.
Profile ==
  [whitespace : 0..Usable, oneLine : 0..100, skills : Nat, final : Nat, lines : Nat]

buildDensityBaselineProfile(m) ==
  [whitespace |-> m.whitespace, skills |-> m.skills, final |-> m.final,
   lines |-> m.lines, oneLine |-> m.oneLine]

Overflows(m) == m.pages > 1

whitespaceLimit(base) == Most(base.whitespace + 1800, (PageHeight * 8) \div 100)
oneLineBulletMax(base) == Most(50, base.oneLine + 8)
skillsLineMax(base) == Least(3, Most(1, base.skills + 1))
totalLinesMin(base) == Most(0, base.lines - 4)

WhitespacePenalty(m, base) ==
  clamp((Excess(m.whitespace, whitespaceLimit(base)) * 4000) \div whitespaceLimit(base), 0, 4000)
OneLinePenalty(m, base) ==
  clamp((Excess(m.oneLine, oneLineBulletMax(base)) * 2000)
          \div Most(100 - oneLineBulletMax(base), 1), 0, 2000)
SkillsPenalty(m, base) == clamp(Excess(m.skills, skillsLineMax(base)) * 500, 0, 1000)

\* A short last section above much more white than the baseline has.
WeakFinalSection(m, base) ==
  m.final < Most(1, base.final - 2) /\ 100 * (m.whitespace - base.whitespace) > 3 * Usable

TotalLinesPenalty(m, base) ==
  clamp((Excess(totalLinesMin(base), m.lines) * 1000) \div Most(totalLinesMin(base), 1), 0, 1000)

Reasons(m, base) ==
  {r \in {"whitespace", "one_line", "skills", "final", "lines"} :
     CASE r = "whitespace" -> m.whitespace > whitespaceLimit(base)
       [] r = "one_line" -> m.oneLine > oneLineBulletMax(base)
       [] r = "skills" -> m.skills > skillsLineMax(base)
       [] r = "final" -> WeakFinalSection(m, base)
       [] r = "lines" -> m.lines < totalLinesMin(base)}

PageScore(m, base) ==
  clamp((10050 - WhitespacePenalty(m, base) - OneLinePenalty(m, base) - SkillsPenalty(m, base)
           - (IF WeakFinalSection(m, base) THEN 1500 ELSE 0) - TotalLinesPenalty(m, base))
          \div 100, 0, 100)

PageStatus(m, base) ==
  CASE Reasons(m, base) = {} /\ PageScore(m, base) >= 75 -> "pass"
    [] "whitespace" \in Reasons(m, base) \/ PageScore(m, base) < 60 -> "underfilled"
    [] OTHER -> "accepted_with_warning"

\* Faulty variant: a second page is not looked at.
analyzeResumeDensityFirstPage(m, base) ==
  [status |-> PageStatus(m, base), score |-> PageScore(m, base)]

analyzeResumeDensity(m, base) ==
  IF Overflows(m) THEN [status |-> "overflow", score |-> 20]
  ELSE [status |-> PageStatus(m, base), score |-> PageScore(m, base)]

shouldRetryForDensity(assessment) == assessment.status = "underfilled"

----------------------------------------------------------------------------
(* A candidate is [measure, fit, high, other]: the rank of its fit, the    *)
(* number of its high risks and the weight of the others.                  *)

Candidate == [measure : Measure, fit : Nat, high : Nat, other : Nat]

riskSeverityScore(c) == 3 * c.high + c.other

fitDropIsMinor(first, c) == first.fit - c.fit <= 1

risksMateriallyWorsened(first, c) ==
  c.high > first.high \/ riskSeverityScore(c) - riskSeverityScore(first) > 2

chooseBestDensityCandidate(first, second, base) ==
  IF /\ analyzeResumeDensity(second.measure, base).score
          > analyzeResumeDensity(first.measure, base).score
     /\ fitDropIsMinor(first, second)
     /\ ~risksMateriallyWorsened(first, second)
  THEN second ELSE first

\* The agent is asked again only for a draft that leaves the page empty.
Kept(first, second, base) ==
  IF shouldRetryForDensity(analyzeResumeDensity(first.measure, base))
  THEN chooseBestDensityCandidate(first, second, base) ELSE first

\* What the run records of the chosen candidate.
buildQaMetadata(c, base) ==
  IF analyzeResumeDensity(c.measure, base).status = "pass" THEN "pass" ELSE "accepted_with_warning"

----------------------------------------------------------------------------

\* The retry does no harm: a draft as full as the baseline itself is never sent
\* back; a one-page draft gives way to one of two pages only when it scored below
\* an overflow; what is recorded as a pass fits one page; and a draft that would
\* have passed is never replaced.
RetryDoesNoHarm(first, second, base) ==
  LET kept == Kept(first, second, base)
      assessed == analyzeResumeDensity(first.measure, base)
  IN  /\ analyzeResumeDensity(first.measure, buildDensityBaselineProfile(first.measure)).status
           # "underfilled"
      /\ ~Overflows(first.measure) /\ Overflows(kept.measure) => assessed.score < 20
      /\ buildQaMetadata(kept, base) = "pass" => ~Overflows(kept.measure)
      /\ assessed.status = "pass" => kept = first

==============================================================================
