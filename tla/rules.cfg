CONSTANTS
  Ages = {7, 21, 22}
  Counts = {0, 3}
  AnswerFields = {"salary", "visa"}
  Versions = {"v1"}
  Exchanges <- Dialogues
  Documents <- Resumes
  Baselines <- Full
  FirstDrafts <- Drafts
  SecondDrafts <- Retries
SPECIFICATION Spec
INVARIANTS OnlyBarringDoubtsGoToAPerson BetterIsNotWorse SummariesDifferOnlyHere HidesOnlyWhatIsDropped ResumeIsWhole RetryDoesNoHarm 
