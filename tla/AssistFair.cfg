CONSTANTS
  Web = {s1}
  Beat = {s1}
  Kept = 1
  None = None
  FormDates = {}
  Sends = {t1, t2}
  Concurrency = 1
  MaxRetries = 1
  Answers = {known, other}
  Unlisted = {other}
  Askers = {q1}
  Questions = 1
SPECIFICATION AssistFairSpec
INVARIANT PredictionHasIncident QuestionKept
PROPERTY GoneWhenDue FinishedStands TrashEmptied AnalysisEnds
