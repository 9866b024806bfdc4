SPECIFICATION FairSpec
CONSTANTS
  Request = {r1, r2}
  Session = {s1, s2}
  NoSession = none
  MaxFrames = 2
INVARIANTS AnswersWhole HistoryFinished
PROPERTIES FinalStays EverySendEnds
CHECK_DEADLOCK FALSE
