SPECIFICATION FairSpec
CONSTANTS
    MaxQuestions = 2
    MaxDerived = 1
    SilenceLimit = 3
    TimeoutAction = "end"
    Modes = {"chat", "voice"}
    EventId = {e1}
    NoEventId = NoEventId
    RetryFirst = TRUE
    MaxAnswers = 3
    e1 = e1
INVARIANT SetLimits
INVARIANT EveryAnswerJudgedOnce
INVARIANT SetsDoNotMix
INVARIANT MainAnsweredByText
INVARIANT AnswerRecordedOnce
PROPERTY OutlineSpec
PROPERTY EndIsHonoured
CHECK_DEADLOCK FALSE
