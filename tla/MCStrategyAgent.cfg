CONSTANTS
    t1 = t1
    t2 = t2
    NumTopics = 3
    Weak <- MCWeak
    WeakHistory <- MCWeakHistory
    Text <- MCText
    WellFormed <- MCWellFormed
    Similar <- MCSimilar
    Quality <- MCQuality
    MaxQuestions = 3
    MaxAsked = 4
SPECIFICATION FairSpec
CHECK_DEADLOCK FALSE
INVARIANTS
    NoTopicTriedTwice
PROPERTIES
    DifficultyIsRequired
    FreshTopicsFirst
    GoodWhenAsked
    QuestionComes
