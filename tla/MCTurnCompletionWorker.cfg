CONSTANTS
    w1 = w1
    w2 = w2
    Word <- MCWord
    ConfirmationId <- MCConfirmationId
    NoConfirmation = 0
    MaxConfirmations = 1
    MinTextLength = 2
    MaxRevision = 3
SPECIFICATION FairSpec
INVARIANTS
    LatestWins
    DecisionAboutThisAnswer
PROPERTY
    AcceptedIsJudged
