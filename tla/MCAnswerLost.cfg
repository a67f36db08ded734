CONSTANTS
    w1 = w1
    w2 = w2
    c1 = c1
    c2 = c2
    NoConn = none
    Word <- MCWord
    ConfirmationId <- MCConfirmationId
    NoConfirmation = 0
    MaxConfirmations = 1
    MaxRevision = 2
    MinTextLength = 1
    Conn <- MCConn
    Judgements <- MCJudgements
    Overlap = FALSE
    RestMoves = TRUE
SPECIFICATION Spec
INVARIANT
    CommittedMeansTaken
