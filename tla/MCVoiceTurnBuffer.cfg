CONSTANTS
    w1 = w1
    w2 = w2
    c1 = c1
    c2 = c2
    none = none
    Word <- MCWord
    ConfirmationId <- MCConfirmationId
    NoConfirmation = none
    MaxConfirmations = 2
    MaxRevision = 3
SPECIFICATION BufferSpec
INVARIANTS
    StateConsistency
    JudgementBacksState
