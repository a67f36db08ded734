CONSTANTS
    c1 = c1
    c2 = c2
    c3 = c3
    Call <- MCTwo
    MaxInterviews = 3
SPECIFICATION Spec
SYMMETRY CallSymmetry
INVARIANTS
    CompletedHasResult
    ReleasedIsSaved
    StartEndsTheOthers
    WaitingEnds
