CONSTANTS
    Conn = {c1, c2}
    NoConn = NoConn
    Request = {h1}
    ManualId = {m1}
    Revision = {1}
    Last = 2
SPECIFICATION FairSpec
INVARIANTS
    OneListener
    NoQuestionSkipped
    ServedIsCurrent
PROPERTIES
    CommitEnds
\* An interview ends.
CHECK_DEADLOCK FALSE
