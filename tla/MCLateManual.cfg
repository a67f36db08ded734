CONSTANTS
    Conn = {c1, c2}
    NoConn = NoConn
    Request = {h1}
    ManualId = {m1}
    Revision = {1}
    Last = 2
SPECIFICATION FairSpec
PROPERTIES
    ManualKeepsTurn
CHECK_DEADLOCK FALSE
