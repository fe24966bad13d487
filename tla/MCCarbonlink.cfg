SPECIFICATION FairSpec
CONSTANTS
    Client = {c1}
    Metric = {m1, m2}
    Styles <- MCStyles
    Answers <- MCAnswers
    MaxRequests = 2
    QueryCap = 1
    MaxFrameSize = 7
    Nil = Nil
INVARIANTS RequestsInTurn RepliesMatch
PROPERTIES RequestAnswered
CHECK_DEADLOCK FALSE
