SPECIFICATION Spec
CONSTANTS
    Client = {c1}
    Metric = {m1, m2}
    Styles <- MCStyles
    Answers <- MCAnswers
    MaxRequests = 2
    QueryCap = 1
    MaxFrameSize = 7
    Nil = Nil
INVARIANT RepliesDecode
CHECK_DEADLOCK FALSE
