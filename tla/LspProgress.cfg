SPECIFICATION FairClosingSpec
CONSTANTS
    Workers = {w1, w2}
    Files = {f1}
    MaxMessages = 4
    Sessions <- Progress
PROPERTIES CompletionsAnswered ExitEnds
CHECK_DEADLOCK FALSE
