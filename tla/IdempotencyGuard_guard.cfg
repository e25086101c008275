SPECIFICATION FairSpec
CONSTANTS
    Requests = {r1, r2}
    Keys = {k1, k2}
    Payloads = {a, b}
    Commands = {"draft", "create", "decide", "close", "import", "place"}
    MaxFaults = 2
CHECK_DEADLOCK FALSE
INVARIANTS EffectOncePerKey OneCallPerKey AnswerIsOwn
PROPERTY RetryIsSettled
