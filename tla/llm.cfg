\* Calls of generate() and stream() under aborts, timeouts, retries and broken streams.
SPECIFICATION Spec
CONSTANTS
    a = a
    b = b
    Calls = {a, b}
    NoCall = NoCall
    Jobs <- MCJobs
    Answers <- MCAnswers
    MaxToolRounds = 1
    MaxRetries = 1
INVARIANTS
    RequestsAnswered
    OnlyInterruptedToolsOutlive
    StrictCallsExact
PROPERTIES
    NoDataTwice
    TimedCallsReturn
