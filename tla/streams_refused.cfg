\* The default validation refuses what the adapters stream for a tool call.
SPECIFICATION Spec
CONSTANTS
    a = a
    b = b
    Calls = {a, b}
    NoCall = NoCall
    Jobs <- MCJobs
    Answers <- MCAnswers
    MaxToolRounds = 1
    MaxRetries = 1
PROPERTIES
    StreamsAccepted
