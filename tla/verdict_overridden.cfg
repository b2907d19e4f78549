\* A report of failure against text that says success.
SPECIFICATION Spec
CONSTANTS
    gate = gate
    full = full
    plain = plain
    thread = thread
    Nodes = {gate, full, plain}
    Threads = {thread}
    NoThread = NoThread
    NoNode = NoNode
    Attributes <- MCAttributes
    ModelAnswers <- MCModelAnswers
    GateChoices <- MCGateChoices
    MaxCalls = 3
INVARIANT
    ReportWins
