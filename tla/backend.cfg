\* Model nodes on the trunk and on two branches, for each kind of backend.
SPECIFICATION Spec
CONSTANTS
    gate = gate
    full = full
    plain = plain
    thread = thread
    Nodes = {gate, full, plain}
    Threads = {thread}
    NoThread = NoThread
    NoNode = NoNode
    Attributes <- MCAttributes
    ModelAnswers <- MCModelAnswers
    GateChoices <- MCGateChoices
    MaxCalls = 3
INVARIANTS
    SuccessIsAsserted
    TurnsReplaced
    HistoryIsOwn
    ChoiceHonoured
