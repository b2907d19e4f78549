---------------------------- MODULE AgentSession ----------------------------
(***************************************************************************)
(* AgentSession (agent_session.py) with its state machine (state.py), its   *)
(* history (turns.py) and its two queues (steering.py).                    *)
(*                                                                         *)
(* The host runs process_input in tasks; each task is a member of Calls and *)
(* is used once, its name standing for its prompt.  A follow-up is a        *)
(* process_input inside the _process_follow_ups of the one before, so a     *)
(* task is a stack of inputs of which only the innermost is in the loop:    *)
(* pc tells where that one stands and level how many follow-up loops it is  *)
(* nested in.  What a task does between two awaits is one action.           *)
(*                                                                         *)
(* pc[c]:                                                                   *)
(*   new       not called yet                                               *)
(*   submit    called, SESSION_START going out                              *)
(*   opening   the user turn is recorded                                    *)
(*   inject    drained steering messages go into the history one by one     *)
(*   top       at the head of the agentic loop                              *)
(*   provider  waiting for the model                                        *)
(*   spoke     the assistant turn is recorded                               *)
(*   tools     waiting for the tools                                        *)
(*   limit     out of the loop, AGENT_TURN_LIMIT going out                  *)
(*   ending    cancelled, SESSION_END going out                             *)
(*   drain     in the loop of _process_follow_ups                           *)
(*   returned, raised                                                       *)
(***************************************************************************)
EXTENDS Integers, Sequences, FiniteSets

CONSTANTS
  Calls,           \* tasks of the host, and the prompts they bring
  SteeringMsgs,    \* what the host may steer with, in this order
  FollowUpMsgs,    \* what the host may follow up with, in this order
  AnswerSizes,     \* how many tool calls an answer of the model may have
  Configs          \* the configurations a session may have

(* maxRounds is max_tool_rounds_per_input and maxTurns max_turns, 0 for no  *)
(* limit; parallel is supports_parallel_tool_calls, detect is               *)
(* enable_loop_detection.  steers and follows bound what the host sends.    *)
Config ==
  [maxRounds: Nat, maxTurns: Nat, parallel: BOOLEAN, detect: BOOLEAN,
   steers: 0 .. Len(SteeringMsgs), follows: 0 .. Len(FollowUpMsgs)]

Elements(s) == {s[i] : i \in DOMAIN s}

ASSUME MessagesAssumption ==
  SteeringMsgs \in Seq(Elements(SteeringMsgs)) /\ FollowUpMsgs \in Seq(Elements(FollowUpMsgs))
(* A member of these stands for one call of steer(), follow_up() or         *)
(* process_input(), whatever text it brings: no two calls are the same.     *)
ASSUME SendsAssumption ==
  /\ \A i, j \in DOMAIN SteeringMsgs : SteeringMsgs[i] = SteeringMsgs[j] => i = j
  /\ \A i, j \in DOMAIN FollowUpMsgs : FollowUpMsgs[i] = FollowUpMsgs[j] => i = j
  /\ Elements(SteeringMsgs) \cap Elements(FollowUpMsgs) = {}
  /\ Calls \cap (Elements(SteeringMsgs) \cup Elements(FollowUpMsgs)) = {}
ASSUME ConfigsAssumption == Configs \subseteq Config
ASSUME SizesAssumption == AnswerSizes \subseteq Nat

VARIABLES
  config,      \* self._config; never changes
  state,       \* SessionStateMachine._state
  history,     \* the turns
  steering, followUps,    \* the queues, shared by every task
  depth,       \* _follow_up_depth, shared by every task
  pc, level,   \* per task
  frame,       \* the locals of the innermost input
  cancel,      \* the coordinator's cancellation token
  sentSteering, sentFollowUps,    \* how many messages the host has sent
  announced    \* SESSION_END is the last lifecycle event

queues == <<steering, followUps>>
task == <<pc, level, frame>>
host == <<config, cancel, sentSteering, sentFollowUps>>
vars == <<config, state, history, steering, followUps, depth, task, cancel, sentSteering, sentFollowUps, announced>>

-----------------------------------------------------------------------------

States == {"idle", "processing", "awaiting_input", "closed"}
Idle == {"new", "returned", "raised"}
Loop == {"opening", "inject", "top", "provider", "spoke", "tools", "limit"}
Points == Idle \cup Loop \cup {"submit", "ending", "drain"}

UserTurn(m) == [kind |-> "user", msg |-> m]
AssistantTurn(n) == [kind |-> "assistant", calls |-> n]
ToolResultsTurn(n) == [kind |-> "results", calls |-> n]
SteeringTurn(m) == [kind |-> "steering", msg |-> m]
LoopWarning == [kind |-> "warning"]

(* round_count; how many tool calls the model's last answer has, and        *)
(* whether it ends in a question; steering messages drained and not yet     *)
(* recorded.                                                               *)
NewFrame == [rounds |-> 0, calls |-> 0, asks |-> FALSE, pending |-> <<>>]

Init ==
  /\ config \in Configs
  /\ state = "idle"
  /\ history = <<>> /\ steering = <<>> /\ followUps = <<>>
  /\ depth = 0
  /\ pc = [c \in Calls |-> "new"] /\ level = [c \in Calls |-> 0]
  /\ frame = [c \in Calls |-> NewFrame]
  /\ cancel = "none"
  /\ sentSteering = 0 /\ sentFollowUps = 0
  /\ announced = FALSE

-----------------------------------------------------------------------------
(* Pieces of process_input *)

At(c, p) == pc[c] = p
Goto(c, p) == pc' = [pc EXCEPT ![c] = p]
DropFrame(c) == frame' = [frame EXCEPT ![c] = NewFrame]
EmitSessionEnd == announced' = TRUE

(* An exception leaves every follow-up loop the task is in; each one's      *)
(* finally gives back its share of _follow_up_depth.                       *)
Unwind(c) ==
  /\ Goto(c, "raised") /\ DropFrame(c)
  /\ depth' = depth - level[c] /\ level' = [level EXCEPT ![c] = 0]
  /\ UNCHANGED <<history, steering, host>>

Raise(c) == Unwind(c) /\ UNCHANGED <<state, followUps, announced>>

SubmitAnyway == state # "closed"    \* mutant: submit is never refused
MaySubmit == state = "idle"

(* process_input(m) up to its first await.                                 *)
Submit(c, m) ==
  /\ MaySubmit /\ state' = "processing"
  /\ history' = Append(history, UserTurn(m))
  /\ announced' = FALSE
  /\ Goto(c, "opening")
  /\ UNCHANGED <<depth, level, frame>>

(* complete() is legal only in PROCESSING: a task that finds the session    *)
(* closed raises instead.                                                  *)
MayComplete == state = "processing"

EnterFollowUps(c) ==
  /\ Goto(c, "drain") /\ DropFrame(c)
  /\ level' = [level EXCEPT ![c] = @ + 1] /\ depth' = depth + 1

CompleteInput(c) ==
  /\ MayComplete /\ state' = "idle"
  /\ EnterFollowUps(c)
  /\ UNCHANGED <<history, queues, host, announced>>

(* The cancel checkpoints: SESSION_END goes out first.                     *)
StopEarly(c) ==
  /\ MayComplete /\ state' = "idle"
  /\ Goto(c, "ending") /\ DropFrame(c)
  /\ UNCHANGED <<history, queues, depth, level, host, announced>>

TooLate(c) == ~MayComplete /\ Raise(c)

-----------------------------------------------------------------------------
(* Entering *)

Call(c) ==
  /\ At(c, "new") /\ Goto(c, "submit")
  /\ UNCHANGED <<state, history, queues, depth, level, frame, host, announced>>

Accepted(c) == At(c, "submit") /\ Submit(c, c) /\ UNCHANGED <<queues, host>>
Refused(c) == At(c, "submit") /\ ~MaySubmit /\ Raise(c)

(* resume_with_input goes AWAITING_INPUT -> PROCESSING -> IDLE and, with no *)
(* await between, on to process_input.                                     *)
ResumeWithInput(c) ==
  /\ At(c, "new") /\ state = "awaiting_input"
  /\ state' = "processing"
  /\ history' = Append(history, UserTurn(c))
  /\ announced' = FALSE
  /\ Goto(c, "opening")
  /\ UNCHANGED <<queues, depth, level, frame, host>>

-----------------------------------------------------------------------------
(* The agentic loop *)

Within == UNCHANGED <<state, followUps, depth, level, host, announced>>

(* drain() empties the queue at once; the turns are recorded one by one.    *)
DrainSteering(c, f) ==
  /\ frame' = [frame EXCEPT ![c] = [f EXCEPT !.pending = steering]]
  /\ steering' = <<>>
  /\ Goto(c, "inject")

Open(c) ==
  /\ At(c, "opening") /\ DrainSteering(c, frame[c])
  /\ Within /\ UNCHANGED history

Inject(c) ==
  /\ At(c, "inject") /\ frame[c].pending # <<>>
  /\ history' = Append(history, SteeringTurn(Head(frame[c].pending)))
  /\ frame' = [frame EXCEPT ![c].pending = Tail(@)]
  /\ Within /\ UNCHANGED <<pc, steering>>

(* The detector looks at the calls of the rounds so far; whether they       *)
(* repeat is data.                                                         *)
Injected(c) ==
  /\ At(c, "inject") /\ frame[c].pending = <<>>
  /\ Goto(c, "top")
  /\ \/ UNCHANGED history
     \/ config.detect /\ frame[c].rounds > 0 /\ history' = Append(history, LoopWarning)
  /\ Within /\ UNCHANGED <<steering, frame>>

OutOfRounds(c) == config.maxRounds > 0 /\ frame[c].rounds >= config.maxRounds
OutOfTurns == config.maxTurns > 0 /\ Len(history) >= config.maxTurns

CancelAtTop(c) ==
  /\ At(c, "top") /\ ~OutOfRounds(c) /\ cancel # "none"
  /\ StopEarly(c) \/ TooLate(c)

ReachLimit(c) ==
  /\ At(c, "top") /\ Goto(c, "limit")
  /\ OutOfRounds(c) \/ (cancel = "none" /\ OutOfTurns)
  /\ Within /\ UNCHANGED <<history, steering, frame>>

Request(c) ==
  /\ At(c, "top") /\ Goto(c, "provider")
  /\ ~OutOfRounds(c) /\ cancel = "none" /\ ~OutOfTurns
  /\ Within /\ UNCHANGED <<history, steering, frame>>

CancelAfterProvider(c) ==
  /\ At(c, "provider") /\ cancel = "immediate"
  /\ StopEarly(c) \/ TooLate(c)

Answer(c) ==
  /\ At(c, "provider") /\ cancel # "immediate"
  /\ Goto(c, "spoke")
  /\ \E n \in AnswerSizes, q \in BOOLEAN :
       /\ q => n = 0
       /\ history' = Append(history, AssistantTurn(n))
       /\ frame' = [frame EXCEPT ![c].calls = n, ![c].asks = q]
  /\ Within /\ UNCHANGED steering

(* ContextLengthError leaves the session usable.                           *)
ContextLengthExceeded(c) == At(c, "provider") /\ (CompleteInput(c) \/ TooLate(c))

(* A retryable error is passed on as it is; an error that finds the session *)
(* closed already raises just the same.                                    *)
RetryableError(c) == At(c, "provider") /\ Raise(c)

(* Any other error closes the session.                                     *)
FatalError(c) ==
  /\ At(c, "provider") /\ state = "processing"
  /\ state' = "closed"
  /\ Unwind(c) /\ EmitSessionEnd
  /\ UNCHANGED followUps

ToolRound(c) ==
  /\ At(c, "spoke") /\ frame[c].calls > 0
  /\ Goto(c, "tools")
  /\ Within /\ UNCHANGED <<history, steering, frame>>

Question(c) ==
  /\ At(c, "spoke") /\ frame[c].calls = 0 /\ frame[c].asks
  /\ state = "processing" /\ state' = "awaiting_input"
  /\ Goto(c, IF level[c] = 0 THEN "returned" ELSE "drain") /\ DropFrame(c)
  /\ UNCHANGED <<history, queues, depth, level, host, announced>>

NaturalCompletion(c) ==
  /\ At(c, "spoke") /\ frame[c].calls = 0 /\ ~frame[c].asks
  /\ CompleteInput(c)

SpokeTooLate(c) == At(c, "spoke") /\ frame[c].calls = 0 /\ TooLate(c)

ResultsDropped(c) == history    \* mutant: cancelled tools leave no results
CancelledResults(c) == Append(history, ToolResultsTurn(frame[c].calls))

RecordResults(c, turns) ==
  /\ history' = turns
  /\ DrainSteering(c, [frame[c] EXCEPT !.rounds = @ + 1, !.calls = 0])
  /\ Within

(* An error of a tool is a result like any other.                          *)
ToolsDone(c) ==
  /\ At(c, "tools")
  /\ RecordResults(c, Append(history, ToolResultsTurn(frame[c].calls)))

(* The host cancels the task.  Tools that run in parallel turn that into    *)
(* results, and the loop goes on; anywhere else it ends the task.          *)
InParallel(c) == config.parallel /\ frame[c].calls > 1
ToolsCancelled(c) == At(c, "tools") /\ InParallel(c) /\ RecordResults(c, CancelledResults(c))
TaskCancelled(c) ==
  /\ pc[c] \in (Loop \ {"top"}) \cup {"submit", "ending"}
  /\ ~(At(c, "tools") /\ InParallel(c))
  /\ Raise(c)

Limited(c) == At(c, "limit") /\ (CompleteInput(c) \/ TooLate(c))

-----------------------------------------------------------------------------
(* _process_follow_ups *)

Ending(c) ==
  /\ At(c, "ending")
  /\ EmitSessionEnd /\ EnterFollowUps(c)
  /\ UNCHANGED <<state, history, queues, host>>

NewestFirst == [i \in DOMAIN followUps |->    \* mutant: a stack for a queue
                  followUps[Len(followUps) + 1 - i]]
InOrder == followUps

NextFollowUp(c) ==
  /\ At(c, "drain") /\ followUps # <<>>
  /\ Submit(c, Head(InOrder)) /\ followUps' = Tail(InOrder)
  /\ UNCHANGED <<steering, host>>

(* The message is gone from the queue and nobody gets it.                  *)
FollowUpRefused(c) ==
  /\ At(c, "drain") /\ followUps # <<>> /\ ~MaySubmit
  /\ followUps' = Tail(followUps)
  /\ Unwind(c) /\ UNCHANGED <<state, announced>>

LeaveLoop(c) ==
  /\ depth' = depth - 1 /\ level' = [level EXCEPT ![c] = @ - 1]
  /\ Goto(c, IF level[c] = 1 THEN "returned" ELSE "drain")
  /\ UNCHANGED <<state, history, queues, frame, host>>

OutermostNever == depth = 0    \* mutant: tested before the loop is left
Outermost == depth = 1

DrainedAlone(c) ==    \* mutant: waits for the other tasks' loops
  /\ At(c, "drain") /\ followUps = <<>> /\ depth = level[c]
  /\ LeaveLoop(c)
  /\ IF Outermost THEN EmitSessionEnd ELSE UNCHANGED announced

FollowUpsDrained(c) ==
  /\ At(c, "drain") /\ followUps = <<>>
  /\ LeaveLoop(c)
  /\ IF Outermost THEN EmitSessionEnd ELSE UNCHANGED announced

-----------------------------------------------------------------------------
(* The host *)

Steer ==
  /\ sentSteering < config.steers
  /\ steering' = Append(steering, SteeringMsgs[sentSteering + 1])
  /\ sentSteering' = sentSteering + 1
  /\ UNCHANGED <<config, state, history, followUps, depth, task, cancel, sentFollowUps, announced>>

FollowUp ==
  /\ sentFollowUps < config.follows
  /\ followUps' = Append(followUps, FollowUpMsgs[sentFollowUps + 1])
  /\ sentFollowUps' = sentFollowUps + 1
  /\ UNCHANGED <<config, state, history, steering, depth, task, cancel, sentSteering, announced>>

Cancel ==
  /\ cancel # "immediate"
  /\ cancel' \in {"graceful", "immediate"} \ {cancel}
  /\ UNCHANGED <<config, state, history, queues, depth, task, sentSteering, sentFollowUps, announced>>

(* shutdown() first waits for tool processes to die; if the session is      *)
(* closed meanwhile it raises and changes nothing.                         *)
Shutdown ==
  /\ state # "closed" /\ state' = "closed"
  /\ EmitSessionEnd
  /\ UNCHANGED <<history, queues, depth, task, host>>

-----------------------------------------------------------------------------

Enter(c) == Accepted(c) \/ Refused(c)
LoopStep(c) ==
  \/ Open(c) \/ Inject(c) \/ Injected(c)
  \/ CancelAtTop(c) \/ ReachLimit(c) \/ Request(c)
  \/ CancelAfterProvider(c) \/ Answer(c)
  \/ ContextLengthExceeded(c) \/ RetryableError(c) \/ FatalError(c)
  \/ ToolRound(c) \/ Question(c) \/ NaturalCompletion(c) \/ SpokeTooLate(c)
  \/ ToolsDone(c) \/ Limited(c)
FollowUpStep(c) == Ending(c) \/ NextFollowUp(c) \/ FollowUpRefused(c) \/ FollowUpsDrained(c)
TaskStep(c) == Enter(c) \/ LoopStep(c) \/ FollowUpStep(c)

HostStep ==
  \/ \E c \in Calls : Call(c) \/ ResumeWithInput(c) \/ ToolsCancelled(c) \/ TaskCancelled(c)
  \/ Steer \/ FollowUp \/ Cancel \/ Shutdown

Next == HostStep \/ \E c \in Calls : TaskStep(c)

Spec == Init /\ [][Next]_vars

(* The event loop runs every task on, and models and tools answer.         *)
FairSpec == Spec /\ \A c \in Calls : WF_vars(TaskStep(c))

-----------------------------------------------------------------------------
(* What a session promises *)

InLoop(c) == pc[c] \in Loop
Quiet == \A c \in Calls : pc[c] \in Idle
Raised == \E c \in Calls : At(c, "raised")

Messages == Calls \cup Elements(SteeringMsgs) \cup Elements(FollowUpMsgs)
Turns ==
  [kind: {"user", "steering"}, msg: Messages]
    \cup [kind: {"assistant", "results"}, calls: AnswerSizes] \cup {LoopWarning}

Frames == [rounds: Nat, calls: Nat, asks: BOOLEAN, pending: Seq(Messages)]

(* Every variable has its type; a task leaves no follow-up loop it has not  *)
(* entered.                                                                *)
TypeOK ==
  /\ config \in Configs /\ state \in States
  /\ history \in Seq(Turns)
  /\ steering \in Seq(Messages) /\ followUps \in Seq(Messages)
  /\ depth \in Int
  /\ pc \in [Calls -> Points] /\ level \in [Calls -> Nat]
  /\ frame \in [Calls -> Frames]
  /\ cancel \in {"none", "graceful", "immediate"}
  /\ sentSteering \in 0 .. Len(SteeringMsgs) /\ sentFollowUps \in 0 .. Len(FollowUpMsgs)
  /\ announced \in BOOLEAN

(* Whatever tasks the host starts, and however follow-ups nest, one input   *)
(* at a time is in the agentic loop: the state machine is the only lock on  *)
(* the history.                                                            *)
OneInputAtATime == \A c, d \in Calls : InLoop(c) /\ InLoop(d) => c = d

(* A request to the model never carries an orphan: each assistant turn with *)
(* tool calls is followed by the results of all of them, cancelled tools    *)
(* included (the provider API contract _execute_tool_calls cites).         *)
RequestsWellFormed ==
  (\E c \in Calls : At(c, "provider")) =>
    \A i \in DOMAIN history :
      history[i].kind = "assistant" /\ history[i].calls > 0 =>
        i < Len(history) /\ history[i + 1] = ToolResultsTurn(history[i].calls)

Positions(m) ==
  {i \in DOMAIN history : history[i].kind \in {"user", "steering"} /\ history[i].msg = m}
Waiting ==
  Elements(steering) \cup Elements(followUps)
    \cup UNION {Elements(frame[c].pending) : c \in Calls}
Accounted(msgs, n) ==
  \A i \in 1 .. n :
    /\ Cardinality(Positions(msgs[i])) <= 1
    /\ Positions(msgs[i]) # {} \/ msgs[i] \in Waiting \/ Raised
    /\ \A j \in 1 .. i - 1 : \A p \in Positions(msgs[j]), q \in Positions(msgs[i]) : p < q

(* Steering messages and follow-ups enter the history once and in the order *)
(* they were sent; one that is neither there nor on its way was lost by a   *)
(* task that told its host so by raising.                                  *)
MessagesAccounted ==
  Accounted(SteeringMsgs, sentSteering) /\ Accounted(FollowUpMsgs, sentFollowUps)

(* A session that comes to rest in IDLE without an exception has announced  *)
(* the end of its work, however tasks and follow-ups were interleaved.     *)
EndAnnounced ==
  Quiet /\ ~Raised /\ state = "idle" /\ history # <<>> => announced

(* Nothing leaves CLOSED: no input enters a closed session, and one that is *)
(* in the loop when it closes never reports a normal completion.           *)
ClosedIsFinal ==
  [][state = "closed" =>
       /\ state' = "closed"
       /\ \A c \in Calls : InLoop(c) => pc'[c] \in Loop \cup {"raised"}
       /\ \A c \in Calls : ~InLoop(c) => pc'[c] \notin Loop]_vars

(* However tasks, follow-ups, steering, tools, cancellation and shutdown     *)
(* interleave, the host sees one conversation: a task's input is served     *)
(* from submit() to the end of its loop with no turn of another in between, *)
(* steering enters only there, both queues are served from the front, and   *)
(* a closed session ends every input by an exception.                       *)
Speaking == {c \in Calls : InLoop(c)}
Drained == IF Speaking = {} THEN <<>> ELSE frame[CHOOSE c \in Calls : InLoop(c)].pending

Conversation ==
  INSTANCE OneConversation WITH
    Tasks <- Calls, Remarks <- {t \in Turns : t.kind \notin {"user", "steering"}},
    mode <- state, serving <- Speaking, talk <- history,
    asides <- Drained \o steering, inputs <- followUps

\* AgentSession with its state machine, history and queues is OneConversation.
ConversationKept == Conversation!ConversationSpec

(* Every task that enters process_input comes back, by return or raise.     *)
CallsEnd == \A c \in Calls : At(c, "submit") ~> pc[c] \in Idle

=============================================================================
