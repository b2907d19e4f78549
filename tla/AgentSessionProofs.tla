------------------------- MODULE AgentSessionProofs -------------------------
(***************************************************************************)
(* The session's types, its safety properties and that it implements        *)
(* OneConversation, for any set of tasks, any messages, any sizes of        *)
(* answers and any configurations.                                         *)
(***************************************************************************)
EXTENDS AgentSession, SequenceTheorems, FiniteSetTheorems, TLAPS

-----------------------------------------------------------------------------
(* Types *)

(* TypeOK is inductive once it is known how many tool calls a task is about *)
(* to run, and that a task in the follow-up loop has entered one.          *)
TypeInv ==
  /\ TypeOK
  /\ \A c \in Calls : pc[c] \in {"spoke", "tools"} => frame[c].calls \in AnswerSizes
  /\ \A c \in Calls : pc[c] = "drain" => level[c] # 0

LEMMA TurnTypes ==
  /\ \A m \in Messages : UserTurn(m) \in Turns /\ SteeringTurn(m) \in Turns
  /\ \A n \in AnswerSizes : AssistantTurn(n) \in Turns /\ ToolResultsTurn(n) \in Turns
  /\ LoopWarning \in Turns
BY DEF Turns, UserTurn, SteeringTurn, AssistantTurn, ToolResultsTurn

LEMMA AppendType == ASSUME NEW S, NEW s \in Seq(S), NEW e \in S PROVE Append(s, e) \in Seq(S)
OBVIOUS

LEMMA HeadTailType ==
  ASSUME NEW S, NEW s \in Seq(S), s # <<>> PROVE Head(s) \in S /\ Tail(s) \in Seq(S)
OBVIOUS

LEMMA SentType ==
  ASSUME NEW s, s \in Seq(Elements(s)), NEW n \in 0 .. Len(s), n < Len(s)
  PROVE  s[n + 1] \in Elements(s) /\ n + 1 \in 0 .. Len(s)
BY DEF Elements

LEMMA NewFrameType == NewFrame \in Frames
BY DEF NewFrame, Frames

LEMMA MessageTypes ==
  /\ Calls \subseteq Messages
  /\ Elements(SteeringMsgs) \subseteq Messages /\ Elements(FollowUpMsgs) \subseteq Messages
BY DEF Messages

LEMMA TypeInit == Init => TypeInv
<1> SUFFICES ASSUME Init PROVE TypeInv
  OBVIOUS
<1>1. /\ pc \in [Calls -> Points] /\ level \in [Calls -> Nat] /\ frame \in [Calls -> Frames]
      /\ \A c \in Calls : pc[c] = "new"
  BY NewFrameType DEF Init, Points, Idle
<1>2. history \in Seq(Turns) /\ steering \in Seq(Messages) /\ followUps \in Seq(Messages)
  BY EmptySeq DEF Init
<1>3. sentSteering \in 0 .. Len(SteeringMsgs) /\ sentFollowUps \in 0 .. Len(FollowUpMsgs)
  BY MessagesAssumption, LenProperties DEF Init
<1>4. depth \in Int
  BY DEF Init
<1>5. /\ config \in Configs /\ state \in States
      /\ cancel \in {"none", "graceful", "immediate"} /\ announced \in BOOLEAN
  BY Zenon DEF Init, States
<1> QED
  BY <1>1, <1>2, <1>3, <1>4, <1>5 DEF TypeInv, TypeOK

(* What a task's move leaves well typed.                                   *)
TaskOK ==
  /\ pc \in [Calls -> Points] /\ level \in [Calls -> Nat] /\ frame \in [Calls -> Frames]
  /\ \A c \in Calls : pc[c] \in {"spoke", "tools"} => frame[c].calls \in AnswerSizes
  /\ \A c \in Calls : pc[c] = "drain" => level[c] # 0

LEMMA Move ==
  ASSUME TaskOK, NEW c \in Calls, NEW p \in Points, Goto(c, p),
         NEW l \in Nat, level' = [level EXCEPT ![c] = l],
         NEW f \in Frames, frame' = [frame EXCEPT ![c] = f],
         p \in {"spoke", "tools"} => f.calls \in AnswerSizes,
         p = "drain" => l # 0
  PROVE  TaskOK'
BY DEF TaskOK, Goto

LEMMA MoveOnly ==
  ASSUME TaskOK, NEW c \in Calls, NEW p \in Points, Goto(c, p), UNCHANGED <<level, frame>>,
         p \in {"spoke", "tools"} => frame[c].calls \in AnswerSizes,
         p = "drain" => level[c] # 0
  PROVE  TaskOK'
BY DEF TaskOK, Goto

LEMMA UnwindType ==
  ASSUME TaskOK, depth \in Int, NEW c \in Calls, Unwind(c)
  PROVE  TaskOK' /\ depth' \in Int
<1>1. "raised" \in Points /\ 0 \in Nat
  BY DEF Points, Idle
<1>2. TaskOK'
  BY <1>1, Move, NewFrameType DEF Unwind, DropFrame
<1>3. level[c] \in Int
  BY DEF TaskOK
<1> QED
  BY <1>2, <1>3 DEF Unwind

LEMMA EnterType ==
  ASSUME TaskOK, depth \in Int, NEW c \in Calls, EnterFollowUps(c)
  PROVE  TaskOK' /\ depth' \in Int
<1>1. "drain" \in Points /\ level[c] + 1 \in Nat /\ level[c] + 1 # 0
  BY DEF Points, TaskOK
<1>2. TaskOK'
  <2>1. level' = [level EXCEPT ![c] = level[c] + 1]
    BY DEF EnterFollowUps, TaskOK
  <2> QED
    BY <1>1, <2>1, Move, NewFrameType DEF EnterFollowUps, DropFrame
<1> QED
  BY <1>2 DEF EnterFollowUps

(* What the cases of the three lemmas below have in common.                *)
LEMMA TypeParts ==
  TypeInv <=>
    /\ TaskOK /\ depth \in Int
    /\ history \in Seq(Turns) /\ steering \in Seq(Messages) /\ followUps \in Seq(Messages)
    /\ config \in Configs /\ state \in States /\ cancel \in {"none", "graceful", "immediate"}
    /\ sentSteering \in 0 .. Len(SteeringMsgs) /\ sentFollowUps \in 0 .. Len(FollowUpMsgs)
    /\ announced \in BOOLEAN
BY Zenon DEF TypeInv, TypeOK, TaskOK

LEMMA RaiseType ==
  ASSUME TaskOK, depth \in Int, NEW c \in Calls, Raise(c)
  PROVE  TaskOK' /\ depth' \in Int
BY UnwindType DEF Raise

LEMMA CompleteType ==
  ASSUME TaskOK, depth \in Int, NEW c \in Calls,
         CompleteInput(c) \/ StopEarly(c) \/ TooLate(c)
  PROVE  TaskOK' /\ depth' \in Int
<1>1. CASE CompleteInput(c)
  BY <1>1, EnterType DEF CompleteInput
<1>2. CASE StopEarly(c)
  <2>1. "ending" \in Points /\ level' = [level EXCEPT ![c] = level[c]] /\ level[c] \in Nat
    BY <1>2 DEF StopEarly, TaskOK, Points
  <2> QED
    BY <1>2, <2>1, Move, NewFrameType DEF StopEarly, DropFrame
<1>3. CASE TooLate(c)
  BY <1>3, RaiseType DEF TooLate
<1> QED
  BY <1>1, <1>2, <1>3

LEMMA SubmitType ==
  ASSUME TaskOK, NEW c \in Calls, NEW m, Submit(c, m)
  PROVE  TaskOK'
<1>1. "opening" \in Points
  BY DEF Points, Loop
<1> QED
  BY <1>1, MoveOnly DEF Submit

(* frame moves on, with or without pc.                                     *)
LEMMA MoveFrame ==
  ASSUME TaskOK, NEW c \in Calls, NEW p \in Points, Goto(c, p), UNCHANGED level,
         NEW f \in Frames, frame' = [frame EXCEPT ![c] = f],
         p \in {"spoke", "tools"} => f.calls \in AnswerSizes,
         p # "drain"
  PROVE  TaskOK'
<1>1. level' = [level EXCEPT ![c] = level[c]] /\ level[c] \in Nat
  BY DEF TaskOK
<1> QED
  BY <1>1, Move

LEMMA FrameFields ==
  ASSUME NEW f \in Frames, NEW s \in Seq(Messages), NEW n \in Nat, NEW q \in BOOLEAN
  PROVE  /\ [f EXCEPT !.pending = s] \in Frames
         /\ [f EXCEPT !.calls = n, !.asks = q] \in Frames
         /\ [f EXCEPT !.calls = n, !.asks = q].calls = n
         /\ [f EXCEPT !.rounds = @ + 1, !.calls = 0] \in Frames
<1>1. f.rounds + 1 \in Nat
  BY DEF Frames
<1>2. /\ [f EXCEPT !.pending = s] \in Frames
      /\ [f EXCEPT !.calls = n, !.asks = q] \in Frames
      /\ [f EXCEPT !.calls = n, !.asks = q].calls = n
  BY DEF Frames
<1>3. [f EXCEPT !.rounds = f.rounds + 1, !.calls = 0] \in Frames
  BY <1>1 DEF Frames
<1> QED
  BY <1>2, <1>3

LEMMA TaskTypes ==
  ASSUME TypeInv, [Next]_vars
  PROVE  TaskOK' /\ depth' \in Int
<1> USE DEF Within, host, queues, task
<1>a. /\ TaskOK /\ depth \in Int /\ steering \in Seq(Messages)
      /\ \A c \in Calls : frame[c] \in Frames /\ level[c] \in Nat
  BY TypeParts DEF TaskOK
<1>b. /\ "submit" \in Points /\ Loop \subseteq Points /\ Idle \subseteq Points
      /\ {"drain", "ending"} \subseteq Points
  BY DEF Points
<1>1. ASSUME NEW c \in Calls, Call(c) \/ Accepted(c) \/ Refused(c) \/ ResumeWithInput(c)
      PROVE  TaskOK' /\ depth' \in Int
  <2>1. CASE Call(c)
    BY <2>1, <1>a, <1>b, MoveOnly DEF Call
  <2>2. CASE Accepted(c)
    BY <2>2, <1>a, SubmitType DEF Accepted, Submit
  <2>3. CASE Refused(c)
    BY <2>3, <1>a, RaiseType DEF Refused
  <2>4. CASE ResumeWithInput(c)
    BY <2>4, <1>a, <1>b, MoveOnly DEF ResumeWithInput, Loop
  <2> QED
    BY <1>1, <2>1, <2>2, <2>3, <2>4
<1>2. ASSUME NEW c \in Calls, NEW f \in Frames, DrainSteering(c, f), UNCHANGED level
      PROVE  TaskOK'
  <2>1. /\ "inject" \in Points /\ Goto(c, "inject")
        /\ frame' = [frame EXCEPT ![c] = [f EXCEPT !.pending = steering]]
    BY <1>2, <1>b DEF DrainSteering, Loop
  <2>2. [f EXCEPT !.pending = steering] \in Frames
    BY <1>a, FrameFields
  <2> QED
    BY <1>2, <2>1, <2>2, <1>a, MoveFrame
<1>3. ASSUME NEW c \in Calls, LoopStep(c)
      PROVE  TaskOK' /\ depth' \in Int
  <2>1. CASE Open(c) \/ Inject(c) \/ Injected(c)
    <3>1. CASE Open(c)
      <4>1. DrainSteering(c, frame[c]) /\ UNCHANGED <<level, depth>>
        BY <3>1 DEF Open
      <4> QED
        BY <4>1, <1>a, <1>2
    <3>2. CASE Inject(c)
      <4>1. Tail(frame[c].pending) \in Seq(Messages)
        BY <3>2, <1>a, HeadTailType DEF Inject, Frames
      <4>2. frame' = [frame EXCEPT ![c] = [frame[c] EXCEPT !.pending = Tail(frame[c].pending)]]
        BY <3>2, <1>a DEF Inject, TaskOK
      <4>3. Goto(c, "inject") /\ "inject" \in Points
        BY <3>2, <1>a DEF Inject, At, Goto, TaskOK, Points, Loop
      <4> QED
        <5>1. [frame[c] EXCEPT !.pending = Tail(frame[c].pending)] \in Frames
          BY <4>1, <1>a, FrameFields
        <5>2. UNCHANGED <<level, depth>>
          BY <3>2 DEF Inject
        <5> QED
          BY <5>1, <5>2, <4>2, <4>3, <1>a, MoveFrame
    <3>3. CASE Injected(c)
      BY <3>3, <1>a, <1>b, MoveOnly DEF Injected, Loop
    <3> QED
      BY <2>1, <3>1, <3>2, <3>3
  <2>2. CASE ReachLimit(c) \/ Request(c) \/ ToolRound(c)
    <3>1. At(c, "spoke") => frame[c].calls \in AnswerSizes
      BY <1>a DEF At, TaskOK
    <3> QED
      BY <2>2, <3>1, <1>a, <1>b, MoveOnly DEF ReachLimit, Request, ToolRound, Loop
  <2>3. CASE Answer(c)
    <3>1. PICK n \in AnswerSizes, q \in BOOLEAN :
            frame' = [frame EXCEPT ![c].calls = n, ![c].asks = q]
      BY <2>3 DEF Answer
    <3>2. frame' = [frame EXCEPT ![c] = [frame[c] EXCEPT !.calls = n, !.asks = q]]
      BY <3>1, <1>a DEF TaskOK
    <3>3. n \in Nat
      BY SizesAssumption
    <3>4. /\ [frame[c] EXCEPT !.calls = n, !.asks = q] \in Frames
          /\ [frame[c] EXCEPT !.calls = n, !.asks = q].calls \in AnswerSizes
      BY <3>3, <1>a DEF Frames
    <3>5. Goto(c, "spoke") /\ "spoke" \in Points /\ UNCHANGED <<level, depth>>
      BY <2>3, <1>b DEF Answer, Loop
    <3> QED
      BY <3>2, <3>4, <3>5, <1>a, MoveFrame
  <2>4. CASE CancelAtTop(c) \/ CancelAfterProvider(c) \/ ContextLengthExceeded(c)
             \/ NaturalCompletion(c) \/ SpokeTooLate(c) \/ Limited(c)
    BY <2>4, <1>a, CompleteType
       DEF CancelAtTop, CancelAfterProvider, ContextLengthExceeded, NaturalCompletion,
           SpokeTooLate, Limited
  <2>5. CASE RetryableError(c) \/ FatalError(c)
    BY <2>5, <1>a, RaiseType, UnwindType DEF RetryableError, FatalError
  <2>6. CASE Question(c)
    <3>1. PICK p \in {"returned", "drain"} : Goto(c, p) /\ (p = "drain" => level[c] # 0)
      BY <2>6 DEF Question
    <3>2. level' = [level EXCEPT ![c] = level[c]]
      BY <2>6, <1>a DEF Question, TaskOK
    <3>3. p \in Points
      BY <3>1 DEF Points, Idle
    <3> QED
      BY <2>6, <3>1, <3>2, <3>3, <1>a, Move, NewFrameType DEF Question, DropFrame
  <2>7. CASE ToolsDone(c)
    <3>1. /\ DrainSteering(c, [frame[c] EXCEPT !.rounds = @ + 1, !.calls = 0])
          /\ UNCHANGED <<level, depth>>
      BY <2>7 DEF ToolsDone, RecordResults
    <3> QED
      BY <3>1, <1>a, <1>2, FrameFields
  <2> QED
    BY <1>3, <2>1, <2>2, <2>3, <2>4, <2>5, <2>6, <2>7 DEF LoopStep
<1>4. ASSUME NEW c \in Calls, FollowUpStep(c)
      PROVE  TaskOK' /\ depth' \in Int
  <2>1. CASE Ending(c)
    BY <2>1, <1>a, EnterType DEF Ending
  <2>2. CASE NextFollowUp(c)
    BY <2>2, <1>a, SubmitType DEF NextFollowUp, Submit
  <2>3. CASE FollowUpRefused(c)
    BY <2>3, <1>a, UnwindType DEF FollowUpRefused
  <2>4. CASE FollowUpsDrained(c)
    <3>1. At(c, "drain") /\ LeaveLoop(c)
      BY <2>4 DEF FollowUpsDrained
    <3>2. level[c] - 1 \in Nat
      <4>1. level[c] # 0 /\ level[c] \in Nat
        BY <3>1, <1>a DEF At, TaskOK
      <4> QED
        BY <4>1
    <3>3. PICK p \in {"returned", "drain"} : Goto(c, p) /\ (p = "drain" => level[c] - 1 # 0)
      <4>1. level[c] = 1 \/ level[c] - 1 # 0
        BY <3>2
      <4> QED
        BY <3>1, <4>1 DEF LeaveLoop
    <3>4. p \in Points
      BY <3>3 DEF Points, Idle
    <3>5. /\ level' = [level EXCEPT ![c] = level[c] - 1]
          /\ frame' = [frame EXCEPT ![c] = frame[c]]
      BY <3>1, <1>a DEF LeaveLoop, TaskOK
    <3>6. TaskOK'
      BY <3>2, <3>3, <3>4, <3>5, <1>a, Move
    <3> QED
      BY <3>1, <3>6, <1>a DEF LeaveLoop
  <2> QED
    BY <1>4, <2>1, <2>2, <2>3, <2>4 DEF FollowUpStep
<1>5. ASSUME NEW c \in Calls, ToolsCancelled(c) \/ TaskCancelled(c)
      PROVE  TaskOK' /\ depth' \in Int
  <2>1. CASE ToolsCancelled(c)
    <3>1. /\ DrainSteering(c, [frame[c] EXCEPT !.rounds = @ + 1, !.calls = 0])
          /\ UNCHANGED <<level, depth>>
      BY <2>1 DEF ToolsCancelled, RecordResults
    <3> QED
      BY <3>1, <1>a, <1>2, FrameFields
  <2>2. CASE TaskCancelled(c)
    BY <2>2, <1>a, RaiseType DEF TaskCancelled
  <2> QED
    BY <1>5, <2>1, <2>2
<1>6. CASE Steer \/ FollowUp \/ Cancel \/ Shutdown \/ UNCHANGED vars
  BY <1>6, <1>a DEF Steer, FollowUp, Cancel, Shutdown, vars, TaskOK
<1> QED
  BY <1>1, <1>3, <1>4, <1>5, <1>6 DEF Next, HostStep, TaskStep, Enter

(* Who adds to the history, and when.                                      *)
Opens(m) == state \in {"idle", "awaiting_input"} /\ history' = Append(history, UserTurn(m))
Injects(c) ==
  /\ At(c, "inject")
  /\ \E m \in Messages : history' \in {Append(history, SteeringTurn(m)), Append(history, LoopWarning)}
Answers(c) ==
  /\ At(c, "provider")
  /\ \E n \in AnswerSizes : history' = Append(history, AssistantTurn(n))
Results(c) ==
  At(c, "tools") /\ history' = Append(history, ToolResultsTurn(frame[c].calls))

LEMMA HistorySteps ==
  ASSUME TypeInv, [Next]_vars
  PROVE  \/ UNCHANGED history
         \/ \E m \in Messages : Opens(m)
         \/ \E c \in Calls : Injects(c) \/ Answers(c) \/ Results(c)
<1> USE DEF Within, host, queues, task
<1>a. TaskOK /\ Calls \subseteq Messages /\ followUps \in Seq(Messages)
  BY TypeParts, MessageTypes
<1>1. ASSUME NEW c \in Calls, Call(c) \/ Accepted(c) \/ Refused(c) \/ ResumeWithInput(c)
      PROVE  UNCHANGED history \/ Opens(c)
  BY <1>1 DEF Call, Accepted, Submit, MaySubmit, Refused, Raise, Unwind, ResumeWithInput, Opens
<1>2. ASSUME NEW c \in Calls, LoopStep(c)
      PROVE  UNCHANGED history \/ Injects(c) \/ Answers(c) \/ Results(c)
  <2>1. CASE Inject(c)
    <3>1. frame[c].pending \in Seq(Messages) /\ frame[c].pending # <<>>
      BY <2>1, <1>a DEF Inject, TaskOK, Frames
    <3> QED
      BY <2>1, <3>1, HeadTailType DEF Inject, Injects
  <2>2. CASE Injected(c)
    <3>1. \A m \in Messages : UNCHANGED history \/ Injects(c)
      BY <2>2 DEF Injected, Injects
    <3> QED
      BY <3>1, <1>a
  <2>3. CASE Answer(c)
    BY <2>3 DEF Answer, Answers
  <2>4. CASE ToolsDone(c)
    BY <2>4 DEF ToolsDone, RecordResults, Results
  <2>5. CASE CancelAtTop(c) \/ CancelAfterProvider(c) \/ ContextLengthExceeded(c)
             \/ NaturalCompletion(c) \/ SpokeTooLate(c) \/ Limited(c)
             \/ RetryableError(c) \/ FatalError(c) \/ Question(c)
    BY <2>5 DEF CancelAtTop, CancelAfterProvider, ContextLengthExceeded, NaturalCompletion,
           SpokeTooLate, Limited, RetryableError, FatalError, Question,
           CompleteInput, StopEarly, TooLate, Raise, Unwind, EnterFollowUps
  <2>6. CASE Open(c) \/ ReachLimit(c) \/ Request(c) \/ ToolRound(c)
    BY <2>6 DEF Open, ReachLimit, Request, ToolRound
  <2> QED
    BY <1>2, <2>1, <2>2, <2>3, <2>4, <2>5, <2>6 DEF LoopStep
<1>3. ASSUME NEW c \in Calls, FollowUpStep(c)
      PROVE  UNCHANGED history \/ \E m \in Messages : Opens(m)
  <2>1. CASE NextFollowUp(c)
    BY <2>1, <1>a, HeadTailType DEF NextFollowUp, Submit, MaySubmit, InOrder, Opens
  <2>2. CASE Ending(c) \/ FollowUpRefused(c) \/ FollowUpsDrained(c)
    BY <2>2 DEF Ending, FollowUpRefused, Unwind, FollowUpsDrained, LeaveLoop
  <2> QED
    BY <1>3, <2>1, <2>2 DEF FollowUpStep
<1>4. ASSUME NEW c \in Calls, ToolsCancelled(c) \/ TaskCancelled(c)
      PROVE  UNCHANGED history \/ Results(c)
  BY <1>4 DEF ToolsCancelled, RecordResults, CancelledResults, TaskCancelled, Raise, Unwind, Results
<1>5. CASE Steer \/ FollowUp \/ Cancel \/ Shutdown \/ UNCHANGED vars
  BY <1>5 DEF Steer, FollowUp, Cancel, Shutdown, vars
<1> QED
  BY <1>a, <1>1, <1>2, <1>3, <1>4, <1>5 DEF Next, HostStep, TaskStep, Enter

LEMMA HistoryType ==
  ASSUME TypeInv, [Next]_vars
  PROVE  history' \in Seq(Turns)
<1>a. history \in Seq(Turns) /\ TaskOK
  BY TypeParts
<1>1. ASSUME NEW m \in Messages, Opens(m) PROVE history' \in Seq(Turns)
  BY <1>1, <1>a, TurnTypes, AppendType DEF Opens
<1>2. ASSUME NEW c \in Calls, Injects(c) PROVE history' \in Seq(Turns)
  BY <1>2, <1>a, TurnTypes, AppendType DEF Injects
<1>3. ASSUME NEW c \in Calls, Answers(c) PROVE history' \in Seq(Turns)
  BY <1>3, <1>a, TurnTypes, AppendType DEF Answers
<1>4. ASSUME NEW c \in Calls, Results(c) PROVE history' \in Seq(Turns)
  BY <1>4, <1>a, TurnTypes, AppendType DEF Results, At, TaskOK
<1> QED
  BY <1>a, <1>1, <1>2, <1>3, <1>4, HistorySteps

(* What the host may still send is one of its messages.                    *)
LEMMA HostMessages ==
  ASSUME TypeInv
  PROVE  /\ sentSteering < config.steers => SteeringMsgs[sentSteering + 1] \in Messages
         /\ sentFollowUps < config.follows => FollowUpMsgs[sentFollowUps + 1] \in Messages
<1>1. /\ config \in Config
      /\ sentSteering \in 0 .. Len(SteeringMsgs) /\ sentFollowUps \in 0 .. Len(FollowUpMsgs)
  BY ConfigsAssumption, TypeParts
<1>2. config.steers \in 0 .. Len(SteeringMsgs) /\ config.follows \in 0 .. Len(FollowUpMsgs)
  BY <1>1 DEF Config
<1>3. Len(SteeringMsgs) \in Nat /\ Len(FollowUpMsgs) \in Nat
  BY MessagesAssumption, LenProperties
<1>4. /\ sentSteering < config.steers => sentSteering < Len(SteeringMsgs)
      /\ sentFollowUps < config.follows => sentFollowUps < Len(FollowUpMsgs)
  BY <1>1, <1>2, <1>3
<1> QED
  BY <1>1, <1>4, SentType, MessageTypes, MessagesAssumption

LEMMA QueuesType ==
  ASSUME TypeInv, [Next]_vars
  PROVE  steering' \in Seq(Messages) /\ followUps' \in Seq(Messages)
<1> USE DEF Within, host, queues, task
<1>a. /\ steering \in Seq(Messages) /\ followUps \in Seq(Messages) /\ <<>> \in Seq(Messages)
      /\ followUps # <<>> => Tail(followUps) \in Seq(Messages)
  BY TypeParts, HeadTailType, EmptySeq
<1>1. ASSUME NEW c \in Calls, Call(c) \/ Accepted(c) \/ Refused(c) \/ ResumeWithInput(c)
      PROVE  UNCHANGED queues
  BY <1>1 DEF Call, Accepted, Refused, Raise, Unwind, ResumeWithInput
<1>2. ASSUME NEW c \in Calls, LoopStep(c)
      PROVE  UNCHANGED followUps /\ steering' \in {steering, <<>>}
  <2>1. CASE Open(c) \/ Inject(c) \/ Injected(c) \/ ReachLimit(c) \/ Request(c) \/ ToolRound(c)
             \/ Answer(c) \/ ToolsDone(c)
    BY <2>1 DEF Open, Inject, Injected, ReachLimit, Request, ToolRound, Answer, ToolsDone,
                RecordResults, DrainSteering
  <2>2. CASE CancelAtTop(c) \/ CancelAfterProvider(c) \/ ContextLengthExceeded(c)
             \/ NaturalCompletion(c) \/ SpokeTooLate(c) \/ Limited(c)
             \/ RetryableError(c) \/ FatalError(c) \/ Question(c)
    BY <2>2 DEF CancelAtTop, CancelAfterProvider, ContextLengthExceeded, NaturalCompletion,
           SpokeTooLate, Limited, RetryableError, FatalError, Question,
           CompleteInput, StopEarly, TooLate, Raise, Unwind
  <2> QED
    BY <1>2, <2>1, <2>2 DEF LoopStep
<1>3. ASSUME NEW c \in Calls, FollowUpStep(c)
      PROVE  /\ UNCHANGED steering
             /\ \/ UNCHANGED followUps
                \/ followUps # <<>> /\ followUps' = Tail(followUps)
  <2>1. CASE Ending(c) \/ FollowUpsDrained(c)
    BY <2>1 DEF Ending, FollowUpsDrained, LeaveLoop
  <2>2. CASE NextFollowUp(c) \/ FollowUpRefused(c)
    BY <2>2 DEF NextFollowUp, InOrder, FollowUpRefused, Unwind
  <2> QED
    BY <1>3, <2>1, <2>2 DEF FollowUpStep
<1>4. ASSUME NEW c \in Calls, ToolsCancelled(c) \/ TaskCancelled(c)
      PROVE  UNCHANGED followUps /\ steering' \in {steering, <<>>}
  BY <1>4 DEF ToolsCancelled, RecordResults, DrainSteering, TaskCancelled, Raise, Unwind
<1>5. CASE Steer
  BY <1>5, <1>a, HostMessages, AppendType DEF Steer
<1>6. CASE FollowUp
  BY <1>6, <1>a, HostMessages, AppendType DEF FollowUp
<1>7. CASE Cancel \/ Shutdown \/ UNCHANGED vars
  BY <1>7, <1>a DEF Cancel, Shutdown, vars
<1> QED
  BY <1>a, <1>1, <1>2, <1>3, <1>4, <1>5, <1>6, <1>7 DEF Next, HostStep, TaskStep, Enter

LEMMA HostType ==
  ASSUME TypeInv, [Next]_vars
  PROVE  /\ config' \in Configs /\ cancel' \in {"none", "graceful", "immediate"}
         /\ sentSteering' \in 0 .. Len(SteeringMsgs) /\ sentFollowUps' \in 0 .. Len(FollowUpMsgs)
<1> USE DEF Within, host, queues, task
<1>a. /\ config \in Config /\ config \in Configs /\ cancel \in {"none", "graceful", "immediate"}
      /\ sentSteering \in 0 .. Len(SteeringMsgs) /\ sentFollowUps \in 0 .. Len(FollowUpMsgs)
  BY TypeParts, ConfigsAssumption
<1>b. Len(SteeringMsgs) \in Nat /\ Len(FollowUpMsgs) \in Nat
  BY MessagesAssumption, LenProperties
<1>1. ASSUME NEW c \in Calls,
             \/ Call(c) \/ Accepted(c) \/ Refused(c) \/ ResumeWithInput(c)
             \/ LoopStep(c) \/ ToolsCancelled(c) \/ TaskCancelled(c)
      PROVE  UNCHANGED host
  <2>1. CASE Call(c) \/ Accepted(c) \/ Refused(c) \/ ResumeWithInput(c)
    BY <2>1 DEF Call, Accepted, Refused, Raise, Unwind, ResumeWithInput
  <2>2. CASE Open(c) \/ Inject(c) \/ Injected(c) \/ ReachLimit(c) \/ Request(c) \/ ToolRound(c)
             \/ Answer(c) \/ ToolsDone(c)
    BY <2>2 DEF Open, Inject, Injected, ReachLimit, Request, ToolRound, Answer, ToolsDone,
                RecordResults
  <2>3. CASE CancelAtTop(c) \/ CancelAfterProvider(c) \/ ContextLengthExceeded(c)
             \/ NaturalCompletion(c) \/ SpokeTooLate(c) \/ Limited(c)
             \/ RetryableError(c) \/ FatalError(c) \/ Question(c)
    BY <2>3 DEF CancelAtTop, CancelAfterProvider, ContextLengthExceeded, NaturalCompletion,
           SpokeTooLate, Limited, RetryableError, FatalError, Question,
           CompleteInput, StopEarly, TooLate, Raise, Unwind
  <2>4. CASE ToolsCancelled(c) \/ TaskCancelled(c)
    BY <2>4 DEF ToolsCancelled, RecordResults, TaskCancelled, Raise, Unwind
  <2> QED
    BY <1>1, <2>1, <2>2, <2>3, <2>4 DEF LoopStep
<1>2. ASSUME NEW c \in Calls, FollowUpStep(c)
      PROVE  UNCHANGED host
  <2>1. CASE Ending(c) \/ FollowUpsDrained(c)
    BY <2>1 DEF Ending, FollowUpsDrained, LeaveLoop
  <2>2. CASE NextFollowUp(c) \/ FollowUpRefused(c)
    BY <2>2 DEF NextFollowUp, FollowUpRefused, Unwind
  <2> QED
    BY <1>2, <2>1, <2>2 DEF FollowUpStep
<1>3. CASE Steer
  <2>1. config.steers \in 0 .. Len(SteeringMsgs)
    BY <1>a DEF Config
  <2>2. sentSteering + 1 \in 0 .. Len(SteeringMsgs)
    BY <1>3, <1>a, <1>b, <2>1 DEF Steer
  <2> QED
    BY <1>3, <1>a, <2>2 DEF Steer
<1>4. CASE FollowUp
  <2>1. config.follows \in 0 .. Len(FollowUpMsgs)
    BY <1>a DEF Config
  <2>2. sentFollowUps + 1 \in 0 .. Len(FollowUpMsgs)
    BY <1>4, <1>a, <1>b, <2>1 DEF FollowUp
  <2> QED
    BY <1>4, <1>a, <2>2 DEF FollowUp
<1>5. CASE Cancel \/ Shutdown \/ UNCHANGED vars
  BY <1>5, <1>a DEF Cancel, Shutdown, vars
<1> QED
  BY <1>a, <1>1, <1>2, <1>3, <1>4, <1>5 DEF Next, HostStep, TaskStep, Enter

(* How the state machine moves: into PROCESSING only from IDLE or from      *)
(* AWAITING_INPUT, out of CLOSED never.                                    *)
LEMMA StateSteps ==
  ASSUME [Next]_vars
  PROVE  \/ UNCHANGED state
         \/ state \in {"idle", "awaiting_input"} /\ state' = "processing"
         \/ state = "processing" /\ state' \in {"idle", "awaiting_input"}
         \/ state # "closed" /\ state' = "closed"
<1> USE DEF Within, host, queues, task
<1>1. ASSUME NEW c \in Calls, Call(c) \/ Accepted(c) \/ Refused(c) \/ ResumeWithInput(c)
      PROVE  \/ UNCHANGED state
             \/ state \in {"idle", "awaiting_input"} /\ state' = "processing"
  BY <1>1 DEF Call, Accepted, Submit, MaySubmit, Refused, Raise, ResumeWithInput
<1>2. ASSUME NEW c \in Calls, LoopStep(c)
      PROVE  \/ UNCHANGED state
             \/ state = "processing" /\ state' \in {"idle", "awaiting_input", "closed"}
  <2>1. CASE Open(c) \/ Inject(c) \/ Injected(c) \/ ReachLimit(c) \/ Request(c) \/ ToolRound(c)
             \/ Answer(c) \/ ToolsDone(c)
    BY <2>1 DEF Open, Inject, Injected, ReachLimit, Request, ToolRound, Answer, ToolsDone,
                RecordResults
  <2>2. CASE CancelAtTop(c) \/ CancelAfterProvider(c) \/ ContextLengthExceeded(c)
             \/ NaturalCompletion(c) \/ SpokeTooLate(c) \/ Limited(c)
             \/ RetryableError(c) \/ FatalError(c) \/ Question(c)
    BY <2>2 DEF CancelAtTop, CancelAfterProvider, ContextLengthExceeded, NaturalCompletion,
           SpokeTooLate, Limited, RetryableError, FatalError, Question,
           CompleteInput, StopEarly, TooLate, MayComplete, Raise
  <2> QED
    BY <1>2, <2>1, <2>2 DEF LoopStep
<1>3. ASSUME NEW c \in Calls, FollowUpStep(c)
      PROVE  \/ UNCHANGED state
             \/ state = "idle" /\ state' = "processing"
  <2>1. CASE Ending(c) \/ FollowUpsDrained(c)
    BY <2>1 DEF Ending, FollowUpsDrained, LeaveLoop
  <2>2. CASE NextFollowUp(c) \/ FollowUpRefused(c)
    BY <2>2 DEF NextFollowUp, Submit, MaySubmit, FollowUpRefused
  <2> QED
    BY <1>3, <2>1, <2>2 DEF FollowUpStep
<1>4. ASSUME NEW c \in Calls, ToolsCancelled(c) \/ TaskCancelled(c)
      PROVE  UNCHANGED state
  BY <1>4 DEF ToolsCancelled, RecordResults, TaskCancelled, Raise
<1>5. CASE Steer \/ FollowUp \/ Cancel \/ Shutdown \/ UNCHANGED vars
  BY <1>5 DEF Steer, FollowUp, Cancel, Shutdown, vars
<1> QED
  BY <1>1, <1>2, <1>3, <1>4, <1>5 DEF Next, HostStep, TaskStep, Enter

LEMMA AnnouncedType ==
  ASSUME announced \in BOOLEAN, [Next]_vars
  PROVE  announced' \in BOOLEAN
<1> USE DEF Within, host, queues, task, EmitSessionEnd
<1>1. ASSUME NEW c \in Calls, Call(c) \/ Accepted(c) \/ Refused(c) \/ ResumeWithInput(c)
      PROVE  announced' \in BOOLEAN
  BY <1>1, Zenon DEF Call, Accepted, Submit, Refused, Raise, ResumeWithInput
<1>2. ASSUME NEW c \in Calls, LoopStep(c)
      PROVE  announced' \in BOOLEAN
  <2>1. CASE Open(c) \/ Inject(c) \/ Injected(c) \/ ReachLimit(c) \/ Request(c) \/ ToolRound(c)
             \/ Answer(c) \/ ToolsDone(c)
    <3>1. announced' = announced
      BY <2>1 DEF Open, Inject, Injected, ReachLimit, Request, ToolRound, Answer, ToolsDone,
                  RecordResults
    <3> QED
      BY <3>1
  <2>2. CASE CancelAtTop(c) \/ CancelAfterProvider(c) \/ ContextLengthExceeded(c)
             \/ NaturalCompletion(c) \/ SpokeTooLate(c) \/ Limited(c)
             \/ RetryableError(c) \/ Question(c)
    <3>1. announced' = announced
      BY <2>2 DEF CancelAtTop, CancelAfterProvider, ContextLengthExceeded, NaturalCompletion,
           SpokeTooLate, Limited, RetryableError, Question,
           CompleteInput, StopEarly, TooLate, Raise
    <3> QED
      BY <3>1
  <2>3. CASE FatalError(c)
    BY <2>3, Zenon DEF FatalError
  <2> QED
    BY <1>2, <2>1, <2>2, <2>3, Zenon DEF LoopStep
<1>3. ASSUME NEW c \in Calls, FollowUpStep(c)
      PROVE  announced' \in BOOLEAN
  BY <1>3, Zenon DEF FollowUpStep, Ending, NextFollowUp, Submit, FollowUpRefused, FollowUpsDrained
<1>4. ASSUME NEW c \in Calls, ToolsCancelled(c) \/ TaskCancelled(c)
      PROVE  announced' \in BOOLEAN
  BY <1>4, Zenon DEF ToolsCancelled, RecordResults, TaskCancelled, Raise
<1>5. CASE Steer \/ FollowUp \/ Cancel \/ Shutdown \/ UNCHANGED vars
  BY <1>5, Zenon DEF Steer, FollowUp, Cancel, Shutdown, vars
<1> QED
  BY <1>1, <1>2, <1>3, <1>4, <1>5, Zenon DEF Next, HostStep, TaskStep, Enter

LEMMA TypeStep == TypeInv /\ [Next]_vars => TypeInv'
<1> SUFFICES ASSUME TypeInv, [Next]_vars PROVE TypeInv'
  OBVIOUS
<1>1. TaskOK' /\ depth' \in Int
  BY TaskTypes
<1>2. /\ history' \in Seq(Turns) /\ steering' \in Seq(Messages) /\ followUps' \in Seq(Messages)
  BY HistoryType, QueuesType
<1>3. state' \in States
  <2>1. state \in States
    BY TypeParts
  <2> QED
    BY <2>1, StateSteps DEF States
<1>4. announced' \in BOOLEAN
  BY TypeParts, AnnouncedType
<1>5. TypeOK'
  BY <1>1, <1>2, <1>3, <1>4, HostType DEF TypeOK, TaskOK
<1> QED
  BY <1>1, <1>5 DEF TypeInv, TaskOK

LEMMA TypeAlways == Spec => []TypeInv
BY TypeInit, TypeStep, PTL DEF Spec

(* Whatever tasks, messages and answers an AgentSession meets, its state    *)
(* machine, its history, its queues and the locals of process_input keep    *)
(* their types; in particular no task leaves more follow-up loops than it   *)
(* entered.                                                                *)
THEOREM SessionTypes == Spec => []TypeOK
<1>1. TypeInv => TypeOK
  BY DEF TypeInv
<1> QED
  BY <1>1, TypeAlways, PTL

-----------------------------------------------------------------------------
(* What a step does to the inputs in the loop *)

Still == UNCHANGED <<pc, frame, history>> /\ state' \in {state, "closed"}
OthersStay(c) == \A d \in Calls : d # c => pc'[d] = pc[d] /\ frame'[d] = frame[d]

Enters(c) == state \in {"idle", "awaiting_input"} /\ state' = "processing" /\ ~InLoop(c)
Completes(c) ==
  /\ state = "processing" /\ InLoop(c) /\ pc'[c] \notin Loop
  /\ pc[c] # "tools" /\ (pc[c] = "spoke" => frame[c].calls = 0)
  /\ UNCHANGED history
Quits(c) ==
  /\ state' \in {state, "closed"} /\ pc'[c] \notin Loop
  /\ InLoop(c) => pc'[c] = "raised"
  /\ UNCHANGED history
Spoke(c) ==
  /\ At(c, "provider") /\ pc'[c] = "spoke" /\ UNCHANGED state
  /\ frame'[c].calls \in AnswerSizes
  /\ history' = Append(history, AssistantTurn(frame'[c].calls))
CallsTools(c) ==
  /\ At(c, "spoke") /\ pc'[c] = "tools" /\ UNCHANGED <<state, history>>
  /\ frame'[c] = frame[c] /\ frame[c].calls > 0
GetsResults(c) == Results(c) /\ pc'[c] = "inject" /\ UNCHANGED state
Prepares(c) ==
  /\ InLoop(c) /\ pc[c] \notin {"provider", "spoke", "tools"} /\ UNCHANGED state
  /\ pc'[c] \in Loop \ {"spoke", "tools"}
  /\ UNCHANGED history \/ (Injects(c) /\ pc'[c] # "provider")
Moves(c) ==
  /\ OthersStay(c)
  /\ \/ Enters(c) \/ Completes(c) \/ Quits(c)
     \/ Spoke(c) \/ CallsTools(c) \/ GetsResults(c) \/ Prepares(c)

LEMMA LeavesLoop ==
  ASSUME TypeInv, NEW c \in Calls,
         CompleteInput(c) \/ StopEarly(c) \/ TooLate(c) \/ Raise(c),
         CompleteInput(c) \/ StopEarly(c) => InLoop(c) /\ pc[c] # "tools"
                                             /\ (pc[c] = "spoke" => frame[c].calls = 0)
  PROVE  Moves(c)
<1> USE DEF InLoop, At, Goto, DropFrame, OthersStay, Loop
<1>a. pc \in [Calls -> Points] /\ frame \in [Calls -> Frames]
  BY TypeParts DEF TaskOK
<1>1. CASE CompleteInput(c) \/ StopEarly(c)
  <2>1. OthersStay(c) /\ pc'[c] \in {"drain", "ending"}
    BY <1>1, <1>a DEF CompleteInput, EnterFollowUps, StopEarly
  <2>2. state = "processing" /\ UNCHANGED history
    BY <1>1 DEF CompleteInput, StopEarly, MayComplete
  <2> QED
    BY <1>1, <2>1, <2>2 DEF Moves, Completes
<1>2. CASE TooLate(c) \/ Raise(c)
  <2>1. OthersStay(c) /\ pc'[c] = "raised" /\ UNCHANGED <<state, history>>
    BY <1>2, <1>a DEF TooLate, Raise, Unwind
  <2> QED
    BY <2>1 DEF Moves, Quits
<1> QED
  BY <1>1, <1>2

LEMMA DrainMoves ==
  ASSUME TypeInv, NEW c \in Calls, NEW f, DrainSteering(c, f)
  PROVE  OthersStay(c) /\ pc'[c] = "inject"
BY TypeParts DEF TaskOK, DrainSteering, OthersStay, Goto

LEMMA LoopMoves ==
  ASSUME TypeInv, [Next]_vars
  PROVE  Still \/ \E c \in Calls : Moves(c)
<1> USE DEF Within, host, queues, task
<1>a. pc \in [Calls -> Points] /\ frame \in [Calls -> Frames] /\ Calls \subseteq Messages
  BY TypeParts, MessageTypes DEF TaskOK
<1>1. ASSUME NEW c \in Calls, NEW m, Submit(c, m), pc[c] \notin Loop
      PROVE  Moves(c)
  BY <1>1, <1>a DEF Submit, MaySubmit, Goto, Moves, OthersStay, Enters, InLoop
<1>2. ASSUME NEW c \in Calls, Call(c) \/ Accepted(c) \/ Refused(c) \/ ResumeWithInput(c)
      PROVE  Moves(c)
  <2>1. CASE Call(c)
    BY <2>1, <1>a DEF Call, At, Goto, Moves, OthersStay, Quits, InLoop, Loop
  <2>2. CASE Accepted(c)
    BY <2>2, <1>1 DEF Accepted, At, Loop
  <2>3. CASE Refused(c)
    <3>1. Raise(c) /\ ~CompleteInput(c) /\ ~StopEarly(c)
      BY <2>3, <1>a DEF Refused, Raise, Unwind, Goto, CompleteInput, EnterFollowUps, StopEarly
    <3> QED
      BY <3>1, LeavesLoop
  <2>4. CASE ResumeWithInput(c)
    BY <2>4, <1>a DEF ResumeWithInput, At, Goto, Moves, OthersStay, Enters, InLoop, Loop
  <2> QED
    BY <1>2, <2>1, <2>2, <2>3, <2>4
<1>3. ASSUME NEW c \in Calls, LoopStep(c)
      PROVE  Moves(c)
  <2>1. CASE Open(c)
    BY <2>1, DrainMoves DEF Open, At, Moves, Prepares, InLoop, Loop
  <2>2. CASE Inject(c)
    <3>1. frame[c].pending \in Seq(Messages) /\ frame[c].pending # <<>>
      BY <2>2, <1>a DEF Inject, Frames
    <3>2. OthersStay(c) /\ pc'[c] = "inject" /\ pc[c] = "inject" /\ UNCHANGED state
      BY <2>2, <1>a DEF Inject, At, OthersStay
    <3>3. Injects(c)
      BY <2>2, <3>1, HeadTailType DEF Inject, Injects
    <3> QED
      BY <3>2, <3>3 DEF Moves, Prepares, InLoop, Loop
  <2>3. CASE Injected(c)
    <3>1. OthersStay(c) /\ pc'[c] = "top" /\ pc[c] = "inject" /\ UNCHANGED state
      BY <2>3, <1>a DEF Injected, At, Goto, OthersStay
    <3>2. UNCHANGED history \/ Injects(c)
      BY <2>3, <1>a DEF Injected, Injects
    <3> QED
      BY <3>1, <3>2 DEF Moves, Prepares, InLoop, Loop
  <2>4. CASE ReachLimit(c) \/ Request(c)
    BY <2>4, <1>a DEF ReachLimit, Request, At, Goto, Moves, OthersStay, Prepares, InLoop, Loop
  <2>5. CASE ToolRound(c)
    BY <2>5, <1>a DEF ToolRound, At, Goto, Moves, OthersStay, CallsTools
  <2>6. CASE Answer(c)
    <3>1. PICK n \in AnswerSizes, q \in BOOLEAN :
            /\ history' = Append(history, AssistantTurn(n))
            /\ frame' = [frame EXCEPT ![c].calls = n, ![c].asks = q]
      BY <2>6 DEF Answer
    <3>2. frame'[c].calls = n /\ \A d \in Calls : d # c => frame'[d] = frame[d]
      BY <3>1, <1>a DEF Frames
    <3>3. At(c, "provider") /\ pc' = [pc EXCEPT ![c] = "spoke"] /\ UNCHANGED state
      BY <2>6 DEF Answer, Goto
    <3> QED
      BY <3>1, <3>2, <3>3, <1>a DEF Moves, OthersStay, Spoke
  <2>7. CASE CancelAtTop(c) \/ CancelAfterProvider(c) \/ ContextLengthExceeded(c)
             \/ NaturalCompletion(c) \/ Limited(c)
    BY <2>7, LeavesLoop
       DEF CancelAtTop, CancelAfterProvider, ContextLengthExceeded, NaturalCompletion,
           Limited, At, InLoop, Loop
  <2>8. CASE SpokeTooLate(c) \/ RetryableError(c)
    BY <2>8, LeavesLoop DEF SpokeTooLate, RetryableError, At, InLoop, Loop
  <2>9. CASE FatalError(c)
    BY <2>9, <1>a DEF FatalError, Unwind, DropFrame, Goto, At, Moves, OthersStay, Quits, InLoop, Loop
  <2>10. CASE Question(c)
    <3>1. PICK p \in {"returned", "drain"} : Goto(c, p)
      BY <2>10 DEF Question
    <3>2. OthersStay(c) /\ pc'[c] \notin Loop
      BY <2>10, <3>1, <1>a DEF Question, DropFrame, Goto, OthersStay, Loop
    <3> QED
      BY <2>10, <3>2 DEF Question, Moves, Completes, At, InLoop, Loop
  <2>11. CASE ToolsDone(c)
    BY <2>11, DrainMoves DEF ToolsDone, RecordResults, Moves, GetsResults, Results
  <2> QED
    BY <1>3, <2>1, <2>2, <2>3, <2>4, <2>5, <2>6, <2>7, <2>8, <2>9, <2>10, <2>11 DEF LoopStep
<1>4. ASSUME NEW c \in Calls, FollowUpStep(c)
      PROVE  Moves(c)
  <2>1. CASE Ending(c)
    BY <2>1, <1>a DEF Ending, EnterFollowUps, DropFrame, At, Goto, Moves, OthersStay, Quits, InLoop, Loop
  <2>2. CASE NextFollowUp(c)
    BY <2>2, <1>1 DEF NextFollowUp, At, Loop
  <2>3. CASE FollowUpRefused(c)
    BY <2>3, <1>a DEF FollowUpRefused, Unwind, DropFrame, At, Goto, Moves, OthersStay, Quits, InLoop, Loop
  <2>4. CASE FollowUpsDrained(c)
    <3>1. PICK p \in {"returned", "drain"} : Goto(c, p)
      BY <2>4 DEF FollowUpsDrained, LeaveLoop
    <3>2. OthersStay(c) /\ pc'[c] \notin Loop /\ ~InLoop(c) /\ UNCHANGED <<state, history>>
      BY <2>4, <3>1, <1>a DEF FollowUpsDrained, LeaveLoop, At, Goto, OthersStay, InLoop, Loop
    <3> QED
      BY <3>2 DEF Moves, Quits
  <2> QED
    BY <1>4, <2>1, <2>2, <2>3, <2>4 DEF FollowUpStep
<1>5. ASSUME NEW c \in Calls, ToolsCancelled(c) \/ TaskCancelled(c)
      PROVE  Moves(c)
  <2>1. CASE ToolsCancelled(c)
    BY <2>1, DrainMoves DEF ToolsCancelled, RecordResults, CancelledResults, Moves, GetsResults, Results
  <2>2. CASE TaskCancelled(c)
    <3>1. Raise(c) /\ ~CompleteInput(c) /\ ~StopEarly(c)
      BY <2>2, <1>a DEF TaskCancelled, Raise, Unwind, Goto, CompleteInput, EnterFollowUps, StopEarly
    <3> QED
      BY <3>1, LeavesLoop
  <2> QED
    BY <1>5, <2>1, <2>2
<1>6. CASE Steer \/ FollowUp \/ Cancel \/ Shutdown \/ UNCHANGED vars
  BY <1>6 DEF Steer, FollowUp, Cancel, Shutdown, vars, Still
<1> QED
  BY <1>2, <1>3, <1>4, <1>5, <1>6 DEF Next, HostStep, TaskStep, Enter

-----------------------------------------------------------------------------
(* One input at a time *)

(* Whoever is in the loop holds the state machine in PROCESSING, until       *)
(* somebody closes the session; submit() lets nobody else in meanwhile.    *)
LoopInv ==
  /\ OneInputAtATime
  /\ \A c \in Calls : InLoop(c) => state \in {"processing", "closed"}

LEMMA LoopInit == Init => LoopInv
BY DEF Init, LoopInv, OneInputAtATime, InLoop, Loop

LEMMA LoopStepInv == TypeInv /\ LoopInv /\ [Next]_vars => LoopInv'
<1> SUFFICES ASSUME TypeInv, LoopInv, [Next]_vars PROVE LoopInv'
  OBVIOUS
<1>1. CASE Still
  BY <1>1 DEF Still, LoopInv, OneInputAtATime, InLoop
<1>2. ASSUME NEW c \in Calls, Moves(c)
      PROVE  LoopInv'
  <2>1. \A d \in Calls : d # c => (InLoop(d)' <=> InLoop(d))
    BY <1>2 DEF Moves, OthersStay, InLoop
  <2>2. CASE Enters(c)
    <3>1. \A d \in Calls : ~InLoop(d)
      BY <2>2 DEF Enters, LoopInv
    <3> QED
      BY <2>1, <2>2, <3>1 DEF Enters, LoopInv, OneInputAtATime
  <2>3. CASE Completes(c)
    <3>1. \A d \in Calls : InLoop(d) => d = c
      BY <2>3 DEF Completes, LoopInv, OneInputAtATime
    <3>2. ~InLoop(c)'
      BY <2>3 DEF Completes, InLoop
    <3> QED
      BY <2>1, <3>1, <3>2 DEF LoopInv, OneInputAtATime
  <2>4. CASE Quits(c)
    <3>1. ~InLoop(c)' /\ state' \in {state, "closed"}
      BY <2>4 DEF Quits, InLoop
    <3> QED
      BY <2>1, <3>1 DEF LoopInv, OneInputAtATime
  <2>5. CASE Spoke(c) \/ CallsTools(c) \/ GetsResults(c) \/ Prepares(c)
    <3>1. InLoop(c) /\ UNCHANGED state
      BY <2>5 DEF Spoke, CallsTools, GetsResults, Results, Prepares, At, InLoop, Loop
    <3> QED
      BY <2>1, <3>1 DEF LoopInv, OneInputAtATime
  <2> QED
    BY <1>2, <2>2, <2>3, <2>4, <2>5 DEF Moves
<1> QED
  BY <1>1, <1>2, LoopMoves

LEMMA LoopAlways == Spec => []LoopInv
BY TypeAlways, LoopInit, LoopStepInv, PTL DEF Spec

(* Of all the tasks that have called process_input, and of all the          *)
(* follow-ups nested in them, one input at most is between submit() and the *)
(* end of the agentic loop: the session needs no other lock on its history. *)
THEOREM OneInputHolds == Spec => []OneInputAtATime
<1>1. LoopInv => OneInputAtATime
  BY DEF LoopInv
<1> QED
  BY <1>1, LoopAlways, PTL

-----------------------------------------------------------------------------
(* Closed for good *)

(* Once shutdown() or a fatal error has closed the session it stays closed, *)
(* no input enters the loop, and one that is in it leaves it by an          *)
(* exception only.                                                         *)
THEOREM ClosedHolds == Spec => ClosedIsFinal
<1> DEFINE Final ==
      state = "closed" =>
        /\ state' = "closed"
        /\ \A c \in Calls : InLoop(c) => pc'[c] \in Loop \cup {"raised"}
        /\ \A c \in Calls : ~InLoop(c) => pc'[c] \notin Loop
<1>1. TypeInv /\ [Next]_vars => Final
  <2> SUFFICES ASSUME TypeInv, [Next]_vars, state = "closed" PROVE Final
    OBVIOUS
  <2>1. state' = "closed"
    BY StateSteps
  <2>2. CASE Still
    BY <2>1, <2>2 DEF Still, InLoop
  <2>3. ASSUME NEW c \in Calls, Moves(c)
        PROVE  Final
    <3>1. \A d \in Calls : d # c => pc'[d] = pc[d]
      BY <2>3 DEF Moves, OthersStay
    <3>2. /\ InLoop(c) => pc'[c] \in Loop \cup {"raised"}
          /\ ~InLoop(c) => pc'[c] \notin Loop
      <4>1. CASE Quits(c)
        BY <4>1 DEF Quits
      <4>2. CASE Spoke(c) \/ CallsTools(c) \/ GetsResults(c) \/ Prepares(c)
        BY <4>2 DEF Spoke, CallsTools, GetsResults, Results, Prepares, At, InLoop, Loop
      <4>3. ~Enters(c) /\ ~Completes(c)
        BY DEF Enters, Completes
      <4> QED
        BY <2>3, <4>1, <4>2, <4>3 DEF Moves
    <3> QED
      BY <2>1, <3>1, <3>2 DEF InLoop
  <2> QED
    BY <2>2, <2>3, LoopMoves
<1>2. TypeInv /\ [Next]_vars => [Final]_vars
  BY <1>1
<1> QED
  BY <1>2, TypeAlways, PTL DEF Spec, ClosedIsFinal

-----------------------------------------------------------------------------
(* Well-formed requests *)

(* Position i is an assistant turn whose tool calls have their results.     *)
Answered(i) ==
  history[i].kind = "assistant" /\ history[i].calls > 0 =>
    i < Len(history) /\ history[i + 1] = ToolResultsTurn(history[i].calls)

(* The last turn asks for n results and the input that is in the loop, if   *)
(* there is one, is about to deliver them: nobody else can append.  Without *)
(* one the session is stuck in PROCESSING or closed, so nobody ever will.  *)
Hanging ==
  /\ state \in {"processing", "closed"}
  /\ \A c \in Calls : InLoop(c) =>
       pc[c] \in {"spoke", "tools"} /\ frame[c].calls = history[Len(history)].calls

PairInv ==
  \A i \in DOMAIN history : Answered(i) \/ (i = Len(history) /\ Hanging)

LEMMA PairInit == Init => PairInv
BY DEF Init, PairInv

LEMMA HistoryFacts ==
  ASSUME TypeInv
  PROVE  history \in Seq(Turns) /\ Len(history) \in Nat /\ DOMAIN history = 1 .. Len(history)
BY TypeParts

(* What is answered stays answered.                                        *)
LEMMA AnsweredStays ==
  ASSUME TypeInv, NEW i \in DOMAIN history, Answered(i), NEW t, history' = Append(history, t)
  PROVE  Answered(i)'
<1>1. /\ i \in 1 .. Len(history) /\ Len(history') = Len(history) + 1
      /\ \A j \in 1 .. Len(history) : history'[j] = history[j]
  BY HistoryFacts
<1>2. i < Len(history) => i + 1 \in 1 .. Len(history)
  BY <1>1, HistoryFacts
<1> QED
  BY <1>1, <1>2, HistoryFacts DEF Answered, ToolResultsTurn

LEMMA PairStep == TypeInv /\ LoopInv /\ PairInv /\ [Next]_vars => PairInv'
<1> SUFFICES ASSUME TypeInv, LoopInv, PairInv, [Next]_vars PROVE PairInv'
  OBVIOUS
<1>a. history \in Seq(Turns) /\ Len(history) \in Nat /\ DOMAIN history = 1 .. Len(history)
  BY HistoryFacts
<1>1. CASE Still
  BY <1>1 DEF Still, PairInv, Answered, Hanging, InLoop
<1>2. ASSUME NEW c \in Calls, Moves(c)
      PROVE  PairInv'
  <2>a. OthersStay(c)
    BY <1>2 DEF Moves
  <2>b. ASSUME \A i \in DOMAIN history : Answered(i), NEW t, history' = Append(history, t),
               t.kind = "assistant" /\ t.calls > 0 => Hanging'
        PROVE  PairInv'
    <3>1. Len(history') = Len(history) + 1 /\ history'[Len(history) + 1] = t
      BY <2>b, <1>a
    <3>2. ASSUME NEW i \in DOMAIN history'
          PROVE  Answered(i)' \/ (i = Len(history') /\ Hanging')
      <4>1. CASE i \in DOMAIN history
        BY <4>1, <2>b, AnsweredStays
      <4>2. CASE i = Len(history) + 1
        BY <4>2, <3>1, <2>b DEF Answered
      <4>3. DOMAIN history' = 1 .. Len(history) + 1
        BY <2>b, <1>a
      <4> QED
        BY <4>1, <4>2, <4>3, <1>a
    <3> QED
      BY <3>2 DEF PairInv
  <2>c. ASSUME UNCHANGED history, \A i \in DOMAIN history : Answered(i)
        PROVE  PairInv'
    BY <2>c DEF PairInv, Answered
  <2>d. ASSUME UNCHANGED history, Hanging => Hanging'
        PROVE  PairInv'
    BY <2>d DEF PairInv, Answered
  <2>e. ~Hanging => \A i \in DOMAIN history : Answered(i)
    BY DEF PairInv
  <2>1. CASE Enters(c)
    <3>1. state \in {"idle", "awaiting_input"} /\ ~Hanging
      BY <2>1 DEF Enters, Hanging
    <3>2. \A d \in Calls : ~InLoop(d)
      BY <3>1 DEF LoopInv
    <3>3. UNCHANGED history \/ \E m \in Messages : history' = Append(history, UserTurn(m))
      BY <3>2, HistorySteps DEF Opens, Injects, Answers, Results, At, InLoop, Loop
    <3>4. \A m : UserTurn(m).kind # "assistant"
      BY DEF UserTurn
    <3> QED
      BY <3>1, <3>3, <3>4, <2>b, <2>c, <2>e
  <2>2. CASE Completes(c)
    <3>1. Hanging => history[Len(history)].calls = 0
      BY <2>2 DEF Completes, Hanging
    <3>2. Hanging => Answered(Len(history))
      BY <3>1 DEF Answered
    <3>3. \A i \in DOMAIN history : Answered(i)
      BY <3>2 DEF PairInv
    <3> QED
      BY <2>2, <2>c, <3>3 DEF Completes
  <2>3. CASE Quits(c)
    <3>1. UNCHANGED history /\ state' \in {state, "closed"} /\ pc'[c] \notin Loop
      BY <2>3 DEF Quits
    <3>2. Hanging => Hanging'
      BY <3>1, <2>a DEF Hanging, OthersStay, InLoop
    <3> QED
      BY <2>d, <3>1, <3>2
  <2>4. CASE Spoke(c)
    <3> DEFINE turn == AssistantTurn(frame'[c].calls)
    <3>1. InLoop(c) /\ pc[c] = "provider"
      BY <2>4 DEF Spoke, At, InLoop, Loop
    <3>2. ~Hanging
      BY <3>1 DEF Hanging
    <3>3. history' = Append(history, turn) /\ state' \in {"processing", "closed"}
      BY <2>4, <3>1 DEF Spoke, LoopInv
    <3>4. history'[Len(history')] = turn /\ turn.calls = frame'[c].calls
      BY <3>3, <1>a DEF AssistantTurn
    <3>5. \A d \in Calls : InLoop(d)' => d = c
      BY <3>1, <2>a DEF LoopInv, OneInputAtATime, OthersStay, InLoop
    <3>6. Hanging'
      BY <2>4, <3>3, <3>4, <3>5 DEF Spoke, Hanging
    <3> QED
      BY <3>2, <3>3, <3>6, <2>b, <2>e
  <2>5. CASE CallsTools(c)
    <3>1. Hanging => Hanging'
      BY <2>5, <2>a DEF CallsTools, At, Hanging, OthersStay, InLoop, Loop
    <3> QED
      BY <2>5, <2>d, <3>1 DEF CallsTools
  <2>6. CASE GetsResults(c)
    <3> DEFINE turn == ToolResultsTurn(frame[c].calls)
    <3>1. history' = Append(history, turn) /\ turn.kind = "results" /\ InLoop(c)
      BY <2>6 DEF GetsResults, Results, ToolResultsTurn, At, InLoop, Loop
    <3>2. CASE Hanging
      <4>1. PICK n \in Nat : n = Len(history)
        BY <1>a
      <4>2. turn = ToolResultsTurn(history[n].calls)
        BY <3>1, <3>2, <4>1 DEF Hanging
      <4>3. /\ Len(history') = n + 1 /\ history'[n + 1] = turn
            /\ DOMAIN history = 1 .. n /\ DOMAIN history' = 1 .. n + 1
            /\ \A i \in DOMAIN history : history'[i] = history[i]
        BY <3>1, <4>1, <1>a
      <4>4. n \in DOMAIN history => Answered(n)'
        BY <4>1, <4>2, <4>3 DEF Answered
      <4>5. \A i \in DOMAIN history : Answered(i)'
        BY <3>1, <4>1, <4>4, AnsweredStays DEF PairInv
      <4>6. Answered(n + 1)'
        BY <3>1, <4>1, <4>3 DEF Answered
      <4>7. \A i \in 1 .. n + 1 : Answered(i)'
        BY <4>1, <4>3, <4>5, <4>6
      <4> QED
        BY <4>3, <4>7 DEF PairInv
    <3>3. CASE ~Hanging
      BY <3>1, <3>3, <2>b, <2>e
    <3> QED
      BY <3>2, <3>3
  <2>7. CASE Prepares(c)
    <3>1. ~Hanging
      BY <2>7 DEF Prepares, Hanging
    <3>2. CASE UNCHANGED history
      BY <3>1, <3>2, <2>c, <2>e
    <3>3. CASE Injects(c)
      <4>1. PICK t \in {SteeringTurn(m) : m \in Messages} \cup {LoopWarning} :
              history' = Append(history, t)
        BY <3>3 DEF Injects
      <4>2. t.kind # "assistant"
        BY DEF SteeringTurn, LoopWarning
      <4> QED
        BY <4>1, <4>2, <3>1, <2>b, <2>e
    <3> QED
      BY <2>7, <3>2, <3>3 DEF Prepares
  <2> QED
    BY <1>2, <2>1, <2>2, <2>3, <2>4, <2>5, <2>6, <2>7 DEF Moves
<1> QED
  BY <1>1, <1>2, LoopMoves

LEMMA PairAlways == Spec => []PairInv
BY TypeAlways, LoopAlways, PairInit, PairStep, PTL DEF Spec

(* Every request _call_llm sends finds each assistant turn that called      *)
(* tools followed at once by their results: cancelled parallel tools leave  *)
(* synthetic ones, and a task that dies between the two turns leaves a      *)
(* session that no other input can enter.                                  *)
THEOREM RequestsHold == Spec => []RequestsWellFormed
<1>1. TypeInv /\ PairInv => RequestsWellFormed
  <2> SUFFICES ASSUME TypeInv, PairInv, NEW c \in Calls, At(c, "provider"), NEW i \in DOMAIN history
               PROVE  Answered(i)
    BY DEF RequestsWellFormed, Answered
  <2>1. ~Hanging
    BY DEF Hanging, At, InLoop, Loop
  <2> QED
    BY <2>1 DEF PairInv
<1> QED
  BY <1>1, TypeAlways, PairAlways, PTL

-----------------------------------------------------------------------------
(* The end of the session's work *)

(* The loops of _process_follow_ups that are open, task by task.            *)
Shares == {s \in Calls \X Nat : 1 <= s[2] /\ s[2] <= level[s[1]]}

(* As long as no task has raised, _follow_up_depth counts the open loops of *)
(* all tasks, and a session that is idle and has not announced the end of   *)
(* its work has one open that will, or a SESSION_END on its way.            *)
EndInv ==
  ~Raised =>
    /\ IsFiniteSet(Shares) /\ depth = Cardinality(Shares)
    /\ \A c \in Calls : pc[c] \in Idle => level[c] = 0
    /\ state = "idle" /\ history # <<>> /\ ~announced =>
         depth # 0 \/ \E c \in Calls : At(c, "ending")

LEMMA EndInit == Init => EndInv
<1> SUFFICES ASSUME Init PROVE EndInv
  OBVIOUS
<1>1. \A c \in Calls : level[c] = 0
  BY DEF Init
<1>2. Shares = {}
  BY <1>1 DEF Shares
<1> QED
  BY <1>1, <1>2, FS_EmptySet DEF Init, EndInv

(* What a step does to the loops and to what is announced.                 *)
GoesOn(c) ==
  /\ UNCHANGED <<level, depth>> /\ pc[c] # "raised"
  /\ \A d \in Calls : d # c => pc'[d] = pc[d]
  /\ pc'[c] \in Idle => level[c] = 0
  /\ \/ state' \in {"processing", "awaiting_input", "closed"} \/ pc'[c] = "ending"
     \/ UNCHANGED <<state, history, announced>> /\ pc[c] # "ending"
GoesIn(c) ==
  /\ EnterFollowUps(c) /\ pc[c] # "raised"
GoesOut(c) ==
  /\ At(c, "drain") /\ LeaveLoop(c)
  /\ IF depth = 1 THEN announced' = TRUE ELSE announced' = announced
OnlyHost ==
  /\ UNCHANGED <<pc, level, depth, history>>
  /\ state' = "closed" \/ UNCHANGED <<state, announced>>

LEMMA EndSteps ==
  ASSUME TypeInv, LoopInv, [Next]_vars
  PROVE  \/ OnlyHost
         \/ \E c \in Calls : pc'[c] = "raised" \/ GoesOn(c) \/ GoesIn(c) \/ GoesOut(c)
<1> USE DEF Within, host, queues, task, At, Goto
<1>a. pc \in [Calls -> Points]
  BY TypeParts DEF TaskOK
<1>b. \A c \in Calls : pc[c] \in Loop => state \in {"processing", "closed"}
  BY DEF LoopInv, InLoop
<1>1. ASSUME NEW c \in Calls, Raise(c) \/ Unwind(c)
      PROVE  pc'[c] = "raised"
  BY <1>1, <1>a DEF Raise, Unwind
<1>2. ASSUME NEW c \in Calls, NEW m, Submit(c, m), pc[c] # "raised"
      PROVE  GoesOn(c)
  BY <1>2, <1>a DEF Submit, GoesOn, Idle
<1>3. ASSUME NEW c \in Calls, Call(c) \/ Accepted(c) \/ Refused(c) \/ ResumeWithInput(c)
      PROVE  pc'[c] = "raised" \/ GoesOn(c)
  <2>1. CASE Call(c)
    BY <2>1, <1>a DEF Call, GoesOn, Idle
  <2>2. CASE Accepted(c)
    BY <2>2, <1>2 DEF Accepted
  <2>3. CASE Refused(c)
    BY <2>3, <1>1 DEF Refused
  <2>4. CASE ResumeWithInput(c)
    BY <2>4, <1>a DEF ResumeWithInput, GoesOn, Idle
  <2> QED
    BY <1>3, <2>1, <2>2, <2>3, <2>4
<1>4. ASSUME NEW c \in Calls, pc[c] \in Loop, Within, NEW p \in Loop, pc' = [pc EXCEPT ![c] = p]
      PROVE  GoesOn(c)
  <2>1. state' \in {"processing", "closed"} /\ p \notin Idle /\ pc[c] # "raised"
    BY <1>4, <1>b DEF Loop, Idle
  <2> QED
    BY <1>4, <1>a, <2>1 DEF GoesOn
<1>5. ASSUME NEW c \in Calls, CompleteInput(c) \/ StopEarly(c) \/ TooLate(c), pc[c] \in Loop
      PROVE  pc'[c] = "raised" \/ GoesOn(c) \/ GoesIn(c)
  <2>1. pc[c] # "raised"
    BY <1>5 DEF Loop
  <2>2. CASE CompleteInput(c)
    BY <2>1, <2>2 DEF CompleteInput, GoesIn
  <2>3. CASE StopEarly(c)
    BY <2>1, <2>3, <1>a DEF StopEarly, GoesOn, Idle
  <2>4. CASE TooLate(c)
    BY <2>4, <1>1 DEF TooLate
  <2> QED
    BY <1>5, <2>2, <2>3, <2>4
<1>6. ASSUME NEW c \in Calls, LoopStep(c)
      PROVE  pc'[c] = "raised" \/ GoesOn(c) \/ GoesIn(c)
  <2>1. CASE Open(c) \/ Injected(c) \/ ReachLimit(c) \/ Request(c) \/ Answer(c)
             \/ ToolRound(c) \/ ToolsDone(c)
    <3>1. pc[c] \in Loop /\ Within
      BY <2>1 DEF Open, Injected, ReachLimit, Request, Answer, ToolRound, ToolsDone,
                  RecordResults, Loop
    <3>2. \E p \in Loop : pc' = [pc EXCEPT ![c] = p]
      BY <2>1 DEF Open, Injected, ReachLimit, Request, Answer, ToolRound, ToolsDone,
                  RecordResults, DrainSteering, Loop
    <3> QED
      BY <3>1, <3>2, <1>4
  <2>2. CASE Inject(c)
    <3>1. pc[c] \in Loop /\ Within /\ pc' = [pc EXCEPT ![c] = pc[c]]
      BY <2>2, <1>a DEF Inject, Loop
    <3> QED
      BY <3>1, <1>4
  <2>3. CASE CancelAtTop(c) \/ CancelAfterProvider(c) \/ ContextLengthExceeded(c)
             \/ NaturalCompletion(c) \/ SpokeTooLate(c) \/ Limited(c)
    BY <2>3, <1>5 DEF CancelAtTop, CancelAfterProvider, ContextLengthExceeded,
                      NaturalCompletion, SpokeTooLate, Limited, Loop
  <2>4. CASE RetryableError(c) \/ FatalError(c)
    BY <2>4, <1>1 DEF RetryableError, FatalError
  <2>5. CASE Question(c)
    <3>1. /\ pc[c] = "spoke" /\ state' = "awaiting_input" /\ UNCHANGED <<level, depth>>
          /\ pc' = [pc EXCEPT ![c] = IF level[c] = 0 THEN "returned" ELSE "drain"]
      BY <2>5 DEF Question
    <3> QED
      BY <3>1, <1>a DEF GoesOn, Idle
  <2> QED
    BY <1>6, <2>1, <2>2, <2>3, <2>4, <2>5 DEF LoopStep
<1>7. ASSUME NEW c \in Calls, FollowUpStep(c)
      PROVE  pc'[c] = "raised" \/ GoesOn(c) \/ GoesIn(c) \/ GoesOut(c)
  <2>1. CASE Ending(c)
    BY <2>1 DEF Ending, GoesIn
  <2>2. CASE NextFollowUp(c)
    BY <2>2, <1>2 DEF NextFollowUp
  <2>3. CASE FollowUpRefused(c)
    BY <2>3, <1>1 DEF FollowUpRefused
  <2>4. CASE FollowUpsDrained(c)
    BY <2>4 DEF FollowUpsDrained, GoesOut, Outermost, EmitSessionEnd
  <2> QED
    BY <1>7, <2>1, <2>2, <2>3, <2>4 DEF FollowUpStep
<1>8. ASSUME NEW c \in Calls, ToolsCancelled(c) \/ TaskCancelled(c)
      PROVE  pc'[c] = "raised" \/ GoesOn(c)
  <2>1. CASE ToolsCancelled(c)
    <3>1. pc[c] \in Loop /\ Within /\ pc' = [pc EXCEPT ![c] = "inject"] /\ "inject" \in Loop
      BY <2>1 DEF ToolsCancelled, RecordResults, DrainSteering, Loop
    <3> QED
      BY <3>1, <1>4
  <2>2. CASE TaskCancelled(c)
    BY <2>2, <1>1 DEF TaskCancelled
  <2> QED
    BY <1>8, <2>1, <2>2
<1>9. CASE Steer \/ FollowUp \/ Cancel \/ Shutdown \/ UNCHANGED vars
  BY <1>9 DEF Steer, FollowUp, Cancel, Shutdown, vars, OnlyHost
<1> QED
  BY <1>3, <1>6, <1>7, <1>8, <1>9 DEF Next, HostStep, TaskStep, Enter

(* An exception is remembered.                                             *)
LEMMA RaisedStays ==
  ASSUME TypeInv, LoopInv, Raised, [Next]_vars
  PROVE  Raised'
<1>1. PICK c \in Calls : pc[c] = "raised"
  BY DEF Raised, At
<1>2. pc \in [Calls -> Points]
  BY TypeParts DEF TaskOK
<1>3. ASSUME NEW d \in Calls, GoesOn(d) \/ GoesIn(d) \/ GoesOut(d)
      PROVE  pc'[c] = "raised"
  BY <1>1, <1>2, <1>3 DEF GoesOn, GoesIn, EnterFollowUps, GoesOut, LeaveLoop, At, Goto
<1> QED
  BY <1>1, <1>3, EndSteps DEF OnlyHost, Raised, At

LEMMA EndStep == TypeInv /\ LoopInv /\ EndInv /\ [Next]_vars => EndInv'
<1> SUFFICES ASSUME TypeInv, LoopInv, EndInv, [Next]_vars, ~Raised' PROVE EndInv'
  BY DEF EndInv
<1>a. /\ pc \in [Calls -> Points] /\ level \in [Calls -> Nat]
      /\ \A c \in Calls : pc[c] = "drain" => level[c] # 0
  BY TypeParts DEF TaskOK
<1>b. ~Raised
  BY RaisedStays
<1>c. /\ IsFiniteSet(Shares) /\ depth = Cardinality(Shares) /\ depth \in Nat
      /\ \A c \in Calls : pc[c] \in Idle => level[c] = 0
  BY <1>b, FS_CardinalityType DEF EndInv
<1>1. CASE OnlyHost
  <2>1. Shares' = Shares
    BY <1>1 DEF OnlyHost, Shares
  <2> QED
    BY <1>1, <1>b, <2>1 DEF OnlyHost, EndInv, At
<1>2. ASSUME NEW c \in Calls, GoesOn(c) PROVE EndInv'
  <2>1. Shares' = Shares
    BY <1>2 DEF GoesOn, Shares
  <2>2. \A d \in Calls : pc'[d] \in Idle => level'[d] = 0
    BY <1>2, <1>c DEF GoesOn
  <2>3. ASSUME state' = "idle", history' # <<>>, ~announced'
        PROVE  depth' # 0 \/ \E d \in Calls : At(d, "ending")'
    <3>1. CASE pc'[c] = "ending"
      BY <3>1 DEF At
    <3>2. CASE UNCHANGED <<state, history, announced>> /\ pc[c] # "ending"
      BY <1>2, <1>b, <2>3, <3>2 DEF GoesOn, EndInv, At
    <3> QED
      BY <1>2, <2>3, <3>1, <3>2 DEF GoesOn
  <2> QED
    BY <1>2, <1>c, <2>1, <2>2, <2>3 DEF GoesOn, EndInv
<1>3. ASSUME NEW c \in Calls, GoesIn(c) PROVE EndInv'
  <2> DEFINE e == <<c, level[c] + 1>>
  <2>1. /\ level' = [level EXCEPT ![c] = level[c] + 1] /\ depth' = depth + 1
        /\ pc' = [pc EXCEPT ![c] = "drain"]
    BY <1>3, <1>a DEF GoesIn, EnterFollowUps, Goto
  <2>2. level[c] \in Nat /\ level'[c] = level[c] + 1
        /\ \A d \in Calls \ {c} : level'[d] = level[d]
    BY <2>1, <1>a
  <2>3. Shares' = Shares \cup {e} /\ e \notin Shares
    <3>1. \A d \in Calls : \A k \in Nat :
            /\ <<d, k>> \in Shares <=> 1 <= k /\ k <= level[d]
            /\ <<d, k>> \in Shares' <=> 1 <= k /\ k <= level'[d]
      BY DEF Shares
    <3>2. Shares \subseteq Calls \X Nat /\ Shares' \subseteq Calls \X Nat
      BY DEF Shares
    <3>3. \A d \in Calls : \A k \in Nat : <<d, k>> \in Shares' <=> <<d, k>> \in Shares \/ <<d, k>> = e
      <4> SUFFICES ASSUME NEW d \in Calls, NEW k \in Nat
                   PROVE  <<d, k>> \in Shares' <=> <<d, k>> \in Shares \/ <<d, k>> = e
        OBVIOUS
      <4>1. CASE d = c
        BY <4>1, <3>1, <2>2
      <4>2. CASE d # c
        BY <4>2, <3>1, <2>2
      <4> QED
        BY <4>1, <4>2
    <3>4. e \in Calls \X Nat /\ e \notin Shares
      BY <2>2, <3>1
    <3> HIDE DEF e
    <3>5. \A s \in Calls \X Nat : s \in Shares' <=> s \in Shares \/ s = e
      BY <3>3
    <3> QED
      BY <3>2, <3>4, <3>5
  <2>4. IsFiniteSet(Shares') /\ Cardinality(Shares') = depth'
    BY <2>1, <2>3, <1>c, FS_AddElement
  <2>5. \A d \in Calls : pc'[d] \in Idle => level'[d] = 0
    BY <2>1, <2>2, <1>a, <1>c DEF Idle
  <2>6. depth' # 0
    BY <2>1, <1>c
  <2> QED
    BY <2>4, <2>5, <2>6 DEF EndInv
<1>4. ASSUME NEW c \in Calls, GoesOut(c) PROVE EndInv'
  <2> DEFINE e == <<c, level[c]>>
  <2>1. /\ level' = [level EXCEPT ![c] = level[c] - 1] /\ depth' = depth - 1
        /\ pc' = [pc EXCEPT ![c] = IF level[c] = 1 THEN "returned" ELSE "drain"]
        /\ pc[c] = "drain" /\ UNCHANGED <<state, history>>
    BY <1>4, <1>a DEF GoesOut, LeaveLoop, Goto, At, queues
  <2>2. /\ level[c] \in Nat \ {0} /\ level'[c] = level[c] - 1
        /\ \A d \in Calls \ {c} : level'[d] = level[d]
    BY <2>1, <1>a
  <2>3. Shares' = Shares \ {e} /\ e \in Shares
    <3>1. \A d \in Calls : \A k \in Nat :
            /\ <<d, k>> \in Shares <=> 1 <= k /\ k <= level[d]
            /\ <<d, k>> \in Shares' <=> 1 <= k /\ k <= level'[d]
      BY DEF Shares
    <3>2. Shares \subseteq Calls \X Nat /\ Shares' \subseteq Calls \X Nat
      BY DEF Shares
    <3>3. \A d \in Calls : \A k \in Nat : <<d, k>> \in Shares' <=> <<d, k>> \in Shares /\ <<d, k>> # e
      <4> SUFFICES ASSUME NEW d \in Calls, NEW k \in Nat
                   PROVE  <<d, k>> \in Shares' <=> <<d, k>> \in Shares /\ <<d, k>> # e
        OBVIOUS
      <4>1. CASE d = c
        BY <4>1, <3>1, <2>2
      <4>2. CASE d # c
        BY <4>2, <3>1, <2>2
      <4> QED
        BY <4>1, <4>2
    <3>4. e \in Shares
      BY <2>2, <3>1
    <3> HIDE DEF e
    <3>5. \A s \in Calls \X Nat : s \in Shares' <=> s \in Shares /\ s # e
      BY <3>3
    <3> QED
      BY <3>2, <3>4, <3>5
  <2>4. IsFiniteSet(Shares') /\ Cardinality(Shares') = depth'
    BY <2>1, <2>3, <1>c, FS_RemoveElement
  <2>5. \A d \in Calls : pc'[d] \in Idle => level'[d] = 0
    BY <2>1, <2>2, <1>a, <1>c DEF Idle
  <2>6. announced' \/ depth' # 0
    BY <1>4, <2>1, <1>c DEF GoesOut
  <2> QED
    BY <2>4, <2>5, <2>6 DEF EndInv
<1>5. ASSUME NEW c \in Calls, pc'[c] = "raised" PROVE FALSE
  BY <1>5 DEF Raised, At
<1> QED
  BY <1>1, <1>2, <1>3, <1>4, <1>5, EndSteps

LEMMA EndAlways == Spec => []EndInv
BY TypeAlways, LoopAlways, EndInit, EndStep, PTL DEF Spec

(* However tasks and their follow-ups were interleaved, a session that      *)
(* comes to rest in IDLE without an exception has announced the end of its  *)
(* work: _follow_up_depth, which all tasks share, counts their open loops,  *)
(* so that the last of them to be left is the outermost.                   *)
THEOREM EndAnnouncedHolds == Spec => []EndAnnounced
<1>1. TypeInv /\ EndInv => EndAnnounced
  <2> SUFFICES ASSUME TypeInv, EndInv, Quiet, ~Raised, state = "idle", history # <<>>
               PROVE  announced
    BY DEF EndAnnounced
  <2>1. \A c \in Calls : level[c] = 0 /\ ~At(c, "ending")
    BY DEF EndInv, Quiet, At, Idle
  <2>2. Shares = {}
    BY <2>1 DEF Shares
  <2>3. depth = 0
    BY <2>2, FS_EmptySet DEF EndInv
  <2> QED
    BY <2>1, <2>3 DEF EndInv
<1> QED
  BY <1>1, TypeAlways, EndAlways, PTL

-----------------------------------------------------------------------------
(* The host's messages *)

Carries(t, m) == t.kind \in {"user", "steering"} /\ t.msg = m

(* The turns of h carry messages of those sent, in their order; so does a   *)
(* line s of messages behind h; a line is behind another.                  *)
Told(msgs, n, h) ==
  /\ \A p \in DOMAIN h, i \in DOMAIN msgs : Carries(h[p], msgs[i]) => i <= n
  /\ \A p, q \in DOMAIN h, i, j \in DOMAIN msgs :
       p < q /\ Carries(h[p], msgs[i]) /\ Carries(h[q], msgs[j]) => i < j
Below(msgs, s, r) ==
  \A k \in DOMAIN s, l \in DOMAIN r, i, j \in DOMAIN msgs : s[k] = msgs[i] /\ r[l] = msgs[j] => i < j
Line(msgs, n, h, s) ==
  /\ \A k \in DOMAIN s : \E i \in 1 .. n : s[k] = msgs[i]
  /\ \A k, l \in DOMAIN s, i, j \in DOMAIN msgs : k < l /\ s[k] = msgs[i] /\ s[l] = msgs[j] => i < j
  /\ \A p \in DOMAIN h, k \in DOMAIN s, i, j \in DOMAIN msgs :
       Carries(h[p], msgs[i]) /\ s[k] = msgs[j] => i < j

Kept(m) == Positions(m) # {} \/ m \in Waiting

(* Whatever waits is in line behind what is in the history, steering that   *)
(* was drained before steering that was not; only the input that injects    *)
(* holds drained messages; and none is missing unless somebody raised.      *)
Holders == \A c \in Calls : frame[c].pending # <<>> => At(c, "inject")
LinesInv ==
  /\ Told(SteeringMsgs, sentSteering, history) /\ Told(FollowUpMsgs, sentFollowUps, history)
  /\ Line(SteeringMsgs, sentSteering, history, steering)
  /\ Line(FollowUpMsgs, sentFollowUps, history, followUps)
  /\ \A c \in Calls :
       /\ Line(SteeringMsgs, sentSteering, history, frame[c].pending)
       /\ Below(SteeringMsgs, frame[c].pending, steering)
  /\ Holders
NoneMissing ==
  /\ \A i \in 1 .. sentSteering : Kept(SteeringMsgs[i])
  /\ \A i \in 1 .. sentFollowUps : Kept(FollowUpMsgs[i])
AccountInv == LinesInv /\ (Raised \/ NoneMissing)

(* How histories and lines grow and shrink.                                *)
Distinct(msgs) == \A i, j \in DOMAIN msgs : msgs[i] = msgs[j] => i = j

LEMMA Streams ==
  /\ Distinct(SteeringMsgs) /\ DOMAIN SteeringMsgs = 1 .. Len(SteeringMsgs)
  /\ Distinct(FollowUpMsgs) /\ DOMAIN FollowUpMsgs = 1 .. Len(FollowUpMsgs)
  /\ Len(SteeringMsgs) \in Nat /\ Len(FollowUpMsgs) \in Nat
BY MessagesAssumption, SendsAssumption DEF Distinct

LEMMA SaysNothing ==
  ASSUME NEW msgs, NEW n, NEW T, NEW h \in Seq(T), NEW t \in T,
         \A i \in DOMAIN msgs : ~Carries(t, msgs[i])
  PROVE  /\ Told(msgs, n, h) => Told(msgs, n, Append(h, t))
         /\ \A s : Line(msgs, n, h, s) => Line(msgs, n, Append(h, t), s)
<1> DEFINE g == Append(h, t)
<1>1. /\ DOMAIN g = DOMAIN h \cup {Len(h) + 1}
      /\ \A p \in DOMAIN h : g[p] = h[p]
      /\ g[Len(h) + 1] = t
  OBVIOUS
<1> HIDE DEF g
<1>2. \A p \in DOMAIN g, i \in DOMAIN msgs : Carries(g[p], msgs[i]) => p \in DOMAIN h /\ Carries(h[p], msgs[i])
  BY <1>1
<1>3. Told(msgs, n, h) => Told(msgs, n, g)
  BY <1>2 DEF Told
<1>4. \A s : Line(msgs, n, h, s) => Line(msgs, n, g, s)
  BY <1>2 DEF Line
<1> QED
  BY <1>3, <1>4 DEF g

LEMMA TailFacts ==
  ASSUME NEW T, NEW s \in Seq(T), s # <<>>
  PROVE  /\ Len(s) \in Nat /\ 1 \in DOMAIN s /\ Head(s) = s[1] /\ Tail(s) \in Seq(T)
         /\ DOMAIN Tail(s) \subseteq Nat /\ DOMAIN s \subseteq Nat
         /\ \A k \in DOMAIN Tail(s) : k + 1 \in DOMAIN s /\ 1 < k + 1 /\ Tail(s)[k] = s[k + 1]
OBVIOUS

LEMMA FirstLeaves ==
  ASSUME NEW msgs, NEW n, NEW h, NEW T, NEW s \in Seq(T), s # <<>>
  PROVE  /\ Line(msgs, n, h, s) => Line(msgs, n, h, Tail(s))
         /\ \A r : Below(msgs, s, r) => Below(msgs, Tail(s), r)
<1> DEFINE r == Tail(s)
<1>1. /\ DOMAIN r \subseteq Nat
      /\ \A k \in DOMAIN r : k + 1 \in DOMAIN s /\ r[k] = s[k + 1]
  BY TailFacts
<1> HIDE DEF r
<1>2. Line(msgs, n, h, s) => Line(msgs, n, h, r)
  <2> SUFFICES ASSUME Line(msgs, n, h, s) PROVE Line(msgs, n, h, r)
    OBVIOUS
  <2>1. \A k \in DOMAIN r : \E i \in 1 .. n : r[k] = msgs[i]
    BY <1>1 DEF Line
  <2>2. ASSUME NEW k \in DOMAIN r, NEW l \in DOMAIN r, NEW i \in DOMAIN msgs, NEW j \in DOMAIN msgs,
               k < l, r[k] = msgs[i], r[l] = msgs[j]
        PROVE  i < j
    <3>1. k + 1 < l + 1 /\ s[k + 1] = msgs[i] /\ s[l + 1] = msgs[j] /\ k + 1 \in DOMAIN s /\ l + 1 \in DOMAIN s
      BY <1>1, <2>2
    <3> QED
      BY <3>1 DEF Line
  <2>3. \A p \in DOMAIN h, k \in DOMAIN r, i, j \in DOMAIN msgs :
          Carries(h[p], msgs[i]) /\ r[k] = msgs[j] => i < j
    BY <1>1 DEF Line
  <2> QED
    BY <2>1, <2>2, <2>3 DEF Line
<1>3. \A w : Below(msgs, s, w) => Below(msgs, r, w)
  BY <1>1 DEF Below
<1> QED
  BY <1>2, <1>3 DEF r

(* The first in line is told.                                              *)
LEMMA FirstIsTold ==
  ASSUME NEW msgs, Distinct(msgs), NEW n \in Nat, 1 .. n \subseteq DOMAIN msgs, DOMAIN msgs \subseteq Nat,
         NEW T, NEW h \in Seq(T), NEW t \in T,
         NEW M, NEW s \in Seq(M), s # <<>>,
         \A m : Carries(t, m) <=> m = Head(s),
         Told(msgs, n, h), Line(msgs, n, h, s)
  PROVE  /\ Told(msgs, n, Append(h, t)) /\ Line(msgs, n, Append(h, t), Tail(s))
         /\ \A r : Line(msgs, n, h, r) /\ Below(msgs, s, r) => Line(msgs, n, Append(h, t), r)
<1> DEFINE g == Append(h, t)
           r == Tail(s)
<1>1. /\ DOMAIN g = DOMAIN h \cup {Len(h) + 1} /\ DOMAIN h = 1 .. Len(h) /\ Len(h) \in Nat
      /\ \A p \in DOMAIN h : g[p] = h[p]
      /\ g[Len(h) + 1] = t
  OBVIOUS
<1>2. /\ 1 \in DOMAIN s /\ Head(s) = s[1] /\ DOMAIN r \subseteq Nat
      /\ \A k \in DOMAIN r : k + 1 \in DOMAIN s /\ 1 < k + 1 /\ r[k] = s[k + 1]
  BY TailFacts
<1>3. Line(msgs, n, h, r)
  BY FirstLeaves
<1> HIDE DEF g, r
<1>4. PICK f \in 1 .. n : s[1] = msgs[f]
  BY <1>2 DEF Line
<1>5. \A p \in DOMAIN g, i \in DOMAIN msgs :
        Carries(g[p], msgs[i]) => \/ p \in DOMAIN h /\ Carries(h[p], msgs[i]) /\ i < f
                                  \/ p = Len(h) + 1 /\ i = f
  <2> SUFFICES ASSUME NEW p \in DOMAIN g, NEW i \in DOMAIN msgs, Carries(g[p], msgs[i])
               PROVE  \/ p \in DOMAIN h /\ Carries(h[p], msgs[i]) /\ i < f
                      \/ p = Len(h) + 1 /\ i = f
    OBVIOUS
  <2>0. f \in DOMAIN msgs
    OBVIOUS
  <2>1. CASE p \in DOMAIN h
    BY <2>0, <2>1, <1>1, <1>2, <1>4 DEF Line
  <2>2. CASE p = Len(h) + 1
    <3>1. msgs[i] = msgs[f]
      BY <2>2, <1>1, <1>2, <1>4
    <3> QED
      BY <2>0, <2>2, <3>1 DEF Distinct
  <2> QED
    BY <2>1, <2>2, <1>1
<1>6. Told(msgs, n, g)
  <2>1. \A p \in DOMAIN g, i \in DOMAIN msgs : Carries(g[p], msgs[i]) => i <= n
    BY <1>5 DEF Told
  <2>2. ASSUME NEW p \in DOMAIN g, NEW q \in DOMAIN g, NEW i \in DOMAIN msgs, NEW j \in DOMAIN msgs,
               p < q, Carries(g[p], msgs[i]), Carries(g[q], msgs[j])
        PROVE  i < j
    <3>1. p \in DOMAIN h /\ Carries(h[p], msgs[i]) /\ i < f
      BY <2>2, <1>1, <1>5
    <3>2. CASE q \in DOMAIN h /\ Carries(h[q], msgs[j])
      BY <2>2, <3>1, <3>2 DEF Told
    <3>3. CASE j = f
      BY <3>1, <3>3
    <3> QED
      BY <2>2, <3>2, <3>3, <1>5
  <2> QED
    BY <2>1, <2>2 DEF Told
<1>7. Line(msgs, n, g, r)
  <2>1. ASSUME NEW p \in DOMAIN g, NEW k \in DOMAIN r, NEW i \in DOMAIN msgs, NEW j \in DOMAIN msgs,
               Carries(g[p], msgs[i]), r[k] = msgs[j]
        PROVE  i < j
    <3>1. k + 1 \in DOMAIN s /\ 1 < k + 1 /\ s[k + 1] = msgs[j]
      BY <2>1, <1>2
    <3>2. f < j
      BY <3>1, <1>2, <1>4 DEF Line
    <3> QED
      BY <2>1, <3>2, <1>5
  <2> QED
    BY <2>1, <1>3 DEF Line
<1>8. ASSUME NEW w, Line(msgs, n, h, w), Below(msgs, s, w) PROVE Line(msgs, n, g, w)
  <2>1. ASSUME NEW p \in DOMAIN g, NEW k \in DOMAIN w, NEW i \in DOMAIN msgs, NEW j \in DOMAIN msgs,
               Carries(g[p], msgs[i]), w[k] = msgs[j]
        PROVE  i < j
    <3>1. f < j
      BY <1>2, <1>4, <1>8, <2>1 DEF Below
    <3> QED
      BY <2>1, <3>1, <1>5
  <2> QED
    BY <2>1, <1>8 DEF Line
<1> QED
  BY <1>6, <1>7, <1>8 DEF g, r

(* The host sends one more.                                                *)
LEMMA OneMoreSent ==
  ASSUME NEW msgs, Distinct(msgs), NEW n \in Nat, 1 .. n + 1 \subseteq DOMAIN msgs, DOMAIN msgs \subseteq Nat,
         NEW h, NEW M, NEW s \in Seq(M), msgs[n + 1] \in M,
         Told(msgs, n, h), Line(msgs, n, h, s)
  PROVE  /\ Told(msgs, n + 1, h) /\ Line(msgs, n + 1, h, Append(s, msgs[n + 1]))
         /\ \A r : Line(msgs, n, h, r) => Line(msgs, n + 1, h, r)
         /\ \A r : Line(msgs, n, h, r) /\ Below(msgs, r, s) => Below(msgs, r, Append(s, msgs[n + 1]))
<1> DEFINE r == Append(s, msgs[n + 1])
<1>1. /\ DOMAIN r = DOMAIN s \cup {Len(s) + 1} /\ DOMAIN s = 1 .. Len(s) /\ Len(s) \in Nat
      /\ \A k \in DOMAIN s : r[k] = s[k]
      /\ r[Len(s) + 1] = msgs[n + 1]
  OBVIOUS
<1> HIDE DEF r
<1>2. \A w : Line(msgs, n, h, w) => \A k \in DOMAIN w, i \in DOMAIN msgs : w[k] = msgs[i] => i <= n
  <2> SUFFICES ASSUME NEW w, Line(msgs, n, h, w), NEW k \in DOMAIN w, NEW i \in DOMAIN msgs, w[k] = msgs[i]
               PROVE  i <= n
    OBVIOUS
  <2>1. PICK j \in 1 .. n : w[k] = msgs[j]
    BY DEF Line
  <2>2. j \in DOMAIN msgs /\ j <= n
    BY <2>1
  <2> QED
    BY <2>1, <2>2 DEF Distinct
<1>3. Told(msgs, n + 1, h)
  BY DEF Told
<1>4. \A w : Line(msgs, n, h, w) => Line(msgs, n + 1, h, w)
  BY DEF Line
<1>5. Line(msgs, n + 1, h, r)
  <2>1. \A k \in DOMAIN r : \E i \in 1 .. n + 1 : r[k] = msgs[i]
    BY <1>1 DEF Line
  <2>2. \A k \in DOMAIN r, i \in DOMAIN msgs :
          r[k] = msgs[i] => (k \in DOMAIN s /\ s[k] = msgs[i] /\ i <= n) \/ (k = Len(s) + 1 /\ i = n + 1)
    <3> SUFFICES ASSUME NEW k \in DOMAIN r, NEW i \in DOMAIN msgs, r[k] = msgs[i]
                 PROVE  (k \in DOMAIN s /\ s[k] = msgs[i] /\ i <= n) \/ (k = Len(s) + 1 /\ i = n + 1)
      OBVIOUS
    <3>1. CASE k \in DOMAIN s
      BY <3>1, <1>1, <1>2
    <3>2. CASE k = Len(s) + 1
      <4>1. n + 1 \in DOMAIN msgs /\ msgs[i] = msgs[n + 1]
        BY <3>2, <1>1
      <4> QED
        BY <3>2, <4>1 DEF Distinct
    <3> QED
      BY <3>1, <3>2, <1>1
  <2>3. ASSUME NEW k \in DOMAIN r, NEW l \in DOMAIN r, NEW i \in DOMAIN msgs, NEW j \in DOMAIN msgs,
               k < l, r[k] = msgs[i], r[l] = msgs[j]
        PROVE  i < j
    <3>1. k \in DOMAIN s /\ s[k] = msgs[i] /\ i <= n
      BY <2>2, <2>3, <1>1
    <3>2. CASE l \in DOMAIN s /\ s[l] = msgs[j]
      BY <2>3, <3>1, <3>2 DEF Line
    <3>3. CASE j = n + 1
      BY <3>1, <3>3
    <3> QED
      BY <2>2, <2>3, <3>2, <3>3
  <2>4. ASSUME NEW p \in DOMAIN h, NEW k \in DOMAIN r, NEW i \in DOMAIN msgs, NEW j \in DOMAIN msgs,
               Carries(h[p], msgs[i]), r[k] = msgs[j]
        PROVE  i < j
    <3>1. i <= n
      BY <2>4 DEF Told
    <3>2. CASE k \in DOMAIN s /\ s[k] = msgs[j]
      BY <2>4, <3>2 DEF Line
    <3>3. CASE j = n + 1
      BY <3>1, <3>3
    <3> QED
      BY <2>2, <2>4, <3>2, <3>3
  <2> QED
    BY <2>1, <2>3, <2>4 DEF Line
<1>6. ASSUME NEW w, Line(msgs, n, h, w), Below(msgs, w, s) PROVE Below(msgs, w, r)
  <2> SUFFICES ASSUME NEW k \in DOMAIN w, NEW l \in DOMAIN r, NEW i \in DOMAIN msgs, NEW j \in DOMAIN msgs,
                      w[k] = msgs[i], r[l] = msgs[j]
               PROVE  i < j
    BY DEF Below
  <2>1. i <= n
    BY <1>2, <1>6
  <2>2. CASE l \in DOMAIN s
    BY <2>2, <1>1, <1>6 DEF Below
  <2>3. CASE l = Len(s) + 1
    <3>1. j = n + 1
      BY <2>3, <1>1 DEF Distinct
    <3> QED
      BY <2>1, <3>1
  <2> QED
    BY <2>2, <2>3, <1>1
<1> QED
  BY <1>3, <1>4, <1>5, <1>6 DEF r

LEMMA NobodyInLine ==
  ASSUME NEW msgs, NEW n, NEW h, NEW s
  PROVE  Line(msgs, n, h, <<>>) /\ Below(msgs, <<>>, s) /\ Below(msgs, s, <<>>)
BY DEF Line, Below

(* What a step does to the messages: a task says something of its own,      *)
(* drains the steering queue, relays the first message it drained, takes    *)
(* the next follow-up, or gives up what it holds.                          *)
Silent(t) ==
  /\ \A i \in DOMAIN SteeringMsgs : ~Carries(t, SteeringMsgs[i])
  /\ \A i \in DOMAIN FollowUpMsgs : ~Carries(t, FollowUpMsgs[i])
Adds == UNCHANGED history \/ \E t \in Turns : Silent(t) /\ history' = Append(history, t)

Talks(c) == Adds /\ UNCHANGED queues /\ frame'[c].pending = frame[c].pending
Drains(c) ==
  /\ Adds /\ UNCHANGED followUps /\ steering' = <<>>
  /\ frame[c].pending = <<>> /\ frame'[c].pending = steering
Relays(c) ==
  /\ At(c, "inject") /\ frame[c].pending # <<>> /\ UNCHANGED queues
  /\ history' = Append(history, SteeringTurn(Head(frame[c].pending)))
  /\ frame'[c].pending = Tail(frame[c].pending)
Takes(c) ==
  /\ followUps # <<>> /\ UNCHANGED steering /\ frame'[c].pending = frame[c].pending
  /\ history' = Append(history, UserTurn(Head(followUps))) /\ followUps' = Tail(followUps)
Loses(c) ==
  /\ pc'[c] = "raised" /\ UNCHANGED <<history, steering>> /\ frame'[c].pending = <<>>
  /\ UNCHANGED followUps \/ (followUps # <<>> /\ followUps' = Tail(followUps))
Handles(c) ==
  /\ OthersStay(c) /\ UNCHANGED <<sentSteering, sentFollowUps>>
  /\ frame'[c].pending # <<>> => pc'[c] = "inject"
  /\ Talks(c) \/ Drains(c) \/ Relays(c) \/ Takes(c) \/ Loses(c)
Idles == UNCHANGED <<pc, frame, history, queues, sentSteering, sentFollowUps>>

LEMMA SilentTurns ==
  /\ \A n \in AnswerSizes : Silent(AssistantTurn(n)) /\ Silent(ToolResultsTurn(n))
  /\ Silent(LoopWarning)
  /\ \A c \in Calls : Silent(UserTurn(c))
<1>1. /\ \A n \in AnswerSizes : Silent(AssistantTurn(n)) /\ Silent(ToolResultsTurn(n))
      /\ Silent(LoopWarning)
  BY DEF Silent, Carries, AssistantTurn, ToolResultsTurn, LoopWarning
<1>2. ASSUME NEW c \in Calls PROVE Silent(UserTurn(c))
  <2>1. \A i \in DOMAIN SteeringMsgs : SteeringMsgs[i] # c
    BY SendsAssumption DEF Elements
  <2>2. \A i \in DOMAIN FollowUpMsgs : FollowUpMsgs[i] # c
    BY SendsAssumption DEF Elements
  <2> QED
    BY <2>1, <2>2 DEF Silent, Carries, UserTurn
<1> QED
  BY <1>1, <1>2

LEMMA AccountSteps ==
  ASSUME TypeInv, Holders, [Next]_vars
  PROVE  Idles \/ Steer \/ FollowUp \/ \E c \in Calls : Handles(c)
<1> USE DEF Within, host, queues, task, At, Goto
<1>a. pc \in [Calls -> Points] /\ frame \in [Calls -> Frames]
  BY TypeParts DEF TaskOK
<1>b. /\ \A c \in Calls : frame[c].calls \in AnswerSizes \/ pc[c] # "tools"
      /\ Calls \subseteq Messages
  BY TypeParts, MessageTypes DEF TaskOK
<1>c. /\ \A c \in Calls : UserTurn(c) \in Turns /\ Silent(UserTurn(c))
      /\ \A n \in AnswerSizes : /\ AssistantTurn(n) \in Turns /\ Silent(AssistantTurn(n))
                                /\ ToolResultsTurn(n) \in Turns /\ Silent(ToolResultsTurn(n))
      /\ LoopWarning \in Turns /\ Silent(LoopWarning)
  BY <1>b, TurnTypes, SilentTurns
<1>d. \A c \in Calls : pc[c] # "inject" => frame[c].pending = <<>>
  BY DEF Holders
<1>e. NewFrame.pending = <<>>
  BY DEF NewFrame
(* A task that gives up, and one that only moves on.                       *)
<1>1. ASSUME NEW c \in Calls, Unwind(c),
             UNCHANGED followUps \/ (followUps # <<>> /\ followUps' = Tail(followUps))
      PROVE  Handles(c)
  <2>1. frame'[c] = NewFrame /\ pc'[c] = "raised" /\ OthersStay(c)
    BY <1>1, <1>a DEF Unwind, DropFrame, OthersStay
  <2> QED
    BY <1>1, <1>e, <2>1 DEF Unwind, Handles, Loses
<1>2. ASSUME NEW c \in Calls, Raise(c) PROVE Handles(c)
  BY <1>1, <1>2 DEF Raise
<1>3. ASSUME NEW c \in Calls, pc[c] # "inject", NEW p, pc' = [pc EXCEPT ![c] = p],
             UNCHANGED frame \/ DropFrame(c), Adds, UNCHANGED <<queues, host>>
      PROVE  Handles(c)
  <2>1. frame'[c].pending = <<>> /\ frame[c].pending = <<>> /\ OthersStay(c)
    BY <1>3, <1>a, <1>d, <1>e DEF DropFrame, OthersStay
  <2> QED
    BY <1>3, <2>1 DEF Handles, Talks
<1>4. ASSUME NEW c \in Calls, CompleteInput(c) \/ StopEarly(c) \/ TooLate(c), pc[c] # "inject"
      PROVE  Handles(c)
  <2>1. CASE CompleteInput(c)
    BY <1>4, <2>1, <1>3 DEF CompleteInput, EnterFollowUps, Adds
  <2>2. CASE StopEarly(c)
    BY <1>4, <2>2, <1>3 DEF StopEarly, Adds
  <2>3. CASE TooLate(c)
    BY <2>3, <1>2 DEF TooLate
  <2> QED
    BY <1>4, <2>1, <2>2, <2>3
<1>5. ASSUME NEW c \in Calls, NEW f \in Frames, DrainSteering(c, f), pc[c] # "inject",
             Adds, UNCHANGED <<followUps, host>>
      PROVE  Handles(c)
  <2>1. frame'[c].pending = steering /\ steering' = <<>> /\ pc'[c] = "inject" /\ OthersStay(c)
    BY <1>5, <1>a DEF DrainSteering, OthersStay, Frames
  <2> QED
    BY <1>5, <1>d, <2>1 DEF Handles, Drains
<1>6. ASSUME NEW c \in Calls, Call(c) \/ Accepted(c) \/ Refused(c) \/ ResumeWithInput(c)
      PROVE  Handles(c)
  <2>1. CASE Call(c)
    BY <2>1, <1>3 DEF Call, Adds
  <2>2. CASE Accepted(c)
    <3>1. Adds
      BY <2>2, <1>c DEF Accepted, Submit, Adds
    <3> QED
      BY <2>2, <3>1, <1>3 DEF Accepted, Submit
  <2>3. CASE Refused(c)
    BY <2>3, <1>2 DEF Refused
  <2>4. CASE ResumeWithInput(c)
    <3>1. Adds
      BY <2>4, <1>c DEF ResumeWithInput, Adds
    <3> QED
      BY <2>4, <3>1, <1>3 DEF ResumeWithInput
  <2> QED
    BY <1>6, <2>1, <2>2, <2>3, <2>4
<1>7. ASSUME NEW c \in Calls, ToolsDone(c) \/ ToolsCancelled(c)
      PROVE  Handles(c)
  <2>1. /\ pc[c] = "tools" /\ RecordResults(c, Append(history, ToolResultsTurn(frame[c].calls)))
    BY <1>7 DEF ToolsDone, ToolsCancelled, CancelledResults
  <2>2. Adds
    BY <2>1, <1>b, <1>c DEF RecordResults, Adds
  <2>3. frame[c] \in Frames /\ frame[c].pending \in Seq(Messages) /\ 0 \in Nat /\ TRUE \in BOOLEAN
    BY <1>a DEF Frames
  <2>4. [frame[c] EXCEPT !.rounds = @ + 1, !.calls = 0] \in Frames
    BY <2>3, FrameFields, Zenon
  <2> QED
    BY <2>1, <2>2, <2>4, <1>5 DEF RecordResults
<1>8. ASSUME NEW c \in Calls, LoopStep(c)
      PROVE  Handles(c)
  <2>1. CASE Open(c)
    BY <2>1, <1>a, <1>5 DEF Open, Adds
  <2>2. CASE Inject(c)
    <3>1. frame'[c].pending = Tail(frame[c].pending) /\ OthersStay(c)
      BY <2>2, <1>a DEF Inject, OthersStay, Frames
    <3> QED
      BY <2>2, <3>1 DEF Inject, Handles, Relays
  <2>3. CASE Injected(c)
    <3>1. frame'[c].pending = <<>> /\ frame[c].pending = <<>> /\ OthersStay(c)
      BY <2>3, <1>a DEF Injected, OthersStay
    <3>2. Adds
      BY <2>3, <1>c DEF Injected, Adds
    <3> QED
      BY <2>3, <3>1, <3>2 DEF Injected, Handles, Talks
  <2>4. CASE ReachLimit(c) \/ Request(c) \/ ToolRound(c)
    BY <2>4, <1>3 DEF ReachLimit, Request, ToolRound, Adds
  <2>5. CASE Answer(c)
    <3>1. PICK n \in AnswerSizes, q \in BOOLEAN :
            /\ history' = Append(history, AssistantTurn(n))
            /\ frame' = [frame EXCEPT ![c].calls = n, ![c].asks = q]
      BY <2>5 DEF Answer
    <3>2. frame'[c].pending = frame[c].pending /\ OthersStay(c) /\ frame[c].pending = <<>>
      BY <2>5, <3>1, <1>a, <1>d DEF Answer, OthersStay, Frames
    <3>3. Adds
      BY <3>1, <1>c DEF Adds
    <3> QED
      BY <2>5, <3>2, <3>3 DEF Answer, Handles, Talks
  <2>6. CASE CancelAtTop(c) \/ CancelAfterProvider(c) \/ ContextLengthExceeded(c)
             \/ NaturalCompletion(c) \/ SpokeTooLate(c) \/ Limited(c)
    BY <2>6, <1>4 DEF CancelAtTop, CancelAfterProvider, ContextLengthExceeded,
                      NaturalCompletion, SpokeTooLate, Limited
  <2>7. CASE RetryableError(c)
    BY <2>7, <1>2 DEF RetryableError
  <2>8. CASE FatalError(c)
    BY <2>8, <1>1 DEF FatalError
  <2>9. CASE Question(c)
    BY <2>9, <1>3 DEF Question, Adds
  <2>10. CASE ToolsDone(c)
    BY <2>10, <1>7
  <2> QED
    BY <1>8, <2>1, <2>2, <2>3, <2>4, <2>5, <2>6, <2>7, <2>8, <2>9, <2>10 DEF LoopStep
<1>9. ASSUME NEW c \in Calls, FollowUpStep(c)
      PROVE  Handles(c)
  <2>1. CASE Ending(c)
    BY <2>1, <1>3 DEF Ending, EnterFollowUps, Adds
  <2>2. CASE NextFollowUp(c)
    <3>1. /\ pc' = [pc EXCEPT ![c] = "opening"] /\ UNCHANGED <<frame, steering, host>>
          /\ followUps # <<>> /\ history' = Append(history, UserTurn(Head(followUps)))
          /\ followUps' = Tail(followUps) /\ pc[c] = "drain"
      BY <2>2 DEF NextFollowUp, Submit, InOrder
    <3>2. frame'[c].pending = <<>> /\ frame[c].pending = <<>> /\ OthersStay(c)
      BY <3>1, <1>a, <1>d DEF OthersStay
    <3> QED
      BY <3>1, <3>2 DEF Handles, Takes
  <2>3. CASE FollowUpRefused(c)
    BY <2>3, <1>1 DEF FollowUpRefused
  <2>4. CASE FollowUpsDrained(c)
    BY <2>4, <1>3 DEF FollowUpsDrained, LeaveLoop, Adds
  <2> QED
    BY <1>9, <2>1, <2>2, <2>3, <2>4 DEF FollowUpStep
<1>10. ASSUME NEW c \in Calls, TaskCancelled(c)
      PROVE  Handles(c)
  BY <1>10, <1>2 DEF TaskCancelled
<1>11. CASE Cancel \/ Shutdown \/ UNCHANGED vars
  BY <1>11 DEF Cancel, Shutdown, vars, Idles
<1> QED
  BY <1>6, <1>7, <1>8, <1>9, <1>10, <1>11 DEF Next, HostStep, TaskStep, Enter

LEMMA AccountInit == Init => AccountInv
<1> SUFFICES ASSUME Init PROVE AccountInv
  OBVIOUS
<1>1. /\ history = <<>> /\ steering = <<>> /\ followUps = <<>> /\ sentSteering = 0 /\ sentFollowUps = 0
      /\ \A c \in Calls : frame[c].pending = <<>>
  BY DEF Init, NewFrame
<1>2. /\ Told(SteeringMsgs, 0, <<>>) /\ Told(FollowUpMsgs, 0, <<>>)
      /\ Line(SteeringMsgs, 0, <<>>, <<>>) /\ Line(FollowUpMsgs, 0, <<>>, <<>>)
      /\ Below(SteeringMsgs, <<>>, <<>>)
  BY NobodyInLine DEF Told
<1> QED
  BY <1>1, <1>2 DEF AccountInv, LinesInv, NoneMissing, Holders

(* The facts about types that the steps below rest on.                     *)
LEMMA AccountTypes ==
  ASSUME TypeInv
  PROVE  /\ history \in Seq(Turns) /\ steering \in Seq(Messages) /\ followUps \in Seq(Messages)
         /\ \A c \in Calls : frame[c].pending \in Seq(Messages)
         /\ sentSteering \in Nat /\ 1 .. sentSteering \subseteq DOMAIN SteeringMsgs
         /\ sentFollowUps \in Nat /\ 1 .. sentFollowUps \subseteq DOMAIN FollowUpMsgs
         /\ DOMAIN SteeringMsgs \subseteq Nat /\ DOMAIN FollowUpMsgs \subseteq Nat
<1>1. frame \in [Calls -> Frames]
  BY TypeParts DEF TaskOK
<1>2. \A c \in Calls : frame[c].pending \in Seq(Messages)
  BY <1>1 DEF Frames
<1>3. sentSteering \in 0 .. Len(SteeringMsgs) /\ sentFollowUps \in 0 .. Len(FollowUpMsgs)
  BY TypeParts
<1>4. /\ DOMAIN SteeringMsgs = 1 .. Len(SteeringMsgs) /\ DOMAIN FollowUpMsgs = 1 .. Len(FollowUpMsgs)
      /\ Len(SteeringMsgs) \in Nat /\ Len(FollowUpMsgs) \in Nat
  BY Streams
<1> QED
  BY <1>2, <1>3, <1>4, TypeParts

LEMMA AddsKeepsLines ==
  ASSUME TypeInv, Adds, NEW n, NEW k
  PROVE  /\ Told(SteeringMsgs, n, history) => Told(SteeringMsgs, n, history')
         /\ Told(FollowUpMsgs, k, history) => Told(FollowUpMsgs, k, history')
         /\ \A s : Line(SteeringMsgs, n, history, s) => Line(SteeringMsgs, n, history', s)
         /\ \A s : Line(FollowUpMsgs, k, history, s) => Line(FollowUpMsgs, k, history', s)
<1>1. CASE UNCHANGED history
  BY <1>1
<1>2. ASSUME NEW t \in Turns, Silent(t), history' = Append(history, t)
      PROVE  /\ Told(SteeringMsgs, n, history) => Told(SteeringMsgs, n, history')
             /\ Told(FollowUpMsgs, k, history) => Told(FollowUpMsgs, k, history')
             /\ \A s : Line(SteeringMsgs, n, history, s) => Line(SteeringMsgs, n, history', s)
             /\ \A s : Line(FollowUpMsgs, k, history, s) => Line(FollowUpMsgs, k, history', s)
  <2>1. /\ \A i \in DOMAIN SteeringMsgs : ~Carries(t, SteeringMsgs[i])
        /\ \A i \in DOMAIN FollowUpMsgs : ~Carries(t, FollowUpMsgs[i])
        /\ history \in Seq(Turns)
    BY <1>2, AccountTypes DEF Silent
  <2> QED
    BY <1>2, <2>1, SaysNothing
<1> QED
  BY <1>1, <1>2 DEF Adds

(* The two streams have nothing in common.                                 *)
LEMMA StreamsApart ==
  /\ \A i \in DOMAIN SteeringMsgs, j \in DOMAIN FollowUpMsgs : SteeringMsgs[i] # FollowUpMsgs[j]
BY SendsAssumption DEF Elements

LEMMA LinesStep ==
  ASSUME TypeInv, LoopInv, LinesInv, [Next]_vars
  PROVE  LinesInv'
<1> USE AccountTypes, Streams
<1>a. /\ Told(SteeringMsgs, sentSteering, history) /\ Told(FollowUpMsgs, sentFollowUps, history)
      /\ Line(SteeringMsgs, sentSteering, history, steering)
      /\ Line(FollowUpMsgs, sentFollowUps, history, followUps)
      /\ \A d \in Calls : /\ Line(SteeringMsgs, sentSteering, history, frame[d].pending)
                          /\ Below(SteeringMsgs, frame[d].pending, steering)
      /\ Holders
  BY DEF LinesInv
<1>1. CASE Idles
  BY <1>1, <1>a DEF Idles, queues, LinesInv, Holders, At
<1>2. CASE Steer
  <2> DEFINE n == sentSteering
             m == SteeringMsgs[n + 1]
  <2>1. /\ steering' = Append(steering, m) /\ sentSteering' = n + 1 /\ n < config.steers
        /\ UNCHANGED <<history, followUps, frame, pc, sentFollowUps>>
    BY <1>2 DEF Steer, task
  <2>2. config.steers \in 0 .. Len(SteeringMsgs)
    BY ConfigsAssumption, TypeParts DEF Config
  <2>3. 1 .. n + 1 \subseteq DOMAIN SteeringMsgs /\ m \in Messages
    BY <2>1, <2>2, MessageTypes DEF Elements
  <2>4. /\ Told(SteeringMsgs, n + 1, history) /\ Line(SteeringMsgs, n + 1, history, Append(steering, m))
        /\ \A r : Line(SteeringMsgs, n, history, r) => Line(SteeringMsgs, n + 1, history, r)
        /\ \A r : Line(SteeringMsgs, n, history, r) /\ Below(SteeringMsgs, r, steering)
                    => Below(SteeringMsgs, r, Append(steering, m))
    BY <1>a, <2>3, OneMoreSent
  <2> HIDE DEF m
  <2> QED
    BY <1>a, <2>1, <2>4 DEF LinesInv, Holders, At
<1>3. CASE FollowUp
  <2> DEFINE n == sentFollowUps
             m == FollowUpMsgs[n + 1]
  <2>1. /\ followUps' = Append(followUps, m) /\ sentFollowUps' = n + 1 /\ n < config.follows
        /\ UNCHANGED <<history, steering, frame, pc, sentSteering>>
    BY <1>3 DEF FollowUp, task
  <2>2. config.follows \in 0 .. Len(FollowUpMsgs)
    BY ConfigsAssumption, TypeParts DEF Config
  <2>3. 1 .. n + 1 \subseteq DOMAIN FollowUpMsgs /\ m \in Messages
    BY <2>1, <2>2, MessageTypes DEF Elements
  <2>4. /\ Told(FollowUpMsgs, n + 1, history) /\ Line(FollowUpMsgs, n + 1, history, Append(followUps, m))
    BY <1>a, <2>3, OneMoreSent
  <2> HIDE DEF m
  <2> QED
    BY <1>a, <2>1, <2>4 DEF LinesInv, Holders, At
<1>4. ASSUME NEW c \in Calls, Handles(c) PROVE LinesInv'
  <2>1. /\ \A d \in Calls \ {c} : frame'[d] = frame[d] /\ pc'[d] = pc[d]
        /\ UNCHANGED <<sentSteering, sentFollowUps>>
        /\ frame'[c].pending # <<>> => pc'[c] = "inject"
    BY <1>4 DEF Handles, OthersStay
  <2>2. Holders'
    BY <2>1, <1>a DEF Holders, At
  <2>3. ASSUME Adds, frame'[c].pending = frame[c].pending, UNCHANGED queues PROVE LinesInv'
    <3>1. /\ Told(SteeringMsgs, sentSteering, history') /\ Told(FollowUpMsgs, sentFollowUps, history')
          /\ Line(SteeringMsgs, sentSteering, history', steering)
          /\ Line(FollowUpMsgs, sentFollowUps, history', followUps)
          /\ \A d \in Calls : Line(SteeringMsgs, sentSteering, history', frame[d].pending)
      BY <2>3, <1>a, AddsKeepsLines
    <3>2. \A d \in Calls : frame'[d].pending = frame[d].pending
      BY <2>1, <2>3
    <3> QED
      BY <3>1, <3>2, <2>1, <2>2, <2>3, <1>a DEF LinesInv, queues
  <2>4. CASE Drains(c)
    <3>1. /\ Told(SteeringMsgs, sentSteering, history') /\ Told(FollowUpMsgs, sentFollowUps, history')
          /\ Line(SteeringMsgs, sentSteering, history', steering)
          /\ Line(FollowUpMsgs, sentFollowUps, history', followUps)
          /\ \A d \in Calls : Line(SteeringMsgs, sentSteering, history', frame[d].pending)
      BY <2>4, <1>a, AddsKeepsLines DEF Drains
    <3>2. \A d \in Calls : Line(SteeringMsgs, sentSteering, history', frame'[d].pending)
      BY <3>1, <2>1, <2>4 DEF Drains
    <3>3. /\ Line(SteeringMsgs, sentSteering, history', steering')
          /\ \A d \in Calls : Below(SteeringMsgs, frame'[d].pending, steering')
      BY <2>4, NobodyInLine DEF Drains
    <3> QED
      BY <3>1, <3>2, <3>3, <2>1, <2>2, <2>4 DEF LinesInv, Drains
  <2>5. CASE Relays(c)
    <3> DEFINE s == frame[c].pending
               t == SteeringTurn(Head(s))
    <3>1. s \in Seq(Messages) /\ s # <<>> /\ Head(s) \in Messages /\ t \in Turns
      BY <2>5, TurnTypes, HeadTailType DEF Relays
    <3>2. \A m : Carries(t, m) <=> m = Head(s)
      BY DEF Carries, SteeringTurn
    <3>3. PICK f \in DOMAIN SteeringMsgs : Head(s) = SteeringMsgs[f]
      <4>1. Line(SteeringMsgs, sentSteering, history, s) /\ 1 \in DOMAIN s /\ Head(s) = s[1]
        BY <3>1, <1>a
      <4> HIDE DEF s
      <4>2. \E i \in 1 .. sentSteering : s[1] = SteeringMsgs[i]
        BY <4>1 DEF Line
      <4> QED
        BY <4>1, <4>2
    <3>4. \A i \in DOMAIN FollowUpMsgs : ~Carries(t, FollowUpMsgs[i])
      BY <3>2, <3>3, StreamsApart
    <3>5. /\ history' = Append(history, t) /\ UNCHANGED queues /\ pc[c] = "inject"
          /\ frame'[c].pending = Tail(s)
      BY <2>5 DEF Relays, At
    <3> HIDE DEF s, t
    <3>6. Line(SteeringMsgs, sentSteering, history, s) /\ Below(SteeringMsgs, s, steering)
      BY <1>a DEF s
    <3>7. /\ Told(SteeringMsgs, sentSteering, history') /\ Line(SteeringMsgs, sentSteering, history', Tail(s))
          /\ Line(SteeringMsgs, sentSteering, history', steering)
      BY <3>1, <3>2, <3>5, <3>6, <1>a, FirstIsTold
    <3>8. Told(FollowUpMsgs, sentFollowUps, history') /\ Line(FollowUpMsgs, sentFollowUps, history', followUps)
      BY <3>1, <3>4, <3>5, <1>a, SaysNothing
    <3>9. Below(SteeringMsgs, Tail(s), steering)
      BY <3>1, <3>6, FirstLeaves
    <3>10. ASSUME NEW d \in Calls
           PROVE  /\ Line(SteeringMsgs, sentSteering, history', frame'[d].pending)
                  /\ Below(SteeringMsgs, frame'[d].pending, steering)
      <4>1. CASE d = c
        BY <4>1, <3>5, <3>7, <3>9
      <4>2. CASE d # c
        <5>1. frame'[d].pending = <<>>
          BY <4>2, <2>1, <3>5, <1>a DEF Holders, At, LoopInv, OneInputAtATime, InLoop, Loop
        <5> QED
          BY <5>1, NobodyInLine
      <4> QED
        BY <4>1, <4>2
    <3> QED
      BY <3>5, <3>7, <3>8, <3>10, <2>1, <2>2 DEF LinesInv, queues
  <2>6. CASE Takes(c)
    <3> DEFINE s == followUps
               t == UserTurn(Head(s))
    <3>1. s \in Seq(Messages) /\ s # <<>> /\ Head(s) \in Messages /\ t \in Turns
      BY <2>6, TurnTypes, HeadTailType DEF Takes
    <3>2. \A m : Carries(t, m) <=> m = Head(s)
      BY DEF Carries, UserTurn
    <3>3. PICK f \in DOMAIN FollowUpMsgs : Head(s) = FollowUpMsgs[f]
      BY <3>1, <1>a, TailFacts DEF Line
    <3>4. \A i \in DOMAIN SteeringMsgs : ~Carries(t, SteeringMsgs[i])
      BY <3>2, <3>3, StreamsApart
    <3>5. /\ history' = Append(history, t) /\ followUps' = Tail(s) /\ steering' = steering
          /\ frame'[c].pending = frame[c].pending
      BY <2>6 DEF Takes
    <3>6. Line(FollowUpMsgs, sentFollowUps, history, s)
      BY <1>a
    <3> HIDE DEF s, t
    <3>7. /\ Told(FollowUpMsgs, sentFollowUps, history') /\ Line(FollowUpMsgs, sentFollowUps, history', Tail(s))
      BY <3>1, <3>2, <3>5, <3>6, <1>a, FirstIsTold
    <3>8. /\ Told(SteeringMsgs, sentSteering, history') /\ Line(SteeringMsgs, sentSteering, history', steering)
          /\ \A d \in Calls : Line(SteeringMsgs, sentSteering, history', frame[d].pending)
      BY <3>1, <3>4, <3>5, <1>a, SaysNothing
    <3>9. \A d \in Calls : frame'[d].pending = frame[d].pending
      BY <3>5, <2>1
    <3> QED
      BY <3>5, <3>7, <3>8, <3>9, <2>1, <2>2, <1>a DEF LinesInv
  <2>7. CASE Loses(c)
    <3>1. Line(FollowUpMsgs, sentFollowUps, history, followUps')
      BY <2>7, <1>a, FirstLeaves DEF Loses
    <3>2. \A d \in Calls : /\ Line(SteeringMsgs, sentSteering, history, frame'[d].pending)
                           /\ Below(SteeringMsgs, frame'[d].pending, steering)
      BY <2>7, <2>1, <1>a, NobodyInLine DEF Loses
    <3> QED
      BY <3>1, <3>2, <2>1, <2>2, <2>7, <1>a DEF LinesInv, Loses
  <2>8. CASE Talks(c)
    BY <2>3, <2>8 DEF Talks
  <2> QED
    BY <1>4, <2>4, <2>5, <2>6, <2>7, <2>8 DEF Handles
<1> QED
  BY <1>1, <1>2, <1>3, <1>4, <1>a, AccountSteps

(* A message on its way stays on its way, or arrives.                      *)
LEMMA KeptIs ==
  ASSUME NEW m
  PROVE  /\ Kept(m) <=> \/ \E p \in DOMAIN history : Carries(history[p], m)
                        \/ \E k \in DOMAIN steering : steering[k] = m
                        \/ \E k \in DOMAIN followUps : followUps[k] = m
                        \/ \E c \in Calls : \E k \in DOMAIN frame[c].pending : frame[c].pending[k] = m
         /\ Kept(m)' <=> \/ \E p \in DOMAIN history' : Carries(history'[p], m)
                         \/ \E k \in DOMAIN steering' : steering'[k] = m
                         \/ \E k \in DOMAIN followUps' : followUps'[k] = m
                         \/ \E c \in Calls : \E k \in DOMAIN frame'[c].pending : frame'[c].pending[k] = m
BY DEF Kept, Positions, Waiting, Elements, Carries

LEMMA AppendKeeps ==
  ASSUME NEW T, NEW s \in Seq(T), NEW e \in T
  PROVE  /\ \A k \in DOMAIN s : k \in DOMAIN Append(s, e) /\ Append(s, e)[k] = s[k]
         /\ Len(s) + 1 \in DOMAIN Append(s, e) /\ Append(s, e)[Len(s) + 1] = e
OBVIOUS

LEMMA HeadOrTail ==
  ASSUME NEW T, NEW s \in Seq(T), NEW m, NEW k \in DOMAIN s, s[k] = m
  PROVE  m = Head(s) \/ \E l \in DOMAIN Tail(s) : Tail(s)[l] = m
<1>1. CASE k = 1
  BY <1>1
<1>2. CASE k # 1
  <2>1. k - 1 \in DOMAIN Tail(s) /\ Tail(s)[k - 1] = s[k]
    BY <1>2
  <2> QED
    BY <2>1
<1> QED
  BY <1>1, <1>2

LEMMA KeptStays ==
  ASSUME TypeInv, NEW m, Kept(m),
         Idles \/ Steer \/ FollowUp \/ \E c \in Calls : Handles(c) /\ ~Loses(c)
  PROVE  Kept(m)'
<1> USE AccountTypes
<1>1. ASSUME UNCHANGED history \/ \E t \in Turns : history' = Append(history, t),
             NEW p \in DOMAIN history, Carries(history[p], m)
      PROVE  \E q \in DOMAIN history' : Carries(history'[q], m)
  <2>1. CASE UNCHANGED history
    BY <1>1, <2>1
  <2>2. ASSUME NEW t \in Turns, history' = Append(history, t)
        PROVE  p \in DOMAIN history' /\ history'[p] = history[p]
    BY <2>2, AppendKeeps
  <2> QED
    BY <1>1, <2>1, <2>2
<1>2. CASE Idles
  BY <1>2, KeptIs DEF Idles, queues
<1>3. CASE Steer
  <2>1. PICK e : steering' = Append(steering, e) /\ UNCHANGED <<history, followUps, frame>>
    BY <1>3 DEF Steer, task
  <2>2. \A k \in DOMAIN steering : k \in DOMAIN steering' /\ steering'[k] = steering[k]
    BY <2>1
  <2> QED
    BY <2>1, <2>2, KeptIs
<1>4. CASE FollowUp
  <2>1. PICK e : followUps' = Append(followUps, e) /\ UNCHANGED <<history, steering, frame>>
    BY <1>4 DEF FollowUp, task
  <2>2. \A k \in DOMAIN followUps : k \in DOMAIN followUps' /\ followUps'[k] = followUps[k]
    BY <2>1
  <2> QED
    BY <2>1, <2>2, KeptIs
<1>5. ASSUME NEW c \in Calls, Handles(c), ~Loses(c) PROVE Kept(m)'
  <2>1. \A d \in Calls \ {c} : frame'[d] = frame[d]
    BY <1>5 DEF Handles, OthersStay
  <2>2. CASE Talks(c)
    <3>1. /\ UNCHANGED history \/ \E t \in Turns : history' = Append(history, t)
          /\ UNCHANGED <<steering, followUps>>
      BY <2>2 DEF Talks, Adds, queues
    <3>2. \A d \in Calls : frame'[d].pending = frame[d].pending
      BY <2>1, <2>2 DEF Talks
    <3> QED
      BY <1>1, <3>1, <3>2, KeptIs
  <2>3. CASE Drains(c)
    <3>1. /\ UNCHANGED history \/ \E t \in Turns : history' = Append(history, t)
          /\ UNCHANGED followUps /\ frame'[c].pending = steering /\ frame[c].pending = <<>>
      BY <2>3 DEF Drains, Adds
    <3>2. \A d \in Calls : \A k \in DOMAIN frame[d].pending : d # c
      BY <3>1
    <3> QED
      BY <1>1, <2>1, <3>1, <3>2, KeptIs
  <2>4. CASE Relays(c)
    <3> DEFINE s == frame[c].pending
               t == SteeringTurn(Head(s))
    <3>1. /\ s \in Seq(Messages) /\ s # <<>> /\ Head(s) \in Messages /\ t \in Turns
          /\ history' = Append(history, t) /\ UNCHANGED <<steering, followUps>>
          /\ frame'[c].pending = Tail(s)
      BY <2>4, TurnTypes, HeadTailType DEF Relays, queues
    <3>2. Carries(t, Head(s))
      BY DEF Carries, SteeringTurn
    <3> HIDE DEF t
    <3>3. Len(history) + 1 \in DOMAIN history' /\ history'[Len(history) + 1] = t
      BY <3>1, AppendKeeps
    <3>4. ASSUME NEW k \in DOMAIN s, s[k] = m
          PROVE  \/ \E q \in DOMAIN history' : Carries(history'[q], m)
                 \/ \E l \in DOMAIN frame'[c].pending : frame'[c].pending[l] = m
      <4> HIDE DEF s
      <4>1. m = Head(s) \/ \E l \in DOMAIN Tail(s) : Tail(s)[l] = m
        BY <3>1, <3>4, HeadOrTail
      <4> QED
        BY <4>1, <3>1, <3>2, <3>3
    <3>5. ASSUME NEW d \in Calls, NEW k \in DOMAIN frame[d].pending, frame[d].pending[k] = m
          PROVE  \/ \E q \in DOMAIN history' : Carries(history'[q], m)
                 \/ \E l \in DOMAIN frame'[d].pending : frame'[d].pending[l] = m
      <4>1. CASE d = c
        BY <4>1, <3>4, <3>5
      <4>2. CASE d # c
        BY <4>2, <2>1, <3>5
      <4> QED
        BY <4>1, <4>2
    <3> HIDE DEF s
    <3>6. UNCHANGED <<steering, followUps>> /\ history' = Append(history, t) /\ t \in Turns
      BY <3>1
    <3> QED
      BY <1>1, <3>5, <3>6, KeptIs
  <2>5. CASE Takes(c)
    <3> DEFINE s == followUps
               t == UserTurn(Head(s))
    <3>1. /\ s \in Seq(Messages) /\ s # <<>> /\ Head(s) \in Messages /\ t \in Turns
          /\ history' = Append(history, t) /\ UNCHANGED steering /\ followUps' = Tail(s)
          /\ frame'[c].pending = frame[c].pending
      BY <2>5, TurnTypes, HeadTailType DEF Takes
    <3>2. Carries(t, Head(s))
      BY DEF Carries, UserTurn
    <3> HIDE DEF t
    <3>3. Len(history) + 1 \in DOMAIN history' /\ history'[Len(history) + 1] = t
      BY <3>1, AppendKeeps
    <3>4. ASSUME NEW k \in DOMAIN s, s[k] = m
          PROVE  \/ \E q \in DOMAIN history' : Carries(history'[q], m)
                 \/ \E l \in DOMAIN followUps' : followUps'[l] = m
      <4> HIDE DEF s
      <4>1. m = Head(s) \/ \E l \in DOMAIN Tail(s) : Tail(s)[l] = m
        BY <3>1, <3>4, HeadOrTail
      <4> QED
        BY <4>1, <3>1, <3>2, <3>3
    <3>5. \A d \in Calls : frame'[d].pending = frame[d].pending
      BY <2>1, <3>1
    <3> QED
      BY <1>1, <3>1, <3>4, <3>5, KeptIs
  <2> QED
    BY <1>5, <2>2, <2>3, <2>4, <2>5 DEF Handles
<1> QED
  BY <1>2, <1>3, <1>4, <1>5

LEMMA AccountStep == TypeInv /\ LoopInv /\ AccountInv /\ [Next]_vars => AccountInv'
<1> SUFFICES ASSUME TypeInv, LoopInv, AccountInv, [Next]_vars PROVE AccountInv'
  OBVIOUS
<1>1. LinesInv /\ LinesInv'
  BY LinesStep DEF AccountInv
<1>2. ASSUME ~Raised' PROVE NoneMissing'
  <2>1. ~Raised /\ NoneMissing
    BY <1>2, RaisedStays DEF AccountInv
  <2>2. ASSUME NEW c \in Calls, Handles(c) PROVE ~Loses(c)
    BY <1>2 DEF Loses, Raised, At
  <2>3. Idles \/ Steer \/ FollowUp \/ \E c \in Calls : Handles(c) /\ ~Loses(c)
    BY <1>1, <2>2, AccountSteps DEF LinesInv
  <2>4. \A m : Kept(m) => Kept(m)'
    BY <2>3, KeptStays
  <2>5. ASSUME NEW i \in 1 .. sentSteering' PROVE Kept(SteeringMsgs[i])'
    <3>1. CASE i \in 1 .. sentSteering
      BY <3>1, <2>1, <2>4 DEF NoneMissing
    <3>2. CASE Steer /\ i = sentSteering + 1
      <4>1. /\ steering' = Append(steering, SteeringMsgs[i])
            /\ steering \in Seq(Messages)
        BY <3>2, AccountTypes DEF Steer
      <4>2. Len(steering) + 1 \in DOMAIN steering' /\ steering'[Len(steering) + 1] = SteeringMsgs[i]
        BY <4>1
      <4> QED
        BY <4>2, KeptIs
    <3>3. sentSteering' = sentSteering \/ (Steer /\ sentSteering' = sentSteering + 1)
      BY <2>3 DEF Idles, Steer, FollowUp, Handles
    <3> QED
      BY <3>1, <3>2, <3>3, AccountTypes
  <2>6. ASSUME NEW i \in 1 .. sentFollowUps' PROVE Kept(FollowUpMsgs[i])'
    <3>1. CASE i \in 1 .. sentFollowUps
      BY <3>1, <2>1, <2>4 DEF NoneMissing
    <3>2. CASE FollowUp /\ i = sentFollowUps + 1
      <4>1. /\ followUps' = Append(followUps, FollowUpMsgs[i])
            /\ followUps \in Seq(Messages)
        BY <3>2, AccountTypes DEF FollowUp
      <4>2. Len(followUps) + 1 \in DOMAIN followUps' /\ followUps'[Len(followUps) + 1] = FollowUpMsgs[i]
        BY <4>1
      <4> QED
        BY <4>2, KeptIs
    <3>3. sentFollowUps' = sentFollowUps \/ (FollowUp /\ sentFollowUps' = sentFollowUps + 1)
      BY <2>3 DEF Idles, Steer, FollowUp, Handles
    <3> QED
      BY <3>1, <3>2, <3>3, AccountTypes
  <2> QED
    BY <2>5, <2>6 DEF NoneMissing
<1> QED
  BY <1>1, <1>2 DEF AccountInv

LEMMA AccountAlways == Spec => []AccountInv
BY TypeAlways, LoopAlways, AccountInit, AccountStep, PTL DEF Spec

LEMMA ToldIsAccounted ==
  ASSUME NEW msgs, Distinct(msgs), NEW n \in Nat, 1 .. n \subseteq DOMAIN msgs,
         DOMAIN history \subseteq Nat, Told(msgs, n, history),
         Raised \/ \A i \in 1 .. n : Kept(msgs[i])
  PROVE  Accounted(msgs, n)
<1>1. \A i \in DOMAIN msgs : \A p \in DOMAIN history :
        p \in Positions(msgs[i]) <=> Carries(history[p], msgs[i])
  BY DEF Positions, Carries
<1>2. \A m : Positions(m) \subseteq DOMAIN history
  BY DEF Positions
<1> SUFFICES ASSUME NEW i \in 1 .. n
             PROVE  /\ Cardinality(Positions(msgs[i])) <= 1
                    /\ Positions(msgs[i]) # {} \/ msgs[i] \in Waiting \/ Raised
                    /\ \A j \in 1 .. i - 1 :
                         \A p \in Positions(msgs[j]), q \in Positions(msgs[i]) : p < q
  BY DEF Accounted
<1>3. Cardinality(Positions(msgs[i])) <= 1
  <2>1. ASSUME NEW p \in Positions(msgs[i]), NEW q \in Positions(msgs[i]) PROVE p = q
    <3>1. i \in DOMAIN msgs /\ p \in Nat /\ q \in Nat /\ ~(i < i)
      BY <1>2
    <3>2. ~(p < q) /\ ~(q < p)
      BY <1>1, <1>2, <3>1 DEF Told
    <3> QED
      BY <3>1, <3>2
  <2>2. CASE Positions(msgs[i]) = {}
    BY <2>2, FS_EmptySet
  <2>3. ASSUME NEW p \in Positions(msgs[i]) PROVE Cardinality(Positions(msgs[i])) <= 1
    <3>1. \E q : Positions(msgs[i]) = {q}
      BY <2>1, <2>3
    <3>2. Cardinality(Positions(msgs[i])) = 1
      BY <3>1, FS_Singleton
    <3> QED
      BY <3>2
  <2> QED
    BY <2>2, <2>3
<1>4. Positions(msgs[i]) # {} \/ msgs[i] \in Waiting \/ Raised
  BY DEF Kept
<1>5. ASSUME NEW j \in 1 .. i - 1, NEW p \in Positions(msgs[j]), NEW q \in Positions(msgs[i])
      PROVE  p < q
  <2>1. i \in DOMAIN msgs /\ j \in DOMAIN msgs /\ j < i /\ p \in Nat /\ q \in Nat
    BY <1>2
  <2>2. Carries(history[p], msgs[j]) /\ Carries(history[q], msgs[i])
    BY <1>1, <1>2, <2>1
  <2>3. p # q
    BY <2>1, <2>2 DEF Carries, Distinct
  <2>4. ~(q < p)
    BY <1>2, <2>1, <2>2 DEF Told
  <2> QED
    BY <2>1, <2>3, <2>4
<1> QED
  BY <1>3, <1>4, <1>5

(* However tasks, follow-ups, cancellations and errors are interleaved, each *)
(* steering message and each follow-up enters the history at most once and  *)
(* in the order in which it was sent, and one that is neither there nor on  *)
(* its way was lost by a task that raised: both queues are handed over      *)
(* without a gap between drain() and the turns recorded for it.             *)
THEOREM MessagesAccountedHolds == Spec => []MessagesAccounted
<1>1. TypeInv /\ AccountInv => MessagesAccounted
  <2> SUFFICES ASSUME TypeInv, AccountInv PROVE MessagesAccounted
    OBVIOUS
  <2>1. DOMAIN history \subseteq Nat
    BY AccountTypes
  <2>2. Accounted(SteeringMsgs, sentSteering)
    BY <2>1, AccountTypes, Streams, ToldIsAccounted DEF AccountInv, LinesInv, NoneMissing
  <2>3. Accounted(FollowUpMsgs, sentFollowUps)
    BY <2>1, AccountTypes, Streams, ToldIsAccounted DEF AccountInv, LinesInv, NoneMissing
  <2> QED
    BY <2>2, <2>3 DEF MessagesAccounted
<1> QED
  BY <1>1, TypeAlways, AccountAlways, PTL

-----------------------------------------------------------------------------
(* One conversation *)

(* How the line of a drained queue and what came in since reads.           *)
LEMMA LineJoins ==
  ASSUME NEW S, NEW p \in Seq(S), NEW s \in Seq(S)
  PROVE  /\ p # <<>> => /\ p \o s # <<>> /\ Head(p \o s) = Head(p) /\ Tail(p \o s) = Tail(p) \o s
         /\ \E n \in 0 .. Len(p \o s) : s = SubSeq(p \o s, n + 1, Len(p \o s))
         /\ \A m \in S : p \o Append(s, m) = Append(p \o s, m)
<1> DEFINE j == p \o s
<1>1. /\ j \in Seq(S) /\ Len(j) = Len(p) + Len(s) /\ Len(p) \in Nat /\ Len(s) \in Nat
      /\ \A i \in 1 .. Len(p) + Len(s) : j[i] = IF i <= Len(p) THEN p[i] ELSE s[i - Len(p)]
  BY ConcatProperties, LenProperties
<1> HIDE DEF j
<1>2. ASSUME p # <<>>
      PROVE  j # <<>> /\ Head(j) = Head(p) /\ Tail(j) = Tail(p) \o s
  <2>1. Len(p) > 0 /\ j # <<>>
    BY <1>1, <1>2, EmptySeq
  <2>2. Head(j) = Head(p)
    BY <1>1, <2>1
  <2>3. Tail(p) \in Seq(S) /\ Len(Tail(p)) = Len(p) - 1
        /\ \A i \in 1 .. Len(p) - 1 : Tail(p)[i] = p[i + 1]
    BY <1>2, HeadTailProperties
  <2>4. Tail(j) \in Seq(S) /\ Len(Tail(j)) = Len(j) - 1
        /\ \A i \in 1 .. Len(j) - 1 : Tail(j)[i] = j[i + 1]
    BY <1>1, <2>1, HeadTailProperties
  <2>5. /\ Tail(p) \o s \in Seq(S) /\ Len(Tail(p) \o s) = Len(p) - 1 + Len(s)
        /\ \A i \in 1 .. Len(p) - 1 + Len(s) :
             (Tail(p) \o s)[i] = IF i <= Len(p) - 1 THEN Tail(p)[i] ELSE s[i - (Len(p) - 1)]
    BY <2>3, ConcatProperties
  <2>6. \A i \in 1 .. Len(p) - 1 + Len(s) : Tail(j)[i] = (Tail(p) \o s)[i]
    BY <1>1, <2>1, <2>3, <2>4, <2>5
  <2>7. Tail(j) = Tail(p) \o s
    BY <1>1, <2>4, <2>5, <2>6, SeqEqual
  <2> QED
    BY <2>1, <2>2, <2>7
<1>3. s = SubSeq(j, Len(p) + 1, Len(j))
  <2>1. \A i \in Len(p) + 1 .. Len(j) : j[i] \in S
    BY <1>1, ElementOfSeq
  <2>2. /\ SubSeq(j, Len(p) + 1, Len(j)) \in Seq(S) /\ Len(SubSeq(j, Len(p) + 1, Len(j))) = Len(s)
        /\ \A i \in 1 .. Len(s) : SubSeq(j, Len(p) + 1, Len(j))[i] = j[Len(p) + i]
    BY <1>1, <2>1, SubSeqProperties
  <2> QED
    BY <1>1, <2>2, SeqEqual
<1>4. ASSUME NEW m \in S PROVE p \o Append(s, m) = Append(j, m)
  <2>1. p \o Append(s, m) \in Seq(S) /\ Append(j, m) \in Seq(S)
    BY <1>1, AppendProperties, ConcatProperties
  <2>2. Append(s, m) = s \o <<m>> /\ Append(j, m) = j \o <<m>> /\ <<m>> \in Seq(S)
    BY <1>1, AppendIsConcat
  <2> QED
    BY <2>2, ConcatAssociative DEF j
<1>5. Len(p) \in 0 .. Len(j)
  BY <1>1
<1> QED
  BY <1>2, <1>3, <1>4, <1>5, Zenon DEF j

(* Who speaks, and what is drained, tell each other.                       *)
Speaks ==
  /\ \A c \in Calls : InLoop(c) => Speaking = {c} /\ Drained = frame[c].pending
  /\ (\A c \in Calls : ~InLoop(c)) => Speaking = {} /\ Drained = <<>>

LEMMA SpeakerIs ==
  ASSUME OneInputAtATime PROVE Speaks
<1>1. ASSUME NEW c \in Calls, InLoop(c) PROVE Speaking = {c} /\ Drained = frame[c].pending
  <2>1. \A d \in Calls : InLoop(d) => d = c
    BY <1>1 DEF OneInputAtATime
  <2>2. Speaking = {c}
    BY <1>1, <2>1 DEF Speaking
  <2>3. (CHOOSE d \in Calls : InLoop(d)) = c
    BY <1>1, <2>1
  <2> QED
    BY <2>2, <2>3 DEF Drained
<1>2. ASSUME \A c \in Calls : ~InLoop(c) PROVE Speaking = {} /\ Drained = <<>>
  BY <1>2 DEF Speaking, Drained
<1> QED
  BY <1>1, <1>2 DEF Speaks

LEMMA SpeakerWillBe ==
  ASSUME OneInputAtATime' PROVE Speaks'
<1>1. ASSUME NEW c \in Calls, InLoop(c)' PROVE (Speaking = {c} /\ Drained = frame[c].pending)'
  <2>1. \A d \in Calls : InLoop(d)' => d = c
    BY <1>1 DEF OneInputAtATime
  <2>2. Speaking' = {c}
    BY <1>1, <2>1 DEF Speaking
  <2>3. (CHOOSE d \in Calls : InLoop(d)') = c
    BY <1>1, <2>1
  <2> QED
    BY <2>2, <2>3 DEF Drained
<1>2. ASSUME \A c \in Calls : ~InLoop(c)' PROVE (Speaking = {} /\ Drained = <<>>)'
  BY <1>2 DEF Speaking, Drained
<1> QED
  BY <1>1, <1>2 DEF Speaks

(* What a step is to the conversation: a task outside the loop passes by,   *)
(* starts an input, goes on with it, relays what it drained, finishes it or *)
(* gives it up.                                                            *)
Remark == {t \in Turns : t.kind \notin {"user", "steering"}}
Passes(c) ==
  /\ ~InLoop(c) /\ ~InLoop(c)' /\ UNCHANGED <<state, history, steering>>
  /\ UNCHANGED followUps \/ (state # "idle" /\ followUps # <<>> /\ followUps' = Tail(followUps))
Starts(c) ==
  /\ ~InLoop(c) /\ InLoop(c)' /\ frame'[c].pending = <<>>
  /\ state' = "processing" /\ UNCHANGED steering
  /\ \/ /\ state \in {"idle", "awaiting_input"} /\ UNCHANGED followUps
        /\ history' = Append(history, UserTurn(c))
     \/ /\ state = "idle" /\ followUps # <<>> /\ followUps' = Tail(followUps)
        /\ history' = Append(history, UserTurn(Head(followUps)))
GoesOnTalking(c) ==
  /\ InLoop(c) /\ InLoop(c)' /\ UNCHANGED <<state, followUps>>
  /\ UNCHANGED history \/ \E t \in Remark : history' = Append(history, t)
  /\ \/ UNCHANGED steering /\ frame'[c].pending = frame[c].pending
     \/ steering' = <<>> /\ frame[c].pending = <<>> /\ frame'[c].pending = steering
RelaysOne(c) == Relays(c) /\ InLoop(c)' /\ UNCHANGED state
Finishes(c) ==
  /\ InLoop(c) /\ ~InLoop(c)' /\ frame[c].pending = <<>>
  /\ state = "processing" /\ state' \in {"idle", "awaiting_input", "closed"}
  /\ UNCHANGED <<history, queues>>
GivesUp(c) == InLoop(c) /\ ~InLoop(c)' /\ UNCHANGED <<state, history, queues>>
Converses(c) ==
  /\ OthersStay(c)
  /\ Passes(c) \/ Starts(c) \/ GoesOnTalking(c) \/ RelaysOne(c) \/ Finishes(c) \/ GivesUp(c)

(* What the host's steps are to it.                                        *)
Sends ==
  \/ \E m \in Messages : \/ steering' = Append(steering, m) /\ UNCHANGED <<state, followUps>>
                         \/ followUps' = Append(followUps, m) /\ UNCHANGED <<state, steering>>
  \/ state' \in {state, "closed"} /\ UNCHANGED queues
Hosts == UNCHANGED <<pc, frame, history>> /\ Sends

LEMMA RemarkTurns ==
  /\ \A n \in AnswerSizes : AssistantTurn(n) \in Remark /\ ToolResultsTurn(n) \in Remark
  /\ LoopWarning \in Remark
BY TurnTypes DEF Remark, AssistantTurn, ToolResultsTurn, LoopWarning

LEMMA ConversationMoves ==
  ASSUME TypeInv, LoopInv, Holders, [Next]_vars
  PROVE  Hosts \/ \E c \in Calls : Converses(c)
<1> USE DEF Within, host, queues, task, At, Goto
<1>a. pc \in [Calls -> Points] /\ frame \in [Calls -> Frames]
  BY TypeParts DEF TaskOK
<1>b. \A c \in Calls : frame[c].calls \in AnswerSizes \/ pc[c] # "tools"
  BY TypeParts DEF TaskOK
<1>d. \A c \in Calls : pc[c] # "inject" => frame[c].pending = <<>>
  BY DEF Holders
<1>e. NewFrame.pending = <<>>
  BY DEF NewFrame
<1>1. ASSUME NEW c \in Calls, Unwind(c), ~InLoop(c), UNCHANGED state,
             UNCHANGED followUps \/ (state # "idle" /\ followUps # <<>> /\ followUps' = Tail(followUps))
      PROVE  Converses(c)
  <2>1. pc'[c] = "raised" /\ OthersStay(c)
    BY <1>1, <1>a DEF Unwind, DropFrame, OthersStay
  <2> QED
    BY <1>1, <2>1 DEF Unwind, Converses, Passes, InLoop, Loop
<1>2. ASSUME NEW c \in Calls, Raise(c) PROVE Converses(c)
  <2>1. pc'[c] = "raised" /\ OthersStay(c) /\ UNCHANGED <<state, history, queues>>
    BY <1>2, <1>a DEF Raise, Unwind, DropFrame, OthersStay
  <2>2. ~InLoop(c)'
    BY <2>1 DEF InLoop, Loop
  <2> QED
    BY <2>1, <2>2 DEF Converses, Passes, GivesUp
<1>3. ASSUME NEW c \in Calls, ~InLoop(c), NEW p, p \notin Loop, pc' = [pc EXCEPT ![c] = p],
             UNCHANGED frame \/ DropFrame(c), UNCHANGED <<state, history, queues>>
      PROVE  Converses(c)
  <2>1. ~InLoop(c)' /\ OthersStay(c)
    BY <1>3, <1>a DEF DropFrame, OthersStay, InLoop
  <2> QED
    BY <1>3, <2>1 DEF Converses, Passes
<1>4. ASSUME NEW c \in Calls, InLoop(c), pc[c] # "inject", NEW p, p \notin Loop,
             pc' = [pc EXCEPT ![c] = p], DropFrame(c),
             state = "processing", state' \in {"idle", "awaiting_input", "closed"},
             UNCHANGED <<history, queues>>
      PROVE  Converses(c)
  <2>1. ~InLoop(c)' /\ OthersStay(c)
    BY <1>4, <1>a DEF DropFrame, OthersStay, InLoop
  <2> QED
    BY <1>4, <1>d, <2>1 DEF Converses, Finishes
<1>5. ASSUME NEW c \in Calls, CompleteInput(c) \/ StopEarly(c) \/ TooLate(c), pc[c] # "inject",
             InLoop(c)
      PROVE  Converses(c)
  <2>0. "drain" \notin Loop /\ "ending" \notin Loop
    BY DEF Loop
  <2>1. CASE CompleteInput(c)
    BY <1>5, <2>0, <2>1, <1>4 DEF CompleteInput, EnterFollowUps, MayComplete
  <2>2. CASE StopEarly(c)
    BY <1>5, <2>0, <2>2, <1>4 DEF StopEarly, MayComplete
  <2>3. CASE TooLate(c)
    BY <2>3, <1>2 DEF TooLate
  <2> QED
    BY <1>5, <2>1, <2>2, <2>3
<1>6. ASSUME NEW c \in Calls, NEW f \in Frames, DrainSteering(c, f), pc[c] # "inject", InLoop(c),
             UNCHANGED history \/ \E t \in Remark : history' = Append(history, t),
             UNCHANGED <<state, followUps>>
      PROVE  Converses(c)
  <2>1. frame'[c].pending = steering /\ steering' = <<>> /\ pc'[c] = "inject" /\ OthersStay(c)
    BY <1>6, <1>a DEF DrainSteering, OthersStay, Frames
  <2>2. InLoop(c)'
    BY <2>1 DEF InLoop, Loop
  <2> QED
    BY <1>6, <1>d, <2>1, <2>2 DEF Converses, GoesOnTalking
<1>7. ASSUME NEW c \in Calls, InLoop(c), NEW p \in Loop, pc' = [pc EXCEPT ![c] = p],
             UNCHANGED frame, UNCHANGED <<state, queues>>,
             UNCHANGED history \/ \E t \in Remark : history' = Append(history, t)
      PROVE  Converses(c)
  <2>1. InLoop(c)' /\ OthersStay(c)
    BY <1>7, <1>a DEF OthersStay, InLoop
  <2> QED
    BY <1>7, <2>1 DEF Converses, GoesOnTalking
<1>8. ASSUME NEW c \in Calls, NEW m, Submit(c, m), ~InLoop(c)
      PROVE  /\ OthersStay(c) /\ InLoop(c)' /\ frame'[c] = frame[c] /\ frame[c].pending = <<>>
             /\ state = "idle" /\ state' = "processing" /\ history' = Append(history, UserTurn(m))
  BY <1>8, <1>a, <1>d DEF Submit, MaySubmit, OthersStay, InLoop, Loop
<1>9. ASSUME NEW c \in Calls, Call(c) \/ Accepted(c) \/ Refused(c) \/ ResumeWithInput(c)
      PROVE  Converses(c)
  <2>0. ~InLoop(c)
    BY <1>9 DEF Call, Accepted, Refused, ResumeWithInput, InLoop, Loop
  <2>1. CASE Call(c)
    BY <2>0, <2>1, <1>3 DEF Call, Loop
  <2>2. CASE Accepted(c)
    BY <2>0, <2>2, <1>8 DEF Accepted, Converses, Starts
  <2>3. CASE Refused(c)
    BY <2>3, <1>2 DEF Refused
  <2>4. CASE ResumeWithInput(c)
    <3>1. OthersStay(c) /\ InLoop(c)' /\ frame'[c].pending = <<>>
      BY <2>0, <2>4, <1>a, <1>d DEF ResumeWithInput, OthersStay, InLoop, Loop
    <3> QED
      BY <2>0, <2>4, <3>1 DEF ResumeWithInput, Converses, Starts
  <2> QED
    BY <1>9, <2>1, <2>2, <2>3, <2>4
<1>10. ASSUME NEW c \in Calls, ToolsDone(c) \/ ToolsCancelled(c)
      PROVE  Converses(c)
  <2>1. /\ pc[c] = "tools" /\ RecordResults(c, Append(history, ToolResultsTurn(frame[c].calls)))
    BY <1>10 DEF ToolsDone, ToolsCancelled, CancelledResults
  <2>2. \E t \in Remark : history' = Append(history, t)
    BY <2>1, <1>b, RemarkTurns DEF RecordResults
  <2>3. frame[c] \in Frames /\ frame[c].pending \in Seq(Messages) /\ 0 \in Nat /\ TRUE \in BOOLEAN
    BY <1>a DEF Frames
  <2>4. [frame[c] EXCEPT !.rounds = @ + 1, !.calls = 0] \in Frames
    BY <2>3, FrameFields, Zenon
  <2>5. InLoop(c)
    BY <2>1 DEF InLoop, Loop
  <2> QED
    BY <2>1, <2>2, <2>4, <2>5, <1>6 DEF RecordResults
<1>11. ASSUME NEW c \in Calls, LoopStep(c)
      PROVE  Converses(c)
  <2>0. InLoop(c)
    BY <1>11 DEF LoopStep, Open, Inject, Injected, ReachLimit, Request, ToolRound, Answer, ToolsDone,
                 CancelAtTop, CancelAfterProvider, ContextLengthExceeded, NaturalCompletion,
                 SpokeTooLate, Limited, RetryableError, FatalError, Question, InLoop, Loop
  <2>1. CASE Open(c)
    BY <2>0, <2>1, <1>a, <1>6 DEF Open
  <2>2. CASE Inject(c)
    <3>1. frame'[c].pending = Tail(frame[c].pending) /\ OthersStay(c) /\ InLoop(c)'
      BY <2>0, <2>2, <1>a DEF Inject, OthersStay, Frames, InLoop
    <3> QED
      BY <2>2, <3>1 DEF Inject, Converses, RelaysOne, Relays
  <2>3. CASE Injected(c)
    <3>1. UNCHANGED history \/ \E t \in Remark : history' = Append(history, t)
      BY <2>3, RemarkTurns DEF Injected
    <3> QED
      BY <2>0, <2>3, <3>1, <1>7 DEF Injected, Loop
  <2>4. CASE ReachLimit(c) \/ Request(c) \/ ToolRound(c)
    BY <2>0, <2>4, <1>7 DEF ReachLimit, Request, ToolRound, Loop
  <2>5. CASE Answer(c)
    <3>1. PICK n \in AnswerSizes, q \in BOOLEAN :
            /\ history' = Append(history, AssistantTurn(n))
            /\ frame' = [frame EXCEPT ![c].calls = n, ![c].asks = q]
      BY <2>5 DEF Answer
    <3>2. frame'[c].pending = frame[c].pending /\ OthersStay(c) /\ InLoop(c)'
      BY <2>5, <3>1, <1>a DEF Answer, OthersStay, Frames, InLoop, Loop
    <3>3. \E t \in Remark : history' = Append(history, t)
      BY <3>1, RemarkTurns
    <3> QED
      BY <2>0, <2>5, <3>2, <3>3 DEF Answer, Converses, GoesOnTalking
  <2>6. CASE CancelAtTop(c) \/ CancelAfterProvider(c) \/ ContextLengthExceeded(c)
             \/ NaturalCompletion(c) \/ SpokeTooLate(c) \/ Limited(c)
    BY <2>0, <2>6, <1>5 DEF CancelAtTop, CancelAfterProvider, ContextLengthExceeded,
                      NaturalCompletion, SpokeTooLate, Limited
  <2>7. CASE RetryableError(c)
    BY <2>7, <1>2 DEF RetryableError
  <2>8. CASE FatalError(c)
    BY <2>0, <2>8, <1>4 DEF FatalError, Unwind, Loop
  <2>9. CASE Question(c)
    <3>1. PICK p \in {"returned", "drain"} : pc' = [pc EXCEPT ![c] = p]
      BY <2>9 DEF Question
    <3> QED
      BY <2>0, <2>9, <3>1, <1>4 DEF Question, Loop
  <2>10. CASE ToolsDone(c)
    BY <2>10, <1>10
  <2> QED
    BY <1>11, <2>1, <2>2, <2>3, <2>4, <2>5, <2>6, <2>7, <2>8, <2>9, <2>10 DEF LoopStep
<1>12. ASSUME NEW c \in Calls, FollowUpStep(c)
      PROVE  Converses(c)
  <2>0. ~InLoop(c)
    BY <1>12 DEF FollowUpStep, Ending, NextFollowUp, FollowUpRefused, FollowUpsDrained, InLoop, Loop
  <2>1. CASE Ending(c)
    BY <2>0, <2>1, <1>3 DEF Ending, EnterFollowUps, Loop
  <2>2. CASE NextFollowUp(c)
    BY <2>0, <2>2, <1>8 DEF NextFollowUp, InOrder, Converses, Starts
  <2>3. CASE FollowUpRefused(c)
    BY <2>0, <2>3, <1>1 DEF FollowUpRefused, MaySubmit
  <2>4. CASE FollowUpsDrained(c)
    BY <2>0, <2>4, <1>3 DEF FollowUpsDrained, LeaveLoop, Loop
  <2> QED
    BY <1>12, <2>1, <2>2, <2>3, <2>4 DEF FollowUpStep
<1>13. ASSUME NEW c \in Calls, TaskCancelled(c)
      PROVE  Converses(c)
  BY <1>13, <1>2 DEF TaskCancelled
<1>14. CASE Cancel \/ Shutdown \/ UNCHANGED vars
  BY <1>14 DEF Cancel, Shutdown, vars, Hosts, Sends
<1>15. CASE Steer \/ FollowUp
  <2>1. /\ sentSteering < config.steers => SteeringMsgs[sentSteering + 1] \in Messages
        /\ sentFollowUps < config.follows => FollowUpMsgs[sentFollowUps + 1] \in Messages
    BY HostMessages
  <2> QED
    BY <1>15, <2>1 DEF Steer, FollowUp, Hosts, Sends
<1> QED
  BY <1>9, <1>10, <1>11, <1>12, <1>13, <1>14, <1>15 DEF Next, HostStep, TaskStep, Enter

LEMMA ConversationStarts == Init => Conversation!ConversationInit
<1> SUFFICES ASSUME Init PROVE Conversation!ConversationInit
  OBVIOUS
<1>1. /\ state = "idle" /\ history = <<>> /\ steering = <<>> /\ followUps = <<>>
      /\ \A c \in Calls : ~InLoop(c)
  BY DEF Init, InLoop, Loop
<1>2. Speaking = {} /\ Drained = <<>>
  BY <1>1 DEF Speaking, Drained
<1>3. <<>> \o <<>> = <<>>
  BY ConcatEmptySeq, EmptySeq
<1> QED
  BY <1>1, <1>2, <1>3 DEF Conversation!ConversationInit

(* Every step of the session and its host is a step of the conversation or  *)
(* none.                                                                   *)
LEMMA ConversationStep ==
  ASSUME TypeInv, LoopInv, Holders, LoopInv', [Next]_vars
  PROVE  [Conversation!ConversationNext]_(Conversation!conversation)
<1> DEFINE line == Drained \o steering
           said == {t \in Turns : t.kind \notin {"user", "steering"}}
           Goal == [Conversation!ConversationNext]_(Conversation!conversation)
<1>1. Speaks /\ Speaks'
  BY SpeakerIs, SpeakerWillBe DEF LoopInv
<1>2. /\ steering \in Seq(Messages) /\ <<>> \in Seq(Messages)
      /\ \A c \in Calls : frame[c].pending \in Seq(Messages)
      /\ steering \o <<>> = steering /\ <<>> \o steering = steering
  BY AccountTypes, EmptySeq, ConcatEmptySeq
<1>3. Drained \in Seq(Messages)
  BY <1>1, <1>2 DEF Speaks
<1>4. ASSUME Hosts PROVE Goal
  <2>1. UNCHANGED <<Speaking, Drained, history>>
    BY <1>4 DEF Hosts, Speaking, Drained, InLoop
  <2>2. CASE \E m \in Messages : steering' = Append(steering, m) /\ UNCHANGED <<state, followUps>>
    <3>1. PICK m \in Messages : steering' = Append(steering, m) /\ UNCHANGED <<state, followUps>>
      BY <2>2
    <3>2. line' = Append(line, m)
      BY <1>2, <1>3, <2>1, <3>1, LineJoins
    <3>3. Conversation!Remind(m)
      BY <2>1, <3>1, <3>2 DEF Conversation!Remind
    <3> QED
      BY <3>3 DEF Conversation!ConversationNext
  <2>3. CASE \E m \in Messages : followUps' = Append(followUps, m) /\ UNCHANGED <<state, steering>>
    <3>1. PICK m \in Messages : followUps' = Append(followUps, m) /\ UNCHANGED <<state, steering>>
      BY <2>3
    <3>2. Conversation!Ask(m)
      BY <2>1, <3>1 DEF Conversation!Ask
    <3> QED
      BY <3>2 DEF Conversation!ConversationNext
  <2>4. CASE state' \in {state, "closed"} /\ UNCHANGED queues
    <3>1. Conversation!Close \/ UNCHANGED Conversation!conversation
      BY <2>1, <2>4 DEF queues, Conversation!Close, Conversation!conversation
    <3> QED
      BY <3>1 DEF Conversation!ConversationNext
  <2> QED
    BY <1>4, <2>2, <2>3, <2>4 DEF Hosts, Sends
<1>5. ASSUME NEW c \in Calls, Converses(c) PROVE Goal
  <2>1. \A d \in Calls : d # c => (InLoop(d)' <=> InLoop(d)) /\ frame'[d] = frame[d]
    BY <1>5 DEF Converses, OthersStay, InLoop
  <2>2. InLoop(c) => Speaking = {c} /\ Drained = frame[c].pending
    BY <1>1 DEF Speaks
  <2>3. InLoop(c)' => Speaking' = {c} /\ Drained' = frame'[c].pending
    BY <1>1 DEF Speaks
  <2>4. InLoop(c) /\ ~InLoop(c)' => Speaking' = {} /\ Drained' = <<>>
    <3>1. InLoop(c) => \A d \in Calls : d # c => ~InLoop(d)
      BY DEF LoopInv, OneInputAtATime
    <3> QED
      BY <1>1, <2>1, <3>1 DEF Speaks
  <2>5. CASE Passes(c)
    <3>1. UNCHANGED <<Speaking, Drained>>
      <4>1. CASE \E d \in Calls : InLoop(d)
        <5>1. PICK d \in Calls : InLoop(d)
          BY <4>1
        <5>2. d # c /\ InLoop(d)' /\ frame'[d] = frame[d]
          BY <2>1, <2>5, <5>1 DEF Passes
        <5>3. Speaking = {d} /\ Drained = frame[d].pending
          BY <1>1, <5>1 DEF Speaks
        <5>4. Speaking' = {d} /\ Drained' = frame'[d].pending
          BY <1>1, <5>2 DEF Speaks
        <5> QED
          BY <5>2, <5>3, <5>4
      <4>2. CASE \A d \in Calls : ~InLoop(d)
        BY <1>1, <2>1, <2>5, <4>2 DEF Speaks, Passes
      <4> QED
        BY <4>1, <4>2
    <3>2. Conversation!Refuse \/ UNCHANGED Conversation!conversation
      BY <2>5, <3>1 DEF Passes, Conversation!Refuse, Conversation!conversation
    <3> QED
      BY <3>2 DEF Conversation!ConversationNext
  <2>6. CASE Starts(c)
    <3>1. \A d \in Calls : ~InLoop(d)
      BY <2>6 DEF Starts, LoopInv
    <3>2. Speaking = {} /\ Drained = <<>> /\ Speaking' = {c} /\ Drained' = <<>>
      BY <1>1, <2>3, <2>6, <3>1 DEF Speaks, Starts
    <3>3. UNCHANGED line
      BY <2>6, <3>2 DEF Starts
    <3>4. Conversation!Prompt(c) \/ Conversation!TakeInput(c)
      BY <2>6, <3>2, <3>3
         DEF Starts, Conversation!Prompt, Conversation!TakeInput, Conversation!Start,
             Conversation!Asked, UserTurn
    <3> QED
      BY <3>4 DEF Conversation!ConversationNext
  <2>7. CASE GoesOnTalking(c)
    <3>1. Speaking = {c} /\ Speaking' = {c}
      BY <2>2, <2>3, <2>7 DEF GoesOnTalking
    <3>2. UNCHANGED line
      BY <1>2, <2>2, <2>3, <2>7 DEF GoesOnTalking
    <3>3. \/ UNCHANGED Conversation!conversation
          \/ \E t \in said : Conversation!Say(c, t)
      BY <2>7, <3>1, <3>2 DEF GoesOnTalking, Remark, Conversation!conversation, Conversation!Say
    <3> QED
      BY <3>3 DEF Conversation!ConversationNext
  <2>8. CASE RelaysOne(c)
    <3>1. InLoop(c) /\ InLoop(c)' /\ frame[c].pending # <<>>
      BY <2>8 DEF RelaysOne, Relays, InLoop, Loop, At
    <3>2. /\ line # <<>> /\ line' = Tail(line)
          /\ history' = Append(history, SteeringTurn(Head(line)))
      <4>1. /\ line = frame[c].pending \o steering /\ line' = Tail(frame[c].pending) \o steering
            /\ history' = Append(history, SteeringTurn(Head(frame[c].pending)))
        BY <2>2, <2>3, <2>8, <3>1 DEF RelaysOne, Relays, queues
      <4>2. /\ frame[c].pending \o steering # <<>>
            /\ Head(frame[c].pending \o steering) = Head(frame[c].pending)
            /\ Tail(frame[c].pending \o steering) = Tail(frame[c].pending) \o steering
        <5>1. frame[c].pending \in Seq(Messages) /\ steering \in Seq(Messages)
          BY <1>2
        <5> QED
          BY ONLY <3>1, <5>1, LineJoins, Zenon
      <4> HIDE DEF line
      <4>3. line # <<>> /\ line' = Tail(line)
        BY <4>1, <4>2, Zenon
      <4>4. Head(frame[c].pending) = Head(line)
        BY <4>1, <4>2, Zenon
      <4>5. history' = Append(history, SteeringTurn(Head(line)))
        BY <4>1, <4>4, Zenon
      <4> QED
        BY <4>3, <4>5
    <3>3. Conversation!TakeAside(c)
      BY <2>2, <2>3, <2>8, <3>1, <3>2
         DEF RelaysOne, Relays, queues, Conversation!TakeAside, Conversation!Steered, SteeringTurn
    <3> QED
      BY <3>3 DEF Conversation!ConversationNext
  <2>9. CASE Finishes(c)
    <3>1. Speaking = {c} /\ Speaking' = {} /\ Drained = <<>> /\ Drained' = <<>>
      BY <2>2, <2>4, <2>9 DEF Finishes
    <3>2. Conversation!Finish(c)
      BY <2>9, <3>1 DEF Finishes, queues, Conversation!Finish
    <3> QED
      BY <3>2 DEF Conversation!ConversationNext
  <2>10. CASE GivesUp(c)
    <3>1. Speaking = {c} /\ Speaking' = {} /\ Drained' = <<>>
      BY <2>2, <2>4, <2>10 DEF GivesUp
    <3>2. line' = steering
      BY <1>2, <2>10, <3>1 DEF GivesUp, queues
    <3>3. \E n \in 0 .. Len(line) : line' = SubSeq(line, n + 1, Len(line))
      <4>1. \E n \in 0 .. Len(Drained \o steering) :
              steering = SubSeq(Drained \o steering, n + 1, Len(Drained \o steering))
        BY <1>2, <1>3, LineJoins
      <4> HIDE DEF line
      <4> QED
        BY <3>2, <4>1 DEF line
    <3>4. Conversation!GiveUp(c)
      BY <2>10, <3>1, <3>3 DEF GivesUp, queues, Conversation!GiveUp
    <3> QED
      BY <3>4 DEF Conversation!ConversationNext
  <2> QED
    BY <1>5, <2>5, <2>6, <2>7, <2>8, <2>9, <2>10 DEF Converses
<1> QED
  BY <1>4, <1>5, ConversationMoves

(* However tasks, follow-ups, steering, tools, cancellation and shutdown     *)
(* interleave in AgentSession, its host sees one conversation, in which one *)
(* task speaks at a time and both queues are served from the front: the     *)
(* session implements OneConversation.                                     *)
THEOREM ConversationHolds == Spec => ConversationKept
<1>1. AccountInv => Holders
  BY DEF AccountInv, LinesInv
<1>2. TypeInv /\ LoopInv /\ LoopInv' /\ Holders /\ [Next]_vars
        => [Conversation!ConversationNext]_(Conversation!conversation)
  BY ConversationStep
<1> QED
  BY <1>1, <1>2, ConversationStarts, TypeAlways, LoopAlways, AccountAlways, PTL
     DEF Spec, ConversationKept, Conversation!ConversationSpec

=============================================================================
