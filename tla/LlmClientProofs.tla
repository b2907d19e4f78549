-------------------------- MODULE LlmClientProofs --------------------------
(***************************************************************************)
(* Proofs about one call of the client, for any provider, any tools, any   *)
(* bounds on rounds and retries: nothing is shown twice, no request        *)
(* outlives the call, and a tool only where it was interrupted, every      *)
(* request is a conversation providers accept, and the calls that strict   *)
(* validation lets through are the provider's.                             *)
(***************************************************************************)
EXTENDS LlmClient, SequenceTheorems, FiniteSetTheorems, NaturalsInduction, WellFoundedInduction, TLAPS

(* Where requests, tools and shown events can be: the call is at the place *)
(* that waits for them.                                                    *)
WorkInv ==
  /\ attempt \in Nat
  /\ pc \in {"calling", "backoff"} => shown = FALSE
  /\ pc = "events" => job.api = "stream"
  /\ running # {} => \/ pc \in {"tools", "unwinding"} \/ deserted
                     \/ pc = "over" /\ GaveWay
  /\ running \subseteq DOMAIN results /\ \A i \in running : results[i] = "none"
  /\ pc \in {"step", "calling", "backoff", "events", "tools"} <=> outcome = "none"
  /\ pc = "unwinding" => outcome \in {"abort", "timeout", "cancelled"}
  /\ pc = "over" /\ running # {} => outcome \in {"abort", "timeout", "cancelled"}
  /\ request => \/ pc \in {"calling", "events", "unwinding"} \/ deserted
                \/ pc = "over" /\ job.api = "stream"
  /\ deserted => pc = "over"

LEMMA WorkInitially == Init => WorkInv
<1>1. SUFFICES ASSUME Init PROVE WorkInv
  OBVIOUS
<1> QED BY <1>1 DEF Init, WorkInv

LEMMA WorkSteps == WorkInv /\ [Next]_vars => WorkInv'
<1> SUFFICES ASSUME WorkInv, [Next]_vars PROVE WorkInv'
  OBVIOUS
<1> USE DEF WorkInv, Return, environment, stream, tools
<1>1. CASE StartStep
  BY <1>1 DEF StartStep
<1>2. CASE Receive
  BY <1>2 DEF Receive, AfterAnswer
<1>3. CASE OpenStream
  BY <1>3 DEF OpenStream
<1>4. CASE EventArrives
  <2>1. CASE /\ job.mode = "strict" /\ Violates(open, EventAt(job.adapter, arrived, feed))
             /\ Failed(~shown, "protocol")
    BY <1>4, <2>1 DEF EventArrives, Failed
  <2>2. CASE /\ ~(job.mode = "strict" /\ Violates(open, EventAt(job.adapter, arrived, feed)))
             /\ IF Noticed # "none" THEN Return(Noticed) ELSE UNCHANGED <<pc, outcome>>
             /\ UNCHANGED <<environment, attempt, request, tools, deserted>>
    BY <1>4, <2>2 DEF EventArrives
  <2> QED BY <1>4, <2>1, <2>2 DEF EventArrives
<1>5. CASE StreamEnds
  BY <1>5 DEF StreamEnds, Failed, AfterAnswer
<1>6. CASE StreamCut
  BY <1>6 DEF StreamCut
<1>7. ASSUME NEW retryable \in BOOLEAN, RequestFails(retryable) PROVE WorkInv'
  BY <1>7 DEF RequestFails, Failed
<1>8. CASE Wake
  BY <1>8 DEF Wake
<1>9. ASSUME NEW i \in running, NEW how \in {"ok", "error"}, ToolEnds(i, how) PROVE WorkInv'
  BY <1>9 DEF ToolEnds, GaveWay
<1>10. CASE ToolsDone
  BY <1>10 DEF ToolsDone
<1>11. CASE Abort \/ TimerFires
  BY <1>11 DEF Abort, TimerFires
<1>12. CASE AbortNoticed \/ TotalTimeout \/ StepTimeout
  BY <1>12 DEF AbortNoticed, TotalTimeout, StepTimeout, Interrupt, Working
<1>13. CASE Cancelled
  BY <1>13 DEF Cancelled, Interrupt, Working
<1>14. CASE RequestUnwinds
  BY <1>14 DEF RequestUnwinds
<1>15. ASSUME NEW i \in running, NEW how \in {"ok", "cancelled"}, ToolUnwinds(i, how) PROVE WorkInv'
  BY <1>15 DEF ToolUnwinds, GaveWay
<1>16. CASE Unwound
  BY <1>16 DEF Unwound, WorkUnwound, GaveWay
<1>17. CASE Over \/ UNCHANGED vars
  BY <1>17 DEF Over, vars, GaveWay
<1> QED BY <1>1, <1>2, <1>3, <1>4, <1>5, <1>6, <1>7, <1>8, <1>9, <1>10, <1>11, <1>12, <1>13,
           <1>14, <1>15, <1>16, <1>17 DEF Next

LEMMA WorkAlways == Spec => []WorkInv
<1> QED BY WorkInitially, WorkSteps, PTL DEF Spec

(* When generate() is over no request is in flight, and a tool runs on only *)
(* behind an interrupted call, beside one that has stopped at once: what    *)
(* is cancelled is waited for, up to the first tool that gives way.         *)
THEOREM OnlyInterruptedOutliveHold == Spec => []OnlyInterruptedToolsOutlive
<1>1. WorkInv => OnlyInterruptedToolsOutlive
  BY DEF WorkInv, OnlyInterruptedToolsOutlive, GaveWay
<1> QED BY <1>1, WorkAlways, PTL

(* No attempt is made again after the caller saw an event of the step: the  *)
(* only way to a further attempt is the backoff, and a failure leads there  *)
(* only before the first event.                                            *)
THEOREM NoDataTwiceHolds == Spec => NoDataTwice
<1>1. WorkInv /\ [Next]_vars => [attempt' > attempt => ~shown]_vars
  <2> SUFFICES ASSUME WorkInv, Next, attempt' > attempt PROVE ~shown
    BY DEF vars
  <2>1. attempt' = attempt \/ attempt' = 0 \/ Wake
    BY DEF Next, StartStep, Receive, OpenStream, EventArrives, Failed, StreamEnds, StreamCut,
           RequestFails, ToolEnds, ToolsDone, Abort, TimerFires, AbortNoticed, TotalTimeout,
           StepTimeout, Cancelled, Interrupt, RequestUnwinds, ToolUnwinds, Unwound, Over, vars
  <2>2. CASE Wake
    BY <2>2 DEF Wake, WorkInv
  <2> QED BY <2>1, <2>2 DEF WorkInv
<1> QED BY <1>1, WorkAlways, PTL DEF Spec, NoDataTwice

(* What an answer asks for: a finite sequence, which grows by one with each *)
(* item that is a call.                                                    *)
IsSequence(s) == \E S : s \in Seq(S)

LEMMA TableIsSequence ==
  ASSUME NEW n \in Nat, NEW f, f = [k \in 1 .. n |-> f[k]]
  PROVE  IsSequence(f) /\ Len(f) = n
<1> DEFINE S == {f[k] : k \in 1 .. n}
<1>1. f \in [1 .. n -> S]
  OBVIOUS
<1> HIDE DEF S
<1>2. f \in Seq(S) /\ Len(f) = n
  BY <1>1
<1> QED BY <1>2 DEF IsSequence

LEMMA AskedFinite ==
  ASSUME NEW items, NEW n \in Nat
  PROVE  IsFiniteSet(Asked(items, n)) /\ Cardinality(Asked(items, n)) \in Nat
<1>1. IsFiniteSet(1 .. n)
  BY FS_Interval
<1>2. Asked(items, n) \subseteq 1 .. n
  BY DEF Asked
<1>3. IsFiniteSet(Asked(items, n))
  BY <1>1, <1>2, FS_Subset
<1> QED BY <1>3, FS_CardinalityType

LEMMA CallsWithinSequence ==
  ASSUME NEW items, NEW n \in Nat
  PROVE  /\ IsSequence(CallsWithin(items, n))
         /\ Len(CallsWithin(items, n)) = Cardinality(Asked(items, n))
<1> DEFINE m == Cardinality(Asked(items, n))
<1>1. m \in Nat
  BY AskedFinite
<1>2. CallsWithin(items, n) = [k \in 1 .. m |-> CallsWithin(items, n)[k]]
  BY DEF CallsWithin
<1> HIDE DEF m
<1>3. IsSequence(CallsWithin(items, n)) /\ Len(CallsWithin(items, n)) = m
  BY <1>1, <1>2, TableIsSequence
<1> QED BY <1>3 DEF m

LEMMA NoneWithinZero ==
  ASSUME NEW items PROVE CallsWithin(items, 0) = <<>>
<1>1. Asked(items, 0) = {}
  BY DEF Asked
<1>2. Cardinality(Asked(items, 0)) = 0
  BY <1>1, FS_EmptySet
<1> QED BY <1>2 DEF CallsWithin

LEMMA NoMoreCall ==
  ASSUME NEW items, NEW n \in Nat, ~IsCall(items[n + 1])
  PROVE  CallsWithin(items, n + 1) = CallsWithin(items, n)
<1>1. Asked(items, n + 1) = Asked(items, n)
  BY DEF Asked
<1> DEFINE Listed(S) ==
             [k \in 1 .. Cardinality(S) |-> items[CHOOSE i \in {j \in S : Rank(S, j) = k} : TRUE].call]
<1>2. /\ CallsWithin(items, n) = Listed(Asked(items, n))
      /\ CallsWithin(items, n + 1) = Listed(Asked(items, n + 1))
  BY DEF CallsWithin
<1> HIDE DEF Listed
<1> QED BY <1>1, <1>2

(* One more item that is a call: the calls before it keep their ranks, and  *)
(* its own is one more than theirs.                                        *)
LEMMA OneMoreCall ==
  ASSUME NEW items, NEW n \in Nat, IsCall(items[n + 1])
  PROVE  CallsWithin(items, n + 1) = Append(CallsWithin(items, n), items[n + 1].call)
<1> DEFINE old == Asked(items, n)
           new == Asked(items, n + 1)
           m == Cardinality(old)
<1>1. /\ new = old \cup {n + 1} /\ n + 1 \notin old
      /\ \A i \in old : i \in 1 .. n
  BY DEF Asked
<1>2. IsFiniteSet(old) /\ m \in Nat
  BY AskedFinite
<1>3. IsFiniteSet(new) /\ Cardinality(new) = m + 1
  <2> HIDE DEF old, new
  <2>1. IsFiniteSet(old \cup {n + 1}) /\ Cardinality(old \cup {n + 1}) = m + 1
    BY <1>1, <1>2, FS_AddElement
  <2> QED BY <1>1, <2>1
<1> HIDE DEF m
<1>4. ASSUME NEW i \in old PROVE Rank(new, i) = Rank(old, i) /\ Rank(old, i) \in 0 .. m
  <2>1. {j \in new : j <= i} = {j \in old : j <= i}
    BY <1>1
  <2>2. {j \in old : j <= i} \subseteq old
    OBVIOUS
  <2> HIDE DEF old, new
  <2>3. Cardinality({j \in old : j <= i}) <= m /\ Cardinality({j \in old : j <= i}) \in Nat
    BY <1>2, <2>2, FS_Subset, FS_CardinalityType DEF m
  <2> QED BY <1>2, <2>1, <2>3 DEF Rank
<1>5. Rank(new, n + 1) = m + 1
  <2>1. {j \in new : j <= n + 1} = new
    BY <1>1
  <2> QED BY <1>3, <2>1 DEF Rank
<1>6. ASSUME NEW k \in 1 .. m PROVE {i \in new : Rank(new, i) = k} = {i \in old : Rank(old, i) = k}
  <2> HIDE DEF old, new
  <2> QED BY <1>1, <1>2, <1>4, <1>5
<1>7. {i \in new : Rank(new, i) = m + 1} = {n + 1}
  <2> HIDE DEF old, new
  <2> QED BY <1>1, <1>2, <1>4, <1>5
<1> DEFINE Nth(S, k) == items[CHOOSE i \in {j \in S : Rank(S, j) = k} : TRUE].call
<1>8. \A k \in 1 .. m : Nth(new, k) = Nth(old, k)
  <2> HIDE DEF old, new
  <2> QED BY <1>6
<1>9. Nth(new, m + 1) = items[n + 1].call
  <2>1. (CHOOSE i \in {n + 1} : TRUE) = n + 1
    OBVIOUS
  <2> HIDE DEF old, new
  <2> QED BY <1>7, <2>1
<1>10. /\ CallsWithin(items, n) = [k \in 1 .. m |-> Nth(old, k)]
       /\ CallsWithin(items, n + 1) = [k \in 1 .. m + 1 |-> Nth(new, k)]
  BY <1>3 DEF CallsWithin, m
<1> HIDE DEF old, new, Nth
<1>11. IsSequence(CallsWithin(items, n)) /\ Len(CallsWithin(items, n)) = m
  BY CallsWithinSequence DEF m, old
<1>12. Append(CallsWithin(items, n), items[n + 1].call)
        = [k \in 1 .. m + 1 |-> IF k <= m THEN CallsWithin(items, n)[k] ELSE items[n + 1].call]
  BY <1>2, <1>11, AppendProperties DEF IsSequence
<1>13. \A k \in 1 .. m + 1 : Nth(new, k) = IF k <= m THEN CallsWithin(items, n)[k] ELSE items[n + 1].call
  BY <1>2, <1>8, <1>9, <1>10
<1> QED BY <1>2, <1>10, <1>12, <1>13

(* Two answers that agree up to an item ask for the same calls up to it: by *)
(* the least place up to which they would not.                             *)
LEMMA SameBeginning ==
  ASSUME NEW s, NEW t, NEW n \in Nat, \A i \in 1 .. n : s[i] = t[i]
  PROVE  CallsWithin(s, n) = CallsWithin(t, n)
<1> DEFINE Bad == {m \in 0 .. n : CallsWithin(s, m) # CallsWithin(t, m)}
<1>1. SUFFICES ASSUME Bad # {} PROVE FALSE
  OBVIOUS
<1>2. PICK m \in Bad : \A k \in Bad : ~(k < m)
  <2>1. Bad \subseteq Nat
    OBVIOUS
  <2> HIDE DEF Bad
  <2>2. PICK m \in Bad : \A k \in Nat : <<k, m>> \in OpToRel(<, Nat) => k \notin Bad
    BY <1>1, <2>1, NatLessThanWellFounded, WFMin
  <2> QED BY <2>1, <2>2 DEF OpToRel
<1>3. m \in 0 .. n /\ CallsWithin(s, m) # CallsWithin(t, m)
  OBVIOUS
<1>4. m # 0
  BY <1>3, NoneWithinZero
<1>5. /\ m - 1 \in Nat /\ (m - 1) + 1 = m /\ m \in 1 .. n
      /\ CallsWithin(s, m - 1) = CallsWithin(t, m - 1)
  BY <1>2, <1>3, <1>4
<1>6. s[m] = t[m]
  BY <1>5
<1>7. CASE IsCall(s[m])
  BY <1>3, <1>5, <1>6, <1>7, OneMoreCall
<1>8. CASE ~IsCall(s[m])
  BY <1>3, <1>5, <1>6, <1>8, NoMoreCall
<1> QED BY <1>7, <1>8

LEMMA WholeSubSeq ==
  ASSUME NEW S, NEW s \in Seq(S)
  PROVE  SubSeq(s, 1, Len(s)) = s
<1>1. SubSeq(s, 1, Len(s)) = s
  BY SubSeqProperties, SeqEqual
<1> QED BY <1>1

LEMMA CallsOfSequence ==
  ASSUME NEW items \in Seq(ItemFields)
  PROVE  IsSequence(CallsOf(items)) /\ Len(CallsOf(items)) \in Nat
<1>1. Len(items) \in Nat
  OBVIOUS
<1>2. /\ IsSequence(CallsWithin(items, Len(items)))
      /\ Len(CallsWithin(items, Len(items))) = Cardinality(Asked(items, Len(items)))
  BY <1>1, CallsWithinSequence
<1> QED BY <1>1, <1>2, AskedFinite DEF CallsOf

(* A conversation in which every call of the model has its result behind it *)
(* in its place; acc.calls is what the next assistant message will ask for. *)
Answered(c) ==
  /\ IsSequence(c)
  /\ \A i \in DOMAIN c : c[i].from = "assistant" =>
       /\ IsSequence(c[i].calls)
       /\ i + Len(c[i].calls) <= Len(c)
       /\ \A k \in DOMAIN c[i].calls : c[i + k] = ToolMessage(c[i].calls[k])
       /\ i + Len(c[i].calls) < Len(c) => c[i + Len(c[i].calls) + 1].from # "tool"
AnsweredInv == IsSequence(acc.calls) /\ Answered(conv)

LEMMA SequenceFacts ==
  ASSUME NEW s, IsSequence(s)
  PROVE  Len(s) \in Nat /\ DOMAIN s = 1 .. Len(s)
BY DEF IsSequence

LEMMA HeardKeepsSequence ==
  ASSUME NEW heard, NEW e, IsSequence(heard.calls)
  PROVE  IsSequence(Heard(heard, e).calls)
<1>1. PICK S : heard.calls \in Seq(S)
  BY DEF IsSequence
<1>2. Append(heard.calls, e.call) \in Seq(S \cup {e.call})
  <2>1. heard.calls \in Seq(S \cup {e.call})
    BY <1>1
  <2> QED BY <2>1
<1>3. Heard(heard, e).calls \in {heard.calls, Append(heard.calls, e.call)}
  BY DEF Heard
<1> QED BY <1>1, <1>2, <1>3 DEF IsSequence

(* The conversation of the next round, position by position.               *)
GoesOn(c, calls, next) ==
  /\ IsSequence(next)
  /\ Len(next) = Len(c) + 1 + Len(calls)
  /\ \A i \in 1 .. Len(c) : next[i] = c[i]
  /\ next[Len(c) + 1] = AssistantMessage(calls)
  /\ \A k \in 1 .. Len(calls) : next[Len(c) + 1 + k] = ToolMessage(calls[k])

LEMMA NextConversation ==
  ASSUME NEW c, NEW calls, NEW res, IsSequence(c), IsSequence(calls)
  PROVE  GoesOn(c, calls, Append(c, AssistantMessage(calls)) \o ResultMessages(calls, res))
<1> DEFINE asked == AssistantMessage(calls)
           replies == ResultMessages(calls, res)
           next == Append(c, asked) \o replies
<1>1. PICK S : c \in Seq(S)
  BY DEF IsSequence
<1>2. Len(calls) \in Nat /\ DOMAIN calls = 1 .. Len(calls)
  BY SequenceFacts
<1> DEFINE T == S \cup {asked} \cup {ToolMessage(calls[k]) : k \in 1 .. Len(calls)}
<1>3. /\ replies \in [1 .. Len(calls) -> T]
      /\ \A k \in 1 .. Len(calls) : replies[k] = ToolMessage(calls[k])
  BY <1>2 DEF ResultMessages
<1>4. replies \in Seq(T) /\ Len(replies) = Len(calls)
  BY <1>2, <1>3
<1>5. c \in Seq(T) /\ asked \in T
  BY <1>1
<1> HIDE DEF asked, replies, next, T
<1>6. /\ Append(c, asked) \in Seq(T) /\ Len(Append(c, asked)) = Len(c) + 1
      /\ \A i \in 1 .. Len(c) : Append(c, asked)[i] = c[i]
      /\ Append(c, asked)[Len(c) + 1] = asked
  BY <1>5
<1>7. next = Append(c, asked) \o replies
  BY DEF next
<1>8. /\ next \in Seq(T)
      /\ Len(next) = Len(c) + 1 + Len(calls)
      /\ \A i \in 1 .. Len(c) + 1 : next[i] = Append(c, asked)[i]
      /\ \A k \in 1 .. Len(calls) : next[Len(c) + 1 + k] = replies[k]
  <2>1. Len(c) \in Nat
    BY <1>1
  <2> DEFINE front == Append(c, asked)
  <2>2. /\ front \o replies \in Seq(T)
        /\ Len(front \o replies) = Len(front) + Len(replies)
        /\ \A i \in 1 .. Len(front) + Len(replies) : (front \o replies)[i] =
             IF i <= Len(front) THEN front[i] ELSE replies[i - Len(front)]
    <3>1. front \in Seq(T) /\ replies \in Seq(T)
      BY <1>4, <1>6
    <3> HIDE DEF front
    <3> QED BY ONLY <3>1, ConcatProperties, Zenon
  <2>3. \A i \in 1 .. Len(c) + 1 + Len(calls) :
          next[i] = IF i <= Len(c) + 1 THEN Append(c, asked)[i] ELSE replies[i - (Len(c) + 1)]
    BY <1>4, <1>6, <1>7, <2>2
  <2>4. \A i \in 1 .. Len(c) + 1 : next[i] = Append(c, asked)[i]
    BY <1>2, <2>1, <2>3
  <2>5. ASSUME NEW k \in 1 .. Len(calls) PROVE next[Len(c) + 1 + k] = replies[k]
    <3>1. /\ Len(c) + 1 + k \in 1 .. Len(c) + 1 + Len(calls)
          /\ ~(Len(c) + 1 + k <= Len(c) + 1)
          /\ (Len(c) + 1 + k) - (Len(c) + 1) = k
      BY <1>2, <2>1
    <3> QED BY <2>3, <3>1
  <2> QED BY <1>4, <1>6, <1>7, <2>1, <2>2, <2>4, <2>5
<1>9. Len(c) \in Nat
  BY <1>1
<1>10. \A i \in 1 .. Len(c) : next[i] = c[i]
  <2>1. \A i \in 1 .. Len(c) : i \in 1 .. Len(c) + 1
    BY <1>9
  <2> QED BY <1>6, <1>8, <2>1
<1>11. next[Len(c) + 1] = asked
  <2>1. Len(c) + 1 \in 1 .. Len(c) + 1
    BY <1>9
  <2> QED BY <1>6, <1>8, <2>1
<1>12. IsSequence(next)
  BY <1>8 DEF IsSequence
<1>13. GoesOn(c, calls, next)
  BY <1>3, <1>8, <1>10, <1>11, <1>12 DEF GoesOn, asked
<1> QED
  BY <1>13 DEF asked, replies, next

LEMMA RoundKeepsAnswered ==
  ASSUME NEW c, NEW calls, NEW res, Answered(c), IsSequence(calls)
  PROVE  Answered(Append(c, AssistantMessage(calls)) \o ResultMessages(calls, res))
<1> DEFINE next == Append(c, AssistantMessage(calls)) \o ResultMessages(calls, res)
<1>1. /\ IsSequence(next)
      /\ Len(next) = Len(c) + 1 + Len(calls)
      /\ \A i \in 1 .. Len(c) : next[i] = c[i]
      /\ next[Len(c) + 1] = AssistantMessage(calls)
      /\ \A k \in 1 .. Len(calls) : next[Len(c) + 1 + k] = ToolMessage(calls[k])
  <2>1. GoesOn(c, calls, next)
    BY NextConversation DEF Answered
  <2> HIDE DEF next
  <2> QED BY <2>1 DEF GoesOn
<1> HIDE DEF next
<1>2. /\ Len(c) \in Nat /\ DOMAIN c = 1 .. Len(c)
      /\ Len(calls) \in Nat /\ DOMAIN calls = 1 .. Len(calls)
      /\ DOMAIN next = 1 .. Len(next)
  BY <1>1, SequenceFacts DEF Answered
<1>3. ASSUME NEW i \in DOMAIN next, next[i].from = "assistant"
      PROVE  /\ IsSequence(next[i].calls)
             /\ i + Len(next[i].calls) <= Len(next)
             /\ \A k \in DOMAIN next[i].calls : next[i + k] = ToolMessage(next[i].calls[k])
             /\ i + Len(next[i].calls) < Len(next) =>
                  next[i + Len(next[i].calls) + 1].from # "tool"
  <2>1. CASE i \in 1 .. Len(c)
    <3>1. next[i] = c[i] /\ c[i].from = "assistant" /\ i \in DOMAIN c
      BY <1>1, <1>2, <1>3, <2>1
    <3> DEFINE n == Len(c[i].calls)
    <3>2. /\ IsSequence(c[i].calls) /\ i + n <= Len(c)
          /\ \A k \in DOMAIN c[i].calls : c[i + k] = ToolMessage(c[i].calls[k])
          /\ i + n < Len(c) => c[i + n + 1].from # "tool"
      BY <3>1 DEF Answered
    <3>3. n \in Nat /\ DOMAIN c[i].calls = 1 .. n
      BY <3>2, SequenceFacts
    <3> HIDE DEF n
    <3>4. \A k \in 1 .. n : i + k \in 1 .. Len(c)
      BY <1>2, <2>1, <3>2, <3>3
    <3>5. ASSUME i + n = Len(c) PROVE next[i + n + 1].from # "tool"
      BY <1>1, <3>5 DEF AssistantMessage
    <3>6. ASSUME i + n < Len(c) PROVE next[i + n + 1].from # "tool"
      <4>1. i + n + 1 \in 1 .. Len(c)
        BY <1>2, <2>1, <3>3, <3>6
      <4> QED BY <1>1, <3>2, <3>6, <4>1
    <3>7. i + n = Len(c) \/ i + n < Len(c)
      BY <1>2, <2>1, <3>2, <3>3
    <3>8. i + n <= Len(next)
      BY <1>1, <1>2, <2>1, <3>2, <3>3
    <3> QED
      BY <1>1, <3>1, <3>2, <3>3, <3>4, <3>5, <3>6, <3>7, <3>8 DEF n
  <2>2. CASE i = Len(c) + 1
    <3>1. next[i].calls = calls
      BY <1>1, <2>2 DEF AssistantMessage
    <3>2. i + Len(calls) = Len(next)
      BY <1>1, <1>2, <2>2
    <3>3. \A k \in DOMAIN calls : next[i + k] = ToolMessage(calls[k])
      BY <1>1, <1>2, <2>2
    <3>4. ~(i + Len(calls) < Len(next)) /\ i + Len(calls) <= Len(next)
      BY <1>1, <1>2, <2>2, <3>2
    <3> QED BY <3>1, <3>3, <3>4
  <2>3. CASE i > Len(c) + 1
    <3>1. PICK k \in 1 .. Len(calls) : i = Len(c) + 1 + k
      <4>1. Len(c) \in Nat /\ Len(calls) \in Nat /\ i \in 1 .. Len(c) + 1 + Len(calls)
        BY <1>1, <1>2
      <4>2. i - (Len(c) + 1) \in 1 .. Len(calls) /\ i = Len(c) + 1 + (i - (Len(c) + 1))
        BY <2>3, <4>1
      <4> QED BY <4>2
    <3>2. next[i].from = "tool"
      <4>1. next[i] = ToolMessage(calls[k])
        BY <1>1, <3>1
      <4> QED BY <4>1 DEF ToolMessage
    <3> QED BY <1>3, <3>2
  <2>4. i \in 1 .. Len(c) \/ i = Len(c) + 1 \/ i > Len(c) + 1
    <3>1. Len(c) \in Nat /\ i \in 1 .. Len(next) /\ Len(next) \in Nat
      BY <1>1, <1>2
    <3> QED BY <3>1
  <2> QED BY <2>1, <2>2, <2>3, <2>4
<1>4. Answered(next)
  BY <1>1, <1>3 DEF Answered
<1> QED BY <1>4 DEF next

LEMMA AnsweredInitially == Init => AnsweredInv
<1> SUFFICES ASSUME Init PROVE AnsweredInv
  OBVIOUS
<1>1. acc.calls \in Seq({}) /\ conv \in Seq({UserMessage})
  BY DEF Init, NothingHeard
<1>2. \A i \in DOMAIN conv : conv[i].from = "user"
  BY DEF Init, UserMessage
<1> QED BY <1>1, <1>2 DEF AnsweredInv, Answered, IsSequence

LEMMA AnsweredSteps == AnsweredInv /\ [Next]_vars => AnsweredInv'
<1> SUFFICES ASSUME AnsweredInv, [Next]_vars PROVE AnsweredInv'
  OBVIOUS
<1>1. CASE Receive
  <2>1. PICK a \in Answers : acc' = [calls |-> CallsOf(a.items), reason |-> a.reason]
    BY <1>1 DEF Receive
  <2>2. IsSequence(acc'.calls)
    BY <2>1, AnswersAssumption, CallsOfSequence
  <2> QED BY <1>1, <2>2 DEF Receive, AnsweredInv
<1>2. CASE OpenStream
  <2>1. acc'.calls \in Seq({}) /\ conv' = conv
    BY <1>2 DEF OpenStream, NothingHeard
  <2> QED BY <2>1 DEF AnsweredInv, IsSequence
<1>3. CASE EventArrives
  <2>1. conv' = conv /\ acc' \in {acc, Heard(acc, EventAt(job.adapter, arrived, feed))}
    BY <1>3 DEF EventArrives, Failed
  <2> QED BY <2>1, HeardKeepsSequence DEF AnsweredInv
<1>4. CASE ToolsDone
  <2>1. /\ acc' = acc
        /\ \/ conv' = conv
           \/ conv' = Append(conv, AssistantMessage(acc.calls)) \o ResultMessages(acc.calls, results)
    BY <1>4 DEF ToolsDone, stream
  <2> QED BY <2>1, RoundKeepsAnswered DEF AnsweredInv
<1>5. CASE UNCHANGED <<conv, acc>>
  BY <1>5 DEF AnsweredInv
<1> QED
  BY <1>1, <1>2, <1>3, <1>4, <1>5
  DEF Next, StartStep, Failed, StreamEnds, StreamCut, RequestFails, Wake, ToolEnds, Abort,
      TimerFires, AbortNoticed, TotalTimeout, StepTimeout, Cancelled, Interrupt, RequestUnwinds,
      ToolUnwinds, Unwound, Over, stream, vars

(* Every request the client sends shows each tool call of the model with    *)
(* its result behind it, in order, whichever tools failed: a round appends  *)
(* the assistant's message and one message for each of its calls at once.  *)
THEOREM RequestsAnsweredHolds == Spec => []RequestsAnswered
<1>1. AnsweredInv => RequestsAnswered
  <2> SUFFICES ASSUME AnsweredInv PROVE RequestsAnswered
    OBVIOUS
  <2> QED BY DEF AnsweredInv, Answered, RequestsAnswered, AnsweredAt
<1> QED BY <1>1, AnsweredInitially, AnsweredSteps, PTL DEF Spec

(* The parts of a stream by what they tell of the calls: nothing, one call  *)
(* with its last event, or a fragment before anything else.                *)
Tells(e) == e.type \in {"call_end", "finish"}
QuietPart(p) == Len(p) \in Nat \ {0} /\ \A j \in 1 .. Len(p) : ~Tells(p[j])
CallPart(p, c) ==
  /\ Len(p) \in Nat \ {0} /\ p[Len(p)] = Event("call_end", c)
  /\ \A j \in 1 .. Len(p) : j < Len(p) => ~Tells(p[j])
FragmentPart(p) == Len(p) \in Nat /\ Len(p) > 2 /\ ~Tells(p[1]) /\ p[2] = Event("call_delta", NoCall)
FinishPart(p) ==
  /\ Len(p) \in Nat \ {0} /\ p[Len(p)].type = "finish"
  /\ \A j \in 1 .. Len(p) : j < Len(p) => ~Tells(p[j])

LEMMA JoinPairs ==
  ASSUME NEW a, NEW b, NEW c
  PROVE  /\ <<a>> \o <<b>> = <<a, b>>
         /\ <<a>> \o <<>> = <<a>>
         /\ <<>> \o <<a>> = <<a>> /\ <<>> \o <<a, b>> = <<a, b>>
         /\ <<a, b>> \o <<c>> = <<a, b, c>>
<1> DEFINE S == {a, b, c}
           one == <<a>>
           two == <<a, b>>
           three == <<a, b, c>>
           other == <<b>>
           last == <<c>>
<1>1. /\ one \in Seq(S) /\ Len(one) = 1 /\ one[1] = a
      /\ other \in Seq(S) /\ Len(other) = 1 /\ other[1] = b
      /\ last \in Seq(S) /\ Len(last) = 1 /\ last[1] = c
      /\ two \in Seq(S) /\ Len(two) = 2 /\ two[1] = a /\ two[2] = b
      /\ three \in Seq(S) /\ Len(three) = 3 /\ three[1] = a /\ three[2] = b /\ three[3] = c
  OBVIOUS
<1> HIDE DEF S, one, two, three, other, last
<1>2. /\ one \o other \in Seq(S) /\ Len(one \o other) = 2
      /\ (one \o other)[1] = a /\ (one \o other)[2] = b
  <2>1. /\ one \o other \in Seq(S) /\ Len(one \o other) = Len(one) + Len(other)
        /\ \A i \in 1 .. Len(one) + Len(other) :
             (one \o other)[i] = IF i <= Len(one) THEN one[i] ELSE other[i - Len(one)]
    BY ONLY <1>1, ConcatProperties, Zenon
  <2> QED BY <1>1, <2>1
<1>3. one \o other = two
  BY <1>1, <1>2, SeqEqual
<1>4. /\ two \o last \in Seq(S) /\ Len(two \o last) = 3
      /\ (two \o last)[1] = a /\ (two \o last)[2] = b /\ (two \o last)[3] = c
  <2>1. /\ two \o last \in Seq(S) /\ Len(two \o last) = Len(two) + Len(last)
        /\ \A i \in 1 .. Len(two) + Len(last) :
             (two \o last)[i] = IF i <= Len(two) THEN two[i] ELSE last[i - Len(two)]
    BY ONLY <1>1, ConcatProperties, Zenon
  <2> QED BY <1>1, <2>1
<1>5. two \o last = three
  BY <1>1, <1>4, SeqEqual
<1>6. one \o <<>> = one /\ <<>> \o one = one /\ <<>> \o two = two
  BY <1>1, ConcatEmptySeq
<1> QED BY <1>3, <1>5, <1>6 DEF one, two, three, other, last

LEMMA AnthropicShape ==
  ASSUME NEW item \in ItemFields
  PROVE  /\ IsCall(item) => CallPart(AnthropicBlock(item), item.call)
         /\ ~IsCall(item) => QuietPart(AnthropicBlock(item))
<1> DEFINE s == Event("call_start", item.call)
           d == Event("call_delta", NoCall)
           e == Event("call_end", item.call)
<1>1. s.type = "call_start" /\ d.type = "call_delta" /\ e.type = "call_end"
  BY DEF Event
<1>2. CASE IsCall(item)
  <2>1. AnthropicBlock(item) = <<s>> \o Fragments(item) \o <<e>>
    BY <1>2 DEF AnthropicBlock
  <2>2. Fragments(item) = <<>> \/ Fragments(item) = <<d>>
    BY DEF Fragments, When
  <2>3. e = Event("call_end", item.call)
    OBVIOUS
  <2> HIDE DEF s, d, e
  <2>4. AnthropicBlock(item) = <<s, e>> \/ AnthropicBlock(item) = <<s, d, e>>
    <3>1. <<s>> \o <<>> \o <<e>> = <<s, e>> /\ <<s>> \o <<d>> \o <<e>> = <<s, d, e>>
      BY JoinPairs, Zenon
    <3> QED BY <2>1, <2>2, <3>1, Zenon
  <2>5. CallPart(<<s, e>>, item.call) /\ CallPart(<<s, d, e>>, item.call)
    BY <1>1, <2>3 DEF CallPart, Tells
  <2> QED BY <1>2, <2>4, <2>5, Zenon
<1>3. CASE ~IsCall(item)
  BY <1>3 DEF AnthropicBlock, TextBlock, QuietPart, Tells, Event
<1> QED BY <1>2, <1>3

LEMMA OneShotShape ==
  ASSUME NEW c PROVE CallPart(OneShot(c), c)
BY DEF OneShot, CallPart, Tells, Event

LEMMA TextPieceShape ==
  ASSUME NEW items, NEW k PROVE QuietPart(TextPiece(items, k))
<1> DEFINE t == Event("text_start", NoCall)
           d == Event("text_delta", NoCall)
<1>1. t.type = "text_start" /\ d.type = "text_delta"
  BY DEF Event
<1>2. TextPiece(items, k) = <<t>> \o <<d>> \/ TextPiece(items, k) = <<>> \o <<d>>
  BY DEF TextPiece, When
<1> HIDE DEF t, d
<1>3. TextPiece(items, k) = <<t, d>> \/ TextPiece(items, k) = <<d>>
  BY <1>2, JoinPairs
<1> QED BY <1>1, <1>3 DEF QuietPart, Tells

LEMMA FragmentShape ==
  ASSUME NEW item \in ItemFields, IsCall(item), item.args
  PROVE  FragmentPart(OpenAIBlock(item))
<1> DEFINE s == Event("call_start", item.call)
           d == Event("call_delta", NoCall)
           e == Event("call_end", item.call)
<1>1. s.type = "call_start" /\ d = Event("call_delta", NoCall)
  BY DEF Event
<1>2. OpenAIBlock(item) = (<<s>> \o <<d>> \o <<e>>) \o <<s, e>>
  BY DEF OpenAIBlock, When, AnthropicBlock, OneShot, Fragments
<1> HIDE DEF s, d, e
<1>3. OpenAIBlock(item) = <<s, d, e>> \o <<s, e>>
  <2>1. <<s>> \o <<d>> \o <<e>> = <<s, d, e>>
    BY JoinPairs, Zenon
  <2> QED BY <1>2, <2>1, Zenon
<1>4. /\ Len(<<s, d, e>> \o <<s, e>>) = 5
      /\ (<<s, d, e>> \o <<s, e>>)[1] = s /\ (<<s, d, e>> \o <<s, e>>)[2] = d
  OBVIOUS
<1> QED BY <1>1, <1>3, <1>4 DEF FragmentPart, Tells

LEMMA OpenAIShape ==
  ASSUME NEW item \in ItemFields
  PROVE  /\ IsCall(item) /\ item.args => FragmentPart(OpenAIBlock(item))
         /\ IsCall(item) /\ ~item.args => CallPart(OpenAIBlock(item), item.call)
         /\ ~IsCall(item) => QuietPart(OpenAIBlock(item))
<1>1. ASSUME IsCall(item), ~item.args PROVE CallPart(OpenAIBlock(item), item.call)
  <2>1. OpenAIBlock(item) = <<>> \o OneShot(item.call)
    BY <1>1 DEF OpenAIBlock, When
  <2>2. OpenAIBlock(item) = OneShot(item.call)
    BY <2>1, JoinPairs DEF OneShot
  <2> QED BY <2>2, OneShotShape
<1>2. ASSUME ~IsCall(item) PROVE QuietPart(OpenAIBlock(item))
  BY <1>2 DEF OpenAIBlock, TextBlock, QuietPart, Tells, Event
<1> QED BY <1>1, <1>2, FragmentShape

LEMMA CompatShape ==
  ASSUME NEW items, NEW k, items[k] \in ItemFields
  PROVE  QuietPart(CompatBlock(items, k))
<1>1. CASE IsCall(items[k])
  <2> DEFINE s == Event("call_start", items[k].call)
             d == Event("call_delta", NoCall)
  <2>1. s.type = "call_start" /\ d.type = "call_delta"
    BY DEF Event
  <2>2. CompatBlock(items, k) = <<s>> \o <<>> \/ CompatBlock(items, k) = <<s>> \o <<d>>
    BY <1>1 DEF CompatBlock, Fragments, When
  <2> HIDE DEF s, d
  <2>3. CompatBlock(items, k) = <<s>> \/ CompatBlock(items, k) = <<s, d>>
    BY <2>2, JoinPairs, Zenon
  <2>4. QuietPart(<<s>>) /\ QuietPart(<<s, d>>)
    BY <2>1 DEF QuietPart, Tells
  <2> QED BY <2>3, <2>4, Zenon
<1> QED BY <1>1, TextPieceShape DEF CompatBlock

LEMMA BlockShape ==
  ASSUME NEW adapter \in Adapters, NEW items, NEW k, items[k] \in ItemFields
  PROVE  /\ ~IsCall(items[k]) \/ adapter = "openai_compat" => QuietPart(Block(adapter, items, k))
         /\ IsCall(items[k]) /\ adapter \in {"anthropic", "gemini"} =>
              CallPart(Block(adapter, items, k), items[k].call)
         /\ IsCall(items[k]) /\ adapter = "openai" /\ ~items[k].args =>
              CallPart(Block(adapter, items, k), items[k].call)
         /\ IsCall(items[k]) /\ adapter = "openai" /\ items[k].args =>
              FragmentPart(Block(adapter, items, k))
<1>1. CASE adapter = "anthropic"
  <2>1. Block(adapter, items, k) = AnthropicBlock(items[k])
    BY <1>1, Zenon DEF Block
  <2> QED BY <1>1, <2>1, AnthropicShape
<1>2. CASE adapter = "openai"
  <2>1. Block(adapter, items, k) = OpenAIBlock(items[k])
    BY <1>2, Zenon DEF Block
  <2> QED BY <1>2, <2>1, OpenAIShape
<1>3. CASE adapter = "openai_compat"
  <2>1. Block(adapter, items, k) = CompatBlock(items, k)
    BY <1>3, Zenon DEF Block
  <2> QED BY <1>3, <2>1, CompatShape
<1>4. CASE adapter = "gemini"
  <2>1. Block(adapter, items, k) = GeminiBlock(items, k)
    BY <1>4, Zenon DEF Block
  <2> QED BY <1>4, <2>1, OneShotShape, TextPieceShape DEF GeminiBlock
<1> QED BY <1>1, <1>2, <1>3, <1>4 DEF Adapters

LEMMA TextEndShape ==
  ASSUME NEW items
  PROVE  TextEnd(items) = <<>> \/ TextEnd(items) = <<Event("text_end", NoCall)>>
BY DEF TextEnd, When

LEMMA ClosingShape ==
  ASSUME NEW adapter \in Adapters, NEW items, NEW reason, adapter # "openai_compat"
  PROVE  FinishPart(Closing(adapter, items, reason))
<1>1. ASSUME NEW r PROVE FinishPart(<<Finish(r)>>)
  BY DEF FinishPart, Finish
<1>2. ASSUME NEW r PROVE FinishPart(TextEnd(items) \o <<Finish(r)>>)
  <2> DEFINE t == Event("text_end", NoCall)
             f == Finish(r)
  <2>1. t.type = "text_end" /\ f.type = "finish"
    BY DEF Event, Finish
  <2>2. TextEnd(items) = <<>> \/ TextEnd(items) = <<t>>
    BY TextEndShape
  <2> HIDE DEF t, f
  <2>3. TextEnd(items) \o <<f>> = <<f>> \/ TextEnd(items) \o <<f>> = <<t, f>>
    BY <2>2, JoinPairs, Zenon
  <2>4. FinishPart(<<f>>) /\ FinishPart(<<t, f>>)
    BY <2>1 DEF FinishPart, Tells
  <2> QED BY <2>3, <2>4 DEF f
<1>3. \/ \E r : Closing(adapter, items, reason) = <<Finish(r)>>
      \/ \E r : Closing(adapter, items, reason) = TextEnd(items) \o <<Finish(r)>>
  <2>1. CASE adapter = "anthropic"
    BY <2>1, Zenon DEF Closing
  <2>2. CASE adapter = "openai"
    BY <2>2, Zenon DEF Closing
  <2>3. CASE adapter = "gemini"
    BY <2>3, Zenon DEF Closing
  <2> QED BY <2>1, <2>2, <2>3 DEF Adapters
<1> QED BY <1>1, <1>2, <1>3, Zenon

(* The closing part of the fourth adapter: an end of the text if there is   *)
(* one, an end for each call in order, two FINISH.                         *)
ClosesCalls(p, calls, t, m) ==
  /\ t \in {0, 1} /\ m \in Nat /\ Len(p) = t + m + 2
  /\ \A j \in 1 .. t : ~Tells(p[j])
  /\ \A j \in 1 .. m : p[t + j] = Event("call_end", calls[j])
  /\ p[t + m + 1].type = "finish" /\ p[t + m + 2].type = "finish"

LEMMA CompatClosingShape ==
  ASSUME NEW items \in Seq(ItemFields), NEW reason
  PROVE  ClosesCalls(Closing("openai_compat", items, reason), CallsOf(items),
                     Len(TextEnd(items)), Len(CallsOf(items)))
<1> DEFINE p == Closing("openai_compat", items, reason)
           t == Len(TextEnd(items))
           m == Len(CallsOf(items))
           te == Event("text_end", NoCall)
           first == TextEnd(items)
           ends == CallEnds(CallsOf(items))
           fin == <<Finish(reason), Finish(CallsOr(items, "stop"))>>
<1>1. p = (first \o ends) \o fin
  <2>1. p = CompatClosing(items, reason)
    BY Zenon DEF Closing
  <2> QED BY <2>1 DEF CompatClosing
<1>2. m \in Nat /\ DOMAIN CallsOf(items) = 1 .. m
  BY CallsOfSequence DEF IsSequence
<1>3. ends = [j \in 1 .. m |-> Event("call_end", CallsOf(items)[j])]
  BY <1>2 DEF CallEnds
<1> DEFINE S == {te} \cup {ends[j] : j \in 1 .. m} \cup {fin[1], fin[2]}
<1>4. ends \in Seq(S) /\ Len(ends) = m
  <2> HIDE DEF m, p, t
  <2>1. ends = [j \in 1 .. m |-> ends[j]]
    BY <1>3
  <2>2. ends \in [1 .. m -> S]
    BY <2>1
  <2> HIDE DEF ends, S
  <2> QED BY <1>2, <2>2
<1>5. fin \in Seq(S) /\ Len(fin) = 2 /\ fin[1].type = "finish" /\ fin[2].type = "finish"
  BY DEF Finish
<1>6. /\ first \in Seq(S) /\ t \in {0, 1}
      /\ \A j \in 1 .. t : ~Tells(first[j])
  <2>1. first = <<>> \/ first = <<te>>
    BY TextEndShape
  <2>2. te \in S /\ ~Tells(te)
    BY DEF Event, Tells
  <2> HIDE DEF S, first
  <2>3. t = Len(first)
    BY DEF first
  <2>4. CASE first = <<>>
    BY <2>3, <2>4
  <2>5. CASE first = <<te>>
    <3> HIDE DEF te
    <3>1. <<te>> \in Seq(S) /\ Len(<<te>>) = 1 /\ <<te>>[1] = te
      BY <2>2
    <3> QED BY <2>2, <2>3, <2>5, <3>1
  <2> QED BY <2>1, <2>4, <2>5
<1>7. \A j \in 1 .. m : ends[j] = Event("call_end", CallsOf(items)[j])
  BY <1>3
<1>8. t = Len(first)
  OBVIOUS
<1> HIDE DEF te, first, ends, fin, S, p, t, m
<1>9. /\ first \o ends \in Seq(S) /\ Len(first \o ends) = Len(first) + Len(ends)
      /\ \A j \in 1 .. Len(first) + Len(ends) :
           (first \o ends)[j] = IF j <= Len(first) THEN first[j] ELSE ends[j - Len(first)]
  BY ONLY <1>4, <1>6, ConcatProperties, Zenon
<1> DEFINE front == first \o ends
<1> HIDE DEF front
<1>10. /\ Len(front \o fin) = Len(front) + Len(fin)
       /\ \A j \in 1 .. Len(front) + Len(fin) :
            (front \o fin)[j] = IF j <= Len(front) THEN front[j] ELSE fin[j - Len(front)]
  <2>1. front \in Seq(S)
    BY <1>9 DEF front
  <2> QED BY ONLY <2>1, <1>5, ConcatProperties, Zenon
<1>11. /\ Len(front) = t + m
       /\ \A j \in 1 .. t + m : front[j] = IF j <= t THEN first[j] ELSE ends[j - t]
  BY <1>4, <1>8, <1>9 DEF front
<1>12. /\ Len(p) = t + m + 2
       /\ \A j \in 1 .. t + m + 2 : p[j] = IF j <= t + m THEN front[j] ELSE fin[j - (t + m)]
  BY <1>1, <1>5, <1>10, <1>11 DEF front
<1>13. \A j \in 1 .. t : p[j] = first[j]
  BY <1>2, <1>6, <1>11, <1>12
<1>14. ASSUME NEW j \in 1 .. m PROVE p[t + j] = ends[j]
  <2>1. t + j \in 1 .. t + m /\ t + j \in 1 .. t + m + 2 /\ ~(t + j <= t) /\ (t + j) - t = j
    BY <1>2, <1>6
  <2>2. p[t + j] = front[t + j]
    BY <1>12, <2>1
  <2>3. front[t + j] = ends[(t + j) - t]
    BY <1>11, <2>1
  <2> QED BY <2>1, <2>2, <2>3
<1>15. p[t + m + 1] = fin[1] /\ p[t + m + 2] = fin[2]
  <2>1. /\ t + m + 1 \in 1 .. t + m + 2 /\ t + m + 2 \in 1 .. t + m + 2
        /\ ~(t + m + 1 <= t + m) /\ ~(t + m + 2 <= t + m)
        /\ (t + m + 1) - (t + m) = 1 /\ (t + m + 2) - (t + m) = 2
    BY <1>2, <1>6
  <2> QED BY <1>12, <2>1
<1>16. ClosesCalls(p, CallsOf(items), t, m)
  BY <1>2, <1>5, <1>6, <1>7, <1>12, <1>13, <1>14, <1>15 DEF ClosesCalls
<1> QED BY <1>16 DEF p, t, m
(* Strict validation of a stream.  HeardAt says what the caller's side knows *)
(* of the calls when the event at a place is still to come: the calls of    *)
(* the parts before it, or, for the adapter that closes every call at the   *)
(* end, as many as have been closed.                                        *)
Strict == job.api = "stream" /\ job.mode = "strict"

StartsWith(calls, all, n) ==
  /\ n <= Len(all)
  /\ IsSequence(calls) /\ Len(calls) = n
  /\ \A i \in 1 .. n : calls[i] = all[i]

(* How many calls the closing part has closed before its j-th event.       *)
Closed(items, j) ==
  LET before == Len(TextEnd(items))
  IN  IF j <= before THEN 0
      ELSE IF j <= before + Len(CallsOf(items)) THEN j - before - 1
      ELSE Len(CallsOf(items))

HeardAt(adapter, items, at, calls) ==
  IF adapter = "openai_compat"
  THEN StartsWith(calls, CallsOf(items), IF at.part <= Len(items) THEN 0 ELSE Closed(items, at.event))
  ELSE calls = CallsWithin(items, IF at.part = 0 THEN 0 ELSE at.part - 1)

(* A place of the stream that strict validation lets be reached: a fragment *)
(* of arguments is never let through, so no event behind one is.            *)
Placed(adapter, answered, at) ==
  /\ at.part \in 0 .. Len(answered.items) + 1
  /\ at.event \in 1 .. Len(StreamPart(adapter, answered, at.part))
  /\ /\ adapter = "openai" /\ at.part \in 1 .. Len(answered.items)
     /\ IsCall(answered.items[at.part]) /\ answered.items[at.part].args
     => at.event <= 2

(* Behind a FINISH only the second one of that adapter can come.           *)
SecondFinish(adapter, items, at) ==
  /\ adapter = "openai_compat" /\ at.part = Len(items) + 1
  /\ at.event = Len(TextEnd(items)) + Len(CallsOf(items)) + 2

(* What arrives is a beginning of what the provider said, and all of it     *)
(* unless the adapter is Gemini's.                                         *)
Carried ==
  /\ answer \in Answers /\ arrived.items \in Seq(ItemFields)
  /\ Len(arrived.items) <= Len(answer.items)
  /\ arrived.items = SubSeq(answer.items, 1, Len(arrived.items))
  /\ job.adapter # "gemini" => arrived = answer

HearingInv ==
  /\ Carried
  /\ feed # Nothing => /\ Placed(job.adapter, arrived, feed)
                       /\ HeardAt(job.adapter, arrived.items, feed, acc.calls)
  /\ open.finished => /\ acc.calls = CallsOf(arrived.items)
                      /\ feed = Nothing \/ SecondFinish(job.adapter, arrived.items, feed)

ExactInv ==
  /\ job \in Jobs
  /\ outcome = "result" => pc = "over"
  /\ Strict /\ pc = "events" => HearingInv
  /\ Strict /\ (pc = "tools" \/ outcome = "result") => Carried /\ acc.calls = CallsOf(arrived.items)

LEMMA FragmentRefused ==
  ASSUME NEW opened PROVE Violates(opened, Event("call_delta", NoCall))
<1> DEFINE e == Event("call_delta", NoCall)
<1>1. e.type = "call_delta" /\ e.call = NoCall
  BY DEF Event
<1> HIDE DEF e
<1>2. Violates(opened, e) = (opened.call = NoCall \/ e.call # opened.call)
  BY <1>1, Zenon DEF Violates
<1> QED BY <1>1, <1>2 DEF e

LEMMA HeardCalls ==
  ASSUME NEW heard, NEW e
  PROVE  /\ e.type = "call_end" => Heard(heard, e).calls = Append(heard.calls, e.call)
         /\ e.type # "call_end" => Heard(heard, e).calls = heard.calls
BY DEF Heard

LEMMA PartsNotEmpty ==
  ASSUME NEW adapter \in Adapters, NEW answered, answered.items \in Seq(ItemFields),
         NEW k \in 0 .. Len(answered.items) + 1
  PROVE  Len(StreamPart(adapter, answered, k)) \in Nat \ {0}
<1> DEFINE items == answered.items
<1>1. CASE k = 0
  BY <1>1 DEF StreamPart, Opening
<1>2. CASE k \in 1 .. Len(items)
  <2>1. StreamPart(adapter, answered, k) = Block(adapter, items, k) /\ items[k] \in ItemFields
    BY <1>2 DEF StreamPart
  <2> DEFINE p == Block(adapter, items, k)
  <2>2. QuietPart(p) \/ CallPart(p, items[k].call) \/ FragmentPart(p)
    <3>1. adapter = "openai_compat" \/ adapter \in {"anthropic", "gemini"} \/ adapter = "openai"
      BY DEF Adapters
    <3> QED BY <2>1, <3>1, BlockShape
  <2> HIDE DEF p
  <2>3. Len(p) \in Nat \ {0}
    BY <2>2 DEF QuietPart, CallPart, FragmentPart
  <2> QED BY <2>1, <2>3 DEF p
<1>3. CASE k = Len(items) + 1
  <2>1. StreamPart(adapter, answered, k) = Closing(adapter, items, answered.reason)
    BY <1>3 DEF StreamPart
  <2>2. CASE adapter = "openai_compat"
    <3> DEFINE t == Len(TextEnd(items))
               m == Len(CallsOf(items))
    <3>1. /\ t \in {0, 1} /\ m \in Nat
          /\ Len(Closing(adapter, items, answered.reason)) = t + m + 2
      <4>1. ClosesCalls(Closing(adapter, items, answered.reason), CallsOf(items), t, m)
        BY <2>2, CompatClosingShape
      <4> QED BY <4>1 DEF ClosesCalls
    <3> HIDE DEF t, m
    <3> QED BY <2>1, <3>1
  <2>3. CASE adapter # "openai_compat"
    BY <2>1, <2>3, ClosingShape DEF FinishPart
  <2> QED BY <2>2, <2>3
<1> QED BY <1>1, <1>2, <1>3

(* One event of a stream that strict validation lets through: what the      *)
(* caller's side knows keeps in step with the place in the stream, and when *)
(* a FINISH comes it knows every call.                                     *)
Moves(adapter, answered, at, heard) ==
  LET items == answered.items
      e == EventAt(adapter, answered, at)
      next == NextEvent(adapter, answered, at)
      later == Heard(heard, e).calls
  IN  /\ next # Nothing => Placed(adapter, answered, next) /\ HeardAt(adapter, items, next, later)
      /\ e.type = "finish" => /\ later = CallsOf(items)
                              /\ next = Nothing \/ SecondFinish(adapter, items, next)
      /\ SecondFinish(adapter, items, at) => e.type = "finish"

(* The place after an event, with what is known of its range.              *)
Succeeds(adapter, answered, at, len, next) ==
  /\ Len(answered.items) \in Nat /\ at.part \in 0 .. Len(answered.items) + 1
  /\ len \in Nat \ {0} /\ at.event \in 1 .. len
  /\ at.event < len => next = [part |-> at.part, event |-> at.event + 1]
  /\ at.event = len /\ at.part <= Len(answered.items) =>
       /\ next = [part |-> at.part + 1, event |-> 1]
       /\ 1 \in 1 .. Len(StreamPart(adapter, answered, at.part + 1))
  /\ at.event = len /\ at.part = Len(answered.items) + 1 => next = Nothing

LEMMA NextPlace ==
  ASSUME NEW adapter \in Adapters, NEW answered, answered.items \in Seq(ItemFields),
         NEW at, Placed(adapter, answered, at)
  PROVE  Succeeds(adapter, answered, at, Len(StreamPart(adapter, answered, at.part)),
                  NextEvent(adapter, answered, at))
<1> DEFINE len == Len(StreamPart(adapter, answered, at.part))
<1>1. Len(answered.items) \in Nat /\ at.part \in 0 .. Len(answered.items) + 1
  BY DEF Placed
<1>2. len \in Nat \ {0} /\ at.event \in 1 .. len
  BY <1>1, PartsNotEmpty DEF Placed
<1>3. at.part <= Len(answered.items) => 1 \in 1 .. Len(StreamPart(adapter, answered, at.part + 1))
  <2>1. SUFFICES ASSUME at.part <= Len(answered.items)
                 PROVE  1 \in 1 .. Len(StreamPart(adapter, answered, at.part + 1))
    OBVIOUS
  <2>2. at.part + 1 \in 0 .. Len(answered.items) + 1
    BY <1>1, <2>1
  <2>3. Len(StreamPart(adapter, answered, at.part + 1)) \in Nat \ {0}
    BY <2>2, PartsNotEmpty
  <2> QED BY <2>3
<1> QED BY <1>1, <1>2, <1>3 DEF NextEvent, NextPart, Succeeds

LEMMA MovesOpening ==
  ASSUME NEW adapter \in Adapters, NEW answered, answered.items \in Seq(ItemFields),
         NEW at, Placed(adapter, answered, at), at.part = 0,
         NEW heard, HeardAt(adapter, answered.items, at, heard.calls)
  PROVE  Moves(adapter, answered, at, heard)
<1> DEFINE items == answered.items
           e == EventAt(adapter, answered, at)
           next == NextEvent(adapter, answered, at)
           later == Heard(heard, e).calls
<1>1. StreamPart(adapter, answered, at.part) = Opening /\ Len(Opening) = 1
      /\ Opening[1] = Event("stream_start", NoCall)
  BY DEF StreamPart, Opening
<1>2. /\ Len(items) \in Nat /\ at.event = 1
      /\ next = [part |-> 1, event |-> 1]
      /\ 1 \in 1 .. Len(StreamPart(adapter, answered, 1))
  <2>1. Succeeds(adapter, answered, at, Len(Opening), next)
    BY <1>1, NextPlace
  <2> HIDE DEF next
  <2> QED BY <1>1, <2>1 DEF Succeeds
<1>3. e.type = "stream_start"
  BY <1>1, <1>2 DEF EventAt, Event
<1> HIDE DEF e, next
<1>4. later = heard.calls
  BY <1>3, HeardCalls
<1>5. Placed(adapter, answered, next)
  BY <1>2 DEF Placed
<1> HIDE DEF later
<1>6. CASE adapter # "openai_compat"
  <2>1. heard.calls = CallsWithin(items, 0)
    BY <1>6 DEF HeardAt
  <2>2. HeardAt(adapter, items, next, later)
    BY <1>2, <1>4, <1>6, <2>1 DEF HeardAt
  <2>3. ~SecondFinish(adapter, items, at)
    BY <1>6 DEF SecondFinish
  <2> QED BY <1>3, <1>5, <2>2, <2>3 DEF Moves, e, next, later
<1>7. CASE adapter = "openai_compat"
  <2>1. StartsWith(heard.calls, CallsOf(items), 0)
    BY <1>2, <1>7 DEF HeardAt
  <2>2. Len(items) = 0 => Closed(items, 1) = 0
    <3>1. Len(TextEnd(items)) \in {0, 1} /\ Len(CallsOf(items)) \in Nat
      BY TextEndShape, CallsOfSequence
    <3> DEFINE t == Len(TextEnd(items))
               m == Len(CallsOf(items))
    <3>2. Closed(items, 1) = IF 1 <= t THEN 0 ELSE IF 1 <= t + m THEN 1 - t - 1 ELSE m
      BY DEF Closed
    <3>3. t \in {0, 1} /\ m \in Nat
      BY <3>1
    <3> HIDE DEF t, m
    <3> QED BY <3>2, <3>3
  <2>3. HeardAt(adapter, items, next, later)
    <3>1. (IF next.part <= Len(items) THEN 0 ELSE Closed(items, next.event)) = 0
      BY <1>2, <2>2
    <3> QED BY <1>4, <1>7, <2>1, <3>1 DEF HeardAt
  <2>4. ~SecondFinish(adapter, items, at)
    BY <1>2 DEF SecondFinish
  <2> QED BY <1>3, <1>5, <2>3, <2>4 DEF Moves, e, next, later
<1> QED BY <1>6, <1>7

LEMMA MovesBlock ==
  ASSUME NEW adapter \in Adapters, NEW answered, answered.items \in Seq(ItemFields),
         NEW at, Placed(adapter, answered, at), at.part \in 1 .. Len(answered.items),
         adapter # "openai_compat",
         NEW heard, HeardAt(adapter, answered.items, at, heard.calls),
         EventAt(adapter, answered, at) # Event("call_delta", NoCall) \/ adapter # "openai"
  PROVE  Moves(adapter, answered, at, heard)
<1> DEFINE items == answered.items
           k == at.part
           part == Block(adapter, items, k)
           e == EventAt(adapter, answered, at)
           next == NextEvent(adapter, answered, at)
           later == Heard(heard, e).calls
<1>1. /\ StreamPart(adapter, answered, at.part) = part /\ e = part[at.event]
      /\ items[k] \in ItemFields /\ Len(items) \in Nat /\ k \in Nat
  BY DEF StreamPart, EventAt
<1>2. /\ at.event \in 1 .. Len(part) /\ Len(part) \in Nat
      /\ at.event < Len(part) => next = [part |-> k, event |-> at.event + 1]
      /\ at.event = Len(part) => /\ next = [part |-> k + 1, event |-> 1]
                                 /\ 1 \in 1 .. Len(StreamPart(adapter, answered, k + 1))
  <2>1. Succeeds(adapter, answered, at, Len(part), next)
    BY <1>1, NextPlace
  <2> HIDE DEF next, part
  <2> QED BY <1>1, <2>1 DEF Succeeds
<1>3. heard.calls = CallsWithin(items, k - 1)
  BY DEF HeardAt
<1>4. ~SecondFinish(adapter, items, at)
  BY DEF SecondFinish
<1> HIDE DEF e, next, part
<1>5. /\ IsCall(items[k]) => CallsWithin(items, k) = Append(CallsWithin(items, k - 1), items[k].call)
      /\ ~IsCall(items[k]) => CallsWithin(items, k) = CallsWithin(items, k - 1)
  <2>1. k - 1 \in Nat /\ (k - 1) + 1 = k
    BY <1>1
  <2> QED BY <2>1, OneMoreCall, NoMoreCall
<1>6. ASSUME ~Tells(e), at.event < Len(part),
             ~(adapter = "openai" /\ IsCall(items[k]) /\ items[k].args /\ at.event >= 2)
      PROVE  Moves(adapter, answered, at, heard)
  <2>1. later = heard.calls
    BY <1>6, HeardCalls DEF Tells
  <2>2. Placed(adapter, answered, next)
    BY <1>1, <1>2, <1>6 DEF Placed
  <2> HIDE DEF later
  <2>3. HeardAt(adapter, items, next, later)
    BY <1>1, <1>2, <1>3, <1>6, <2>1 DEF HeardAt
  <2> QED BY <1>4, <1>6, <2>2, <2>3 DEF Moves, Tells, e, next, later
<1>7. ASSUME at.event = Len(part), e.type # "finish", later = CallsWithin(items, k)
      PROVE  Moves(adapter, answered, at, heard)
  <2>1. Placed(adapter, answered, next)
    BY <1>1, <1>2, <1>7 DEF Placed
  <2> HIDE DEF later
  <2>2. HeardAt(adapter, items, next, later)
    BY <1>1, <1>2, <1>7 DEF HeardAt
  <2> QED BY <1>4, <1>7, <2>1, <2>2 DEF Moves, e, next, later
<1>8. CASE QuietPart(part) /\ ~IsCall(items[k])
  <2>1. ~Tells(e)
    BY <1>1, <1>2, <1>8 DEF QuietPart
  <2>2. CASE at.event < Len(part)
    BY <1>6, <1>8, <2>1, <2>2
  <2>3. CASE at.event = Len(part)
    <3>1. later = CallsWithin(items, k)
      BY <1>3, <1>5, <1>8, <2>1, HeardCalls DEF Tells
    <3> HIDE DEF later
    <3> QED BY <1>7, <2>1, <2>3, <3>1 DEF Tells
  <2> QED BY <1>2, <2>2, <2>3
<1>9. CASE CallPart(part, items[k].call) /\ IsCall(items[k]) /\ ~(adapter = "openai" /\ items[k].args)
  <2>1. CASE at.event < Len(part)
    <3>1. ~Tells(e)
      BY <1>1, <1>2, <1>9, <2>1 DEF CallPart
    <3> QED BY <1>6, <1>9, <2>1, <3>1
  <2>2. CASE at.event = Len(part)
    <3>1. e.type = "call_end" /\ e.call = items[k].call
      BY <1>1, <1>9, <2>2 DEF CallPart, Event
    <3>2. later = CallsWithin(items, k)
      BY <1>3, <1>5, <1>9, <3>1, HeardCalls
    <3> HIDE DEF later
    <3> QED BY <1>7, <2>2, <3>1, <3>2
  <2> QED BY <1>2, <2>1, <2>2
<1>10. CASE FragmentPart(part) /\ IsCall(items[k]) /\ adapter = "openai" /\ items[k].args
  <2>1. at.event <= 2
    BY <1>10 DEF Placed
  <2>2. at.event = 1
    BY <1>1, <1>2, <1>10, <2>1 DEF FragmentPart, e
  <2>3. ~Tells(e) /\ at.event < Len(part)
    BY <1>1, <1>10, <2>2 DEF FragmentPart
  <2> QED BY <1>6, <2>2, <2>3
<1>11. adapter \in {"anthropic", "gemini"} \/ adapter = "openai"
  BY DEF Adapters
<1>12. items[k].args \/ ~items[k].args
  OBVIOUS
<1> QED BY <1>1, <1>8, <1>9, <1>10, <1>11, <1>12, BlockShape DEF part

(* The adapter that closes its calls at the end tells nothing before it.   *)
LEMMA NothingClosedAtFirst ==
  ASSUME NEW items \in Seq(ItemFields)
  PROVE  Closed(items, 1) = 0
<1> DEFINE t == Len(TextEnd(items))
           m == Len(CallsOf(items))
<1>1. Closed(items, 1) = IF 1 <= t THEN 0 ELSE IF 1 <= t + m THEN 1 - t - 1 ELSE m
  BY DEF Closed
<1>2. t \in {0, 1} /\ m \in Nat
  BY CompatClosingShape DEF ClosesCalls
<1> HIDE DEF t, m
<1> QED BY <1>1, <1>2

LEMMA MovesCompatBlock ==
  ASSUME NEW adapter, adapter = "openai_compat",
         NEW answered, answered.items \in Seq(ItemFields),
         NEW at, Placed(adapter, answered, at), at.part \in 1 .. Len(answered.items),
         NEW heard, HeardAt(adapter, answered.items, at, heard.calls)
  PROVE  Moves(adapter, answered, at, heard)
<1> DEFINE items == answered.items
           part == Block(adapter, items, at.part)
           e == EventAt(adapter, answered, at)
           next == NextEvent(adapter, answered, at)
           later == Heard(heard, e).calls
<1>1. /\ StreamPart(adapter, answered, at.part) = part /\ e = part[at.event]
      /\ items[at.part] \in ItemFields /\ Len(items) \in Nat /\ adapter \in Adapters
  BY DEF StreamPart, EventAt, Adapters
<1>2. QuietPart(part)
  BY <1>1, BlockShape
<1>3. /\ at.event \in 1 .. Len(part)
      /\ \/ next = [part |-> at.part, event |-> at.event + 1] /\ at.event + 1 \in 1 .. Len(part)
         \/ /\ next = [part |-> at.part + 1, event |-> 1]
            /\ 1 \in 1 .. Len(StreamPart(adapter, answered, at.part + 1))
  <2>1. Succeeds(adapter, answered, at, Len(part), next)
    BY <1>1, NextPlace
  <2> HIDE DEF next, part
  <2> QED BY <1>1, <2>1 DEF Succeeds
<1>4. ~Tells(e)
  BY <1>1, <1>2, <1>3 DEF QuietPart
<1> HIDE DEF e, next, part
<1>5. later = heard.calls
  BY <1>4, HeardCalls DEF Tells
<1>6. Placed(adapter, answered, next)
  BY <1>1, <1>3 DEF Placed
<1>7. StartsWith(heard.calls, CallsOf(items), 0)
  BY DEF HeardAt
<1>8. (IF next.part <= Len(items) THEN 0 ELSE Closed(items, next.event)) = 0
  <2>1. next.part <= Len(items) \/ next.event = 1
    BY <1>3
  <2> QED BY <2>1, NothingClosedAtFirst
<1> HIDE DEF later
<1>9. HeardAt(adapter, items, next, later)
  BY <1>5, <1>7, <1>8 DEF HeardAt
<1>10. ~SecondFinish(adapter, items, at)
  BY <1>1 DEF SecondFinish
<1> QED BY <1>4, <1>6, <1>9, <1>10 DEF Moves, Tells, e, next, later

LEMMA MovesClosing ==
  ASSUME NEW adapter \in Adapters, adapter # "openai_compat",
         NEW answered, answered.items \in Seq(ItemFields),
         NEW at, Placed(adapter, answered, at), at.part = Len(answered.items) + 1,
         NEW heard, HeardAt(adapter, answered.items, at, heard.calls)
  PROVE  Moves(adapter, answered, at, heard)
<1> DEFINE items == answered.items
           part == Closing(adapter, items, answered.reason)
           e == EventAt(adapter, answered, at)
           next == NextEvent(adapter, answered, at)
           later == Heard(heard, e).calls
<1>1. /\ StreamPart(adapter, answered, at.part) = part /\ e = part[at.event]
      /\ Len(items) \in Nat
  BY DEF StreamPart, EventAt
<1>2. FinishPart(part)
  BY <1>1, ClosingShape
<1>3. /\ at.event \in 1 .. Len(part)
      /\ \/ at.event < Len(part) /\ next = [part |-> at.part, event |-> at.event + 1]
         \/ at.event = Len(part) /\ next = Nothing
  <2>1. Succeeds(adapter, answered, at, Len(part), next)
    BY <1>1, NextPlace
  <2> HIDE DEF next, part
  <2> QED BY <1>1, <2>1 DEF Succeeds
<1>4. heard.calls = CallsWithin(items, Len(items)) /\ CallsOf(items) = CallsWithin(items, Len(items))
  BY <1>1 DEF HeardAt, CallsOf
<1>5. ~SecondFinish(adapter, items, at)
  BY DEF SecondFinish
<1> HIDE DEF e, next, part
<1>6. e.type # "call_end"
  BY <1>1, <1>2, <1>3 DEF FinishPart, Tells
<1>7. later = heard.calls
  BY <1>6, HeardCalls
<1> HIDE DEF later
<1>8. CASE at.event < Len(part)
  <2>1. ~Tells(e)
    BY <1>1, <1>2, <1>3, <1>8 DEF FinishPart
  <2>2. next = [part |-> at.part, event |-> at.event + 1] /\ at.event \in Nat /\ Len(part) \in Nat
    BY <1>2, <1>3, <1>8 DEF FinishPart
  <2>3. Placed(adapter, answered, next)
    BY <1>1, <1>3, <1>8, <2>2 DEF Placed
  <2>4. HeardAt(adapter, items, next, later)
    BY <1>1, <1>4, <1>7, <2>2 DEF HeardAt
  <2> QED BY <1>5, <2>1, <2>3, <2>4 DEF Moves, Tells, e, next, later
<1>9. CASE at.event = Len(part)
  <2>1. next = Nothing
    BY <1>2, <1>3, <1>9 DEF FinishPart
  <2> QED BY <1>4, <1>5, <1>7, <2>1 DEF Moves, e, next, later
<1> QED BY <1>3, <1>8, <1>9

LEMMA StartsWithMore ==
  ASSUME NEW calls, NEW all, NEW n \in Nat, StartsWith(calls, all, n), n + 1 <= Len(all)
  PROVE  StartsWith(Append(calls, all[n + 1]), all, n + 1)
<1>1. PICK S : calls \in Seq(S)
  BY DEF StartsWith, IsSequence
<1> DEFINE T == S \cup {all[n + 1]}
           one == all[n + 1]
<1>2. calls \in Seq(T) /\ one \in T
  BY <1>1
<1>3. Len(calls) = n /\ \A i \in 1 .. n : calls[i] = all[i]
  BY DEF StartsWith
<1> HIDE DEF T, one
<1>4. /\ Append(calls, one) \in Seq(T) /\ Len(Append(calls, one)) = n + 1
      /\ \A i \in 1 .. n : Append(calls, one)[i] = all[i]
      /\ Append(calls, one)[n + 1] = one
  BY <1>2, <1>3, AppendProperties
<1>5. \A i \in 1 .. n + 1 : Append(calls, one)[i] = all[i]
  BY <1>4 DEF one
<1> QED BY <1>4, <1>5 DEF StartsWith, IsSequence, one

LEMMA StartsWithAll ==
  ASSUME NEW calls, NEW all, IsSequence(all), StartsWith(calls, all, Len(all))
  PROVE  calls = all
<1>1. PICK S, T : calls \in Seq(S) /\ all \in Seq(T)
  BY DEF StartsWith, IsSequence
<1>2. calls \in Seq(S \cup T) /\ all \in Seq(S \cup T)
  BY <1>1
<1> QED BY <1>2, SeqEqual DEF StartsWith

LEMMA MovesCompatClosing ==
  ASSUME NEW adapter, adapter = "openai_compat",
         NEW answered, answered.items \in Seq(ItemFields),
         NEW at, Placed(adapter, answered, at), at.part = Len(answered.items) + 1,
         NEW heard, HeardAt(adapter, answered.items, at, heard.calls)
  PROVE  Moves(adapter, answered, at, heard)
<1> DEFINE items == answered.items
           part == Closing(adapter, items, answered.reason)
           e == EventAt(adapter, answered, at)
           next == NextEvent(adapter, answered, at)
           later == Heard(heard, e).calls
           all == CallsOf(items)
           t == Len(TextEnd(items))
           m == Len(all)
           j == at.event
<1>1. /\ StreamPart(adapter, answered, at.part) = part /\ e = part[at.event]
      /\ Len(items) \in Nat /\ adapter \in Adapters
  BY DEF StreamPart, EventAt, Adapters
<1>2. ClosesCalls(part, all, t, m)
  BY CompatClosingShape
<1>3. /\ j \in 1 .. Len(part)
      /\ \/ j < Len(part) /\ next = [part |-> at.part, event |-> j + 1]
         \/ j = Len(part) /\ next = Nothing
  <2>1. Succeeds(adapter, answered, at, Len(part), next)
    BY <1>1, NextPlace
  <2> HIDE DEF next, part
  <2> QED BY <1>1, <2>1 DEF Succeeds
<1>4. IsSequence(all)
  BY CallsOfSequence
<1>5. \A q : Closed(items, q) = IF q <= t THEN 0 ELSE IF q <= t + m THEN q - t - 1 ELSE m
  BY DEF Closed
<1>6. StartsWith(heard.calls, all, Closed(items, j))
  BY <1>1 DEF HeardAt
<1> DEFINE last == j = t + m + 2
<1>7. SecondFinish(adapter, items, at) <=> last
  BY DEF SecondFinish
<1>8. next # Nothing =>
        /\ Placed(adapter, answered, next)
        /\ HeardAt(adapter, items, next, later) <=> StartsWith(later, all, Closed(items, j + 1))
        /\ SecondFinish(adapter, items, next) <=> j + 1 = t + m + 2
  <2>1. SUFFICES ASSUME next # Nothing
        PROVE /\ Placed(adapter, answered, next)
              /\ HeardAt(adapter, items, next, later) <=> StartsWith(later, all, Closed(items, j + 1))
              /\ SecondFinish(adapter, items, next) <=> j + 1 = t + m + 2
    OBVIOUS
  <2> HIDE DEF next, part, later, all, t, m
  <2>2. next = [part |-> at.part, event |-> j + 1] /\ j < Len(part)
    BY <1>3, <2>1
  <2>3. next.part = at.part /\ next.event = j + 1
    BY <2>2
  <2>4. Placed(adapter, answered, next)
    BY <1>1, <1>2, <1>3, <2>2, <2>3 DEF Placed, ClosesCalls
  <2>5. HeardAt(adapter, items, next, later) <=> StartsWith(later, all, Closed(items, j + 1))
    BY <1>1, <2>3 DEF HeardAt, all
  <2>6. SecondFinish(adapter, items, next) <=> j + 1 = t + m + 2
    BY <2>3 DEF SecondFinish, t, m, all
  <2> QED BY <2>4, <2>5, <2>6
<1> HIDE DEF items, e, next, part, all, t, m, j
<1>9. /\ t \in {0, 1} /\ m \in Nat /\ Len(part) = t + m + 2 /\ j \in 1 .. t + m + 2
      /\ (next # Nothing <=> j < t + m + 2)
  <2>1. t \in {0, 1} /\ m \in Nat /\ Len(part) = t + m + 2
    BY <1>2 DEF ClosesCalls
  <2>2. [part |-> at.part, event |-> j + 1] # Nothing
    BY <1>3, <2>1 DEF Nothing
  <2> QED BY <1>3, <2>1, <2>2
<1> DEFINE Goal == /\ next # Nothing => StartsWith(later, all, Closed(items, j + 1))
                   /\ e.type = "finish" => later = all /\ j >= t + m + 1
                   /\ last => e.type = "finish"
<1>10. ASSUME j <= t PROVE Goal
  <2>1. ~Tells(e)
    BY <1>1, <1>2, <1>9, <1>10 DEF ClosesCalls, j
  <2>2. later = heard.calls
    BY <2>1, HeardCalls DEF Tells
  <2> HIDE DEF later
  <2>3. Closed(items, j) = 0 /\ Closed(items, j + 1) = 0
    BY <1>5, <1>9, <1>10
  <2> QED BY <1>6, <1>9, <1>10, <2>1, <2>2, <2>3 DEF Tells
<1>11. ASSUME t < j, j <= t + m PROVE Goal
  <2>1. j - t \in 1 .. m /\ t + (j - t) = j /\ j - t - 1 \in Nat /\ (j - t - 1) + 1 = j - t
    BY <1>9, <1>11
  <2>2. e = Event("call_end", all[j - t])
    BY <1>1, <1>2, <2>1 DEF ClosesCalls, j
  <2>3. e.type = "call_end" /\ e.call = all[j - t]
    BY <2>2 DEF Event
  <2>4. later = Append(heard.calls, all[j - t])
    BY <2>3, HeardCalls
  <2> HIDE DEF later
  <2>5. Closed(items, j) = j - t - 1 /\ Closed(items, j + 1) = j - t
    BY <1>5, <1>9, <1>11
  <2>6. StartsWith(later, all, j - t)
    <3>1. (j - t - 1) + 1 <= Len(all)
      BY <2>1 DEF m
    <3>2. StartsWith(heard.calls, all, j - t - 1)
      BY <1>6, <2>5
    <3>3. StartsWith(Append(heard.calls, all[(j - t - 1) + 1]), all, (j - t - 1) + 1)
      BY <2>1, <3>1, <3>2, StartsWithMore
    <3> QED BY <2>1, <2>4, <3>3
  <2> QED BY <1>9, <1>11, <2>3, <2>5, <2>6
<1>12. ASSUME t + m < j PROVE Goal
  <2>1. e.type = "finish"
    <3>1. j = t + m + 1 \/ j = t + m + 2
      BY <1>9, <1>12
    <3> QED BY <1>1, <1>2, <3>1 DEF ClosesCalls, j
  <2>2. later = heard.calls
    BY <2>1, HeardCalls
  <2> HIDE DEF later
  <2>3. Closed(items, j) = m /\ Closed(items, j + 1) = m
    BY <1>5, <1>9, <1>12
  <2>4. StartsWith(later, all, Len(all))
    BY <1>6, <2>2, <2>3 DEF m
  <2>5. later = all
    BY <1>4, <2>4, StartsWithAll
  <2> QED BY <1>9, <1>12, <2>1, <2>3, <2>4, <2>5 DEF m
<1>13. Goal
  BY <1>9, <1>10, <1>11, <1>12
<1> HIDE DEF later
<1>14. e.type = "finish" => next = Nothing \/ SecondFinish(adapter, items, next)
  BY <1>8, <1>9, <1>13
<1>15. /\ next # Nothing => Placed(adapter, answered, next) /\ HeardAt(adapter, items, next, later)
       /\ e.type = "finish" => later = all
       /\ SecondFinish(adapter, items, at) => e.type = "finish"
  BY <1>7, <1>8, <1>13
<1> QED BY <1>14, <1>15 DEF Moves, items, e, next, later, all

LEMMA StreamMoves ==
  ASSUME NEW adapter \in Adapters, NEW answered, answered.items \in Seq(ItemFields),
         NEW at, Placed(adapter, answered, at),
         NEW heard, HeardAt(adapter, answered.items, at, heard.calls),
         NEW opened, ~Violates(opened, EventAt(adapter, answered, at))
  PROVE  Moves(adapter, answered, at, heard)
<1>1. Len(answered.items) \in Nat /\ at.part \in 0 .. Len(answered.items) + 1
  BY DEF Placed
<1>2. EventAt(adapter, answered, at) # Event("call_delta", NoCall)
  BY FragmentRefused
<1>3. CASE at.part = 0
  BY <1>3, MovesOpening
<1>4. CASE at.part \in 1 .. Len(answered.items)
  <2>1. CASE adapter = "openai_compat"
    BY <1>4, <2>1, MovesCompatBlock
  <2>2. CASE adapter # "openai_compat"
    BY <1>2, <1>4, <2>2, MovesBlock
  <2> QED BY <2>1, <2>2
<1>5. CASE at.part = Len(answered.items) + 1
  <2>1. CASE adapter = "openai_compat"
    BY <1>5, <2>1, MovesCompatClosing
  <2>2. CASE adapter # "openai_compat"
    BY <1>5, <2>2, MovesClosing
  <2> QED BY <2>1, <2>2
<1> QED BY <1>1, <1>3, <1>4, <1>5

LEMMA StreamStarts ==
  ASSUME NEW adapter \in Adapters, NEW answered, answered.items \in Seq(ItemFields)
  PROVE  /\ Placed(adapter, answered, FirstEvent(adapter))
         /\ HeardAt(adapter, answered.items, FirstEvent(adapter), <<>>)
<1> DEFINE at == FirstEvent(adapter)
           items == answered.items
<1>1. /\ at.event = 1 /\ Len(items) \in Nat
      /\ at.part = 0 \/ (at.part = 1 /\ adapter = "gemini")
  BY DEF FirstEvent
<1> HIDE DEF at
<1>2. at.part \in 0 .. Len(items) + 1
  BY <1>1
<1>3. Len(StreamPart(adapter, answered, at.part)) \in Nat \ {0}
  BY <1>2, PartsNotEmpty
<1>4. Placed(adapter, answered, at)
  BY <1>1, <1>2, <1>3 DEF Placed
<1>5. CASE adapter = "openai_compat"
  <2>1. StartsWith(<<>>, CallsOf(items), 0)
    <3>1. Len(CallsOf(items)) \in Nat
      BY CallsOfSequence
    <3>2. <<>> \in Seq({}) /\ Len(<<>>) = 0
      OBVIOUS
    <3> QED BY <3>1, <3>2 DEF StartsWith, IsSequence
  <2>2. at.part <= Len(items)
    BY <1>1, <1>5
  <2> QED BY <1>4, <1>5, <2>1, <2>2 DEF HeardAt, at
<1>6. CASE adapter # "openai_compat"
  <2>1. (IF at.part = 0 THEN 0 ELSE at.part - 1) = 0
    BY <1>1
  <2>2. CallsWithin(items, 0) = <<>>
    BY NoneWithinZero
  <2>3. HeardAt(adapter, items, at, <<>>)
    BY <1>6, <2>1, <2>2 DEF HeardAt
  <2> QED BY <1>4, <2>3 DEF at
<1> QED BY <1>5, <1>6

LEMMA ExactInitially == Init => ExactInv
BY DEF Init, ExactInv

LEMMA StreamOpens == ExactInv /\ OpenStream => ExactInv'
<1> SUFFICES ASSUME ExactInv, OpenStream PROVE ExactInv'
  OBVIOUS
<1>1. PICK a \in Answers : answer' = a /\ arrived' = a
  BY DEF OpenStream
<1>2. job' = job /\ feed' = FirstEvent(job.adapter) /\ open' = NothingOpen /\ acc' = NothingHeard
      /\ pc' = "events" /\ outcome' = outcome /\ pc = "calling"
  BY DEF OpenStream, environment
<1>3. job.adapter \in Adapters
  BY JobsAssumption DEF ExactInv, JobFields
<1>4. arrived'.items \in Seq(ItemFields)
  BY <1>1, AnswersAssumption
<1>5. /\ Placed(job.adapter, arrived', feed')
      /\ HeardAt(job.adapter, arrived'.items, feed', <<>>)
  BY <1>2, <1>3, <1>4, StreamStarts
<1>6. acc'.calls = <<>> /\ open'.finished = FALSE
  BY <1>2 DEF NothingHeard, NothingOpen
<1>7. Carried'
  <2>1. a.items \in Seq(ItemFields)
    BY AnswersAssumption
  <2>2. SubSeq(a.items, 1, Len(a.items)) = a.items
    BY <2>1, WholeSubSeq
  <2> QED BY <1>1, <2>1, <2>2 DEF Carried
<1>8. HearingInv'
  BY <1>1, <1>2, <1>5, <1>6, <1>7 DEF HearingInv
<1> QED BY <1>2, <1>8 DEF ExactInv, Strict, Carried

LEMMA EventHeard == ExactInv /\ EventArrives => ExactInv'
<1> SUFFICES ASSUME ExactInv, EventArrives PROVE ExactInv'
  OBVIOUS
<1> DEFINE e == EventAt(job.adapter, arrived, feed)
<1>1. CASE job.mode = "strict" /\ Violates(open, e)
  <2>1. /\ job' = job /\ answer' = answer /\ arrived' = arrived /\ acc' = acc
        /\ (pc' = "backoff" /\ outcome' = outcome) \/ (pc' = "over" /\ outcome' = "protocol")
    BY <1>1 DEF EventArrives, Failed, Return, environment
  <2> QED BY <2>1 DEF ExactInv, Strict, EventArrives
<1>2. CASE ~(job.mode = "strict" /\ Violates(open, e))
  <2>1. /\ job' = job /\ answer' = answer /\ arrived' = arrived
        /\ open' = AfterEvent(open, e) /\ acc' = Heard(acc, e)
        /\ feed' = NextEvent(job.adapter, arrived, feed) /\ pc = "events" /\ feed # Nothing
        /\ (pc' = pc /\ outcome' = outcome) \/ (pc' = "over" /\ outcome' \in {"abort", "timeout"})
    BY <1>2 DEF EventArrives, Return, environment, Noticed
  <2>2. CASE ~Strict
    BY <2>1, <2>2 DEF ExactInv, Strict, Carried
  <2>3. CASE Strict
    <3>1. HearingInv /\ ~Violates(open, e)
      BY <1>2, <2>1, <2>3 DEF ExactInv, Strict, Carried
    <3>2. job.adapter \in Adapters /\ arrived.items \in Seq(ItemFields) /\ Carried
      BY <3>1, JobsAssumption DEF ExactInv, JobFields, HearingInv, Carried
    <3>3. /\ Placed(job.adapter, arrived, feed)
          /\ HeardAt(job.adapter, arrived.items, feed, acc.calls)
      BY <2>1, <3>1 DEF HearingInv
    <3>4. Moves(job.adapter, arrived, feed, acc)
      BY <3>1, <3>2, <3>3, StreamMoves
    <3>5. /\ feed' # Nothing => /\ Placed(job.adapter, arrived, feed')
                                /\ HeardAt(job.adapter, arrived.items, feed', acc'.calls)
          /\ e.type = "finish" => /\ acc'.calls = CallsOf(arrived.items)
                                  /\ feed' = Nothing \/ SecondFinish(job.adapter, arrived.items, feed')
          /\ SecondFinish(job.adapter, arrived.items, feed) => e.type = "finish"
      BY <2>1, <3>4 DEF Moves
    <3>6. open'.finished => open.finished \/ e.type = "finish"
      BY <2>1 DEF AfterEvent
    <3>7. open.finished => e.type = "finish"
      BY <2>1, <3>1, <3>5 DEF HearingInv
    <3> HIDE DEF e
    <3>8. HearingInv'
      BY <2>1, <3>2, <3>5, <3>6, <3>7 DEF HearingInv, Carried
    <3> QED BY <2>1, <2>3, <3>8 DEF ExactInv, Strict, Carried
  <2> QED BY <2>2, <2>3
<1> QED BY <1>1, <1>2

(* A cut stream of Gemini's goes on as the whole stream of a shorter answer. *)
LEMMA StreamBreaks == ExactInv /\ StreamCut => ExactInv'
<1> SUFFICES ASSUME ExactInv, StreamCut PROVE ExactInv'
  OBVIOUS
<1>1. UNCHANGED <<job, answer, acc, open, pc, outcome>> /\ pc = "events"
  BY DEF StreamCut, environment
<1>2. CASE ~Strict
  BY <1>1, <1>2 DEF ExactInv, Strict
<1>3. CASE Strict /\ job.adapter # "gemini"
  <2>1. feed' = Nothing /\ arrived' = arrived
    BY <1>3 DEF StreamCut
  <2> QED BY <1>1, <2>1 DEF ExactInv, Strict, HearingInv, Carried
<1>4. CASE Strict /\ job.adapter = "gemini"
  <2>1. /\ feed # Nothing /\ feed' = feed /\ feed.event = 1
        /\ arrived' = Beginning(answer, feed.part - 1)
    BY <1>4 DEF StreamCut
  <2>2. HearingInv /\ job.adapter \in Adapters
    BY <1>1, <1>4, JobsAssumption DEF ExactInv, JobFields
  <2>3. /\ Carried /\ Placed(job.adapter, arrived, feed)
        /\ HeardAt(job.adapter, arrived.items, feed, acc.calls)
        /\ ~open.finished
    BY <1>4, <2>1, <2>2 DEF HearingInv, SecondFinish
  <2> DEFINE n == IF feed.part = 0 THEN 0 ELSE feed.part - 1
  <2>4. /\ answer.items \in Seq(ItemFields) /\ arrived.items \in Seq(ItemFields)
        /\ n \in Nat /\ n <= Len(arrived.items) /\ Len(arrived.items) <= Len(answer.items)
        /\ Len(answer.items) \in Nat /\ Len(arrived.items) \in Nat
        /\ feed.part = 0 \/ feed.part = n + 1
    BY <2>3, AnswersAssumption DEF Carried, Placed
  <2>5. acc.calls = CallsWithin(arrived.items, n)
    BY <1>4, <2>3 DEF HeardAt
  <2> HIDE DEF n
  <2>6. arrived'.items = SubSeq(answer.items, 1, n)
    BY <2>1, <2>4 DEF Beginning, n
  <2>7. /\ SubSeq(answer.items, 1, n) \in Seq(ItemFields) /\ Len(SubSeq(answer.items, 1, n)) = n
        /\ \A i \in 1 .. n : SubSeq(answer.items, 1, n)[i] = answer.items[i]
    BY <2>4
  <2>8. \A i \in 1 .. n : arrived.items[i] = answer.items[i]
    BY <2>3, <2>4 DEF Carried
  <2>9. CallsWithin(arrived'.items, n) = acc.calls
    <3> DEFINE short == SubSeq(answer.items, 1, n)
    <3>0. \A i \in 1 .. n : short[i] = answer.items[i]
      BY <2>7
    <3> HIDE DEF short
    <3>1. CallsWithin(short, n) = CallsWithin(answer.items, n)
      BY <2>4, <3>0, SameBeginning
    <3>2. CallsWithin(arrived.items, n) = CallsWithin(answer.items, n)
      BY <2>4, <2>8, SameBeginning
    <3>3. CallsWithin(arrived'.items, n) = CallsWithin(short, n)
      BY <2>6, Zenon DEF short
    <3> QED BY <2>5, <3>1, <3>2, <3>3
  <2>10. Carried'
    BY <1>1, <1>4, <2>3, <2>4, <2>6, <2>7 DEF Carried
  <2>11. Placed(job.adapter, arrived', feed)
    <3>1. feed.part \in 0 .. Len(arrived'.items) + 1
      BY <2>4, <2>6, <2>7
    <3>2. Len(StreamPart(job.adapter, arrived', feed.part)) \in Nat \ {0}
      BY <2>2, <2>6, <2>7, <3>1, PartsNotEmpty
    <3> QED BY <1>4, <2>1, <3>1, <3>2 DEF Placed
  <2>12. HeardAt(job.adapter, arrived'.items, feed, acc.calls)
    BY <1>4, <2>9 DEF HeardAt, n
  <2>13. HearingInv'
    BY <1>1, <2>1, <2>3, <2>10, <2>11, <2>12 DEF HearingInv
  <2> QED BY <1>1, <2>13 DEF ExactInv, Strict
<1> QED BY <1>2, <1>3, <1>4

LEMMA ExactSteps == ExactInv /\ [Next]_vars => ExactInv'
<1> SUFFICES ASSUME ExactInv, [Next]_vars PROVE ExactInv'
  OBVIOUS
<1> USE DEF Return, environment, stream
<1>1. CASE StartStep
  BY <1>1 DEF StartStep, ExactInv, Strict
<1>2. CASE Receive
  BY <1>2 DEF Receive, AfterAnswer, ExactInv, Strict
<1>3. CASE OpenStream
  BY <1>3, StreamOpens
<1>4. CASE EventArrives
  BY <1>4, EventHeard
<1>5. CASE StreamEnds
  <2>1. /\ job' = job /\ answer' = answer /\ arrived' = arrived /\ acc' = acc /\ pc = "events"
        /\ \/ (pc' = "backoff" /\ outcome' = outcome) \/ (pc' = "over" /\ outcome' \in {"protocol", "error"})
           \/ /\ job.mode = "strict" => open.finished
              /\ (pc' = "tools" /\ outcome' = outcome) \/ (pc' = "over" /\ outcome' = "result")
    BY <1>5 DEF StreamEnds, Failed, AfterAnswer
  <2> QED BY <2>1 DEF ExactInv, Strict, HearingInv, Carried
<1>6. CASE StreamCut
  BY <1>6, StreamBreaks
<1>7. ASSUME NEW retryable \in BOOLEAN, RequestFails(retryable) PROVE ExactInv'
  <2>1. /\ job' = job /\ answer' = answer /\ arrived' = arrived /\ acc' = acc /\ pc \in {"calling", "events"}
        /\ (pc' = "backoff" /\ outcome' = outcome) \/ (pc' = "over" /\ outcome' = "error")
    BY <1>7 DEF RequestFails, Failed
  <2> QED BY <2>1 DEF ExactInv, Strict, Carried
<1>8. CASE Wake
  BY <1>8 DEF Wake, ExactInv, Strict
<1>9. CASE ToolsDone
  <2>1. /\ job' = job /\ answer' = answer /\ arrived' = arrived /\ acc' = acc /\ pc = "tools"
        /\ \/ pc' = "over" /\ outcome' \in {"result", "abort", "timeout"}
           \/ pc' = "step" /\ outcome' = outcome
    BY <1>9 DEF ToolsDone, Noticed
  <2> QED BY <2>1 DEF ExactInv, Strict, Carried
<1>10. CASE AbortNoticed \/ TotalTimeout \/ StepTimeout \/ Cancelled
  <2>1. /\ job' = job /\ answer' = answer /\ arrived' = arrived /\ acc' = acc
        /\ pc' \in {"unwinding", "over"} /\ outcome' \in {"abort", "timeout", "cancelled"}
    BY <1>10 DEF AbortNoticed, TotalTimeout, StepTimeout, Cancelled, Interrupt
  <2> QED BY <2>1 DEF ExactInv, Strict, Carried
<1>11. CASE Unwound
  <2>1. /\ job' = job /\ answer' = answer /\ arrived' = arrived /\ acc' = acc
        /\ pc = "unwinding" /\ pc' = "over"
        /\ outcome' = outcome
    BY <1>11 DEF Unwound
  <2> QED BY <2>1 DEF ExactInv, Strict, Carried
<1>12. CASE UNCHANGED <<job, pc, outcome, answer, arrived, acc, feed, open>>
  BY <1>12 DEF ExactInv, Strict, HearingInv, Carried
<1>13. ASSUME NEW i \in running, NEW how \in {"ok", "error"}, ToolEnds(i, how) PROVE ExactInv'
  BY <1>13, <1>12 DEF ToolEnds
<1>14. ASSUME NEW i \in running, NEW how \in {"ok", "cancelled"}, ToolUnwinds(i, how) PROVE ExactInv'
  BY <1>14, <1>12 DEF ToolUnwinds
<1>15. CASE Abort \/ TimerFires \/ RequestUnwinds \/ Over \/ UNCHANGED vars
  BY <1>15, <1>12 DEF Abort, TimerFires, RequestUnwinds, Over, vars
<1> QED BY <1>1, <1>2, <1>3, <1>4, <1>5, <1>6, <1>7, <1>8, <1>9, <1>10, <1>11, <1>13, <1>14, <1>15
        DEF Next

(* What strict validation lets through to the end of a stream is what the   *)
(* provider said: the tools run for its calls, each once and in its order,  *)
(* and for all of them unless a stream of Gemini's was cut.                *)
THEOREM StrictCallsExactHolds == Spec => []StrictCallsExact
<1>1. ExactInv => StrictCallsExact
  <2> SUFFICES ASSUME ExactInv, Strict, pc = "tools" \/ outcome = "result"
               PROVE  \E n \in 0 .. Len(answer.items) :
                        /\ acc.calls = CallsOf(SubSeq(answer.items, 1, n))
                        /\ n < Len(answer.items) => job.adapter = "gemini" /\ arrived # answer
    BY DEF Strict, StrictCallsExact
  <2>1. Carried /\ acc.calls = CallsOf(arrived.items)
    BY DEF ExactInv
  <2>2. Len(arrived.items) \in Nat /\ Len(answer.items) \in Nat
    BY <2>1, AnswersAssumption DEF Carried
  <2>3. Len(arrived.items) \in 0 .. Len(answer.items)
    BY <2>1, <2>2 DEF Carried
  <2>4. acc.calls = CallsOf(SubSeq(answer.items, 1, Len(arrived.items)))
    BY <2>1 DEF Carried
  <2>5. Len(arrived.items) < Len(answer.items) => job.adapter = "gemini" /\ arrived # answer
    BY <2>1, <2>2 DEF Carried
  <2> QED BY <2>3, <2>4, <2>5
<1> QED BY <1>1, ExactInitially, ExactSteps, PTL DEF Spec
=============================================================================
