------------------------ MODULE NodeBackendProofs ------------------------
(***************************************************************************)
(* What a model node's outcome and conversation are worth, for any nodes,   *)
(* threads, answers and choices, and any number of calls.                  *)
(***************************************************************************)
EXTENDS NodeBackend, TLAPS

----------------------------------------------------------------------------
(* The verdict *)

Favourable == {"success", "partial_success"}

LEMMA ParsedIsAsserted ==
    ASSUME NEW t, NEW node, ParseOutcome(t, node).explicit
    PROVE  ParseOutcome(t, node).status = t.status
BY DEF ParseOutcome, Derived, Asserted

LEMMA CallIsAsserted ==
    ASSUME NEW a, a.reports # <<>>, OfCall(LastCall(a)).status \in Favourable
    PROVE  OfCall(LastCall(a)).status \in AssertedIn(a)
BY DEF OfCall, Asserted, AssertedIn, Favourable

\* An explicit success of any backend is one the model gave.
LEMMA OutcomeIsAsserted ==
    ASSUME NEW k, k \in Kinds, NEW a, NEW node,
           OutcomeOf(k, a, node).explicit, OutcomeOf(k, a, node).status \in Favourable
    PROVE  ~a.failed /\ OutcomeOf(k, a, node).status \in AssertedIn(a)
<1>1. ASSUME LoopOutcome(a, node).explicit, LoopOutcome(a, node).status \in Favourable
      PROVE  ~a.failed /\ LoopOutcome(a, node).status \in AssertedIn(a)
  <2>1. ~a.failed
    BY <1>1 DEF LoopOutcome, Derived
  <2>2. CASE node.schema
    BY <1>1, <2>1, <2>2, CallIsAsserted
       DEF LoopOutcome, OutcomeFromStructured, Derived, Asserted, AssertedIn
  <2>3. CASE ~node.schema
    BY <1>1, <2>1, <2>3, CallIsAsserted, ParsedIsAsserted
       DEF LoopOutcome, NoWords, Derived, AssertedIn
  <2> QED
    BY <2>1, <2>2, <2>3
<1>2. ASSUME SpawnOutcome(a, node).explicit, SpawnOutcome(a, node).status \in Favourable
      PROVE  ~a.failed /\ SpawnOutcome(a, node).status \in AssertedIn(a)
  <2>1. ~a.failed /\ ~node.schema
    BY <1>2 DEF SpawnOutcome, Derived
  <2>2. CASE a.text.form = "empty"
    BY <1>2, <2>1, <2>2 DEF SpawnOutcome, OutcomeFromSpawn, Closed, Derived, Asserted, AssertedIn
  <2>3. CASE a.text.form # "empty"
    BY <1>2, <2>1, <2>3, ParsedIsAsserted DEF SpawnOutcome, AssertedIn
  <2> QED
    BY <2>1, <2>2, <2>3
<1>3. CASE k = "direct"
  BY <1>1, <1>3, ParsedIsAsserted DEF OutcomeOf, DirectOutcome, AssertedIn
<1>4. CASE k # "direct"
  BY <1>1, <1>2, <1>4 DEF OutcomeOf, Kinds
<1> QED
  BY <1>3, <1>4

KindInv == kind \in Kinds

LEMMA KindHolds == Spec => []KindInv
<1>1. Init => KindInv
  BY DEF Init, KindInv
<1>2. KindInv /\ [Next]_vars => KindInv'
  BY DEF KindInv, Next, vars, Begin, Refuse, Ask, Return, Cut, Fork, Join, Choose
<1> QED
  BY <1>1, <1>2, PTL DEF Spec

\* Whatever the backend and the answer, an outcome counts as asserted only when
\* the model said so in a report or in its text (SuccessIsAsserted).
THEOREM SuccessAssertedHolds == Spec => []SuccessIsAsserted
<1>1. Init => SuccessIsAsserted
  BY DEF Init, SuccessIsAsserted
<1>2. ASSUME KindInv, SuccessIsAsserted, [Next]_vars
      PROVE  SuccessIsAsserted'
  <2>1. ASSUME NEW w \in Walkers, NEW a \in ModelAnswers, Return(w, a)
        PROVE  SuccessIsAsserted'
    <3>1. /\ heard'.answer = a
          /\ heard'.outcome = OutcomeOf(kind, a, Attributes[act[w].node])
      BY <2>1 DEF Return
    <3> QED
      BY <1>2, <3>1, OutcomeIsAsserted DEF SuccessIsAsserted, KindInv, Favourable
  <2>2. CASE \A w \in Walkers, a \in ModelAnswers : ~Return(w, a)
    BY <1>2, <2>2 DEF SuccessIsAsserted, Next, vars, Begin, Refuse, Ask, Cut, Fork, Join, Choose
  <2> QED
    BY <2>1, <2>2
<1> QED
  BY <1>1, <1>2, KindHolds, PTL DEF Spec

----------------------------------------------------------------------------
(* The human gate *)

\* The choice a human picked, by its key, is the choice that is found again.
LEMMA KeyFindsChoice ==
    ASSUME NEW i \in DOMAIN GateChoices
    PROVE  ByKey(GateChoices[i].key, GateChoices) = i
<1> DEFINE Same == {j \in 1 .. Len(GateChoices) : GateChoices[j].key = GateChoices[i].key}
<1>1. Same = {i}
  BY ChoicesAssumption
<1>2. Max({i}) = i
  BY ChoicesAssumption DEF Max
<1> QED
  BY <1>1, <1>2 DEF ByKey, SelectLastInSeq

\* What a human picked is what the gate routes by, and a skip routes by nothing
\* (ChoiceHonoured).
THEOREM ChoiceHonouredHolds == Spec => []ChoiceHonoured
<1>1. Init => ChoiceHonoured
  BY DEF Init, ChoiceHonoured, NothingAsked, Skipped, Answer
<1>2. ASSUME ChoiceHonoured, [Next]_vars
      PROVE  ChoiceHonoured'
  <2>1. ASSUME NEW w \in Walkers, Choose(w)
        PROVE  ChoiceHonoured'
    <3>0. PICK i \in Interviewers : \E answer \in Answers(i, GateChoices) :
             asked' = [answer |-> answer, selected |-> IF GateStatus(answer) = "fail" THEN 0
                                                       ELSE Selected(answer, GateChoices)]
      BY <2>1 DEF Choose
    <3>1. PICK answer \in Answers(i, GateChoices) :
             asked' = [answer |-> answer, selected |-> IF GateStatus(answer) = "fail" THEN 0
                                                       ELSE Selected(answer, GateChoices)]
      BY <3>0
    <3>2. answer.value = "option" => answer.option \in DOMAIN GateChoices
      BY <3>1, ChoicesAssumption DEF Interviewers, Answers, Answer, Picked, Skipped
    <3>3. CASE answer.value = "option"
      <4>1. Selected(answer, GateChoices) = answer.option
        BY <3>2, <3>3, KeyFindsChoice DEF Selected
      <4> QED
        BY <3>1, <3>3, <4>1 DEF ChoiceHonoured, GateStatus
    <3>4. CASE answer.value # "option"
      BY <3>1, <3>4 DEF ChoiceHonoured, GateStatus
    <3> QED
      BY <3>3, <3>4
  <2>2. CASE \A w \in Walkers : ~Choose(w)
    <3>1. asked' = NothingAsked \/ asked' = asked
      BY <1>2, <2>2 DEF Next, vars, Begin, Refuse, Ask, Return, Cut, Fork, Join
    <3> QED
      BY <1>2, <3>1 DEF ChoiceHonoured, NothingAsked, Skipped, Answer
  <2> QED
    BY <2>1, <2>2
<1> QED
  BY <1>1, <1>2, PTL DEF Spec

----------------------------------------------------------------------------
(* Conversations *)

OwnTurns(w) == [node : Nodes, by : {w}, visit : Nat]
Ordered(turns) ==
    \A i, j \in DOMAIN turns :
        i < j => turns[i].visit < turns[j].visit /\ turns[i].node # turns[j].node

\* Rewriting a conversation keeps the order and leaves one turn for each node.
LEMMA RewrittenKeeps ==
    ASSUME NEW w, NEW s \in Seq(OwnTurns(w)), NEW t \in OwnTurns(w), Ordered(s),
           \A i \in DOMAIN s : s[i].visit < t.visit
    PROVE  /\ Rewritten(s, t) \in Seq(OwnTurns(w))
           /\ Ordered(Rewritten(s, t))
           /\ \A i \in DOMAIN Rewritten(s, t) : Rewritten(s, t)[i].visit <= t.visit
<1> DEFINE Earlier == {i \in 1 .. Len(s) : s[i].node = t.node}
           At == IF Earlier # {} THEN Min(Earlier) ELSE 0
           Before == IF At = 0 THEN s ELSE SubSeq(s, 1, At - 1)
<1>1. Rewritten(s, t) = Append(Before, t)
  BY DEF Rewritten, SelectInSeq
<1>2. Before \in Seq(OwnTurns(w)) /\ Len(Before) <= Len(s)
      /\ \A i \in 1 .. Len(Before) : Before[i] = s[i] /\ s[i].node # t.node
  <2>1. CASE Earlier = {}
    BY <2>1
  <2>2. CASE Earlier # {}
    <3>1. PICK i \in 1 .. Len(s) : s[i].node = t.node
      BY <2>2
    <3>2. Earlier = {i}
      BY <3>1 DEF Ordered
    <3>3. Min({i}) = i
      BY DEF Min
    <3>4. At = i
      BY <3>2, <3>3
    <3> HIDE DEF At
    <3>5. Before = SubSeq(s, 1, i - 1)
      BY <3>4
    <3> HIDE DEF Before
    <3>6. Before \in Seq(OwnTurns(w)) /\ Len(Before) = i - 1
      BY <3>5
    <3>7. \A k \in 1 .. i - 1 : Before[k] = s[k]
      BY <3>5
    <3>8. \A k \in 1 .. i - 1 : s[k].node # t.node
      BY <3>1 DEF Ordered
    <3> QED
      BY <3>6, <3>7, <3>8
  <2> QED
    BY <2>1, <2>2
<1> HIDE DEF Before
<1>3. DOMAIN Append(Before, t) = 1 .. Len(Before) + 1
  BY <1>2
<1>4. \A i \in 1 .. Len(Before) : Append(Before, t)[i] = s[i]
  BY <1>2
<1>5. Append(Before, t)[Len(Before) + 1] = t
  BY <1>2
<1>6. Append(Before, t) \in Seq(OwnTurns(w))
  BY <1>2
<1>7. Ordered(Append(Before, t))
  <2> SUFFICES ASSUME NEW i \in 1 .. Len(Before) + 1, NEW j \in 1 .. Len(Before) + 1, i < j
               PROVE  /\ Append(Before, t)[i].visit < Append(Before, t)[j].visit
                      /\ Append(Before, t)[i].node # Append(Before, t)[j].node
    BY <1>3 DEF Ordered
  <2>1. i \in 1 .. Len(Before) /\ i \in DOMAIN s
    BY <1>2
  <2>2. CASE j \in 1 .. Len(Before)
    BY <1>2, <1>4, <2>1, <2>2 DEF Ordered
  <2>3. CASE j = Len(Before) + 1
    BY <1>2, <1>4, <1>5, <2>1, <2>3
  <2> QED
    BY <1>2, <2>2, <2>3
<1>8. \A i \in 1 .. Len(Before) + 1 : Append(Before, t)[i].visit <= t.visit
  <2> TAKE i \in 1 .. Len(Before) + 1
  <2>1. CASE i \in 1 .. Len(Before)
    <3>1. i \in DOMAIN s /\ s[i] \in OwnTurns(w)
      BY <1>2, <2>1
    <3> QED
      BY <1>4, <2>1, <3>1 DEF OwnTurns
  <2>2. CASE i = Len(Before) + 1
    BY <1>5, <2>2 DEF OwnTurns
  <2> QED
    BY <1>2, <2>1, <2>2
<1> QED
  BY <1>1, <1>3, <1>6, <1>7, <1>8

\* Of a backend that is cloned, each walker's object holds only what that walker
\* did, in order, and older than the call it is in.
OwnMemory(w) ==
    /\ \A k \in Keys :
         /\ threads[w][k] \in Seq(OwnTurns(w)) /\ Ordered(threads[w][k])
         /\ \A i \in DOMAIN threads[w][k] :
              /\ threads[w][k][i].visit <= calls
              /\ act[w].phase # "idle" => threads[w][k][i].visit < act[w].visit
    /\ completed[w] \subseteq Nodes \X {w}
    /\ lastNode[w] \in Nodes \cup {NoNode}
    /\ act[w].seen \in Seq(OwnTurns(w)) /\ act[w].told \subseteq Nodes \X {w}
    /\ act[w].visit \in Nat /\ act[w].visit <= calls
    /\ act[w].phase # "idle" => act[w].node \in Nodes
    /\ act[w].phase = "calling" => act[w].key \in Keys
Fields == {"phase", "node", "visit", "key", "seen", "told"}
MemoryInv ==
    kind # "direct" =>
        /\ calls \in Nat
        /\ DOMAIN act = Walkers /\ DOMAIN threads = Walkers
        /\ DOMAIN lastNode = Walkers /\ DOMAIN completed = Walkers
        /\ \A w \in Walkers : DOMAIN act[w] = Fields /\ DOMAIN threads[w] = Keys /\ OwnMemory(w)

LEMMA MemoryInit == Init => MemoryInv
<1> SUFFICES ASSUME Init PROVE MemoryInv
  OBVIOUS
<1>1. DOMAIN NoCallYet = Fields /\ NoCallYet.phase = "idle" /\ NoCallYet.visit = 0
      /\ NoCallYet.seen = <<>> /\ NoCallYet.told = {}
  BY DEF NoCallYet, Fields
<1>2. /\ calls = 0 /\ DOMAIN act = Walkers /\ DOMAIN threads = Walkers
      /\ DOMAIN lastNode = Walkers /\ DOMAIN completed = Walkers
      /\ \A w \in Walkers : /\ act[w] = NoCallYet /\ threads[w] = NoTurns
                            /\ lastNode[w] = NoNode /\ completed[w] = {}
  BY DEF Init
<1>3. DOMAIN NoTurns = Keys /\ \A k \in Keys : NoTurns[k] = <<>>
  BY DEF NoTurns
<1>4. ASSUME NEW w \in Walkers PROVE OwnMemory(w)
  <2>1. <<>> \in Seq(OwnTurns(w)) /\ Ordered(<<>>) /\ DOMAIN <<>> = {}
    BY DEF Ordered
  <2>2. \A k \in Keys : threads[w][k] = <<>>
    BY <1>2, <1>3
  <2>3. \A k \in Keys :
          /\ threads[w][k] \in Seq(OwnTurns(w)) /\ Ordered(threads[w][k])
          /\ DOMAIN threads[w][k] = {}
    BY <2>1, <2>2
  <2>4. /\ act[w].phase = "idle" /\ act[w].visit = 0 /\ act[w].seen = <<>> /\ act[w].told = {}
        /\ completed[w] = {} /\ lastNode[w] = NoNode
    BY <1>1, <1>2
  <2>5. act[w].visit \in Nat /\ act[w].visit <= calls
    BY <1>2, <2>4
  <2> QED
    BY <2>1, <2>3, <2>4, <2>5 DEF OwnMemory
<1> QED
  BY <1>1, <1>2, <1>3, <1>4 DEF MemoryInv

\* The thread a node takes is one of the threads there are.
LEMMA ThreadKeyIsKey ==
    ASSUME NEW n \in Nodes, NEW last \in Nodes \cup {NoNode}
    PROVE  ThreadKey(n, last) \in Keys
BY NodesAssumption DEF ThreadKey, Keys

LEMMA VisitIsNat ==
    ASSUME NEW w \in Walkers, OwnMemory(w), NEW k \in Keys, NEW i \in DOMAIN threads[w][k]
    PROVE  threads[w][k][i].visit \in Nat /\ threads[w][k][i].visit <= calls
<1>1. threads[w][k] \in Seq(OwnTurns(w))
  BY DEF OwnMemory
<1>2. threads[w][k][i] \in OwnTurns(w)
  BY <1>1
<1> QED
  BY <1>2 DEF OwnMemory, OwnTurns

LEMMA BeginKeeps ==
    ASSUME MemoryInv, NEW w \in Walkers, NEW n \in Nodes, Begin(w, n)
    PROVE  MemoryInv'
<1> SUFFICES ASSUME kind # "direct" PROVE MemoryInv'
  BY DEF MemoryInv, Begin
<1>1. /\ act'[w].phase = "resolving" /\ act'[w].node = n /\ act'[w].visit = calls + 1
      /\ act'[w].seen = <<>> /\ act'[w].told = {}
      /\ DOMAIN act' = Walkers /\ DOMAIN act'[w] = Fields
      /\ \A v \in Walkers \ {w} : act'[v] = act[v]
      /\ calls' = calls + 1 /\ UNCHANGED <<threads, lastNode, completed, kind>>
  BY DEF MemoryInv, Begin, NoCallYet, Fields, memory
<1>2. ASSUME NEW v \in Walkers PROVE OwnMemory(v)'
  <2>1. OwnMemory(v) /\ calls \in Nat
    BY DEF MemoryInv
  <2>2. /\ act'[v].seen \in Seq(OwnTurns(v)) /\ act'[v].told \subseteq Nodes \X {v}
        /\ act'[v].phase # "idle" => act'[v].node \in Nodes
        /\ act'[v].phase = "calling" => act'[v].key \in Keys
    <3>1. CASE v = w
      <4>1. <<>> \in Seq(OwnTurns(w))
        OBVIOUS
      <4> QED
        BY <1>1, <3>1, <4>1
    <3>2. CASE v # w
      BY <1>1, <2>1, <3>2 DEF OwnMemory
    <3> QED
      BY <3>1, <3>2
  <2>3. /\ act'[v].visit \in Nat /\ act'[v].visit <= calls'
        /\ act'[v].visit = calls + 1 \/ act'[v] = act[v]
    BY <1>1, <2>1 DEF OwnMemory
  <2>4. ASSUME NEW k \in Keys, NEW i \in DOMAIN threads[v][k]
        PROVE  /\ threads[v][k][i].visit <= calls'
               /\ act'[v].phase # "idle" => threads[v][k][i].visit < act'[v].visit
    <3>1. threads[v][k][i].visit \in Nat /\ threads[v][k][i].visit <= calls
      BY <2>1, VisitIsNat
    <3>2. act[v].phase # "idle" => threads[v][k][i].visit < act[v].visit
      BY <2>1 DEF OwnMemory
    <3> QED
      BY <1>1, <2>1, <2>3, <3>1, <3>2
  <2> QED
    BY <1>1, <2>1, <2>2, <2>3, <2>4 DEF OwnMemory
<1> QED
  BY <1>1, <1>2 DEF MemoryInv

\* A call that ends without an answer leaves nothing.
LEMMA DropKeeps ==
    ASSUME MemoryInv, NEW w \in Walkers, act' = [act EXCEPT ![w] = NoCallYet],
           UNCHANGED <<kind, memory, calls>>
    PROVE  MemoryInv'
<1> SUFFICES ASSUME kind # "direct" PROVE MemoryInv'
  BY DEF MemoryInv
<1>1. /\ act'[w] = NoCallYet /\ DOMAIN act' = Walkers
      /\ \A v \in Walkers \ {w} : act'[v] = act[v]
      /\ UNCHANGED <<kind, threads, lastNode, completed, calls>>
  BY DEF MemoryInv, memory
<1>2. ASSUME NEW v \in Walkers PROVE OwnMemory(v)'
  <2>1. CASE v = w
    BY <1>1, <2>1 DEF MemoryInv, OwnMemory, NoCallYet
  <2>2. CASE v # w
    BY <1>1, <2>2 DEF MemoryInv, OwnMemory
  <2> QED
    BY <2>1, <2>2
<1>3. DOMAIN NoCallYet = Fields
  BY DEF NoCallYet, Fields
<1> QED
  BY <1>1, <1>2, <1>3 DEF MemoryInv

LEMMA AskKeeps ==
    ASSUME MemoryInv, NEW w \in Walkers, Ask(w)
    PROVE  MemoryInv'
<1> SUFFICES ASSUME kind # "direct" PROVE MemoryInv'
  BY DEF MemoryInv, Ask
<1>0. OwnMemory(w) /\ act[w].node \in Nodes /\ Object(w) = w
  BY DEF MemoryInv, OwnMemory, Ask, Object
<1> DEFINE key == ThreadKey(act[w].node, lastNode[w])
<1>1. key \in Keys
  BY <1>0, ThreadKeyIsKey DEF OwnMemory
<1>2. /\ act'[w].phase = "calling" /\ act'[w].node = act[w].node /\ act'[w].visit = act[w].visit
      /\ act'[w].key = key
      /\ act'[w].seen \in {<<>>, threads[w][key]} /\ act'[w].told \in {{}, completed[w]}
      /\ DOMAIN act' = Walkers /\ DOMAIN act'[w] = Fields
  BY <1>0 DEF MemoryInv, Ask, Fields
<1>3. /\ \A v \in Walkers \ {w} : act'[v] = act[v]
      /\ UNCHANGED <<threads, lastNode, completed, kind, calls>>
  BY DEF MemoryInv, Ask, memory
<1> HIDE DEF key
<1>4. act[w].phase = "resolving"
  BY DEF Ask
<1>5. ASSUME NEW v \in Walkers PROVE OwnMemory(v)'
  <2>1. CASE v = w
    <3>1. act'[w].seen \in Seq(OwnTurns(w))
      <4>1. <<>> \in Seq(OwnTurns(w)) /\ threads[w][key] \in Seq(OwnTurns(w))
        BY <1>0, <1>1 DEF OwnMemory
      <4> QED
        BY <1>2, <4>1
    <3>2. act'[w].told \subseteq Nodes \X {w}
      BY <1>0, <1>2 DEF OwnMemory
    <3> QED
      BY <1>0, <1>1, <1>2, <1>3, <1>4, <2>1, <3>1, <3>2 DEF OwnMemory
  <2>2. CASE v # w
    BY <1>3, <2>2 DEF MemoryInv, OwnMemory
  <2> QED
    BY <2>1, <2>2
<1> QED
  BY <1>2, <1>3, <1>5 DEF MemoryInv

LEMMA ReturnKeeps ==
    ASSUME MemoryInv, NEW w \in Walkers, NEW a \in ModelAnswers, Return(w, a)
    PROVE  MemoryInv'
<1> SUFFICES ASSUME kind # "direct" PROVE MemoryInv'
  BY DEF MemoryInv, Return
<1> DEFINE t == Turn(act[w].node, w, act[w].visit)
           key == act[w].key
<1>1. /\ OwnMemory(w) /\ act[w].phase = "calling" /\ act[w].node \in Nodes /\ act[w].key \in Keys
      /\ Object(w) = w /\ calls \in Nat
  BY DEF MemoryInv, OwnMemory, Return, Object
<1>2. t \in OwnTurns(w) /\ t.visit = act[w].visit
  BY <1>1 DEF OwnMemory, OwnTurns, Turn
<1>3. /\ act' = [act EXCEPT ![w] = NoCallYet]
      /\ lastNode' = [lastNode EXCEPT ![w] = act[w].node]
      /\ completed' = [completed EXCEPT ![w] = @ \cup {<<act[w].node, w>>}]
      /\ UNCHANGED <<kind, calls>>
  BY <1>1 DEF Return
<1>4. \/ threads' = threads
      \/ threads' = [threads EXCEPT ![w] = [@ EXCEPT ![key] = Rewritten(threads[w][key], t)]]
  BY <1>1 DEF Return, Saved
<1>5. /\ threads[w][key] \in Seq(OwnTurns(w)) /\ Ordered(threads[w][key])
      /\ \A i \in DOMAIN threads[w][key] : threads[w][key][i].visit < t.visit
  BY <1>1, <1>2 DEF OwnMemory
<1> HIDE DEF t, key
<1>6. /\ Rewritten(threads[w][key], t) \in Seq(OwnTurns(w))
      /\ Ordered(Rewritten(threads[w][key], t))
      /\ \A i \in DOMAIN Rewritten(threads[w][key], t) :
           Rewritten(threads[w][key], t)[i].visit <= t.visit
  BY <1>2, <1>5, RewrittenKeeps
<1>7. /\ DOMAIN act' = Walkers /\ DOMAIN threads' = Walkers
      /\ DOMAIN lastNode' = Walkers /\ DOMAIN completed' = Walkers
      /\ act'[w] = NoCallYet /\ lastNode'[w] = act[w].node
      /\ completed'[w] = completed[w] \cup {<<act[w].node, w>>}
      /\ \A v \in Walkers \ {w} : /\ act'[v] = act[v] /\ threads'[v] = threads[v]
                                  /\ lastNode'[v] = lastNode[v] /\ completed'[v] = completed[v]
  BY <1>3, <1>4 DEF MemoryInv
<1>8. /\ DOMAIN threads'[w] = Keys
      /\ \A k \in Keys : \/ threads'[w][k] = threads[w][k]
                         \/ k = key /\ threads'[w][k] = Rewritten(threads[w][key], t)
  BY <1>4 DEF MemoryInv
<1>9. NoCallYet.phase = "idle" /\ NoCallYet.visit = 0 /\ NoCallYet.seen = <<>> /\ NoCallYet.told = {}
      /\ DOMAIN NoCallYet = Fields
  BY DEF NoCallYet, Fields
<1>10. OwnMemory(w)'
  <2>1. ASSUME NEW k \in Keys
        PROVE  /\ threads'[w][k] \in Seq(OwnTurns(w)) /\ Ordered(threads'[w][k])
               /\ \A i \in DOMAIN threads'[w][k] : threads'[w][k][i].visit <= calls
    <3>1. CASE threads'[w][k] = threads[w][k]
      BY <1>1, <3>1 DEF OwnMemory
    <3>2. CASE k = key /\ threads'[w][k] = Rewritten(threads[w][key], t)
      <4>1. ASSUME NEW i \in DOMAIN threads'[w][k]
            PROVE  threads'[w][k][i].visit <= calls
        <5>1. threads'[w][k][i] \in OwnTurns(w)
          BY <1>6, <3>2
        <5>2. threads'[w][k][i].visit \in Nat /\ threads'[w][k][i].visit <= act[w].visit
          BY <1>2, <1>6, <3>2, <5>1 DEF OwnTurns
        <5>3. act[w].visit \in Nat /\ act[w].visit <= calls
          BY <1>1 DEF OwnMemory
        <5> QED
          BY <1>1, <5>2, <5>3
      <4> QED
        BY <1>6, <3>2, <4>1
    <3> QED
      BY <1>8, <3>1, <3>2
  <2>2. completed'[w] \subseteq Nodes \X {w}
    BY <1>1, <1>7 DEF OwnMemory
  <2>3. <<>> \in Seq(OwnTurns(w))
    OBVIOUS
  <2> QED
    <3>1. /\ act'[w].phase = "idle" /\ act'[w].seen \in Seq(OwnTurns(w))
          /\ act'[w].told \subseteq Nodes \X {w} /\ act'[w].visit \in Nat /\ act'[w].visit <= calls
      BY <1>1, <1>7, <1>9, <2>3
    <3>2. lastNode'[w] \in Nodes \cup {NoNode} /\ calls' = calls
      BY <1>1, <1>3, <1>7
    <3> QED
      BY <2>1, <2>2, <3>1, <3>2 DEF OwnMemory
<1>11. ASSUME NEW v \in Walkers \ {w} PROVE OwnMemory(v)'
  BY <1>3, <1>7, <1>11 DEF MemoryInv, OwnMemory
<1>12. \A v \in Walkers : DOMAIN act'[v] = Fields /\ DOMAIN threads'[v] = Keys
  BY <1>7, <1>8, <1>9 DEF MemoryInv
<1> QED
  BY <1>1, <1>3, <1>7, <1>10, <1>11, <1>12 DEF MemoryInv

\* A fork and a join leave the branches with nothing and the trunk as it was.
LEMMA BranchesKeep ==
    ASSUME MemoryInv, UNCHANGED <<kind, act, calls>>,
           DOMAIN threads' = Walkers, DOMAIN lastNode' = Walkers, DOMAIN completed' = Walkers,
           threads'["trunk"] = threads["trunk"], lastNode'["trunk"] = lastNode["trunk"],
           completed'["trunk"] = completed["trunk"],
           \A w \in Branches : threads'[w] = NoTurns /\ lastNode'[w] = NoNode /\ completed'[w] = {}
    PROVE  MemoryInv'
<1> SUFFICES ASSUME kind # "direct" PROVE MemoryInv'
  BY DEF MemoryInv
<1>1. DOMAIN NoTurns = Keys /\ \A k \in Keys : NoTurns[k] = <<>>
  BY DEF NoTurns
<1>2. ASSUME NEW w \in Branches PROVE OwnMemory(w)'
  <2>1. OwnMemory(w)
    BY DEF MemoryInv, Walkers, Branches
  <2>2. <<>> \in Seq(OwnTurns(w)) /\ Ordered(<<>>) /\ DOMAIN <<>> = {}
    BY DEF Ordered
  <2>3. \A k \in Keys :
          /\ threads'[w][k] \in Seq(OwnTurns(w)) /\ Ordered(threads'[w][k])
          /\ DOMAIN threads'[w][k] = {}
    BY <1>1, <2>2
  <2> QED
    BY <2>1, <2>3 DEF OwnMemory
<1>3. OwnMemory("trunk")'
  BY DEF MemoryInv, OwnMemory, Walkers
<1> QED
  BY <1>1, <1>2, <1>3 DEF MemoryInv, Walkers, Branches

LEMMA MemoryHolds == Spec => []MemoryInv
<1>1. ASSUME MemoryInv, [Next]_vars
      PROVE  MemoryInv'
  <2>1. ASSUME NEW w \in Walkers, NEW n \in Nodes, Begin(w, n) PROVE MemoryInv'
    BY <1>1, <2>1, BeginKeeps
  <2>2. ASSUME NEW w \in Walkers, Refuse(w) \/ Cut(w) PROVE MemoryInv'
    BY <1>1, <2>2, DropKeeps DEF Refuse, Cut
  <2>3. ASSUME NEW w \in Walkers, Ask(w) PROVE MemoryInv'
    BY <1>1, <2>3, AskKeeps
  <2>4. ASSUME NEW w \in Walkers, NEW a \in ModelAnswers, Return(w, a) PROVE MemoryInv'
    BY <1>1, <2>4, ReturnKeeps
  <2>5. ASSUME Fork PROVE MemoryInv'
    <3>1. CASE kind = "direct"
      BY <2>5, <3>1 DEF Fork, MemoryInv
    <3>2. CASE kind # "direct"
      BY <1>1, <2>5, BranchesKeep DEF Fork, Walkers, Branches
    <3> QED
      BY <3>1, <3>2
  <2>6. ASSUME Join PROVE MemoryInv'
    <3>1. CASE kind = "direct"
      BY <2>6, <3>1 DEF Join, MemoryInv
    <3>2. CASE kind # "direct"
      BY <1>1, <2>6, <3>2, BranchesKeep DEF Join, MemoryInv, Walkers, Branches
    <3> QED
      BY <3>1, <3>2
  <2>7. ASSUME UNCHANGED vars \/ \E w \in Walkers : Choose(w) PROVE MemoryInv'
    <3>1. UNCHANGED <<kind, act, threads, lastNode, completed, calls>>
      BY <2>7 DEF vars, Choose, memory
    <3>2. \A w \in Walkers : OwnMemory(w)' <=> OwnMemory(w)
      BY <3>1 DEF OwnMemory
    <3> QED
      BY <1>1, <3>1, <3>2 DEF MemoryInv
  <2> QED
    BY <1>1, <2>1, <2>2, <2>3, <2>4, <2>5, <2>6, <2>7 DEF Next
<1> QED
  BY <1>1, MemoryInit, PTL DEF Spec

\* A thread of a spawned session holds one turn for each node, in the order of
\* the calls, however often nodes are run again (TurnsReplaced).
THEOREM TurnsReplacedHolds == Spec => []TurnsReplaced
<1>1. MemoryInv => TurnsReplaced
  BY DEF MemoryInv, OwnMemory, Ordered, TurnsReplaced
<1> QED
  BY <1>1, MemoryHolds, PTL

\* No walker is shown what another one did, on any backend that is cloned for a
\* branch (HistoryIsOwn).
THEOREM HistoryOwnHolds == Spec => []HistoryIsOwn
<1>1. ASSUME MemoryInv, kind # "direct", NEW w \in Walkers
      PROVE  /\ \A i \in DOMAIN act[w].seen : act[w].seen[i].by = w
             /\ \A done \in act[w].told : done[2] = w
  <2>1. act[w].seen \in Seq(OwnTurns(w)) /\ act[w].told \subseteq Nodes \X {w}
    BY <1>1 DEF MemoryInv, OwnMemory
  <2>2. \A i \in DOMAIN act[w].seen : act[w].seen[i] \in OwnTurns(w)
    BY <2>1
  <2> QED
    BY <2>1, <2>2 DEF OwnTurns
<1>2. MemoryInv => HistoryIsOwn
  BY <1>1 DEF HistoryIsOwn
<1> QED
  BY <1>2, MemoryHolds, PTL
==========================================================================
