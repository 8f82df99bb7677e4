-------------------------- MODULE AgentGraphProofs --------------------------
(***************************************************************************)
(* Proofs about AgentGraph and ChatWire for every max_steps, every set of  *)
(* call ids, any number of calls in one answer and any number of retries.  *)
(*                                                                         *)
(* Three arguments: the graph's count of nodes is a function of the        *)
(* agent's count of turns; the conversation is complete up to the message  *)
(* the current node is working on; and its turns on the wire are a         *)
(* function of what the model asked for.                                   *)
(***************************************************************************)
EXTENDS ChatWire, SequenceTheorems, WellFoundedInduction, TLAPS

-----------------------------------------------------------------------------
(* The two bounds                                                          *)

\* How many nodes have run, from how many turns have been taken.
Counting ==
    /\ steps \in Nat /\ iteration \in Nat
    /\ status \in {"running", "returned", "failed", "exceeded"}
    /\ current \in {"model", "tools", "END"}
    /\ current = "model" => iteration = 2 * steps /\ (steps = 0 \/ steps < MaxSteps)
    /\ current = "tools" => iteration = 2 * steps - 1 /\ 0 < steps /\ steps < MaxSteps
    /\ current = "END" => iteration = 2 * steps - 1 /\ 0 < steps /\ steps <= Turns
    /\ status # "exceeded"

\* Counting holds of every reachable state.
LEMMA CountingInvariant == Spec => []Counting
<1>. USE StepsAssumption DEF MaxIterations, Turns
<1>1. Init => Counting
  BY DEF Init, Counting
<1>2. Counting /\ [Next]_vars => Counting'
  <2>. SUFFICES ASSUME Counting, [Next]_vars PROVE Counting'
    OBVIOUS
  <2>1. ASSUME NEW calls \in CallLists, CallModel(calls) PROVE Counting'
    BY <2>1 DEF Counting, CallModel, Running, NextNode, Route
  <2>2. CASE ModelRaises
    BY <2>2 DEF Counting, ModelRaises, Running
  <2>3. CASE RunTool
    <3>1. /\ current = "tools" /\ UNCHANGED <<status, steps>>
          /\ \/ current' = "model" /\ iteration' = iteration + 1
             \/ UNCHANGED <<current, iteration>>
      BY <2>3, Zenon DEF RunTool, Running, NextNode
    <3>. QED  BY <3>1 DEF Counting
  <2>4. CASE Leave
    BY <2>4 DEF Counting, Leave
  <2>5. CASE Handle
    BY <2>5 DEF Counting, Handle
  <2>6. CASE UNCHANGED vars
    BY <2>6 DEF Counting, vars
  <2>. QED  BY <2>1, <2>2, <2>3, <2>4, <2>5, <2>6 DEF Next
<1>. QED  BY <1>1, <1>2, PTL DEF Spec

\* The graph's max_iterations never cuts an agent's run, whatever max_steps.
THEOREM BoundsAgree == Spec => []NeverExceeds
<1>1. Counting => NeverExceeds
  BY DEF Counting, NeverExceeds
<1>. QED  BY <1>1, CountingInvariant, PTL

-----------------------------------------------------------------------------
(* The conversation                                                        *)

Answered(ms, i) ==
    /\ i + Len(ms[i].calls) <= Len(ms)
    /\ \A j \in 1 .. Len(ms[i].calls) : ms[i + j] = ToolOutput(ms[i].calls[j])

\* Every answer of the model before position n has its outputs.
AnsweredBefore(ms, n) ==
    \A i \in 1 .. n - 1 : ms[i].role = "assistant" => Answered(ms, i)

Converses ==
    /\ messages \in Seq(Message) /\ messages # <<>>
    /\ outputs \in Seq(Message)
    /\ current = "model" => outputs = <<>> /\ AnsweredBefore(messages, Len(messages) + 1)
    /\ current # "model" =>
          /\ AnsweredBefore(messages, Len(messages))
          /\ Last.role = "assistant"
    /\ current = "tools" =>
          /\ Len(outputs) < Len(Last.calls)
          /\ \A j \in 1 .. Len(outputs) : outputs[j] = ToolOutput(Last.calls[j])
    /\ current = "END" => Last.calls = <<>> \/ steps >= MaxSteps
    /\ status = "returned" => current = "END"

\* An answer that has its outputs keeps them when messages are added.
LEMMA AnsweredStays ==
    ASSUME NEW ms \in Seq(Message), NEW more \in Seq(Message), NEW i \in 1 .. Len(ms),
           Answered(ms, i)
    PROVE  (ms \o more)[i] = ms[i] /\ Answered(ms \o more, i)
<1>1. /\ Len(ms) \in Nat /\ Len(more) \in Nat
      /\ Len(ms \o more) = Len(ms) + Len(more)
      /\ \A k \in 1 .. Len(ms) : (ms \o more)[k] = ms[k]
  BY LenProperties, ConcatProperties
<1>2. ms[i] \in Message /\ Len(ms[i].calls) \in Nat
  <2>1. ms[i] \in Message
    BY ElementOfSeq
  <2>. QED  BY <2>1, LenProperties DEF Message
<1>3. \A j \in 1 .. Len(ms[i].calls) : i + j \in 1 .. Len(ms)
  BY <1>1, <1>2 DEF Answered
<1>. QED  BY <1>1, <1>2, <1>3 DEF Answered

\* What the messages of this model are.
LEMMA MessageTypes ==
    /\ User \in Message
    /\ \A calls \in Seq(Calls) : Assistant(calls) \in Message
    /\ \A call \in Calls : ToolOutput(call) \in Message
BY DEF User, Assistant, ToolOutput, Message, Roles

\* The lists the model may ask for are sequences of calls.
LEMMA CallListsAreSequences == ASSUME NEW calls \in CallLists PROVE calls \in Seq(Calls)
<1>1. PICK n \in 0 .. MaxCalls : calls \in [1 .. n -> Calls]
  BY DEF CallLists
<1>. QED  BY <1>1, CallsAssumption

\* The answer of the model is merged.
LEMMA CallModelKeeps ==
    ASSUME Converses, NEW calls \in CallLists, CallModel(calls)
    PROVE  Converses'
<1>1. calls \in Seq(Calls) /\ Assistant(calls) \in Message
  BY CallListsAreSequences, MessageTypes
<1>2. /\ messages \in Seq(Message) /\ Len(messages) \in Nat
      /\ outputs = <<>> /\ AnsweredBefore(messages, Len(messages) + 1)
  BY LenProperties DEF Converses, CallModel, Running
<1>3. /\ messages' \in Seq(Message) /\ Len(messages') = Len(messages) + 1
      /\ messages'[Len(messages')] = Assistant(calls)
      /\ messages' # <<>>
  BY <1>1, <1>2, AppendProperties, AppendIsConcat DEF CallModel, Merge
<1>4. /\ messages' = messages \o <<Assistant(calls)>>
      /\ <<Assistant(calls)>> \in Seq(Message)
  BY <1>1 DEF CallModel, Merge
<1>5. AnsweredBefore(messages', Len(messages'))
  <2>. SUFFICES ASSUME NEW i \in 1 .. Len(messages') - 1, messages'[i].role = "assistant"
                PROVE  Answered(messages', i)
    BY DEF AnsweredBefore
  <2>1. i \in 1 .. Len(messages) /\ messages'[i] = messages[i]
    BY <1>1, <1>2, <1>3, <1>4, ConcatProperties
  <2>2. Answered(messages, i)
    BY <1>2, <2>1 DEF AnsweredBefore
  <2>. QED  BY <1>2, <1>4, <2>1, <2>2, AnsweredStays
<1>6. Last' = Assistant(calls)
  BY <1>3 DEF Last
<1>7. Last'.role = "assistant" /\ Last'.calls = calls
  BY <1>6 DEF Assistant
<1>8. CASE current' = "tools"
  <2>1. calls # <<>> /\ Len(calls) \in Nat /\ Len(calls) > 0
    BY <1>1, <1>8, EmptySeq, LenProperties DEF CallModel, NextNode, Route
  <2>2. outputs' = <<>> /\ Len(outputs') = 0
    BY <1>2, EmptySeq DEF CallModel
  <2>. QED  BY <1>2, <1>3, <1>5, <1>7, <1>8, <2>1, <2>2 DEF Converses, CallModel, Running
<1>9. CASE current' = "END"
  <2>1. calls = <<>> \/ steps' >= MaxSteps
    BY <1>9, StepsAssumption DEF CallModel, NextNode, Route
  <2>. QED  BY <1>2, <1>3, <1>5, <1>7, <1>9, <2>1 DEF Converses, CallModel, Running
<1>. QED  BY <1>8, <1>9 DEF CallModel, NextNode, Route

\* One more output; after the last one they are merged.
LEMMA RunToolKeeps ==
    ASSUME Converses, RunTool PROVE Converses'
<1> DEFINE call == Last.calls[Len(outputs) + 1]
           outs == Append(outputs, ToolOutput(call))
<1>1. /\ messages \in Seq(Message) /\ Len(messages) \in Nat /\ Len(messages) > 0
      /\ outputs \in Seq(Message) /\ Len(outputs) \in Nat
  BY LenProperties, EmptySeq DEF Converses
<1>2. Last \in Message /\ Last.calls \in Seq(Calls) /\ Len(Last.calls) \in Nat
  <2>1. Len(messages) \in 1 .. Len(messages)
    BY <1>1
  <2>2. Last \in Message
    BY <1>1, <2>1, ElementOfSeq DEF Last
  <2>. QED  BY <2>2, LenProperties DEF Message
<1>3. /\ Len(outputs) < Len(Last.calls)
      /\ \A j \in 1 .. Len(outputs) : outputs[j] = ToolOutput(Last.calls[j])
      /\ AnsweredBefore(messages, Len(messages)) /\ Last.role = "assistant"
  BY DEF Converses, RunTool, Running
<1>4. ToolOutput(call) \in Message
  <2>1. Len(outputs) + 1 \in 1 .. Len(Last.calls)
    BY <1>1, <1>2, <1>3
  <2>2. call \in Calls
    BY <1>2, <2>1, ElementOfSeq
  <2>. QED  BY <2>2, MessageTypes
<1>5. /\ outs \in Seq(Message) /\ Len(outs) = Len(outputs) + 1
      /\ \A j \in 1 .. Len(outs) : outs[j] = ToolOutput(Last.calls[j])
  BY <1>1, <1>3, <1>4, AppendProperties
<1>6. CASE Len(outs) # Len(Last.calls)
  <2>1. /\ outputs' = outs /\ UNCHANGED <<messages, current, status, steps>>
        /\ current = "tools" /\ status = "running"
    BY <1>6 DEF RunTool, Running
  <2>2. Last' = Last
    BY <2>1 DEF Last
  <2>3. Len(outputs') < Len(Last.calls)
    BY <1>1, <1>2, <1>3, <1>5, <1>6, <2>1
  <2>. QED  BY <1>1, <1>3, <1>5, <2>1, <2>2, <2>3 DEF Converses
<1>7. CASE Len(outs) = Len(Last.calls)
  <2>1. /\ messages' = messages \o outs /\ outputs' = <<>> /\ current' = "model"
        /\ status' = "running"
    BY <1>7 DEF RunTool, Running, Merge, NextNode
  <2>2. /\ messages' \in Seq(Message) /\ Len(messages') = Len(messages) + Len(outs)
        /\ \A k \in 1 .. Len(messages) : messages'[k] = messages[k]
        /\ \A j \in 1 .. Len(outs) : messages'[Len(messages) + j] = outs[j]
        /\ messages' # <<>>
    BY <1>1, <1>5, <2>1, ConcatProperties, EmptySeq
  <2>3. AnsweredBefore(messages', Len(messages') + 1)
    <3>. SUFFICES ASSUME NEW i \in 1 .. Len(messages'), messages'[i].role = "assistant"
                  PROVE  Answered(messages', i)
      BY <1>1, <1>5, <2>2 DEF AnsweredBefore
    <3>1. CASE i < Len(messages)
      <4>1. i \in 1 .. Len(messages) /\ messages'[i] = messages[i] /\ i \in 1 .. Len(messages) - 1
        BY <1>1, <2>2, <3>1
      <4>2. Answered(messages, i)
        BY <1>3, <4>1 DEF AnsweredBefore
      <4>. QED  BY <1>1, <1>5, <2>1, <4>1, <4>2, AnsweredStays
    <3>2. CASE i = Len(messages)
      <4>1. messages'[i] = Last
        BY <1>1, <2>2, <3>2 DEF Last
      <4>. QED  BY <1>1, <1>2, <1>5, <1>7, <2>2, <3>2, <4>1 DEF Answered
    <3>3. CASE i > Len(messages)
      <4> DEFINE j == i - Len(messages)
      <4>1. j \in 1 .. Len(outs) /\ i = Len(messages) + j
        <5>1. Len(outs) \in Nat
          BY <1>1, <1>5
        <5> HIDE DEF outs
        <5>. QED  BY <5>1, <1>1, <2>2, <3>3
      <4> HIDE DEF j
      <4>2. messages'[i] = ToolOutput(Last.calls[j])
        BY <1>5, <2>2, <4>1
      <4>. QED  BY <4>2 DEF ToolOutput
    <3>. QED  BY <1>1, <1>5, <2>2, <3>1, <3>2, <3>3
  <2>. QED  BY <2>1, <2>2, <2>3, EmptySeq DEF Converses
<1>. QED  BY <1>6, <1>7

\* A fresh conversation.
LEMMA FreshConversation ==
    /\ <<User>> \in Seq(Message) /\ <<User>> # <<>>
    /\ AnsweredBefore(<<User>>, Len(<<User>>) + 1)
    /\ <<>> \in Seq(Message)
BY MessageTypes DEF AnsweredBefore, User

\* Converses holds of every reachable state.
LEMMA ConversationInvariant == Spec => []Converses
<1>1. Init => Converses
  BY FreshConversation DEF Init, Converses
<1>2. Converses /\ [Next]_vars => Converses'
  <2>. SUFFICES ASSUME Converses, [Next]_vars PROVE Converses'
    OBVIOUS
  <2>1. ASSUME NEW calls \in CallLists, CallModel(calls) PROVE Converses'
    BY <2>1, CallModelKeeps
  <2>2. CASE ModelRaises
    BY <2>2 DEF Converses, ModelRaises, Running, Last
  <2>3. CASE RunTool
    BY <2>3, RunToolKeeps
  <2>4. CASE Leave
    BY <2>4 DEF Converses, Leave, Last
  <2>5. CASE Handle
    BY <2>5, FreshConversation DEF Converses, Handle
  <2>6. CASE UNCHANGED vars
    BY <2>6 DEF Converses, vars, Last
  <2>. QED  BY <2>1, <2>2, <2>3, <2>4, <2>5, <2>6 DEF Next
<1>. QED  BY <1>1, <1>2, PTL DEF Spec

\* Before the model is called again every tool call has its output, in order.
THEOREM EveryCallAnswered == Spec => []CallsAnswered
<1>1. Converses => CallsAnswered
  <2>. SUFFICES ASSUME Converses, NEW i \in DOMAIN messages,
                       i < Len(messages), messages[i].role = "assistant"
                PROVE  Answered(messages, i)
    BY DEF CallsAnswered, Answered
  <2>1. Len(messages) \in Nat /\ i \in 1 .. Len(messages) - 1 /\ i \in 1 .. Len(messages)
    BY LenProperties DEF Converses
  <2>. QED  BY <2>1 DEF Converses, AnsweredBefore
<1>. QED  BY <1>1, ConversationInvariant, PTL

\* The run is not cut short, and the reply is the model's and asks for no tools
\* while turns are left.
THEOREM ReplyIsAnswer == Spec => []EndsOnAnswer
<1>1. NeverExceeds /\ Converses => EndsOnAnswer
  BY DEF Converses, EndsOnAnswer
<1>. QED  BY <1>1, BoundsAgree, ConversationInvariant, PTL

\* Type correctness: no turn beyond max_steps, no node beyond max_iterations.
THEOREM AgentTypeCorrect == Spec => []TypeOK
<1>1. Counting /\ Converses => TypeOK
  BY StepsAssumption DEF Counting, Converses, TypeOK, Turns, MaxIterations
<1>. QED  BY <1>1, CountingInvariant, ConversationInvariant, PTL

-----------------------------------------------------------------------------
(* Recursion over a list                                                   *)

\* Induction: a set that holds 0 and the successor of each of its members up
\* to n holds 0 .. n.
LEMMA CountInduction ==
    ASSUME NEW n \in Nat, NEW T, 0 \in T, \A k \in 0 .. n - 1 : k \in T => k + 1 \in T
    PROVE  \A k \in 0 .. n : k \in T
<1>. SUFFICES ASSUME NEW k \in 0 .. n, k \notin T
              PROVE  FALSE
  OBVIOUS
<1>. DEFINE S == {j \in 0 .. n : j \notin T}
<1>1. S \in SUBSET Nat /\ S # {}
  OBVIOUS
<1>. HIDE DEF S
<1>2. PICK j \in S : \A i \in S : ~(<<i, j>> \in OpToRel(<, Nat))
  BY <1>1, NatLessThanWellFounded, WFMin
<1>. USE DEF S
<1>3. j \in 0 .. n /\ j # 0 /\ j - 1 \in 0 .. n - 1 /\ (j - 1) + 1 = j
  OBVIOUS
<1>4. j - 1 \in T
  <2>1. <<j - 1, j>> \in OpToRel(<, Nat)
    BY <1>3 DEF OpToRel
  <2>2. j - 1 \notin S
    <3>. HIDE DEF S
    <3>. QED  BY <1>2, <2>1, Zenon
  <2>. QED  BY <1>3, <2>2
<1>. QED  BY <1>2, <1>3, <1>4

\* g lists the results of the first n steps, from the empty sequence on.
Runs(g, step, n) == g[0] = <<>> /\ \A k \in 1 .. n : g[k] = step[k][g[k - 1]]

\* There is such a list.
LEMMA RunExists ==
    ASSUME NEW S, <<>> \in S, NEW n \in Nat, NEW step \in [1 .. n -> [S -> S]]
    PROVE  \E g \in [0 .. n -> S] : Runs(g, step, n)
<1>. DEFINE T == {l \in 0 .. n : \E g \in [0 .. l -> S] : Runs(g, step, l)}
<1>1. 0 \in T
  <2>. DEFINE g == [k \in 0 .. 0 |-> <<>>]
  <2>1. g \in [0 .. 0 -> S] /\ Runs(g, step, 0)
    BY DEF Runs
  <2>. QED  BY <2>1
<1>2. ASSUME NEW l \in 0 .. n - 1, l \in T
      PROVE  l + 1 \in T
  <2>1. PICK g \in [0 .. l -> S] : Runs(g, step, l)
    BY <1>2
  <2>. DEFINE h == [k \in 0 .. l + 1 |-> IF k = l + 1 THEN step[l + 1][g[l]] ELSE g[k]]
  <2>2. l + 1 \in 1 .. n /\ l \in 0 .. l /\ l + 1 \in 0 .. n
    OBVIOUS
  <2>3. step[l + 1][g[l]] \in S
    BY <2>1, <2>2
  <2>4. h \in [0 .. l + 1 -> S]
    BY <2>3
  <2>5. \A k \in 0 .. l : h[k] = g[k]
    OBVIOUS
  <2>6. h[l + 1] = step[l + 1][g[l]]
    OBVIOUS
  <2>7. Runs(h, step, l + 1)
    <3>. HIDE DEF h
    <3>1. h[0] = <<>>
      BY <2>1, <2>5 DEF Runs
    <3>2. ASSUME NEW k \in 1 .. l + 1
          PROVE  h[k] = step[k][h[k - 1]]
      <4>1. h[k - 1] = g[k - 1]
        BY <2>5
      <4>2. CASE k = l + 1
        BY <4>1, <4>2, <2>6
      <4>3. CASE k # l + 1
        <5>1. k \in 1 .. l /\ k \in 0 .. l
          BY <4>3
        <5>. QED  BY <5>1, <4>1, <2>1, <2>5 DEF Runs
      <4>. QED  BY <4>2, <4>3
    <3>. QED  BY <3>1, <3>2 DEF Runs
  <2>. HIDE DEF h
  <2>. QED  BY <2>2, <2>4, <2>7
<1>3. n \in T
  <2>. HIDE DEF T
  <2>1. \A k \in 0 .. n : k \in T
    BY <1>1, <1>2, CountInduction
  <2>. QED  BY <2>1
<1>. QED  BY <1>3

\* g and h are made by the same steps, h by more of them.
Extends(h, other, m, g, step, n) ==
    /\ n \in Nat /\ m \in Nat /\ n <= m
    /\ Runs(g, step, n) /\ Runs(h, other, m)
    /\ \A k \in 1 .. n : step[k] = other[k]

\* Two lists made by the same steps are the same, as far as both go.
LEMMA RunsAgree ==
    ASSUME NEW n, NEW m, NEW step, NEW other, NEW g, NEW h,
           Extends(h, other, m, g, step, n)
    PROVE  g[n] = h[n]
<1>0. /\ n \in Nat /\ m \in Nat /\ n <= m
      /\ Runs(g, step, n) /\ Runs(h, other, m)
      /\ \A k \in 1 .. n : step[k] = other[k]
  BY DEF Extends
<1>. DEFINE T == {k \in 0 .. n : g[k] = h[k]}
<1>1. 0 \in T
  BY <1>0 DEF Runs
<1>2. ASSUME NEW k \in 0 .. n - 1, k \in T
      PROVE  k + 1 \in T
  <2>1. k + 1 \in 1 .. n /\ k + 1 \in 1 .. m /\ k + 1 \in 0 .. n /\ (k + 1) - 1 = k
    BY <1>0
  <2>2. g[k + 1] = step[k + 1][g[k]] /\ h[k + 1] = other[k + 1][h[k]]
    BY <1>0, <2>1 DEF Runs
  <2>3. g[k] = h[k] /\ step[k + 1] = other[k + 1]
    BY <1>0, <1>2, <2>1
  <2>. QED  BY <2>1, <2>2, <2>3
<1>3. n \in T
  <2>. HIDE DEF T
  <2>1. \A k \in 0 .. n : k \in T
    BY <1>0, <1>1, <1>2, CountInduction
  <2>. QED  BY <1>0, <2>1 DEF T
<1>. QED  BY <1>3

-----------------------------------------------------------------------------
(* The three recursions: the turns of a request, the ids of a content and  *)
(* what the model asked for                                                *)

WireMessage ==
    [role : Roles \cup {"system"}, tool_calls : Seq(Calls), tool_call_id : Seq(Calls)]
ContentBlock == [type : {"text", "tool_use", "tool_result"}, id : Seq(Calls)]
AnthropicTurn == [role : Roles \cup {"system"}, content : Seq(ContentBlock)]

\* One call binds a tool's output, or a tool_use block.
LEMMA SingleCall == ASSUME NEW call \in Calls PROVE <<call>> \in Seq(Calls)
OBVIOUS

\* A message becomes a turn.
LEMMA ToTurnType == ASSUME NEW m \in WireMessage PROVE ToTurn(m) \in AnthropicTurn
<1>1. m.role \in Roles \cup {"system"} /\ m.tool_calls \in Seq(Calls)
      /\ m.tool_call_id \in Seq(Calls) /\ <<>> \in Seq(Calls)
  BY DEF WireMessage
<1>2. CASE m.role = "tool"
  <2>1. Block("tool_result", m.tool_call_id) \in ContentBlock
    BY <1>1 DEF Block, ContentBlock
  <2>2. <<Block("tool_result", m.tool_call_id)>> \in Seq(ContentBlock)
    BY <2>1
  <2>. QED  BY <1>2, <2>2 DEF ToTurn, Turn, AnthropicTurn, Roles
<1>3. CASE m.role = "assistant" /\ m.tool_calls # <<>>
  <2>. DEFINE uses == [j \in DOMAIN m.tool_calls |-> Block("tool_use", <<m.tool_calls[j]>>)]
  <2>1. DOMAIN m.tool_calls = 1 .. Len(m.tool_calls) /\ Len(m.tool_calls) \in Nat
    BY <1>1, LenProperties
  <2>2. \A j \in 1 .. Len(m.tool_calls) : uses[j] \in ContentBlock
    <3>. TAKE j \in 1 .. Len(m.tool_calls)
    <3>1. m.tool_calls[j] \in Calls
      BY <1>1, ElementOfSeq
    <3>. QED  BY <2>1, <3>1, SingleCall DEF Block, ContentBlock
  <2>3. uses = [j \in 1 .. Len(m.tool_calls) |-> uses[j]]
    BY <2>1
  <2>. HIDE DEF uses
  <2>4. uses \in Seq(ContentBlock)
    BY <2>1, <2>2, <2>3
  <2>5. ToTurn(m) = Turn("assistant", uses)
    BY <1>3 DEF ToTurn, uses
  <2>. QED  BY <2>4, <2>5 DEF Turn, AnthropicTurn, Roles
<1>4. CASE m.role # "tool" /\ ~(m.role = "assistant" /\ m.tool_calls # <<>>)
  <2>1. Text \in ContentBlock
    BY <1>1 DEF Text, Block, ContentBlock
  <2>2. <<Text>> \in Seq(ContentBlock)
    BY <2>1
  <2>3. ToTurn(m) = Turn(m.role, <<Text>>)
    BY <1>4 DEF ToTurn
  <2>. QED  BY <1>1, <2>2, <2>3 DEF Turn, AnthropicTurn
<1>. QED  BY <1>2, <1>3, <1>4

\* Merging a turn gives turns.
LEMMA MergeTurnType ==
    ASSUME NEW merged \in Seq(AnthropicTurn), NEW turn \in AnthropicTurn
    PROVE  MergeTurn(merged, turn) \in Seq(AnthropicTurn)
<1>1. CASE merged # <<>> /\ merged[Len(merged)].role = turn.role
  <2>. DEFINE last == merged[Len(merged)]
              joined == last.content \o turn.content
              new == [last EXCEPT !.content = joined]
  <2>1. Len(merged) \in Nat /\ Len(merged) > 0 /\ last \in AnthropicTurn
    BY <1>1, LenProperties, EmptySeq, ElementOfSeq
  <2>2. joined \in Seq(ContentBlock)
    BY <2>1, ConcatProperties DEF AnthropicTurn
  <2>. HIDE DEF joined
  <2>3. new \in AnthropicTurn
    BY <2>1, <2>2 DEF AnthropicTurn
  <2>4. MergeTurn(merged, turn) = [merged EXCEPT ![Len(merged)] = new]
    BY <1>1 DEF MergeTurn, joined
  <2>. HIDE DEF new
  <2>. QED  BY <2>1, <2>3, <2>4, ExceptSeq
<1>2. CASE ~(merged # <<>> /\ merged[Len(merged)].role = turn.role)
  BY <1>2, AppendProperties DEF MergeTurn
<1>. QED  BY <1>1, <1>2

MergeSteps(c) ==
    [k \in 1 .. Len(c) |-> [a \in Seq(AnthropicTurn) |->
        IF c[k].role = "system" THEN a ELSE MergeTurn(a, ToTurn(c[k]))]]

\* ToAnthropic is the last of a list of merges.
LEMMA ToAnthropicRuns ==
    ASSUME NEW c \in Seq(WireMessage)
    PROVE  \E g \in [0 .. Len(c) -> Seq(AnthropicTurn)] :
              Runs(g, MergeSteps(c), Len(c)) /\ ToAnthropic(c) = g[Len(c)]
<1>. DEFINE S == Seq(AnthropicTurn)
            n == Len(c)
<1>1. n \in Nat
  BY LenProperties
<1>2. MergeSteps(c) \in [1 .. n -> [S -> S]]
  <2>1. ASSUME NEW k \in 1 .. n, NEW a \in S
        PROVE  (IF c[k].role = "system" THEN a ELSE MergeTurn(a, ToTurn(c[k]))) \in S
    <3>1. c[k] \in WireMessage
      BY ElementOfSeq
    <3>. QED  BY <3>1, ToTurnType, MergeTurnType
  <2>. QED  BY <2>1 DEF MergeSteps
<1>3. <<>> \in S
  OBVIOUS
<1>4. PICK g \in [0 .. n -> S] : Runs(g, MergeSteps(c), n)
  <2>. HIDE DEF S, n
  <2>. QED  BY <1>1, <1>2, <1>3, RunExists
<1>. DEFINE Equation(f) == f = [i \in 0 .. Len(c) |->
                IF i = 0 THEN <<>>
                ELSE IF c[i].role = "system" THEN f[i - 1]
                ELSE MergeTurn(f[i - 1], ToTurn(c[i]))]
            f == CHOOSE h : Equation(h)
<1>5. \A k \in 1 .. n : g[k] = IF c[k].role = "system" THEN g[k - 1]
                               ELSE MergeTurn(g[k - 1], ToTurn(c[k]))
  <2>. TAKE k \in 1 .. n
  <2>1. g[k - 1] \in S
    BY <1>1
  <2>2. g[k] = MergeSteps(c)[k][g[k - 1]]
    BY <1>4 DEF Runs
  <2>. QED  BY <2>1, <2>2 DEF MergeSteps
<1>6. Equation(g)
  <2>1. g = [i \in 0 .. n |-> g[i]]
    OBVIOUS
  <2>2. \A i \in 0 .. n : g[i] = IF i = 0 THEN <<>>
                                 ELSE IF c[i].role = "system" THEN g[i - 1]
                                 ELSE MergeTurn(g[i - 1], ToTurn(c[i]))
    BY <1>1, <1>4, <1>5 DEF Runs
  <2>. QED  BY <2>1, <2>2
<1>7. Equation(f)
  <2>. HIDE DEF Equation
  <2>. QED  BY <1>6, Zenon
<1>8. ToAnthropic(c) = f[n]
  BY Zenon DEF ToAnthropic
<1>9. \A k \in 0 .. n : k \in {i \in 0 .. n : f[i] = g[i]}
  <2>. DEFINE T == {i \in 0 .. n : f[i] = g[i]}
  <2>. HIDE DEF f
  <2>1. 0 \in T
    BY <1>1, <1>6, <1>7
  <2>2. ASSUME NEW k \in 0 .. n - 1, k \in T
        PROVE  k + 1 \in T
    <3>1. k + 1 \in 0 .. n /\ k + 1 # 0 /\ (k + 1) - 1 = k
      BY <1>1
    <3>2. f[k + 1] = IF c[k + 1].role = "system" THEN f[k]
                     ELSE MergeTurn(f[k], ToTurn(c[k + 1]))
      BY <1>7, <3>1
    <3>3. g[k + 1] = IF c[k + 1].role = "system" THEN g[k]
                     ELSE MergeTurn(g[k], ToTurn(c[k + 1]))
      BY <1>6, <3>1
    <3>. QED  BY <2>2, <3>1, <3>2, <3>3
  <2>. HIDE DEF T, n
  <2>3. \A k \in 0 .. n : k \in T
    BY <1>1, <2>1, <2>2, CountInduction
  <2>. QED  BY <2>3 DEF T
<1>. HIDE DEF f, S
<1>. QED  BY <1>1, <1>4, <1>8, <1>9 DEF S

\* One more message: a system prompt is left out, any other is merged.
LEMMA ToAnthropicAppend ==
    ASSUME NEW c \in Seq(WireMessage), NEW m \in WireMessage
    PROVE  /\ ToAnthropic(c) \in Seq(AnthropicTurn)
           /\ ToAnthropic(Append(c, m)) =
                 IF m.role = "system" THEN ToAnthropic(c)
                 ELSE MergeTurn(ToAnthropic(c), ToTurn(m))
<1>. DEFINE d == Append(c, m)
            n == Len(c)
<1>1. /\ n \in Nat /\ d \in Seq(WireMessage) /\ Len(d) = n + 1 /\ d[n + 1] = m
      /\ \A k \in 1 .. n : d[k] = c[k]
  BY LenProperties, AppendProperties
<1>. HIDE DEF d
<1>2. PICK g \in [0 .. n -> Seq(AnthropicTurn)] :
         Runs(g, MergeSteps(c), n) /\ ToAnthropic(c) = g[n]
  BY ToAnthropicRuns
<1>3. PICK h \in [0 .. Len(d) -> Seq(AnthropicTurn)] :
         Runs(h, MergeSteps(d), Len(d)) /\ ToAnthropic(d) = h[Len(d)]
  BY <1>1, ToAnthropicRuns
<1>4. \A k \in 1 .. n : MergeSteps(c)[k] = MergeSteps(d)[k]
  <2>. TAKE k \in 1 .. n
  <2>1. k \in 1 .. Len(c) /\ k \in 1 .. Len(d) /\ c[k] = d[k]
    BY <1>1
  <2>. QED  BY <2>1, Zenon DEF MergeSteps
<1>5. g[n] = h[n]
  <2>1. Extends(h, MergeSteps(d), Len(d), g, MergeSteps(c), n)
    BY <1>1, <1>2, <1>3, <1>4 DEF Extends
  <2>. QED  BY <2>1, RunsAgree
<1>6. h[n + 1] = MergeSteps(d)[n + 1][h[n]] /\ h[n] \in Seq(AnthropicTurn)
  BY <1>1, <1>3 DEF Runs
<1>7. n + 1 \in 1 .. Len(d)
  BY <1>1
<1>8. MergeSteps(d)[n + 1][h[n]] =
         IF m.role = "system" THEN h[n] ELSE MergeTurn(h[n], ToTurn(m))
  BY <1>1, <1>6, <1>7 DEF MergeSteps
<1>. QED  BY <1>1, <1>2, <1>3, <1>5, <1>6, <1>8 DEF d

\* No message, no turn.
LEMMA ToAnthropicEmpty == ToAnthropic(<<>>) = <<>>
<1>1. <<>> \in Seq(WireMessage) /\ Len(<<>>) = 0
  BY LenProperties
<1>2. PICK g \in [0 .. Len(<<>>) -> Seq(AnthropicTurn)] :
         Runs(g, MergeSteps(<<>>), Len(<<>>)) /\ ToAnthropic(<<>>) = g[Len(<<>>)]
  BY <1>1, ToAnthropicRuns
<1>. QED  BY <1>1, <1>2 DEF Runs

IdSteps(b, type) ==
    [k \in 1 .. Len(b) |-> [a \in Seq(Calls) |-> IF b[k].type = type THEN a \o b[k].id ELSE a]]

\* Ids is the last of a list of ids.
LEMMA IdsRuns ==
    ASSUME NEW b \in Seq(ContentBlock), NEW type
    PROVE  \E g \in [0 .. Len(b) -> Seq(Calls)] :
              Runs(g, IdSteps(b, type), Len(b)) /\ Ids(b, type) = g[Len(b)]
<1>. DEFINE S == Seq(Calls)
            n == Len(b)
<1>1. n \in Nat
  BY LenProperties
<1>2. IdSteps(b, type) \in [1 .. n -> [S -> S]]
  <2>1. ASSUME NEW k \in 1 .. n, NEW a \in S
        PROVE  (IF b[k].type = type THEN a \o b[k].id ELSE a) \in S
    <3>1. b[k] \in ContentBlock
      BY ElementOfSeq
    <3>2. b[k].id \in S
      BY <3>1 DEF ContentBlock
    <3>. QED  BY <3>2, ConcatProperties
  <2>. QED  BY <2>1 DEF IdSteps
<1>3. <<>> \in S
  OBVIOUS
<1>4. PICK g \in [0 .. n -> S] : Runs(g, IdSteps(b, type), n)
  <2>. HIDE DEF S, n
  <2>. QED  BY <1>1, <1>2, <1>3, RunExists
<1>. DEFINE Equation(f) == f = [i \in 0 .. Len(b) |->
                IF i = 0 THEN <<>>
                ELSE IF b[i].type = type THEN f[i - 1] \o b[i].id
                ELSE f[i - 1]]
            f == CHOOSE h : Equation(h)
<1>5. \A k \in 1 .. n : g[k] = IF b[k].type = type THEN g[k - 1] \o b[k].id ELSE g[k - 1]
  <2>. TAKE k \in 1 .. n
  <2>1. g[k - 1] \in S
    BY <1>1
  <2>2. g[k] = IdSteps(b, type)[k][g[k - 1]]
    BY <1>4 DEF Runs
  <2>. QED  BY <2>1, <2>2 DEF IdSteps
<1>6. Equation(g)
  <2>1. g = [i \in 0 .. n |-> g[i]]
    OBVIOUS
  <2>2. \A i \in 0 .. n : g[i] = IF i = 0 THEN <<>>
                                 ELSE IF b[i].type = type THEN g[i - 1] \o b[i].id
                                 ELSE g[i - 1]
    <3>. TAKE i \in 0 .. n
    <3>1. CASE i = 0
      BY <1>4, <3>1 DEF Runs
    <3>2. CASE i # 0
      <4>1. i \in 1 .. n
        BY <1>1, <3>2
      <4>. QED  BY <1>5, <3>2, <4>1, Zenon
    <3>. QED  BY <3>1, <3>2
  <2>. QED  BY <2>1, <2>2
<1>7. Equation(f)
  <2>. HIDE DEF Equation
  <2>. QED  BY <1>6, Zenon
<1>8. Ids(b, type) = f[n]
  BY Zenon DEF Ids
<1>9. \A k \in 0 .. n : k \in {i \in 0 .. n : f[i] = g[i]}
  <2>. DEFINE T == {i \in 0 .. n : f[i] = g[i]}
  <2>. HIDE DEF f
  <2>1. 0 \in T
    BY <1>1, <1>6, <1>7
  <2>2. ASSUME NEW k \in 0 .. n - 1, k \in T
        PROVE  k + 1 \in T
    <3>1. k + 1 \in 0 .. n /\ k + 1 # 0 /\ (k + 1) - 1 = k
      BY <1>1
    <3>2. f[k + 1] = IF b[k + 1].type = type THEN f[k] \o b[k + 1].id ELSE f[k]
      BY <1>7, <3>1
    <3>3. g[k + 1] = IF b[k + 1].type = type THEN g[k] \o b[k + 1].id ELSE g[k]
      BY <1>6, <3>1
    <3>. QED  BY <2>2, <3>1, <3>2, <3>3
  <2>. HIDE DEF T, n
  <2>3. \A k \in 0 .. n : k \in T
    BY <1>1, <2>1, <2>2, CountInduction
  <2>. QED  BY <2>3 DEF T
<1>. HIDE DEF f, S
<1>. QED  BY <1>1, <1>4, <1>8, <1>9 DEF S

\* The blocks of one type that carry these calls.
Carry(b, type, calls) ==
    Len(b) = Len(calls) /\ \A j \in 1 .. Len(b) : b[j] = Block(type, <<calls[j]>>)

\* Blocks of one type carry the ids they are listed with; blocks of another, none.
LEMMA IdsOfBlocks ==
    ASSUME NEW b \in Seq(ContentBlock), NEW calls \in Seq(Calls), NEW type,
           Carry(b, type, calls)
    PROVE  Ids(b, type) = calls /\ \A other : other # type => Ids(b, other) = <<>>
<1>. USE DEF Carry
<1>. DEFINE n == Len(b)
<1>1. n \in Nat /\ \A k \in 1 .. n : b[k].type = type /\ b[k].id = <<calls[k]>> /\ calls[k] \in Calls
  <2>1. n \in Nat
    BY LenProperties
  <2>2. ASSUME NEW k \in 1 .. n
        PROVE  b[k].type = type /\ b[k].id = <<calls[k]>> /\ calls[k] \in Calls
    <3>1. b[k] = Block(type, <<calls[k]>>)
      OBVIOUS
    <3>2. calls[k] \in Calls
      BY ElementOfSeq
    <3>. QED  BY <3>1, <3>2 DEF Block
  <2>. QED  BY <2>1, <2>2
<1>2. Ids(b, type) = calls
  <2>1. PICK g \in [0 .. n -> Seq(Calls)] : Runs(g, IdSteps(b, type), n) /\ Ids(b, type) = g[n]
    BY IdsRuns
  <2>. DEFINE T == {k \in 0 .. n : Len(g[k]) = k /\ \A j \in 1 .. k : g[k][j] = calls[j]}
  <2>2. 0 \in T
    BY <1>1, <2>1, LenProperties DEF Runs
  <2>3. ASSUME NEW k \in 0 .. n - 1, k \in T
        PROVE  k + 1 \in T
    <3>1. k + 1 \in 1 .. n /\ k + 1 \in 0 .. n /\ k \in 0 .. n /\ (k + 1) - 1 = k
      BY <1>1
    <3>2. g[k] \in Seq(Calls) /\ Len(g[k]) = k /\ \A j \in 1 .. k : g[k][j] = calls[j]
      BY <2>3, <3>1
    <3>3. g[k + 1] = g[k] \o <<calls[k + 1]>>
      BY <1>1, <2>1, <3>1, <3>2 DEF Runs, IdSteps
    <3>4. calls[k + 1] \in Calls
      BY <1>1, <3>1
    <3>5. g[k + 1] = Append(g[k], calls[k + 1])
      BY <3>2, <3>3, <3>4, AppendIsConcat
    <3>6. /\ Len(g[k + 1]) = k + 1 /\ g[k + 1][k + 1] = calls[k + 1]
          /\ \A j \in 1 .. k : g[k + 1][j] = calls[j]
      BY <3>2, <3>4, <3>5, AppendProperties
    <3>7. \A j \in 1 .. k + 1 : j \in 1 .. k \/ j = k + 1
      BY <3>1
    <3>. QED  BY <3>1, <3>6, <3>7
  <2>4. n \in T
    <3>. HIDE DEF T, n
    <3>1. \A k \in 0 .. n : k \in T
      BY <1>1, <2>2, <2>3, CountInduction
    <3>. QED  BY <1>1, <3>1
  <2>. QED  BY <1>1, <2>1, <2>4, SeqEqual
<1>3. ASSUME NEW other, other # type
      PROVE  Ids(b, other) = <<>>
  <2>1. PICK g \in [0 .. n -> Seq(Calls)] : Runs(g, IdSteps(b, other), n) /\ Ids(b, other) = g[n]
    BY IdsRuns
  <2>. DEFINE T == {k \in 0 .. n : g[k] = <<>>}
  <2>2. 0 \in T
    BY <1>1, <2>1 DEF Runs
  <2>3. ASSUME NEW k \in 0 .. n - 1, k \in T
        PROVE  k + 1 \in T
    <3>1. k + 1 \in 1 .. n /\ k + 1 \in 0 .. n /\ k \in 0 .. n /\ (k + 1) - 1 = k
      BY <1>1
    <3>2. g[k] \in Seq(Calls) /\ g[k] = <<>>
      BY <2>3, <3>1
    <3>3. g[k + 1] = g[k]
      BY <1>1, <1>3, <2>1, <3>1, <3>2 DEF Runs, IdSteps
    <3>. QED  BY <3>1, <3>2, <3>3
  <2>4. n \in T
    <3>. HIDE DEF T, n
    <3>1. \A k \in 0 .. n : k \in T
      BY <1>1, <2>2, <2>3, CountInduction
    <3>. QED  BY <1>1, <3>1
  <2>. QED  BY <2>1, <2>4
<1>. QED  BY <1>2, <1>3

AskedSteps(ms) ==
    [k \in 1 .. Len(ms) |-> [a \in Seq(Seq(Calls)) |->
        IF ms[k].role = "assistant" THEN Append(a, ms[k].calls) ELSE a]]

\* Asked is the last of a list of lists of calls.
LEMMA AskedRuns ==
    ASSUME NEW ms \in Seq(Message)
    PROVE  \E g \in [0 .. Len(ms) -> Seq(Seq(Calls))] :
              Runs(g, AskedSteps(ms), Len(ms)) /\ Asked(ms) = g[Len(ms)]
<1>. DEFINE S == Seq(Seq(Calls))
            n == Len(ms)
<1>1. n \in Nat
  BY LenProperties
<1>2. AskedSteps(ms) \in [1 .. n -> [S -> S]]
  <2>1. ASSUME NEW k \in 1 .. n, NEW a \in S
        PROVE  (IF ms[k].role = "assistant" THEN Append(a, ms[k].calls) ELSE a) \in S
    <3>1. ms[k] \in Message
      BY ElementOfSeq
    <3>2. ms[k].calls \in Seq(Calls)
      BY <3>1 DEF Message
    <3>. QED  BY <3>2, AppendProperties
  <2>. QED  BY <2>1 DEF AskedSteps
<1>3. <<>> \in S
  OBVIOUS
<1>4. PICK g \in [0 .. n -> S] : Runs(g, AskedSteps(ms), n)
  <2>. HIDE DEF S, n
  <2>. QED  BY <1>1, <1>2, <1>3, RunExists
<1>. DEFINE Equation(f) == f = [i \in 0 .. Len(ms) |->
                IF i = 0 THEN <<>>
                ELSE IF ms[i].role = "assistant" THEN Append(f[i - 1], ms[i].calls)
                ELSE f[i - 1]]
            f == CHOOSE h : Equation(h)
<1>5. \A k \in 1 .. n : g[k] = IF ms[k].role = "assistant"
                                 THEN Append(g[k - 1], ms[k].calls) ELSE g[k - 1]
  <2>. TAKE k \in 1 .. n
  <2>1. g[k - 1] \in S
    BY <1>1
  <2>2. g[k] = AskedSteps(ms)[k][g[k - 1]]
    BY <1>4 DEF Runs
  <2>. QED  BY <2>1, <2>2 DEF AskedSteps
<1>6. Equation(g)
  <2>1. g = [i \in 0 .. n |-> g[i]]
    OBVIOUS
  <2>2. \A i \in 0 .. n : g[i] = IF i = 0 THEN <<>>
                                 ELSE IF ms[i].role = "assistant"
                                   THEN Append(g[i - 1], ms[i].calls)
                                 ELSE g[i - 1]
    <3>. TAKE i \in 0 .. n
    <3>1. CASE i = 0
      BY <1>4, <3>1 DEF Runs
    <3>2. CASE i # 0
      <4>1. i \in 1 .. n
        BY <1>1, <3>2
      <4>. QED  BY <1>5, <3>2, <4>1, Zenon
    <3>. QED  BY <3>1, <3>2
  <2>. QED  BY <2>1, <2>2
<1>7. Equation(f)
  <2>. HIDE DEF Equation
  <2>. QED  BY <1>6, Zenon
<1>8. Asked(ms) = f[n]
  BY Zenon DEF Asked
<1>9. \A k \in 0 .. n : k \in {i \in 0 .. n : f[i] = g[i]}
  <2>. DEFINE T == {i \in 0 .. n : f[i] = g[i]}
  <2>. HIDE DEF f
  <2>1. 0 \in T
    BY <1>1, <1>6, <1>7
  <2>2. ASSUME NEW k \in 0 .. n - 1, k \in T
        PROVE  k + 1 \in T
    <3>1. k + 1 \in 0 .. n /\ k + 1 # 0 /\ (k + 1) - 1 = k
      BY <1>1
    <3>2. f[k + 1] = IF ms[k + 1].role = "assistant" THEN Append(f[k], ms[k + 1].calls) ELSE f[k]
      BY <1>7, <3>1
    <3>3. g[k + 1] = IF ms[k + 1].role = "assistant" THEN Append(g[k], ms[k + 1].calls) ELSE g[k]
      BY <1>6, <3>1
    <3>. QED  BY <2>2, <3>1, <3>2, <3>3
  <2>. HIDE DEF T, n
  <2>3. \A k \in 0 .. n : k \in T
    BY <1>1, <2>1, <2>2, CountInduction
  <2>. QED  BY <2>3 DEF T
<1>. HIDE DEF f, S
<1>. QED  BY <1>1, <1>4, <1>8, <1>9 DEF S

\* One more message asks for what it asks for, if it is an answer of the model.
LEMMA AskedAppend ==
    ASSUME NEW ms \in Seq(Message), NEW m \in Message
    PROVE  /\ Asked(ms) \in Seq(Seq(Calls))
           /\ Asked(Append(ms, m)) =
                 IF m.role = "assistant" THEN Append(Asked(ms), m.calls) ELSE Asked(ms)
<1>. DEFINE d == Append(ms, m)
            n == Len(ms)
<1>1. /\ n \in Nat /\ d \in Seq(Message) /\ Len(d) = n + 1 /\ d[n + 1] = m
      /\ \A k \in 1 .. n : d[k] = ms[k]
  BY LenProperties, AppendProperties
<1>. HIDE DEF d
<1>2. PICK g \in [0 .. n -> Seq(Seq(Calls))] : Runs(g, AskedSteps(ms), n) /\ Asked(ms) = g[n]
  BY AskedRuns
<1>3. PICK h \in [0 .. Len(d) -> Seq(Seq(Calls))] :
         Runs(h, AskedSteps(d), Len(d)) /\ Asked(d) = h[Len(d)]
  BY <1>1, AskedRuns
<1>4. \A k \in 1 .. n : AskedSteps(ms)[k] = AskedSteps(d)[k]
  <2>. TAKE k \in 1 .. n
  <2>1. k \in 1 .. Len(ms) /\ k \in 1 .. Len(d) /\ ms[k] = d[k]
    BY <1>1
  <2>. QED  BY <2>1, Zenon DEF AskedSteps
<1>5. g[n] = h[n]
  <2>1. Extends(h, AskedSteps(d), Len(d), g, AskedSteps(ms), n)
    BY <1>1, <1>2, <1>3, <1>4 DEF Extends
  <2>. QED  BY <2>1, RunsAgree
<1>6. h[n + 1] = AskedSteps(d)[n + 1][h[n]] /\ h[n] \in Seq(Seq(Calls))
  BY <1>1, <1>3 DEF Runs
<1>7. n + 1 \in 1 .. Len(d)
  BY <1>1
<1>8. AskedSteps(d)[n + 1][h[n]] = IF m.role = "assistant" THEN Append(h[n], m.calls) ELSE h[n]
  BY <1>1, <1>6, <1>7 DEF AskedSteps
<1>. QED  BY <1>1, <1>2, <1>3, <1>5, <1>6, <1>8 DEF d

\* Before the first answer nothing was asked for.
LEMMA AskedEmpty == Asked(<<>>) = <<>>
<1>1. <<>> \in Seq(Message) /\ Len(<<>>) = 0
  BY LenProperties
<1>2. PICK g \in [0 .. Len(<<>>) -> Seq(Seq(Calls))] :
         Runs(g, AskedSteps(<<>>), Len(<<>>)) /\ Asked(<<>>) = g[Len(<<>>)]
  BY <1>1, AskedRuns
<1>. QED  BY <1>1, <1>2 DEF Runs

-----------------------------------------------------------------------------
(* The turns of a request, as a function of what the model asked for       *)

Uses(calls) == [j \in 1 .. Len(calls) |-> Block("tool_use", <<calls[j]>>)]
Results(calls, n) == [j \in 1 .. n |-> Block("tool_result", <<calls[j]>>)]

\* The i-th turn: the user's; the calls of an answer, or their results; and
\* then, in words, answers that did not validate and complaints about them.
TurnAt(asks, i) ==
    IF i = 1 THEN Turn("user", <<Text>>)
    ELSE IF i <= 2 * Len(asks) + 1 THEN
       IF i % 2 = 0 THEN Turn("assistant", Uses(asks[i \div 2]))
       ELSE Turn("user", Results(asks[i \div 2], Len(asks[i \div 2])))
    ELSE Turn(IF i % 2 = 0 THEN "assistant" ELSE "user", <<Text>>)

TurnsOf(asks, n) == [i \in 1 .. n |-> TurnAt(asks, i)]

\* The blocks of a turn, and the ids they carry.
LEMMA BlocksOfCalls ==
    ASSUME NEW calls \in Seq(Calls)
    PROVE  /\ Uses(calls) \in Seq(ContentBlock)
           /\ Ids(Uses(calls), "tool_use") = calls
           /\ Ids(Uses(calls), "tool_result") = <<>>
           /\ \A n \in 0 .. Len(calls) : Results(calls, n) \in Seq(ContentBlock)
           /\ Ids(Results(calls, Len(calls)), "tool_result") = calls
           /\ Ids(Results(calls, Len(calls)), "tool_use") = <<>>
<1>1. Len(calls) \in Nat /\ \A j \in 1 .. Len(calls) : calls[j] \in Calls
  BY LenProperties, ElementOfSeq
<1>2. \A j \in 1 .. Len(calls) :
         Block("tool_use", <<calls[j]>>) \in ContentBlock
         /\ Block("tool_result", <<calls[j]>>) \in ContentBlock
  BY <1>1, SingleCall DEF Block, ContentBlock
<1>3. /\ Uses(calls) \in Seq(ContentBlock) /\ Len(Uses(calls)) = Len(calls)
      /\ \A j \in 1 .. Len(calls) : Uses(calls)[j] = Block("tool_use", <<calls[j]>>)
  BY <1>1, <1>2 DEF Uses
<1>4. ASSUME NEW n \in 0 .. Len(calls)
      PROVE  /\ Results(calls, n) \in Seq(ContentBlock) /\ Len(Results(calls, n)) = n
             /\ \A j \in 1 .. n : Results(calls, n)[j] = Block("tool_result", <<calls[j]>>)
  <2>1. n \in Nat /\ \A j \in 1 .. n : j \in 1 .. Len(calls)
    BY <1>1
  <2>. QED  BY <2>1, <1>2 DEF Results
<1>5. Ids(Uses(calls), "tool_use") = calls /\ Ids(Uses(calls), "tool_result") = <<>>
  <2>. DEFINE b == Uses(calls)
  <2>1. b \in Seq(ContentBlock) /\ Carry(b, "tool_use", calls)
    BY <1>3 DEF Carry
  <2>. HIDE DEF b
  <2>2. Ids(b, "tool_use") = calls /\ \A other : other # "tool_use" => Ids(b, other) = <<>>
    BY <2>1, IdsOfBlocks, Zenon
  <2>. QED  BY <2>2 DEF b
<1>6. Len(calls) \in 0 .. Len(calls)
  BY <1>1
<1>7. /\ Ids(Results(calls, Len(calls)), "tool_result") = calls
      /\ Ids(Results(calls, Len(calls)), "tool_use") = <<>>
  <2>1. /\ Results(calls, Len(calls)) \in Seq(ContentBlock)
        /\ Carry(Results(calls, Len(calls)), "tool_result", calls)
    BY <1>4, <1>6 DEF Carry
  <2>. QED  BY <2>1, IdsOfBlocks
<1>. QED  BY <1>3, <1>4, <1>5, <1>7

\* A text carries no id.
LEMMA TextHasNoIds ==
    /\ <<Text>> \in Seq(ContentBlock)
    /\ Ids(<<Text>>, "tool_use") = <<>> /\ Ids(<<Text>>, "tool_result") = <<>>
<1>1. Text \in ContentBlock /\ Text.type = "text"
  BY DEF Text, Block, ContentBlock
<1>2. <<Text>> \in Seq(ContentBlock) /\ Len(<<Text>>) = 1 /\ <<Text>>[1] = Text
  BY <1>1
<1>3. ASSUME NEW type, type # "text"
      PROVE  Ids(<<Text>>, type) = <<>>
  <2>. DEFINE b == <<Text>>
  <2>1. b \in Seq(ContentBlock) /\ Len(b) = 1 /\ b[1] = Text
    BY <1>2
  <2>. HIDE DEF b
  <2>2. PICK g \in [0 .. Len(b) -> Seq(Calls)] :
           Runs(g, IdSteps(b, type), Len(b)) /\ Ids(b, type) = g[Len(b)]
    BY <2>1, IdsRuns
  <2>3. g[0] = <<>> /\ g[1] = IdSteps(b, type)[1][g[0]] /\ g[0] \in Seq(Calls)
    BY <2>1, <2>2 DEF Runs
  <2>4. IdSteps(b, type)[1][g[0]] = g[0]
    BY <1>1, <1>3, <2>1, <2>3 DEF IdSteps
  <2>. QED  BY <2>1, <2>2, <2>3, <2>4 DEF b
<1>. QED  BY <1>2, <1>3

\* Every turn is one; the user's are the odd ones; only the turns of an answer
\* and of its tools carry ids.
LEMMA TurnAtIs ==
    ASSUME NEW asks \in Seq(Seq(Calls)), NEW i \in Nat, i > 0
    PROVE  /\ TurnAt(asks, i) \in AnthropicTurn
           /\ TurnAt(asks, i).role = IF i % 2 = 0 THEN "assistant" ELSE "user"
           /\ Ids(TurnAt(asks, i).content, "tool_use") =
                 IF i % 2 = 0 /\ i <= 2 * Len(asks) + 1 THEN asks[i \div 2] ELSE <<>>
           /\ Ids(TurnAt(asks, i).content, "tool_result") =
                 IF i % 2 = 1 /\ i # 1 /\ i <= 2 * Len(asks) + 1 THEN asks[i \div 2] ELSE <<>>
<1>1. Len(asks) \in Nat /\ (i % 2 = 0 \/ i % 2 = 1)
  BY LenProperties
<1>2. CASE i = 1 \/ i > 2 * Len(asks) + 1
  <2>1. TurnAt(asks, i) = Turn(IF i % 2 = 0 THEN "assistant" ELSE "user", <<Text>>)
    BY <1>1, <1>2 DEF TurnAt
  <2>2. i % 2 = 0 => i # 1
    OBVIOUS
  <2>3. ~(i # 1 /\ i <= 2 * Len(asks) + 1)
    BY <1>1, <1>2
  <2>. QED  BY <2>1, <2>2, <2>3, TextHasNoIds DEF Turn, AnthropicTurn, Roles
<1>3. CASE i # 1 /\ i <= 2 * Len(asks) + 1
  <2>. DEFINE calls == asks[i \div 2]
  <2>1. i \div 2 \in 1 .. Len(asks)
    BY <1>1, <1>3
  <2>2. calls \in Seq(Calls) /\ Len(calls) \in 0 .. Len(calls)
    <3>1. calls \in Seq(Calls)
      BY <2>1, ElementOfSeq
    <3>. QED  BY <3>1, LenProperties
  <2>3. CASE i % 2 = 0
    <3>1. TurnAt(asks, i) = Turn("assistant", Uses(calls))
      BY <1>3, <2>3 DEF TurnAt
    <3>. HIDE DEF calls
    <3>2. /\ TurnAt(asks, i).content = Uses(calls) /\ TurnAt(asks, i).role = "assistant"
          /\ TurnAt(asks, i) \in AnthropicTurn
      BY <2>2, <3>1, BlocksOfCalls DEF Turn, AnthropicTurn, Roles
    <3>. QED  BY <1>3, <2>2, <2>3, <3>2, BlocksOfCalls DEF calls
  <2>4. CASE i % 2 = 1
    <3>1. TurnAt(asks, i) = Turn("user", Results(calls, Len(calls)))
      BY <1>3, <2>4 DEF TurnAt
    <3>. HIDE DEF calls
    <3>2. /\ TurnAt(asks, i).content = Results(calls, Len(calls))
          /\ TurnAt(asks, i).role = "user" /\ TurnAt(asks, i) \in AnthropicTurn
      BY <2>2, <3>1, BlocksOfCalls DEF Turn, AnthropicTurn, Roles
    <3>. QED  BY <1>3, <2>2, <2>4, <3>2, BlocksOfCalls DEF calls
  <2>. QED  BY <1>1, <2>3, <2>4
<1>. QED  BY <1>1, <1>2, <1>3

\* The turns, as a sequence.
LEMMA TurnsOfIs ==
    ASSUME NEW asks \in Seq(Seq(Calls)), NEW n \in Nat
    PROVE  /\ TurnsOf(asks, n) \in Seq(AnthropicTurn) /\ Len(TurnsOf(asks, n)) = n
           /\ \A i \in 1 .. n : TurnsOf(asks, n)[i] = TurnAt(asks, i)
           /\ TurnsOf(asks, n + 1) = Append(TurnsOf(asks, n), TurnAt(asks, n + 1))
<1>1. \A l \in Nat : /\ TurnsOf(asks, l) \in Seq(AnthropicTurn) /\ Len(TurnsOf(asks, l)) = l
                     /\ \A i \in 1 .. l : TurnsOf(asks, l)[i] = TurnAt(asks, i)
  <2>. TAKE l \in Nat
  <2>1. \A i \in 1 .. l : TurnAt(asks, i) \in AnthropicTurn
    BY TurnAtIs
  <2>. QED  BY <2>1 DEF TurnsOf
<1>. DEFINE s == TurnsOf(asks, n)
            t == TurnsOf(asks, n + 1)
            e == TurnAt(asks, n + 1)
<1>2. e \in AnthropicTurn
  BY TurnAtIs
<1>3. /\ s \in Seq(AnthropicTurn) /\ Len(s) = n /\ t \in Seq(AnthropicTurn) /\ Len(t) = n + 1
      /\ \A i \in 1 .. n : s[i] = t[i]
      /\ t[n + 1] = e
  BY <1>1
<1>. HIDE DEF s, t, e
<1>4. /\ Append(s, e) \in Seq(AnthropicTurn) /\ Len(Append(s, e)) = n + 1
      /\ Append(s, e)[n + 1] = e /\ \A i \in 1 .. n : Append(s, e)[i] = s[i]
  BY <1>2, <1>3, AppendProperties
<1>5. \A i \in 1 .. n + 1 : i \in 1 .. n \/ i = n + 1
  OBVIOUS
<1>6. t = Append(s, e)
  BY <1>3, <1>4, <1>5, SeqEqual
<1>. QED  BY <1>1, <1>6 DEF s, t, e

\* However many answers did not validate, the turns alternate.
LEMMA TurnsAlternate ==
    ASSUME NEW asks \in Seq(Seq(Calls)), NEW q \in Nat, q >= Len(asks)
    PROVE  Alternates(TurnsOf(asks, 2 * q + 1))
<1>. DEFINE n == 2 * q + 1
            turns == TurnsOf(asks, n)
<1>1. Len(asks) \in Nat /\ n \in Nat /\ n >= 1 /\ n % 2 = 1 /\ n >= 2 * Len(asks) + 1
  BY LenProperties
<1>2. /\ turns \in Seq(AnthropicTurn) /\ Len(turns) = n
      /\ \A i \in 1 .. n : turns[i] = TurnAt(asks, i)
  BY <1>1, TurnsOfIs
<1>. HIDE DEF n, turns
<1>3. turns # <<>> /\ turns[1].role = "user" /\ turns[1].content[1] = Text
  <2>1. turns[1] = Turn("user", <<Text>>)
    BY <1>1, <1>2 DEF TurnAt
  <2>. QED  BY <1>1, <1>2, <2>1, EmptySeq DEF Turn
<1>4. turns[Len(turns)].role = "user"
  BY <1>1, <1>2, TurnAtIs
<1>5. ASSUME NEW i \in 1 .. Len(turns) - 1
      PROVE  /\ turns[i].role # turns[i + 1].role
             /\ Ids(turns[i + 1].content, "tool_result") = Ids(turns[i].content, "tool_use")
  <2>1. /\ i \in Nat /\ i > 0 /\ i + 1 \in Nat /\ i + 1 > 0 /\ i + 1 # 1
        /\ i \in 1 .. n /\ i + 1 \in 1 .. n
    BY <1>1, <1>2
  <2>2. turns[i] = TurnAt(asks, i) /\ turns[i + 1] = TurnAt(asks, i + 1)
    BY <1>2, <2>1
  <2>3. CASE i % 2 = 0
    <3>1. (i + 1) % 2 = 1 /\ (i + 1) \div 2 = i \div 2
      BY <2>1, <2>3
    <3>2. i <= 2 * Len(asks) + 1 <=> i + 1 <= 2 * Len(asks) + 1
      BY <1>1, <2>1, <2>3
    <3>. QED  BY <2>1, <2>2, <2>3, <3>1, <3>2, TurnAtIs
  <2>4. CASE i % 2 = 1
    <3>1. (i + 1) % 2 = 0
      <4>1. PICK k \in Nat : i = 2 * k + 1
        <5>1. i \div 2 \in Nat /\ i = 2 * (i \div 2) + 1
          BY <2>1, <2>4
        <5>. QED  BY <5>1
      <4>2. \A x \in Nat : (2 * x) % 2 = 0
        OBVIOUS
      <4>3. i + 1 = 2 * (k + 1) /\ k + 1 \in Nat
        BY <4>1
      <4>. QED  BY <4>2, <4>3
    <3>. QED  BY <2>1, <2>2, <2>4, <3>1, TurnAtIs
  <2>. QED  BY <2>1, <2>3, <2>4
<1>. QED  BY <1>3, <1>4, <1>5 DEF Alternates, turns, n

\* A turn of the other role is appended.
LEMMA OtherRoleAppended ==
    ASSUME NEW asks \in Seq(Seq(Calls)), NEW n \in Nat, n > 0, NEW turn,
           turn.role = IF n % 2 = 0 THEN "user" ELSE "assistant"
    PROVE  MergeTurn(TurnsOf(asks, n), turn) = Append(TurnsOf(asks, n), turn)
<1>1. TurnsOf(asks, n)[Len(TurnsOf(asks, n))] = TurnAt(asks, n)
  <2>1. /\ Len(TurnsOf(asks, n)) = n
        /\ \A i \in 1 .. n : TurnsOf(asks, n)[i] = TurnAt(asks, i)
    BY TurnsOfIs
  <2>2. n \in 1 .. n
    OBVIOUS
  <2>. QED  BY <2>1, <2>2
<1>2. TurnAt(asks, n).role # turn.role
  BY TurnAtIs
<1>. QED  BY <1>1, <1>2 DEF MergeTurn

\* An element appended to the end of a concatenation.
LEMMA ConcatAppend ==
    ASSUME NEW S, NEW a \in Seq(S), NEW b \in Seq(S), NEW e \in S
    PROVE  a \o Append(b, e) = Append(a \o b, e) /\ a \o b \in Seq(S)
<1>1. a \o b \in Seq(S) /\ <<e>> \in Seq(S)
  BY ConcatProperties
<1>2. Append(b, e) = b \o <<e>> /\ Append(a \o b, e) = (a \o b) \o <<e>>
  BY <1>1, AppendIsConcat
<1>3. (a \o b) \o <<e>> = a \o (b \o <<e>>)
  BY <1>1, ConcatAssociative
<1>. QED  BY <1>1, <1>2, <1>3

\* A turn of the role that spoke last joins its turn.
LEMMA SameRoleJoined ==
    ASSUME NEW turns \in Seq(AnthropicTurn), NEW role \in Roles,
           NEW x \in Seq(ContentBlock), NEW y \in Seq(ContentBlock)
    PROVE  MergeTurn(Append(turns, Turn(role, x)), Turn(role, y)) =
              Append(turns, Turn(role, x \o y))
<1>. DEFINE n == Len(turns) + 1
            s == Append(turns, Turn(role, x))
            t == Append(turns, Turn(role, x \o y))
            e == [s[n] EXCEPT !.content = s[n].content \o y]
<1>1. x \o y \in Seq(ContentBlock) /\ Len(turns) \in Nat
  BY ConcatProperties, LenProperties
<1>2. Turn(role, x) \in AnthropicTurn /\ Turn(role, x \o y) \in AnthropicTurn
  BY <1>1 DEF Turn, AnthropicTurn
<1>3. /\ s \in Seq(AnthropicTurn) /\ Len(s) = n /\ s[n] = Turn(role, x)
      /\ \A i \in 1 .. Len(turns) : s[i] = turns[i]
      /\ t \in Seq(AnthropicTurn) /\ Len(t) = n /\ t[n] = Turn(role, x \o y)
      /\ \A i \in 1 .. Len(turns) : t[i] = turns[i]
  BY <1>2, AppendProperties
<1>. HIDE DEF s, t
<1>4. e = Turn(role, x \o y)
  <2>1. s[n].content = x
    BY <1>3 DEF Turn
  <2>2. \A z : [Turn(role, x) EXCEPT !.content = z] = Turn(role, z)
    BY DEF Turn
  <2>. QED  BY <1>3, <2>1, <2>2
<1>5. MergeTurn(s, Turn(role, y)) = [s EXCEPT ![n] = e]
  <2>1. s # <<>>
    BY <1>1, <1>3
  <2>2. s[Len(s)].role = role /\ Turn(role, y).role = role /\ Turn(role, y).content = y
    BY <1>3 DEF Turn
  <2>. QED  BY <1>3, <2>1, <2>2 DEF MergeTurn
<1>. HIDE DEF e
<1>6. [s EXCEPT ![n] = e] \in Seq(AnthropicTurn) /\ Len([s EXCEPT ![n] = e]) = n
      /\ \A i \in 1 .. n : [s EXCEPT ![n] = e][i] = IF i = n THEN e ELSE s[i]
  <2>1. n \in 1 .. Len(s) /\ e \in AnthropicTurn
    BY <1>1, <1>2, <1>3, <1>4
  <2>. QED  BY <1>3, <2>1, ExceptSeq
<1>7. \A i \in 1 .. n : [s EXCEPT ![n] = e][i] = t[i]
  <2>. TAKE i \in 1 .. n
  <2>1. CASE i = n
    BY <1>3, <1>4, <1>6, <2>1
  <2>2. CASE i # n
    <3>1. i \in 1 .. Len(turns)
      BY <1>1, <2>2
    <3>. QED  BY <1>3, <1>6, <2>2, <3>1
  <2>. QED  BY <2>1, <2>2
<1>8. [s EXCEPT ![n] = e] = t
  BY <1>3, <1>6, <1>7, SeqEqual
<1>. QED  BY <1>5, <1>8 DEF s, t

-----------------------------------------------------------------------------
(* The conversation on the wire                                            *)

\* A message keeps its role, and what it asks for if only answers ask.
LEMMA ToWireIs ==
    ASSUME NEW m \in Message
    PROVE  /\ ToWire(m) \in WireMessage /\ ToWire(m).role = m.role
           /\ (m.role # "assistant" => m.calls = <<>>) => ToWire(m).tool_calls = m.calls
<1>1. m.role \in Roles /\ m.calls \in Seq(Calls) /\ m.answers \in Seq(Calls)
      /\ <<>> \in Seq(Calls)
  BY DEF Message
<1>. QED  BY <1>1 DEF ToWire, Wire, WireMessage, Roles

\* The conversation, message by message.
LEMMA OmniToOpenaiIs ==
    ASSUME NEW ms \in Seq(Message)
    PROVE  /\ OmniToOpenai(ms) \in Seq(WireMessage) /\ Len(OmniToOpenai(ms)) = Len(ms)
           /\ \A i \in 1 .. Len(ms) : OmniToOpenai(ms)[i] = ToWire(ms[i])
<1>1. Len(ms) \in Nat /\ DOMAIN ms = 1 .. Len(ms)
  BY LenProperties
<1>2. \A i \in 1 .. Len(ms) : ToWire(ms[i]) \in WireMessage
  <2>. TAKE i \in 1 .. Len(ms)
  <2>1. ms[i] \in Message
    BY ElementOfSeq
  <2>. QED  BY <2>1, ToWireIs
<1>3. OmniToOpenai(ms) = [i \in 1 .. Len(ms) |-> ToWire(ms[i])]
  BY <1>1 DEF OmniToOpenai
<1>. QED  BY <1>1, <1>2, <1>3

\* One more message.
LEMMA OmniToOpenaiAppend ==
    ASSUME NEW ms \in Seq(Message), NEW m \in Message
    PROVE  OmniToOpenai(Append(ms, m)) = Append(OmniToOpenai(ms), ToWire(m))
<1>. DEFINE n == Len(ms)
            d == Append(ms, m)
            s == OmniToOpenai(d)
            w == OmniToOpenai(ms)
            t == Append(w, ToWire(m))
<1>1. /\ n \in Nat /\ d \in Seq(Message) /\ Len(d) = n + 1 /\ d[n + 1] = m
      /\ \A i \in 1 .. n : d[i] = ms[i]
  BY LenProperties, AppendProperties
<1>. HIDE DEF d
<1>2. /\ s \in Seq(WireMessage) /\ Len(s) = n + 1
      /\ \A i \in 1 .. n + 1 : s[i] = ToWire(d[i])
  BY <1>1, OmniToOpenaiIs
<1>3. /\ w \in Seq(WireMessage) /\ Len(w) = n /\ \A i \in 1 .. n : w[i] = ToWire(ms[i])
  BY OmniToOpenaiIs
<1>. HIDE DEF s, w
<1>4. /\ t \in Seq(WireMessage) /\ Len(t) = n + 1 /\ t[n + 1] = ToWire(m)
      /\ \A i \in 1 .. n : t[i] = w[i]
  BY <1>3, ToWireIs, AppendProperties
<1>. HIDE DEF t
<1>5. \A i \in 1 .. n + 1 : s[i] = t[i]
  <2>. TAKE i \in 1 .. n + 1
  <2>1. CASE i = n + 1
    BY <1>1, <1>2, <1>4, <2>1
  <2>2. CASE i # n + 1
    <3>1. i \in 1 .. n
      BY <1>1, <2>2
    <3>. QED  BY <1>1, <1>2, <1>3, <1>4, <3>1
  <2>. QED  BY <2>1, <2>2
<1>6. s = t
  BY <1>2, <1>4, <1>5, SeqEqual
<1>. QED  BY <1>6 DEF s, t, w, d

\* The request of a conversation in which every call has its output.
Told(ms) ==
    /\ ms \in Seq(Message)
    /\ \A i \in 1 .. Len(ms) : ms[i].role # "assistant" => ms[i].calls = <<>>
    /\ ToAnthropic(OmniToOpenai(ms)) = TurnsOf(Asked(ms), 2 * Len(Asked(ms)) + 1)

\* One more message that asks for nothing, or an answer of the model.
LEMMA OnlyAnswersAsk ==
    ASSUME NEW ms \in Seq(Message), NEW m \in Message,
           \A i \in 1 .. Len(ms) : ms[i].role # "assistant" => ms[i].calls = <<>>,
           m.role # "assistant" => m.calls = <<>>
    PROVE  \A i \in 1 .. Len(Append(ms, m)) :
              Append(ms, m)[i].role # "assistant" => Append(ms, m)[i].calls = <<>>
<1>1. /\ Len(ms) \in Nat /\ Len(Append(ms, m)) = Len(ms) + 1
      /\ Append(ms, m)[Len(ms) + 1] = m /\ \A i \in 1 .. Len(ms) : Append(ms, m)[i] = ms[i]
  BY LenProperties, AppendProperties
<1>2. \A i \in 1 .. Len(ms) + 1 : i \in 1 .. Len(ms) \/ i = Len(ms) + 1
  BY <1>1
<1>. QED  BY <1>1, <1>2

\* The user's message alone.
LEMMA FirstTold == Told(<<User>>)
<1>. DEFINE w == <<>>
<1>1. /\ w \in Seq(Message) /\ w \in Seq(WireMessage) /\ User \in Message
      /\ <<User>> = Append(w, User) /\ w \in Seq(Seq(Calls)) /\ Len(w) = 0
  BY MessageTypes
<1>2. Asked(<<User>>) = <<>>
  BY <1>1, AskedAppend, AskedEmpty DEF User
<1>3. OmniToOpenai(w) = <<>>
  <2>1. OmniToOpenai(w) \in Seq(WireMessage) /\ Len(OmniToOpenai(w)) = 0
    BY <1>1, OmniToOpenaiIs
  <2>. QED  BY <2>1, EmptySeq
<1>4. OmniToOpenai(<<User>>) = Append(w, ToWire(User))
  BY <1>1, <1>3, OmniToOpenaiAppend
<1>5. ToWire(User) \in WireMessage /\ ToWire(User).role = "user"
  BY <1>1, ToWireIs DEF User
<1>6. ToAnthropic(OmniToOpenai(<<User>>)) = MergeTurn(w, ToTurn(ToWire(User)))
  BY <1>1, <1>4, <1>5, ToAnthropicAppend, ToAnthropicEmpty
<1>7. MergeTurn(w, ToTurn(ToWire(User))) = Append(w, Turn("user", <<Text>>))
  BY <1>5 DEF MergeTurn, ToTurn
<1>8. TurnsOf(<<>>, 0) = <<>> /\ TurnsOf(<<>>, 0 + 1) = Append(TurnsOf(<<>>, 0), TurnAt(<<>>, 0 + 1))
  <2>1. /\ Len(TurnsOf(w, 0)) = 0 /\ TurnsOf(w, 0) \in Seq(AnthropicTurn)
        /\ TurnsOf(w, 0 + 1) = Append(TurnsOf(w, 0), TurnAt(w, 0 + 1))
    <3>. HIDE DEF w
    <3>1. w \in Seq(Seq(Calls))
      BY <1>1
    <3>2. \A n \in Nat :
             /\ Len(TurnsOf(w, n)) = n /\ TurnsOf(w, n) \in Seq(AnthropicTurn)
             /\ TurnsOf(w, n + 1) = Append(TurnsOf(w, n), TurnAt(w, n + 1))
      BY <3>1, TurnsOfIs
    <3>3. 0 \in Nat
      OBVIOUS
    <3>. QED  BY <3>2, <3>3, Zenon
  <2>2. TurnsOf(w, 0) = <<>>
    BY <2>1, EmptySeq
  <2>. QED  BY <2>1, <2>2
<1>9. TurnAt(<<>>, 0 + 1) = Turn("user", <<Text>>)
  BY DEF TurnAt
<1>10. TurnsOf(Asked(<<User>>), 2 * Len(Asked(<<User>>)) + 1) = Append(w, Turn("user", <<Text>>))
  <2>1. 2 * Len(Asked(<<User>>)) + 1 = 0 + 1
    BY <1>1, <1>2
  <2>. QED  BY <1>2, <1>8, <1>9, <2>1
<1>. QED  BY <1>1, <1>6, <1>7, <1>10 DEF Told, User

Outputs(calls, n) == [j \in 1 .. n |-> ToolOutput(calls[j])]

\* One more output.
LEMMA OutputsIs ==
    ASSUME NEW calls \in Seq(Calls)
    PROVE  /\ \A n \in 0 .. Len(calls) :
                 /\ Outputs(calls, n) \in Seq(Message) /\ Len(Outputs(calls, n)) = n
                 /\ \A j \in 1 .. n : Outputs(calls, n)[j] = ToolOutput(calls[j])
           /\ \A n \in 0 .. Len(calls) - 1 :
                 /\ Outputs(calls, n + 1) = Append(Outputs(calls, n), ToolOutput(calls[n + 1]))
                 /\ Results(calls, n + 1) =
                       Results(calls, n) \o <<Block("tool_result", <<calls[n + 1]>>)>>
<1>1. /\ Len(calls) \in Nat
      /\ \A j \in 1 .. Len(calls) : calls[j] \in Calls /\ ToolOutput(calls[j]) \in Message
  BY LenProperties, ElementOfSeq, MessageTypes
<1>2. ASSUME NEW n \in 0 .. Len(calls)
      PROVE  /\ Outputs(calls, n) \in Seq(Message) /\ Len(Outputs(calls, n)) = n
             /\ \A j \in 1 .. n : Outputs(calls, n)[j] = ToolOutput(calls[j])
             /\ Results(calls, n) \in Seq(ContentBlock) /\ Len(Results(calls, n)) = n
             /\ \A j \in 1 .. n : Results(calls, n)[j] = Block("tool_result", <<calls[j]>>)
  <2>1. n \in Nat /\ \A j \in 1 .. n : j \in 1 .. Len(calls)
    BY <1>1
  <2>2. Results(calls, n) \in Seq(ContentBlock)
    BY BlocksOfCalls
  <2>. QED  BY <2>1, <2>2, <1>1 DEF Outputs, Results
<1>3. ASSUME NEW n \in 0 .. Len(calls) - 1
      PROVE  Outputs(calls, n + 1) = Append(Outputs(calls, n), ToolOutput(calls[n + 1]))
  <2>. DEFINE s == Outputs(calls, n)
              t == Outputs(calls, n + 1)
              e == ToolOutput(calls[n + 1])
  <2>1. n \in 0 .. Len(calls) /\ n + 1 \in 0 .. Len(calls) /\ n + 1 \in 1 .. Len(calls)
    BY <1>1
  <2>2. /\ s \in Seq(Message) /\ Len(s) = n /\ t \in Seq(Message) /\ Len(t) = n + 1
        /\ e \in Message /\ t[n + 1] = e /\ \A j \in 1 .. n : s[j] = t[j]
    BY <1>1, <1>2, <2>1
  <2>. HIDE DEF s, t, e
  <2>3. /\ Append(s, e) \in Seq(Message) /\ Len(Append(s, e)) = n + 1 /\ Append(s, e)[n + 1] = e
        /\ \A j \in 1 .. n : Append(s, e)[j] = s[j]
    BY <2>2, AppendProperties
  <2>4. \A j \in 1 .. n + 1 : j \in 1 .. n \/ j = n + 1
    BY <2>1
  <2>5. t = Append(s, e)
    BY <2>2, <2>3, <2>4, SeqEqual
  <2>. QED  BY <2>5 DEF s, t, e
<1>4. ASSUME NEW n \in 0 .. Len(calls) - 1
      PROVE  Results(calls, n + 1) =
                Results(calls, n) \o <<Block("tool_result", <<calls[n + 1]>>)>>
  <2>. DEFINE s == Results(calls, n)
              t == Results(calls, n + 1)
              e == Block("tool_result", <<calls[n + 1]>>)
  <2>1. n \in 0 .. Len(calls) /\ n + 1 \in 0 .. Len(calls) /\ n + 1 \in 1 .. Len(calls)
    BY <1>1
  <2>2. e \in ContentBlock
    BY <1>1, <2>1, SingleCall DEF Block, ContentBlock
  <2>3. /\ s \in Seq(ContentBlock) /\ Len(s) = n /\ t \in Seq(ContentBlock) /\ Len(t) = n + 1
        /\ t[n + 1] = e /\ \A j \in 1 .. n : s[j] = t[j]
    <3>1. /\ s \in Seq(ContentBlock) /\ Len(s) = n
          /\ \A j \in 1 .. n : s[j] = Block("tool_result", <<calls[j]>>)
      BY <1>2, <2>1
    <3>2. /\ t \in Seq(ContentBlock) /\ Len(t) = n + 1
          /\ \A j \in 1 .. n + 1 : t[j] = Block("tool_result", <<calls[j]>>)
      BY <1>2, <2>1
    <3>3. n + 1 \in 1 .. n + 1 /\ \A j \in 1 .. n : j \in 1 .. n + 1
      BY <2>1
    <3>. HIDE DEF s, t
    <3>. QED  BY <3>1, <3>2, <3>3
  <2>. HIDE DEF s, t, e
  <2>4. /\ Append(s, e) \in Seq(ContentBlock) /\ Len(Append(s, e)) = n + 1
        /\ Append(s, e)[n + 1] = e /\ \A j \in 1 .. n : Append(s, e)[j] = s[j]
    BY <2>2, <2>3, AppendProperties
  <2>5. \A j \in 1 .. n + 1 : j \in 1 .. n \/ j = n + 1
    BY <2>1
  <2>6. t = Append(s, e)
    BY <2>3, <2>4, <2>5, SeqEqual
  <2>7. t = s \o <<e>>
    BY <2>2, <2>3, <2>6, AppendIsConcat
  <2>. QED  BY <2>7 DEF s, t, e
<1>. QED  BY <1>2, <1>3, <1>4

\* A round: the answer of the model and the first n outputs.
Round(ms, calls, n) == Append(ms, Assistant(calls)) \o Outputs(calls, n)

\* The turns of a conversation with an answer of the model behind it.
WithAnswer(ms, calls) ==
    Append(TurnsOf(Asked(ms), 2 * Len(Asked(ms)) + 1), Turn("assistant", Uses(calls)))

\* In a round, after n outputs.
InRound(ms, calls, n) ==
    /\ Round(ms, calls, n) \in Seq(Message)
    /\ \A i \in 1 .. Len(Round(ms, calls, n)) :
          Round(ms, calls, n)[i].role # "assistant" => Round(ms, calls, n)[i].calls = <<>>
    /\ Asked(Round(ms, calls, n)) = Append(Asked(ms), calls)
    /\ ToAnthropic(OmniToOpenai(Round(ms, calls, n))) =
          IF n = 0 THEN WithAnswer(ms, calls)
          ELSE Append(WithAnswer(ms, calls), Turn("user", Results(calls, n)))

\* The answer itself: its turn follows one of the user.
LEMMA RoundBegins ==
    ASSUME NEW ms, Told(ms), NEW calls \in Seq(Calls), calls # <<>>
    PROVE  InRound(ms, calls, 0)
<1>. DEFINE d == Append(ms, Assistant(calls))
            asks == Asked(ms)
            turn == Turn("assistant", Uses(calls))
<1>1. /\ ms \in Seq(Message) /\ Assistant(calls) \in Message /\ d \in Seq(Message)
      /\ Assistant(calls).role = "assistant" /\ Assistant(calls).calls = calls
  BY MessageTypes, AppendProperties DEF Told, Assistant
<1>2. Round(ms, calls, 0) = d
  <2>1. Outputs(calls, 0) = <<>>
    BY DEF Outputs
  <2>. HIDE DEF d
  <2>2. d \o <<>> = d
    BY <1>1, ConcatEmptySeq
  <2>. QED  BY <2>1, <2>2 DEF Round, d
<1>3. \A i \in 1 .. Len(d) : d[i].role # "assistant" => d[i].calls = <<>>
  BY <1>1, OnlyAnswersAsk DEF Told
<1>4. asks \in Seq(Seq(Calls)) /\ Asked(d) = Append(asks, calls)
  BY <1>1, AskedAppend
<1>5. /\ OmniToOpenai(ms) \in Seq(WireMessage) /\ ToWire(Assistant(calls)) \in WireMessage
      /\ OmniToOpenai(d) = Append(OmniToOpenai(ms), ToWire(Assistant(calls)))
  BY <1>1, OmniToOpenaiIs, OmniToOpenaiAppend, ToWireIs
<1>6. ToTurn(ToWire(Assistant(calls))) = turn
  <2>1. ToWire(Assistant(calls)) = Wire("assistant", calls, <<>>)
    BY <1>1 DEF ToWire
  <2>2. ToTurn(Wire("assistant", calls, <<>>)) =
           Turn("assistant", [j \in DOMAIN calls |-> Block("tool_use", <<calls[j]>>)])
    BY DEF ToTurn, Wire
  <2>3. DOMAIN calls = 1 .. Len(calls)
    BY LenProperties
  <2>. QED  BY <2>1, <2>2, <2>3 DEF Uses
<1>7. ToAnthropic(OmniToOpenai(d)) = MergeTurn(TurnsOf(asks, 2 * Len(asks) + 1), turn)
  <2>1. ToWire(Assistant(calls)).role = "assistant"
    BY <1>1, ToWireIs
  <2>. QED  BY <1>5, <1>6, <2>1, ToAnthropicAppend DEF Told
<1>8. MergeTurn(TurnsOf(asks, 2 * Len(asks) + 1), turn) = WithAnswer(ms, calls)
  <2>. DEFINE n == 2 * Len(asks) + 1
  <2>1. n \in Nat /\ n > 0 /\ n % 2 = 1
    BY <1>4, LenProperties
  <2>2. turn.role = IF n % 2 = 0 THEN "user" ELSE "assistant"
    BY <2>1 DEF Turn
  <2>. HIDE DEF n, turn, asks
  <2>3. MergeTurn(TurnsOf(asks, n), turn) = Append(TurnsOf(asks, n), turn)
    BY <1>4, <2>1, <2>2, OtherRoleAppended
  <2>. QED  BY <2>3 DEF WithAnswer, n, turn, asks
<1>. QED  BY <1>1, <1>2, <1>3, <1>4, <1>7, <1>8 DEF InRound

\* One more output: its block joins the turn of the results.
LEMMA RoundGoesOn ==
    ASSUME NEW ms, Told(ms), NEW calls \in Seq(Calls), NEW n \in 0 .. Len(calls) - 1,
           InRound(ms, calls, n)
    PROVE  InRound(ms, calls, n + 1)
<1>. DEFINE r == Round(ms, calls, n)
            m == ToolOutput(calls[n + 1])
            answer == WithAnswer(ms, calls)
            block == Block("tool_result", <<calls[n + 1]>>)
<1>1. /\ Len(calls) \in Nat /\ n \in Nat /\ n + 1 \in 1 .. Len(calls) /\ n \in 0 .. Len(calls)
      /\ calls[n + 1] \in Calls
  BY LenProperties, ElementOfSeq
<1>2. m \in Message /\ m.role = "tool" /\ m.calls = <<>> /\ m.answers = <<calls[n + 1]>>
  BY <1>1, MessageTypes DEF ToolOutput
<1>3. r \in Seq(Message) /\ Asked(r) = Append(Asked(ms), calls)
  BY DEF InRound
<1>4. Round(ms, calls, n + 1) = Append(r, m)
  <2>. DEFINE d == Append(ms, Assistant(calls))
              o == Outputs(calls, n)
  <2>1. d \in Seq(Message) /\ o \in Seq(Message)
    BY <1>1, <1>2, MessageTypes, AppendProperties, OutputsIs DEF Told
  <2>2. Outputs(calls, n + 1) = Append(o, m)
    BY OutputsIs
  <2>. HIDE DEF d, o, m
  <2>3. d \o Append(o, m) = Append(d \o o, m)
    BY <1>2, <2>1, ConcatAppend
  <2>. QED  BY <2>2, <2>3 DEF Round, d, o
<1>5. /\ Append(r, m) \in Seq(Message) /\ Asked(Append(r, m)) = Append(Asked(ms), calls)
      /\ \A i \in 1 .. Len(Append(r, m)) :
            Append(r, m)[i].role # "assistant" => Append(r, m)[i].calls = <<>>
  <2>1. \A i \in 1 .. Len(r) : r[i].role # "assistant" => r[i].calls = <<>>
    BY DEF InRound
  <2>. HIDE DEF r, m
  <2>2. Append(r, m) \in Seq(Message)
    BY <1>2, <1>3, AppendProperties
  <2>3. Asked(Append(r, m)) = Asked(r)
    BY <1>2, <1>3, AskedAppend
  <2>. QED  BY <1>2, <1>3, <2>1, <2>2, <2>3, OnlyAnswersAsk
<1>6. ToAnthropic(OmniToOpenai(Append(r, m))) =
         MergeTurn(ToAnthropic(OmniToOpenai(r)), Turn("user", <<block>>))
  <2>1. /\ OmniToOpenai(r) \in Seq(WireMessage) /\ ToWire(m) \in WireMessage
        /\ OmniToOpenai(Append(r, m)) = Append(OmniToOpenai(r), ToWire(m))
    BY <1>2, <1>3, OmniToOpenaiIs, OmniToOpenaiAppend, ToWireIs
  <2>2. ToWire(m) = Wire("tool", <<>>, <<calls[n + 1]>>)
    BY <1>2 DEF ToWire
  <2>3. ToWire(m).role = "tool" /\ ToTurn(ToWire(m)) = Turn("user", <<block>>)
    BY <2>2 DEF ToTurn, Wire
  <2>. QED  BY <2>1, <2>3, ToAnthropicAppend
<1>7. /\ block \in ContentBlock /\ <<block>> \in Seq(ContentBlock)
      /\ Results(calls, n) \in Seq(ContentBlock)
      /\ Results(calls, n + 1) = Results(calls, n) \o <<block>>
  <2>1. block \in ContentBlock
    BY <1>1, SingleCall DEF Block, ContentBlock
  <2>. QED  BY <1>1, <2>1, BlocksOfCalls, OutputsIs
<1>8. /\ answer \in Seq(AnthropicTurn) /\ answer # <<>>
      /\ answer[Len(answer)].role = "assistant"
  <2>. DEFINE asks == Asked(ms)
              s == TurnsOf(asks, 2 * Len(asks) + 1)
              turn == Turn("assistant", Uses(calls))
  <2>1. asks \in Seq(Seq(Calls)) /\ 2 * Len(asks) + 1 \in Nat
    <3>1. User \in Message /\ ms \in Seq(Message)
      BY MessageTypes DEF Told
    <3>2. asks \in Seq(Seq(Calls))
      BY <3>1, AskedAppend
    <3>. QED  BY <3>2, LenProperties
  <2>2. s \in Seq(AnthropicTurn) /\ turn \in AnthropicTurn /\ turn.role = "assistant"
    BY <2>1, TurnsOfIs, BlocksOfCalls DEF Turn, AnthropicTurn, Roles
  <2>3. answer = Append(s, turn)
    BY DEF WithAnswer
  <2>. HIDE DEF s, turn, answer
  <2>4. /\ answer \in Seq(AnthropicTurn) /\ Len(answer) = Len(s) + 1
        /\ answer[Len(s) + 1] = turn /\ Len(s) \in Nat
    BY <2>2, <2>3, AppendProperties, LenProperties
  <2>. QED  BY <2>2, <2>4
<1>9. MergeTurn(ToAnthropic(OmniToOpenai(r)), Turn("user", <<block>>)) =
         Append(answer, Turn("user", Results(calls, n + 1)))
  <2>1. CASE n = 0
    <3>1. ToAnthropic(OmniToOpenai(r)) = answer
      BY <2>1 DEF InRound
    <3>2. MergeTurn(answer, Turn("user", <<block>>)) = Append(answer, Turn("user", <<block>>))
      <4>. HIDE DEF answer
      <4>. QED  BY <1>8 DEF MergeTurn, Turn
    <3>3. Results(calls, n) = <<>>
      BY <2>1 DEF Results
    <3>4. Results(calls, n + 1) = <<block>>
      <4>. HIDE DEF block
      <4>. QED  BY <1>7, <3>3, ConcatEmptySeq
    <3>. QED  BY <3>1, <3>2, <3>4
  <2>2. CASE n # 0
    <3>1. ToAnthropic(OmniToOpenai(r)) = Append(answer, Turn("user", Results(calls, n)))
      BY <2>2 DEF InRound
    <3>. HIDE DEF answer, block, r
    <3>2. "user" \in Roles
      BY DEF Roles
    <3>. QED  BY <1>7, <1>8, <3>1, <3>2, SameRoleJoined
  <2>. QED  BY <2>1, <2>2
<1>10. n + 1 # 0
  BY <1>1
<1>. HIDE DEF r, m, answer
<1>. QED  BY <1>4, <1>5, <1>6, <1>9, <1>10 DEF InRound, answer

\* A round and all its outputs: one more pair of turns.
LEMMA RoundTold ==
    ASSUME NEW ms, Told(ms), NEW calls \in Seq(Calls), calls # <<>>
    PROVE  Told(Round(ms, calls, Len(calls)))
<1>. DEFINE l == Len(calls)
            T == {n \in 0 .. l : InRound(ms, calls, n)}
            r == Round(ms, calls, l)
            asks == Asked(ms)
            more == Append(asks, calls)
            k == Len(asks)
            n == 2 * k + 1
<1>1. l \in Nat /\ l # 0
  BY EmptySeq, LenProperties
<1>2. 0 \in T
  BY <1>1, RoundBegins
<1>3. ASSUME NEW j \in 0 .. l - 1, j \in T
      PROVE  j + 1 \in T
  BY <1>1, <1>3, RoundGoesOn
<1>4. l \in T
  <2>. HIDE DEF T, l
  <2>1. \A j \in 0 .. l : j \in T
    BY <1>1, <1>2, <1>3, CountInduction
  <2>. QED  BY <1>1, <2>1
<1>5. /\ r \in Seq(Message) /\ Asked(r) = more
      /\ \A i \in 1 .. Len(r) : r[i].role # "assistant" => r[i].calls = <<>>
      /\ ToAnthropic(OmniToOpenai(r)) =
            Append(WithAnswer(ms, calls), Turn("user", Results(calls, l)))
  BY <1>1, <1>4 DEF InRound
<1>6. asks \in Seq(Seq(Calls))
  BY MessageTypes, AskedAppend DEF Told
<1>7. /\ k \in Nat /\ more \in Seq(Seq(Calls)) /\ Len(more) = k + 1
      /\ more[k + 1] = calls /\ \A i \in 1 .. k : more[i] = asks[i]
  BY <1>6, AppendProperties, LenProperties
<1>. HIDE DEF r, asks, more, k
<1>8. n \in Nat /\ 2 * Len(more) + 1 = (n + 1) + 1
  <2>1. k \in Nat /\ Len(more) = k + 1
    BY <1>7
  <2>2. \A x, y \in Nat : y = x + 1 => 2 * y + 1 = ((2 * x + 1) + 1) + 1
    OBVIOUS
  <2>3. 2 * Len(more) + 1 = ((2 * k + 1) + 1) + 1
    BY <2>1, <2>2
  <2>. QED  BY <2>1, <2>3
<1>9. \A i \in 1 .. n : TurnAt(asks, i) = TurnAt(more, i)
  <2>. TAKE i \in 1 .. n
  <2>1. i <= 2 * Len(asks) + 1 /\ i <= 2 * Len(more) + 1
    BY <1>7 DEF k
  <2>2. CASE i = 1
    BY <2>2 DEF TurnAt
  <2>3. CASE i # 1
    <3>1. i \div 2 \in 1 .. k
      BY <1>7, <1>8, <2>3
    <3>2. asks[i \div 2] = more[i \div 2]
      BY <1>7, <3>1
    <3>. QED  BY <2>1, <2>3, <3>2 DEF TurnAt
  <2>. QED  BY <2>2, <2>3
<1>10. TurnsOf(asks, n) = TurnsOf(more, n)
  BY <1>9 DEF TurnsOf
<1>11. TurnAt(more, n + 1) = Turn("assistant", Uses(calls))
  <2>1. n + 1 = 2 * (k + 1) /\ n + 1 # 1 /\ n + 1 <= 2 * Len(more) + 1
    BY <1>7
  <2>2. (n + 1) % 2 = 0 /\ (n + 1) \div 2 = k + 1
    BY <1>7, <2>1
  <2>. QED  BY <1>7, <2>1, <2>2 DEF TurnAt
<1>12. TurnAt(more, (n + 1) + 1) = Turn("user", Results(calls, l))
  <2>1. (n + 1) + 1 = 2 * (k + 1) + 1 /\ (n + 1) + 1 # 1 /\ (n + 1) + 1 <= 2 * Len(more) + 1
    BY <1>7
  <2>2. ((n + 1) + 1) % 2 = 1 /\ ((n + 1) + 1) \div 2 = k + 1
    BY <1>7, <2>1
  <2>. QED  BY <1>7, <2>1, <2>2 DEF TurnAt
<1>13. TurnsOf(more, (n + 1) + 1) =
          Append(Append(TurnsOf(more, n), TurnAt(more, n + 1)), TurnAt(more, (n + 1) + 1))
  <2>. HIDE DEF n
  <2>1. n + 1 \in Nat
    BY <1>8
  <2>2. TurnsOf(more, n + 1) = Append(TurnsOf(more, n), TurnAt(more, n + 1))
    BY <1>7, <1>8, TurnsOfIs
  <2>3. TurnsOf(more, (n + 1) + 1) = Append(TurnsOf(more, n + 1), TurnAt(more, (n + 1) + 1))
    BY <1>7, <2>1, TurnsOfIs
  <2>. QED  BY <2>2, <2>3
<1>14. WithAnswer(ms, calls) = Append(TurnsOf(asks, n), Turn("assistant", Uses(calls)))
  BY DEF WithAnswer, asks, k
<1>. HIDE DEF n, l
<1>15. ToAnthropic(OmniToOpenai(r)) = TurnsOf(more, (n + 1) + 1)
  BY <1>5, <1>10, <1>11, <1>12, <1>13, <1>14
<1>16. Told(r)
  BY <1>5, <1>8, <1>15 DEF Told
<1>. QED  BY <1>16 DEF r, l

-----------------------------------------------------------------------------
(* Every request                                                           *)

\* A system prompt in front changes no turn.
LEMMA SystemLeavesTheList ==
    ASSUME NEW c \in Seq(WireMessage)
    PROVE  <<System>> \o c \in Seq(WireMessage) /\ ToAnthropic(<<System>> \o c) = ToAnthropic(c)
<1>. DEFINE l == Len(c)
            Begin(k) == SubSeq(c, 1, k)
            T == {k \in 0 .. l : ToAnthropic(<<System>> \o Begin(k)) = ToAnthropic(Begin(k))}
<1>1. /\ l \in Nat /\ System \in WireMessage /\ System.role = "system"
      /\ <<System>> \in Seq(WireMessage) /\ <<>> \in Seq(WireMessage)
  <2>1. System \in WireMessage /\ System.role = "system"
    BY DEF System, Wire, WireMessage
  <2>. QED  BY <2>1, LenProperties
<1>2. \A k \in 0 .. l : Begin(k) \in Seq(WireMessage)
  <2>. TAKE k \in 0 .. l
  <2>1. \A i \in 1 .. k : c[i] \in WireMessage
    BY <1>1, ElementOfSeq
  <2>. QED  BY <1>1, <2>1, SubSeqProperties
<1>3. 0 \in T
  <2>1. Begin(0) = <<>>
    BY SubSeqEmpty
  <2>2. <<System>> \o <<>> = <<System>>
    BY <1>1, ConcatEmptySeq
  <2>3. <<System>> = Append(<<>>, System)
    OBVIOUS
  <2>4. ToAnthropic(Append(<<>>, System)) = ToAnthropic(<<>>)
    BY <1>1, ToAnthropicAppend
  <2>5. ToAnthropic(<<System>> \o Begin(0)) = ToAnthropic(Begin(0))
    BY <2>1, <2>2, <2>3, <2>4
  <2>6. 0 \in 0 .. l
    BY <1>1
  <2>. HIDE DEF Begin, l
  <2>. QED  BY <2>5, <2>6
<1>4. ASSUME NEW k \in 0 .. l - 1, k \in T
      PROVE  k + 1 \in T
  <2>1. k \in 0 .. l /\ k + 1 \in 0 .. l /\ k + 1 \in 1 .. l /\ c[k + 1] \in WireMessage
    BY <1>1, ElementOfSeq
  <2>. DEFINE b == Begin(k)
              m == c[k + 1]
  <2>2. /\ b \in Seq(WireMessage) /\ m \in WireMessage
        /\ ToAnthropic(<<System>> \o b) = ToAnthropic(b)
    BY <1>2, <1>4, <2>1
  <2>3. Begin(k + 1) = Append(b, m)
    BY <1>1, <2>1, SubSeqRecursiveSecond
  <2>. HIDE DEF b, m
  <2>4. <<System>> \o Append(b, m) = Append(<<System>> \o b, m) /\ <<System>> \o b \in Seq(WireMessage)
    BY <1>1, <2>2, ConcatAppend
  <2>5. ToAnthropic(Append(<<System>> \o b, m)) = ToAnthropic(Append(b, m))
    BY <2>2, <2>4, ToAnthropicAppend
  <2>. QED  BY <2>1, <2>3, <2>4, <2>5
<1>5. l \in T
  <2>. HIDE DEF T, l
  <2>1. \A k \in 0 .. l : k \in T
    BY <1>1, <1>3, <1>4, CountInduction
  <2>. QED  BY <1>1, <2>1
<1>6. Begin(l) = c
  <2>1. \A i \in 1 .. l : c[i] \in WireMessage
    BY <1>1, ElementOfSeq
  <2>2. /\ Begin(l) \in Seq(WireMessage) /\ Len(Begin(l)) = l
        /\ \A i \in 1 .. l : Begin(l)[i] = c[i]
    BY <1>1, <1>2, <2>1
  <2>. QED  BY <2>2, SeqEqual
<1>7. <<System>> \o c \in Seq(WireMessage)
  BY <1>1, ConcatProperties
<1>. QED  BY <1>5, <1>6, <1>7

\* Each answer that did not validate and each complaint is one more turn.
LEMMA FailuresAlternate ==
    ASSUME NEW c \in Seq(WireMessage), NEW asks \in Seq(Seq(Calls)), NEW q \in Nat,
           q >= Len(asks), ToAnthropic(c) = TurnsOf(asks, 2 * q + 1), NEW k \in Nat
    PROVE  ToAnthropic(c \o Failed(2 * k)) = TurnsOf(asks, 2 * (q + k) + 1)
<1>. DEFINE l == 2 * k
            n == 2 * q + 1
            T == {i \in 0 .. l : ToAnthropic(c \o Failed(i)) = TurnsOf(asks, n + i)}
            Notice(i) == Wire(IF i % 2 = 1 THEN "assistant" ELSE "user", <<>>, <<>>)
<1>1. /\ l \in Nat /\ n \in Nat /\ n >= 1 /\ n % 2 = 1
      /\ Len(asks) \in Nat /\ n >= 2 * Len(asks) + 1
  BY LenProperties
<1>2. \A i \in Nat : Notice(i) \in WireMessage
  BY DEF Wire, WireMessage, Roles
<1>3. \A i \in Nat : Failed(i) \in Seq(WireMessage) /\ Len(Failed(i)) = i
                     /\ \A j \in 1 .. i : Failed(i)[j] = Notice(j)
  <2>. TAKE i \in Nat
  <2>1. \A j \in 1 .. i : Notice(j) \in WireMessage
    BY <1>2
  <2>2. Failed(i) = [j \in 1 .. i |-> Notice(j)]
    BY DEF Failed
  <2>. HIDE DEF Notice
  <2>. QED  BY <2>1, <2>2
<1>4. \A i \in Nat : Failed(i + 1) = Append(Failed(i), Notice(i + 1))
  <2>. TAKE i \in Nat
  <2>. DEFINE s == Failed(i)
              t == Failed(i + 1)
              e == Notice(i + 1)
  <2>1. /\ s \in Seq(WireMessage) /\ Len(s) = i /\ t \in Seq(WireMessage) /\ Len(t) = i + 1
        /\ e \in WireMessage /\ t[i + 1] = e /\ \A j \in 1 .. i : s[j] = t[j]
    <3>. HIDE DEF Notice
    <3>1. i + 1 \in Nat /\ i + 1 \in 1 .. i + 1 /\ \A j \in 1 .. i : j \in 1 .. i + 1
      OBVIOUS
    <3>2. /\ t \in Seq(WireMessage) /\ Len(t) = i + 1
          /\ \A j \in 1 .. i + 1 : t[j] = Notice(j)
      BY <1>3, <3>1
    <3>. QED  BY <1>2, <1>3, <3>1, <3>2
  <2>. HIDE DEF s, t, e
  <2>2. /\ Append(s, e) \in Seq(WireMessage) /\ Len(Append(s, e)) = i + 1
        /\ Append(s, e)[i + 1] = e /\ \A j \in 1 .. i : Append(s, e)[j] = s[j]
    BY <2>1, AppendProperties
  <2>3. \A j \in 1 .. i + 1 : j \in 1 .. i \/ j = i + 1
    OBVIOUS
  <2>4. t = Append(s, e)
    BY <2>1, <2>2, <2>3, SeqEqual
  <2>. QED  BY <2>4 DEF s, t, e
<1>5. 0 \in T
  <2>1. Failed(0) = <<>>
    BY <1>3, EmptySeq
  <2>2. c \o <<>> = c
    BY ConcatEmptySeq
  <2>3. n + 0 = n /\ 0 \in 0 .. l
    BY <1>1
  <2>4. ToAnthropic(c \o Failed(0)) = TurnsOf(asks, n + 0)
    BY <2>1, <2>2, <2>3
  <2>. HIDE DEF n, l
  <2>. QED  BY <2>3, <2>4
<1>6. ASSUME NEW i \in 0 .. l - 1, i \in T
      PROVE  i + 1 \in T
  <2>. DEFINE s == Failed(i)
              m == Notice(i + 1)
              turn == TurnAt(asks, (n + i) + 1)
  <2>1. /\ i \in Nat /\ i + 1 \in 0 .. l /\ i + 1 \in Nat
        /\ s \in Seq(WireMessage) /\ m \in WireMessage /\ Failed(i + 1) = Append(s, m)
    <3>1. i \in Nat /\ i + 1 \in 0 .. l /\ i + 1 \in Nat
      BY <1>1
    <3>. HIDE DEF Notice
    <3>. QED  BY <1>2, <1>3, <1>4, <3>1
  <2>2. ToAnthropic(c \o s) = TurnsOf(asks, n + i)
    BY <1>6
  <2>3. m.role # "system" /\ ToTurn(m) = turn
        /\ turn.role = IF (n + i) % 2 = 0 THEN "user" ELSE "assistant"
    <3>1. n + i + 1 # 1 /\ ~((n + i) + 1 <= 2 * Len(asks) + 1)
      BY <1>1, <2>1
    <3>2. turn = Turn(IF ((n + i) + 1) % 2 = 0 THEN "assistant" ELSE "user", <<Text>>)
      BY <3>1 DEF TurnAt
    <3>3. PICK j \in Nat : i = 2 * j \/ i = 2 * j + 1
      <4>1. i \div 2 \in Nat /\ (i = 2 * (i \div 2) \/ i = 2 * (i \div 2) + 1)
        BY <2>1
      <4>. QED  BY <4>1
    <3>4. \A x \in Nat : (2 * x) % 2 = 0 /\ (2 * x + 1) % 2 = 1
      OBVIOUS
    <3>5. CASE i = 2 * j
      <4>1. i + 1 = 2 * j + 1 /\ n + i = 2 * (q + j) + 1 /\ (n + i) + 1 = 2 * (q + j + 1)
            /\ q + j \in Nat /\ q + j + 1 \in Nat
        BY <3>5
      <4>2. (i + 1) % 2 = 1 /\ (n + i) % 2 = 1 /\ ((n + i) + 1) % 2 = 0
        BY <3>4, <4>1
      <4>. HIDE DEF n, turn
      <4>. QED  BY <3>2, <4>2 DEF ToTurn, Wire, Turn
    <3>6. CASE i = 2 * j + 1
      <4>1. i + 1 = 2 * (j + 1) /\ n + i = 2 * (q + j + 1) /\ (n + i) + 1 = 2 * (q + j + 1) + 1
            /\ j + 1 \in Nat /\ q + j + 1 \in Nat
        BY <3>6
      <4>2. (i + 1) % 2 = 0 /\ (n + i) % 2 = 0 /\ ((n + i) + 1) % 2 = 1
        BY <3>4, <4>1
      <4>. HIDE DEF n, turn
      <4>. QED  BY <3>2, <4>2 DEF ToTurn, Wire, Turn
    <3>. QED  BY <3>3, <3>5, <3>6
  <2>. HIDE DEF s, m, turn, n, Notice
  <2>4. n + i \in Nat /\ n + i > 0 /\ n + (i + 1) = (n + i) + 1
    BY <1>1, <2>1
  <2>5. MergeTurn(TurnsOf(asks, n + i), turn) = TurnsOf(asks, (n + i) + 1)
    <3>1. MergeTurn(TurnsOf(asks, n + i), turn) = Append(TurnsOf(asks, n + i), turn)
      BY <2>3, <2>4, OtherRoleAppended
    <3>2. TurnsOf(asks, (n + i) + 1) = Append(TurnsOf(asks, n + i), turn)
      BY <2>4, TurnsOfIs DEF turn
    <3>. QED  BY <3>1, <3>2
  <2>6. c \o Append(s, m) = Append(c \o s, m) /\ c \o s \in Seq(WireMessage)
    BY <2>1, ConcatAppend
  <2>7. ToAnthropic(Append(c \o s, m)) = MergeTurn(ToAnthropic(c \o s), turn)
    BY <2>1, <2>3, <2>6, ToAnthropicAppend
  <2>. QED  BY <2>1, <2>2, <2>4, <2>5, <2>6, <2>7
<1>7. l \in T
  <2>. HIDE DEF T, l
  <2>1. \A i \in 0 .. l : i \in T
    BY <1>1, <1>5, <1>6, CountInduction
  <2>. QED  BY <1>1, <2>1
<1>8. n + l = 2 * (q + k) + 1
  OBVIOUS
<1>9. ToAnthropic(c \o Failed(l)) = TurnsOf(asks, n + l)
  BY <1>7
<1>. QED  BY <1>8, <1>9

\* The request of a conversation in which every call has its output, with or
\* without a system prompt and after any number of answers that did not validate.
LEMMA RequestsAreWellFormed ==
    ASSUME NEW c \in Seq(WireMessage), NEW asks \in Seq(Seq(Calls)),
           ToAnthropic(c) = TurnsOf(asks, 2 * Len(asks) + 1)
    PROVE  /\ Alternates(Request(c).messages)
           /\ TellsTurns(Request(c).messages, asks)
           /\ \A k \in Nat : /\ Alternates(Request(Attempt(c, k)).messages)
                             /\ Request(Attempt(c, k)).system
<1>. DEFINE q == Len(asks)
            turns == TurnsOf(asks, 2 * q + 1)
<1>1. q \in Nat
  BY LenProperties
<1>2. Request(c).messages = turns
  BY DEF Request
<1>3. Alternates(turns)
  <2>. HIDE DEF turns
  <2>1. q >= Len(asks)
    BY <1>1
  <2>. QED  BY <1>1, <2>1, TurnsAlternate DEF turns
<1>4. TellsTurns(turns, asks)
  <2>1. 2 * q + 1 \in Nat
    BY <1>1
  <2>2. Len(turns) = 2 * q + 1 /\ \A i \in 1 .. 2 * q + 1 : turns[i] = TurnAt(asks, i)
    BY <2>1, TurnsOfIs
  <2>3. ASSUME NEW n \in DOMAIN asks
        PROVE  ReadContent(turns[2 * n].content) = asks[n]
    <3>1. n \in 1 .. q
      BY LenProperties
    <3>2. /\ 2 * n \in Nat /\ 2 * n > 0 /\ 2 * n \in 1 .. 2 * q + 1 /\ 2 * n <= 2 * Len(asks) + 1
          /\ (2 * n) % 2 = 0 /\ (2 * n) \div 2 = n
      BY <1>1, <3>1
    <3>3. turns[2 * n] = TurnAt(asks, 2 * n)
      BY <2>2, <3>2
    <3>4. Ids(TurnAt(asks, 2 * n).content, "tool_use") = asks[n]
      BY <3>2, TurnAtIs
    <3>. QED  BY <3>3, <3>4 DEF ReadContent
  <2>. QED  BY <2>2, <2>3 DEF TellsTurns
<1>5. ASSUME NEW k \in Nat
      PROVE  /\ Alternates(Request(Attempt(c, k)).messages)
             /\ Request(Attempt(c, k)).system
  <2>. DEFINE d == <<System>> \o c
              f == Failed(2 * k)
  <2>1. d \in Seq(WireMessage) /\ ToAnthropic(d) = turns
    BY SystemLeavesTheList
  <2>2. ToAnthropic(d \o f) = TurnsOf(asks, 2 * (q + k) + 1)
    <3>1. q >= Len(asks)
      BY <1>1
    <3>. HIDE DEF d
    <3>. QED  BY <1>1, <2>1, <3>1, FailuresAlternate
  <2>3. Alternates(TurnsOf(asks, 2 * (q + k) + 1))
    <3>1. q + k \in Nat /\ q + k >= Len(asks)
      BY <1>1
    <3>. QED  BY <3>1, TurnsAlternate
  <2>4. Attempt(c, k) = d \o f
    BY DEF Attempt
  <2>5. \E i \in DOMAIN (d \o f) : (d \o f)[i].role = "system"
    <3>1. f \in Seq(WireMessage)
      <4>1. \A i \in 1 .. 2 * k :
               Wire(IF i % 2 = 1 THEN "assistant" ELSE "user", <<>>, <<>>) \in WireMessage
        BY DEF Wire, WireMessage, Roles
      <4>2. 2 * k \in Nat
        OBVIOUS
      <4>. QED  BY <4>1, <4>2 DEF Failed
    <3>2. d[1] = System /\ Len(d) \in Nat /\ Len(d) >= 1
      <4>1. <<System>> \in Seq(WireMessage)
        BY DEF System, Wire, WireMessage
      <4>2. Len(<<System>>) = 1 /\ <<System>>[1] = System /\ Len(c) \in Nat
        BY LenProperties
      <4>. QED  BY <4>1, <4>2, ConcatProperties
    <3>. HIDE DEF d, f
    <3>3. (d \o f)[1] = System /\ 1 \in DOMAIN (d \o f)
      <4>1. /\ Len(f) \in Nat /\ d \o f \in Seq(WireMessage) /\ Len(d \o f) = Len(d) + Len(f)
            /\ \A i \in 1 .. Len(d) : (d \o f)[i] = d[i]
        BY <2>1, <3>1, <3>2, ConcatProperties, LenProperties
      <4>2. DOMAIN (d \o f) = 1 .. Len(d \o f)
        BY <4>1, LenProperties
      <4>. QED  BY <3>2, <4>1, <4>2
    <3>4. System.role = "system"
      BY DEF System, Wire
    <3>. QED  BY <3>3, <3>4
  <2>. HIDE DEF d, f
  <2>. QED  BY <2>2, <2>3, <2>4, <2>5 DEF Request
<1>. QED  BY <1>2, <1>3, <1>4, <1>5

\* The messages of the state are told to the model as they are.
LEMMA MessagesAreTold ==
    ASSUME Told(messages), messages # <<>>, NEW agent \in BOOLEAN, NEW engine \in BOOLEAN
    PROVE  LET c == Conversation(agent)
               posted == EngineRequest(c, engine)
           IN  /\ c \in Seq(WireMessage)
               /\ ToAnthropic(c) = TurnsOf(Asked(messages), 2 * Len(Asked(messages)) + 1)
               /\ Request(c).system = agent
               /\ TellsAll(c, agent)
               /\ \A i \in DOMAIN posted : posted[i].role = "system" <=> i = 1 /\ (agent \/ engine)
<1>. DEFINE w == OmniToOpenai(messages)
            s == <<System>> \o w
            n == Len(messages)
<1>1. /\ n \in Nat /\ n >= 1 /\ messages \in Seq(Message) /\ DOMAIN messages = 1 .. n
      /\ w \in Seq(WireMessage) /\ Len(w) = n /\ DOMAIN w = 1 .. n
  <2>1. messages \in Seq(Message)
    BY DEF Told
  <2>. QED  BY <2>1, EmptySeq, LenProperties, OmniToOpenaiIs
<1>2. \A i \in 1 .. n : /\ w[i].role = messages[i].role /\ w[i].role # "system"
                        /\ w[i].tool_calls = messages[i].calls
  <2>. TAKE i \in 1 .. n
  <2>1. messages[i] \in Message /\ w[i] = ToWire(messages[i])
    BY <1>1, ElementOfSeq, OmniToOpenaiIs
  <2>2. messages[i].role \in Roles /\ (messages[i].role # "assistant" => messages[i].calls = <<>>)
    BY <2>1 DEF Told, Message
  <2>. QED  BY <2>1, <2>2, ToWireIs DEF Roles
<1>3. /\ s \in Seq(WireMessage) /\ ToAnthropic(s) = ToAnthropic(w)
      /\ Len(s) = n + 1 /\ DOMAIN s = 1 .. n + 1
      /\ s[1] = System /\ \A i \in 1 .. n : s[i + 1] = w[i]
  <2>1. s \in Seq(WireMessage) /\ ToAnthropic(s) = ToAnthropic(w)
    BY <1>1, SystemLeavesTheList
  <2>2. <<System>> \in Seq(WireMessage) /\ Len(<<System>>) = 1 /\ <<System>>[1] = System
    BY DEF System, Wire, WireMessage
  <2>3. Len(s) = n + 1 /\ \A i \in 1 .. n + 1 : s[i] = IF i <= 1 THEN <<System>>[i] ELSE w[i - 1]
    <3>. HIDE DEF w
    <3>. QED  BY <1>1, <2>2, ConcatProperties
  <2>4. \A i \in 1 .. n : i + 1 \in 1 .. n + 1 /\ ~(i + 1 <= 1) /\ (i + 1) - 1 = i
    BY <1>1
  <2>5. DOMAIN s = 1 .. n + 1
    BY <2>1, <2>3, LenProperties
  <2>. HIDE DEF w, s
  <2>6. s[1] = System
    BY <1>1, <2>2, <2>3
  <2>7. \A i \in 1 .. n : s[i + 1] = w[i]
    BY <2>3, <2>4
  <2>. QED  BY <2>1, <2>3, <2>5, <2>6, <2>7
<1>4. w # <<>> /\ w[1].role # "system" /\ s # <<>> /\ s[1].role = "system"
  BY <1>1, <1>2, <1>3 DEF System, Wire
<1>5. ToAnthropic(w) = TurnsOf(Asked(messages), 2 * Len(Asked(messages)) + 1)
  BY DEF Told
<1>6. \A i \in 1 .. n + 1 : s[i].role = "system" <=> i = 1
  <2>. TAKE i \in 1 .. n + 1
  <2>1. CASE i = 1
    BY <1>4, <2>1
  <2>2. CASE i # 1
    <3>1. i - 1 \in 1 .. n /\ (i - 1) + 1 = i
      BY <1>1, <2>2
    <3>2. s[i] = w[i - 1]
      <4>. HIDE DEF s, w
      <4>. QED  BY <1>3, <3>1
    <3>. QED  BY <1>2, <2>2, <3>1, <3>2
  <2>. QED  BY <2>1, <2>2
<1>. HIDE DEF w, s
<1>7. CASE agent
  <2>1. Conversation(agent) = s
    BY <1>4, <1>7 DEF Conversation, Prefixed, w, s
  <2>2. EngineRequest(s, engine) = s
    BY <1>4 DEF EngineRequest, Prefixed
  <2>3. Request(s).system = agent
    BY <1>1, <1>3, <1>4, <1>7 DEF Request
  <2>4. TellsAll(s, agent)
    <3>1. \A i \in 1 .. n : i + Len(s) - Len(messages) = i + 1
      BY <1>1, <1>3
    <3>2. \A i \in DOMAIN messages :
             /\ s[i + Len(s) - Len(messages)].role = messages[i].role
             /\ s[i + Len(s) - Len(messages)].tool_calls = messages[i].calls
      BY <1>1, <1>2, <1>3, <3>1
    <3>. QED  BY <1>3, <1>7, <3>2 DEF TellsAll, ParseToolCalls
  <2>5. \A i \in DOMAIN s : s[i].role = "system" <=> i = 1 /\ (agent \/ engine)
    BY <1>3, <1>6, <1>7
  <2>. QED  BY <1>3, <1>5, <2>1, <2>2, <2>3, <2>4, <2>5
<1>8. CASE ~agent
  <2>1. Conversation(agent) = w
    BY <1>8 DEF Conversation, Prefixed, w
  <2>2. EngineRequest(w, engine) = IF engine THEN s ELSE w
    BY <1>4 DEF EngineRequest, Prefixed, s
  <2>3. Request(w).system = agent
    BY <1>1, <1>2, <1>8 DEF Request
  <2>4. TellsAll(w, agent)
    <3>1. \A i \in 1 .. n : i + Len(w) - Len(messages) = i
      BY <1>1
    <3>2. \A i \in DOMAIN messages :
             /\ w[i + Len(w) - Len(messages)].role = messages[i].role
             /\ w[i + Len(w) - Len(messages)].tool_calls = messages[i].calls
      BY <1>1, <1>2, <3>1
    <3>. QED  BY <1>1, <1>8, <3>2 DEF TellsAll, ParseToolCalls
  <2>5. ASSUME NEW i \in DOMAIN EngineRequest(w, engine)
        PROVE  EngineRequest(w, engine)[i].role = "system" <=> i = 1 /\ (agent \/ engine)
    <3>1. CASE engine
      BY <1>3, <1>6, <2>2, <2>5, <3>1
    <3>2. CASE ~engine
      BY <1>1, <1>2, <1>8, <2>2, <2>5, <3>2
    <3>. QED  BY <3>1, <3>2
  <2>. QED  BY <1>1, <1>5, <2>1, <2>3, <2>4, <2>5
<1>. QED  BY <1>7, <1>8

\* The conversation is told up to the answer whose tools run now.
Telling ==
    \E ms \in Seq(Message) :
       /\ Told(ms)
       /\ current = "model" => messages = ms
       /\ current = "tools" =>
             \E calls \in Seq(Calls) :
                calls # <<>> /\ messages = Append(ms, Assistant(calls))

\* The last output is merged: the round is complete.
LEMMA RunToolTells ==
    ASSUME Converses, Telling, RunTool
    PROVE  Telling'
<1>1. PICK ms \in Seq(Message), calls \in Seq(Calls) :
         Told(ms) /\ calls # <<>> /\ messages = Append(ms, Assistant(calls))
  BY DEF Telling, RunTool, Running
<1>2. Last = Assistant(calls) /\ Last.calls = calls
  <2>1. Assistant(calls) \in Message
    BY MessageTypes
  <2>. QED  BY <1>1, <2>1, AppendProperties DEF Last, Assistant
<1>. DEFINE outs == Append(outputs, ToolOutput(Last.calls[Len(outputs) + 1]))
<1>3. CASE Len(outs) # Len(Last.calls)
  <2>1. UNCHANGED <<messages, current>>
    BY <1>3 DEF RunTool
  <2>. QED  BY <2>1 DEF Telling
<1>4. CASE Len(outs) = Len(Last.calls)
  <2>1. messages' = messages \o outs /\ current' = "model"
    BY <1>4 DEF RunTool, Merge, NextNode
  <2>2. /\ outputs \in Seq(Message) /\ Len(outputs) \in Nat
        /\ \A j \in 1 .. Len(outputs) : outputs[j] = ToolOutput(calls[j])
        /\ Len(outputs) < Len(calls) /\ Len(calls) \in Nat
    BY <1>2, LenProperties DEF Converses, RunTool, Running
  <2>3. ToolOutput(calls[Len(outputs) + 1]) \in Message
    <3>1. Len(outputs) + 1 \in 1 .. Len(calls)
      BY <2>2
    <3>2. calls[Len(outputs) + 1] \in Calls
      BY <3>1, ElementOfSeq
    <3>. QED  BY <3>2, MessageTypes
  <2>4. /\ outs \in Seq(Message) /\ Len(outs) = Len(outputs) + 1
        /\ outs[Len(outputs) + 1] = ToolOutput(calls[Len(outputs) + 1])
        /\ \A j \in 1 .. Len(outputs) : outs[j] = outputs[j]
    BY <1>2, <2>2, <2>3, AppendProperties
  <2>5. Len(calls) \in 0 .. Len(calls) /\ Len(calls) = Len(outputs) + 1
    BY <1>2, <1>4, <2>2, <2>4
  <2>. HIDE DEF outs
  <2>6. \A j \in 1 .. Len(calls) : outs[j] = ToolOutput(calls[j])
    <3>1. \A j \in 1 .. Len(calls) : j \in 1 .. Len(outputs) \/ j = Len(outputs) + 1
      BY <2>2, <2>5
    <3>. QED  BY <2>2, <2>4, <3>1
  <2>7. outs = Outputs(calls, Len(calls))
    <3>1. /\ Outputs(calls, Len(calls)) \in Seq(Message)
          /\ Len(Outputs(calls, Len(calls))) = Len(calls)
          /\ \A j \in 1 .. Len(calls) : Outputs(calls, Len(calls))[j] = ToolOutput(calls[j])
      BY <2>5, OutputsIs
    <3>. QED  BY <2>4, <2>5, <2>6, <3>1, SeqEqual
  <2>8. messages' = Round(ms, calls, Len(calls))
    BY <1>1, <2>1, <2>7 DEF Round
  <2>9. Told(messages')
    BY <1>1, <2>8, RoundTold
  <2>10. messages' \in Seq(Message)
    BY <2>9 DEF Told
  <2>. QED  BY <2>1, <2>9, <2>10 DEF Telling
<1>. QED  BY <1>3, <1>4

\* Telling holds of every reachable state.
LEMMA TellingInvariant == Spec => []Telling
<1>1. Init => Telling
  BY FirstTold, FreshConversation DEF Init, Telling
<1>2. Converses /\ Telling /\ [Next]_vars => Telling'
  <2>. SUFFICES ASSUME Converses, Telling, [Next]_vars PROVE Telling'
    OBVIOUS
  <2>1. ASSUME NEW calls \in CallLists, CallModel(calls) PROVE Telling'
    <3>1. calls \in Seq(Calls)
      BY CallListsAreSequences
    <3>2. PICK ms \in Seq(Message) : Told(ms) /\ messages = ms
      BY <2>1 DEF Telling, CallModel, Running
    <3>3. /\ current' # "model" /\ (current' = "tools" => calls # <<>>)
          /\ messages' = messages \o <<Assistant(calls)>>
      BY <2>1 DEF CallModel, Merge, NextNode, Route
    <3>4. messages' = Append(ms, Assistant(calls))
      BY <3>1, <3>2, <3>3, MessageTypes, AppendIsConcat
    <3>. QED  BY <3>1, <3>2, <3>3, <3>4 DEF Telling
  <2>2. CASE ModelRaises
    BY <2>2 DEF Telling, ModelRaises
  <2>3. CASE RunTool
    BY <2>3, RunToolTells
  <2>4. CASE Leave
    BY <2>4 DEF Telling, Leave
  <2>5. CASE Handle
    BY <2>5, FirstTold, FreshConversation DEF Telling, Handle
  <2>6. CASE UNCHANGED vars
    BY <2>6 DEF Telling, vars
  <2>. QED  BY <2>1, <2>2, <2>3, <2>4, <2>5, <2>6 DEF Next
<1>. QED  BY <1>1, <1>2, ConversationInvariant, PTL DEF Spec

\* Every request is well-formed, whatever the model asked for, with or without
\* a system prompt, and however often structured output asks again.
THEOREM RequestsAlwaysWellFormed == Spec => []RequestIsWellFormed
<1>1. Converses /\ Telling => RequestIsWellFormed
  <2>. SUFFICES ASSUME Converses, Telling, Running("model"),
                       NEW agent \in BOOLEAN, NEW engine \in BOOLEAN
                PROVE  LET c == Conversation(agent)
                           posted == EngineRequest(c, engine)
                       IN  /\ Alternates(Request(c).messages) /\ Request(c).system = agent
                           /\ \A k \in 0 .. MaxRetries :
                                /\ Alternates(Request(Attempt(c, k)).messages)
                                /\ Request(Attempt(c, k)).system
                           /\ TellsAll(c, agent)
                           /\ TellsTurns(Request(c).messages, Asked(messages))
                           /\ \A i \in DOMAIN posted :
                                posted[i].role = "system" <=> i = 1 /\ (agent \/ engine)
    BY DEF RequestIsWellFormed
  <2>. DEFINE c == Conversation(agent)
              asks == Asked(messages)
              posted == EngineRequest(c, engine)
  <2>1. Told(messages) /\ messages # <<>> /\ messages \in Seq(Message)
    BY DEF Telling, Converses, Running
  <2>2. /\ c \in Seq(WireMessage) /\ ToAnthropic(c) = TurnsOf(asks, 2 * Len(asks) + 1)
        /\ Request(c).system = agent /\ TellsAll(c, agent)
        /\ \A i \in DOMAIN posted : posted[i].role = "system" <=> i = 1 /\ (agent \/ engine)
    BY <2>1, MessagesAreTold
  <2>3. asks \in Seq(Seq(Calls))
    BY <2>1, MessageTypes, AskedAppend
  <2>. HIDE DEF c, asks, posted
  <2>4. /\ Alternates(Request(c).messages) /\ TellsTurns(Request(c).messages, asks)
        /\ \A k \in Nat : /\ Alternates(Request(Attempt(c, k)).messages)
                          /\ Request(Attempt(c, k)).system
    BY <2>2, <2>3, RequestsAreWellFormed
  <2>5. \A k \in 0 .. MaxRetries : k \in Nat
    BY WireAssumption
  <2>6. \A k \in 0 .. MaxRetries : /\ Alternates(Request(Attempt(c, k)).messages)
                                   /\ Request(Attempt(c, k)).system
    BY <2>4, <2>5, Zenon
  <2>. QED  BY <2>2, <2>4, <2>6, Zenon DEF c, asks, posted
<1>. QED  BY <1>1, ConversationInvariant, TellingInvariant, PTL
=============================================================================
