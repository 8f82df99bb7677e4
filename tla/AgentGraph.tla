----------------------------- MODULE AgentGraph -----------------------------
(***************************************************************************)
(* create_tool_agent (graph/agent.py) run by CompiledGraph.ainvoke         *)
(* (graph/graph.py) as a gateway handler: the model is called, the tools   *)
(* it asks for are run one after the other, and so on.  Two bounds meet:   *)
(* the agent counts model turns, the graph counts node executions.         *)
(*                                                                         *)
(* A message keeps its role, the tool calls it asks for and, for a tool's  *)
(* output, the call it answers.  The model and the tools are awaited and   *)
(* may answer anything or raise.                                           *)
(***************************************************************************)
EXTENDS Integers, Sequences

CONSTANTS
    Calls,     \* tool-call ids the model may use; it may repeat them
    MaxCalls,  \* bound: tool calls in one answer of the model
    MaxSteps   \* create_tool_agent(max_steps)

ASSUME CallsAssumption == MaxCalls \in Nat
ASSUME StepsAssumption == MaxSteps \in Nat

VARIABLES
    status,     \* of ainvoke
    current,    \* the node to run next, or END
    iteration,  \* nodes run so far
    steps,      \* AgentState.steps
    messages,   \* AgentState.messages
    outputs     \* the local `outputs` of run_tools

vars == <<status, current, iteration, steps, messages, outputs>>

CallLists == UNION {[1 .. n -> Calls] : n \in 0 .. MaxCalls}

User == [role |-> "user", calls |-> <<>>, answers |-> <<>>]
Assistant(calls) == [role |-> "assistant", calls |-> calls, answers |-> <<>>]
ToolOutput(call) == [role |-> "tool", calls |-> <<>>, answers |-> <<call>>]

Last == messages[Len(messages)]

\* Mutant of MaxIterations: the tool nodes are not counted.
MaxIterationsModelOnly == MaxSteps + 1

\* compile(max_iterations=2 * max_steps + 2)
MaxIterations == 2 * MaxSteps + 2

Init ==
    /\ status = "running"
    /\ current = "model"
    /\ iteration = 0
    /\ steps = 0
    /\ messages = <<User>>
    /\ outputs = <<>>

\* The loop of ainvoke is at a node and has iterations left.
Running(node) ==
    /\ status = "running"
    /\ current = node
    /\ iteration < MaxIterations

\* Mutant of Route: the last turn is never taken.
RouteEarly(calls, taken) ==
    IF calls # <<>> /\ taken + 1 < MaxSteps THEN "tools" ELSE "END"

\* route(state), after the model's answer has been merged.
Route(calls, taken) == IF calls # <<>> /\ taken < MaxSteps THEN "tools" ELSE "END"

\* _next: the model node has a conditional edge, the tools node a static one.
NextNode(node, calls, taken) == IF node = "model" THEN Route(calls, taken) ELSE "model"

\* State.merge: messages are appended, in order.
Merge(update) == messages \o update

\* call_model returns and its update is merged; the router picks the next node.
CallModel(calls) ==
    /\ Running("model")
    /\ messages' = Merge(<<Assistant(calls)>>)
    /\ steps' = steps + 1
    /\ current' = NextNode("model", calls, steps + 1)
    /\ iteration' = iteration + 1
    /\ UNCHANGED <<status, outputs>>

\* model.generate raises: _run_node and ainvoke let it through.
ModelRaises ==
    /\ Running("model")
    /\ status' = "failed"
    /\ UNCHANGED <<current, iteration, steps, messages, outputs>>

\* Mutant of RunTool: run_tools returns after the first call.
RunToolFirstOnly ==
    /\ Running("tools")
    /\ messages' = Append(messages, ToolOutput(Last.calls[1]))
    /\ current' = "model"
    /\ iteration' = iteration + 1
    /\ UNCHANGED <<status, steps, outputs>>

\* run_tools has an output for one more call: a result, a schema error, an
\* exception or an unknown tool, all fed back as text.  After the last one
\* the node's update is merged and the edge back to the model is taken.
RunTool ==
    /\ Running("tools")
    /\ LET outs == Append(outputs, ToolOutput(Last.calls[Len(outputs) + 1]))
       IN  IF Len(outs) = Len(Last.calls)
             THEN /\ messages' = Merge(outs)
                  /\ outputs' = <<>>
                  /\ current' = NextNode("tools", <<>>, steps)
                  /\ iteration' = iteration + 1
             ELSE /\ outputs' = outs
                  /\ UNCHANGED <<messages, current, iteration>>
    /\ UNCHANGED <<status, steps>>

\* The loop is left: at END, wherever the count stands, with the last message
\* as the reply; elsewhere with GraphError("Graph exceeded max_iterations").
Leave ==
    /\ status = "running"
    /\ current = "END" \/ iteration = MaxIterations
    /\ status' = IF current = "END" THEN "returned" ELSE "exceeded"
    /\ UNCHANGED <<current, iteration, steps, messages, outputs>>

\* as_handler: the next inbound message starts from a fresh state.
Handle ==
    /\ status # "running"
    /\ status' = "running"
    /\ current' = "model"
    /\ iteration' = 0
    /\ steps' = 0
    /\ messages' = <<User>>
    /\ outputs' = <<>>

Next ==
    \/ \E calls \in CallLists : CallModel(calls)
    \/ ModelRaises
    \/ RunTool
    \/ Leave
    \/ Handle

Spec == Init /\ [][Next]_vars

-----------------------------------------------------------------------------
(* Properties                                                              *)

\* The first turn is always taken, and none beyond max_steps.
Turns == IF MaxSteps = 0 THEN 1 ELSE MaxSteps
Roles == {"user", "assistant", "tool"}
Message == [role : Roles, calls : Seq(Calls), answers : Seq(Calls)]

TypeOK ==
    /\ status \in {"running", "returned", "failed", "exceeded"}
    /\ current \in {"model", "tools", "END"}
    /\ iteration \in 0 .. MaxIterations
    /\ steps \in 0 .. Turns
    /\ messages \in Seq(Message)
    /\ outputs \in Seq(Message)

\* The graph's own bound never cuts an agent's run short, so the caller never
\* gets the GraphError of ainvoke.
NeverExceeds == status # "exceeded"

\* "the loop repeats until the model answers without tool calls or max_steps
\* model turns elapse": a run is never cut short by the graph's bound, and its
\* reply is an answer of the model, never a tool's output, that asks for no
\* tools unless all the turns were used.
EndsOnAnswer ==
    /\ NeverExceeds
    /\ status = "returned" =>
          Last.role = "assistant" /\ (Last.calls = <<>> \/ steps >= MaxSteps)

\* What a chat backend demands of a conversation: before the model is called
\* again, every call it asked for has its one output, in order, right behind
\* the message that asked.
CallsAnswered ==
    \A i \in DOMAIN messages :
       i < Len(messages) /\ messages[i].role = "assistant" =>
          /\ i + Len(messages[i].calls) <= Len(messages)
          /\ \A j \in 1 .. Len(messages[i].calls) :
                messages[i + j] = ToolOutput(messages[i].calls[j])
=============================================================================
