------------------------------ MODULE ChatWire ------------------------------
(***************************************************************************)
(* What the tool agent's conversation looks like on the wire: call_model   *)
(* renders AgentState.messages in the OpenAI format (omni_to_openai,       *)
(* models/base.py) and AnthropicChatModel renders that as a Messages API   *)
(* request (_to_anthropic, models/anthropic.py).                           *)
(*                                                                         *)
(* Of a message's text only its place is kept; of a tool call and a tool   *)
(* result, the id that binds them.  The text that may stand before the     *)
(* tool_use blocks of a turn is left out.  The answers are read back by    *)
(* parse_openai_tool_calls and by AnthropicChatModel.generate.  The same   *)
(* conversation may be put to StructuredOutput, or to the ModelEngine,     *)
(* which has a system prompt of its own.                                   *)
(***************************************************************************)
EXTENDS AgentGraph

CONSTANT MaxRetries  \* StructuredOutput.max_retries

ASSUME WireAssumption == MaxRetries \in Nat

\* A message of the OpenAI format.
Wire(role, toolCalls, toolCallId) ==
    [role |-> role, tool_calls |-> toolCalls, tool_call_id |-> toolCallId]

System == Wire("system", <<>>, <<>>)

\* omni_to_openai, message by message.
ToWire(message) ==
    CASE message.role = "tool" -> Wire("tool", <<>>, message.answers)
      [] message.role = "assistant" /\ message.calls # <<>> ->
            Wire("assistant", message.calls, <<>>)
      [] OTHER -> Wire(message.role, <<>>, <<>>)

OmniToOpenai(history) == [i \in DOMAIN history |-> ToWire(history[i])]

\* A system prompt goes in front, unless the conversation brings one.
Prefixed(prompted, wire) ==
    IF prompted /\ (wire = <<>> \/ wire[1].role # "system")
      THEN <<System>> \o wire ELSE wire

\* What call_model hands to model.generate, with or without a system_prompt.
Conversation(prompted) == Prefixed(prompted, OmniToOpenai(messages))

\* What EngineChatModel posts; _build_messages knows the engine's own prompt.
EngineRequest(conversation, prompted) == Prefixed(prompted, conversation)

\* The first n messages about answers that did not validate: each of them is
\* repeated, then complained about.
Failed(n) ==
    [i \in 1 .. n |-> Wire(IF i % 2 = 1 THEN "assistant" ELSE "user", <<>>, <<>>)]

\* StructuredOutput.invoke after k such answers: the schema comes first.
Attempt(conversation, k) == <<System>> \o conversation \o Failed(2 * k)

-----------------------------------------------------------------------------
Block(type, id) == [type |-> type, id |-> id]
Text == Block("text", <<>>)
Turn(role, content) == [role |-> role, content |-> content]

\* One message of the conversation as an Anthropic turn; a string content is
\* written as the one text block that as_blocks makes of it.
ToTurn(message) ==
    CASE message.role = "tool" ->
            Turn("user", <<Block("tool_result", message.tool_call_id)>>)
      [] message.role = "assistant" /\ message.tool_calls # <<>> ->
            Turn("assistant", [j \in DOMAIN message.tool_calls |->
                                  Block("tool_use", <<message.tool_calls[j]>>)])
      [] OTHER -> Turn(message.role, <<Text>>)

\* Mutant of MergeTurn: the merged turn keeps the new blocks only.
MergeTurnDropsPrev(merged, turn) ==
    IF merged # <<>> /\ merged[Len(merged)].role = turn.role
      THEN [merged EXCEPT ![Len(merged)].content = turn.content]
      ELSE Append(merged, turn)

\* Consecutive turns of one role become one.
MergeTurn(merged, turn) ==
    IF merged # <<>> /\ merged[Len(merged)].role = turn.role
      THEN [merged EXCEPT ![Len(merged)].content = @ \o turn.content]
      ELSE Append(merged, turn)

\* _to_anthropic: the system messages leave the list, the others are merged.
ToAnthropic(conversation) ==
    LET merged[i \in 0 .. Len(conversation)] ==
            IF i = 0 THEN <<>>
            ELSE IF conversation[i].role = "system" THEN merged[i - 1]
            ELSE MergeTurn(merged[i - 1], ToTurn(conversation[i]))
    IN  merged[Len(conversation)]

\* The payload of AnthropicChatModel.generate.
Request(conversation) ==
    [system |-> \E i \in DOMAIN conversation : conversation[i].role = "system",
     messages |-> ToAnthropic(conversation)]

-----------------------------------------------------------------------------
(* Reading an answer                                                       *)

\* parse_openai_tool_calls of an assistant message.
ParseToolCalls(message) == message.tool_calls

\* The ids of the blocks of one type, in order.
Ids(content, type) ==
    LET ids[i \in 0 .. Len(content)] ==
            IF i = 0 THEN <<>>
            ELSE IF content[i].type = type THEN ids[i - 1] \o content[i].id
            ELSE ids[i - 1]
    IN  ids[Len(content)]

\* What generate() makes of an answer's content: text blocks are joined, each
\* tool_use block becomes a ToolCall, in order.
ReadContent(content) == Ids(content, "tool_use")

-----------------------------------------------------------------------------
(* Properties                                                              *)

\* What the model asked for in each of its answers.
Asked(history) ==
    LET asked[i \in 0 .. Len(history)] ==
            IF i = 0 THEN <<>>
            ELSE IF history[i].role = "assistant" THEN Append(asked[i - 1], history[i].calls)
            ELSE asked[i - 1]
    IN  asked[Len(history)]

\* The conversation begins with the user, ends with the user and alternates,
\* and the results of a turn answer the calls of the turn before it, in order.
Alternates(turns) ==
    /\ turns # <<>> /\ turns[1].role = "user" /\ turns[1].content[1] = Text
    /\ turns[Len(turns)].role = "user"
    /\ \A i \in 1 .. Len(turns) - 1 :
         /\ turns[i].role # turns[i + 1].role
         /\ Ids(turns[i + 1].content, "tool_result") = Ids(turns[i].content, "tool_use")

\* Every message is on the wire, after the system prompt if there is one, and
\* every answer of the model with what it asked for.
TellsAll(conversation, prompted) ==
    /\ Len(conversation) = Len(messages) + (IF prompted THEN 1 ELSE 0)
    /\ \A i \in DOMAIN messages :
         LET sent == conversation[i + Len(conversation) - Len(messages)]
         IN  sent.role = messages[i].role /\ ParseToolCalls(sent) = messages[i].calls

\* After the user's turn come those of the model and of its tools, in pairs:
\* what is read back from the former is what was asked for.
TellsTurns(turns, asked) ==
    /\ Len(turns) = 2 * Len(asked) + 1
    /\ \A n \in DOMAIN asked : ReadContent(turns[2 * n].content) = asked[n]

\* "the API requires strict user/assistant alternation": whatever tools the
\* model asked for, and however often structured output asks again, a request
\* is well-formed and carries the system prompt if there is one; merging loses and
\* moves nothing; in both formats the model is told that it asked for what its
\* answers were read as; and the engine's server gets one system message at most.
RequestIsWellFormed ==
    Running("model") =>
        \A agent, engine \in BOOLEAN :
            LET conversation == Conversation(agent)
                posted  == EngineRequest(conversation, engine)
                request == Request(conversation)
            IN  /\ Alternates(request.messages) /\ request.system = agent
                /\ \A k \in 0 .. MaxRetries :
                     LET again == Request(Attempt(conversation, k))
                     IN  Alternates(again.messages) /\ again.system
                /\ TellsAll(conversation, agent)
                /\ TellsTurns(request.messages, Asked(messages))
                /\ \A i \in DOMAIN posted :
                     posted[i].role = "system" <=> i = 1 /\ (agent \/ engine)
=============================================================================
