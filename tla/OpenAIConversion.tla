--------------------------- MODULE OpenAIConversion ---------------------------
(***************************************************************************)
(* gateway/openai/convert.rs: the messages of an OpenAI client become      *)
(* Vertex contents.  A message is [role, content, reasoning, tool_calls,   *)
(* tool_call_id].  Its content is a text; an image in it, markdown or      *)
(* image_url, is one symbol of Images.                                     *)
(***************************************************************************)
EXTENDS VertexContents

ChatMessage(role, content, reasoning, tool_calls, tool_call_id) ==
    [role |-> role, content |-> content, reasoning |-> reasoning,
     tool_calls |-> tool_calls, tool_call_id |-> tool_call_id]
UserMessage(content) == ChatMessage("user", content, <<>>, <<>>, None)
ToolMessage(id) == ChatMessage("tool", <<"output">>, <<>>, <<>>, id)

is_tool_only_assistant_message(m) ==
    /\ m.role = "assistant" /\ m.tool_calls # <<>>
    /\ Trimmed(m.reasoning) /\ Trimmed(m.content)

has_signature_for_first_tool_call(cache, m) ==
    m.tool_calls # <<>> /\ Indexed(cache, Head(m.tool_calls))

\* The tool-only message at i, its results behind it, goes to an anchor.
NeedsAnchor(cache, messages, i) ==
    /\ is_tool_only_assistant_message(messages[i])
    /\ i < Len(messages) /\ messages[i + 1].role = "tool"
    /\ ~has_signature_for_first_tool_call(cache, messages[i])

\* The nearest earlier assistant message whose first call has a signature.
Anchor(cache, messages, i) ==
    SelectLastInSubSeq(messages, 1, i - 1,
        LAMBDA m : m.role = "assistant" /\ has_signature_for_first_tool_call(cache, m))

\* The message stays where it was.
MergeAt_Keeps(messages, i, anchor) ==
    [messages EXCEPT ![anchor].tool_calls = @ \o messages[i].tool_calls]

MergeAt(messages, i, anchor) ==
    RemoveAt([messages EXCEPT ![anchor].tool_calls = @ \o messages[i].tool_calls], i)

\* From the front on; after a merge the messages behind move up by one.
merge_tool_only_assistant_messages(cache, messages) ==
    LET step(acc, k) ==
            LET i == acc.next
                anchor == Anchor(cache, acc.messages, i)
            IN  IF NeedsAnchor(cache, acc.messages, i) /\ anchor # 0
                THEN [acc EXCEPT !.messages = MergeAt(@, i, anchor)]
                ELSE [acc EXCEPT !.next = @ + 1]
    IN  FoldLeft(step, [next |-> 1, messages |-> messages], messages).messages

-----------------------------------------------------------------------------
ImageSignature(cache, key, pro_image) ==
    LET entry == lookup_strict(cache, key)
    IN  IF entry.sig = None /\ pro_image THEN FALLBACK_SIGNATURE ELSE entry.sig

\* Each image of a text is a part of its own, and so is the text around it.
TextAndImages(cache, text, pro_image) ==
    LET add(parts, symbol) ==
            IF symbol \in Images
            THEN parts \o ImageOf(symbol, ImageSignature(cache, symbol, pro_image))
            ELSE IF parts # <<>> /\ Last(parts).image = None
                 THEN [parts EXCEPT ![Len(parts)].text = Append(@, symbol)]
                 ELSE parts \o TextOf(<<symbol>>)
    IN  FoldLeft(add, <<>>, text)

\* Claude thinking models get a thought only with the signature of the first
\* call, its text from the message or else from the cache; the others get
\* the bare thought.
Thoughts(cache, m, claude_thinking) ==
    LET first == IF m.tool_calls = <<>> THEN NoEntry
                 ELSE lookup_strict(cache, Head(m.tool_calls))
        own == Trim(m.reasoning)
        text == IF own # <<>> THEN own ELSE Trim(first.reasoning)
    IN  IF ~claude_thinking THEN IF own = <<>> THEN <<>> ELSE ThoughtOf(own, None)
        ELSE IF first.sig = None THEN <<>>
        ELSE ThoughtOf(IF text = <<>> THEN MissingThought ELSE text, first.sig)

\* Gemini gets a signature on the first call, a virtual one when the cache
\* has none; no other call gets one.
CallParts(cache, m, gemini) ==
    LET first == lookup_strict(cache, m.tool_calls[1]).sig
        sig(i) == IF gemini /\ i = 1
                  THEN IF first = None THEN FALLBACK_SIGNATURE ELSE first
                  ELSE None
    IN  FlattenSeq([i \in DOMAIN m.tool_calls |-> CallOf(m.tool_calls[i], sig(i))])

append_function_response(contents, part) ==
    IF contents # <<>> /\ Last(contents).role = "user"
    THEN [contents EXCEPT ![Len(contents)].parts = @ \o part]
    ELSE Append(contents, Content("user", part))

\* family: what the model is, of "gemini", "claude_thinking" and "pro_image".
MessageContents(cache, out, m, family) ==
    LET body == TextAndImages(cache, m.content, "pro_image" \in family)
        parts == Thoughts(cache, m, "claude_thinking" \in family) \o body
                 \o CallParts(cache, m, "gemini" \in family)
        result == ResponseTo(m.tool_call_id, find_function_name(out, m.tool_call_id))
    IN  CASE m.role = "user" -> Append(out, Content("user", body))
          [] m.role = "assistant" ->
                IF parts = <<>> THEN out ELSE Append(out, Content("model", parts))
          [] m.role = "tool" -> append_function_response(out, result)
          [] OTHER -> out

ChatContents(cache, messages, family) ==
    FoldLeft(LAMBDA out, m : MessageContents(cache, out, m, family), <<>>,
             merge_tool_only_assistant_messages(cache, messages))
=============================================================================
