---------------------------- MODULE EventGrammar ----------------------------
(***************************************************************************)
(* What a client of the two streaming endpoints may rely on, whatever the  *)
(* upstream sends and wherever it breaks off: every event it has read so   *)
(* far continues the one before it.  The two grammars share no event type, *)
(* so one relation holds both.                                             *)
(***************************************************************************)
EXTENDS Naturals, Sequences

VARIABLE received   \* the events the client has read, oldest first

Starts(e, i) == e.type = "content_block_start" /\ e.index = i

\* Which delta may follow an event of a block: a signature closes thinking
\* text and nothing follows it; a tool call has one delta.
Fits(e, f) ==
    \/ /\ e.type = "content_block_start"
       /\ \/ e.kind = "thinking" /\ f.kind = "thinking_delta"
          \/ e.kind = "text" /\ f.kind = "text_delta"
          \/ e.kind = "tool_use" /\ f.kind = "input_json_delta"
    \/ /\ e.type = "content_block_delta"
       /\ \/ e.kind = "thinking_delta" /\ f.kind \in {"thinking_delta", "signature_delta"}
          \/ e.kind = "text_delta" /\ f.kind = "text_delta"

\* Claude: f continues the open block of e.
Inside(e, f) ==
    /\ f.index = e.index
    /\ \/ f.type = "content_block_stop"
       \/ f.type = "content_block_delta" /\ Fits(e, f)

ChatDeltas == {"content", "reasoning", "tool_calls"}

First(e) == e.type \in {"message_start", "message_delta", "error",
                        "role", "chat_error"}

Follows(e, f) ==
    \* Claude messages
    \/ e.type = "message_start" /\ (Starts(f, 0) \/ f.type = "message_delta")
    \/ e.type \in {"content_block_start", "content_block_delta"} /\ Inside(e, f)
    \/ e.type = "content_block_stop" /\ (Starts(f, e.index + 1) \/ f.type = "message_delta")
    \/ e.type \in {"message_delta", "error"} /\ f.type = "message_stop"
    \* OpenAI chunks
    \/ e.type \in {"role"} \cup ChatDeltas /\ f.type \in ChatDeltas \cup {"finish"}
    \/ e.type \in {"finish", "chat_error"} /\ f.type = "[DONE]"

Continues(s, e) == IF s = <<>> THEN First(e) ELSE Follows(s[Len(s)], e)

Init == received = <<>>

\* The client reads one more event.  Its values are left open, so a step is
\* stated by its effect on the sequence.
Next ==
    /\ Len(received') = Len(received) + 1
    /\ received' = Append(received, received'[Len(received) + 1])
    /\ Continues(received, received'[Len(received) + 1])

Spec == Init /\ [][Next]_received
=============================================================================
