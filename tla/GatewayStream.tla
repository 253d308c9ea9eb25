---------------------------- MODULE GatewayStream ----------------------------
(***************************************************************************)
(* One streamed answer: the bytes of the upstream body, the line parser of *)
(* vertex/stream.rs, the receiver closure and finish of                    *)
(* handle_stream_with_retry in both handlers, the bounded channel and the  *)
(* client, which reads at its own pace and may go away.                    *)
(*                                                                         *)
(* The body is a sequence of lines.  A byte is <<n, part>>: the first or   *)
(* second half of line n, its CR or its LF.  Chunks cut it anywhere.       *)
(***************************************************************************)
EXTENDS OpenAIWriter

CONSTANTS
    Bodies,      \* upstream bodies: sequences of lines
    ChunkSizes,  \* bytes a chunk may have (bound)
    Capacity     \* events the channel holds (256 in the code)

\* A line of a body carries data, ends the stream ("[DONE]"), carries data
\* that does not deserialize, or is any other line (event name, comment).
Line == [kind : {"data"}, datum : Datum] \cup [kind : {"done", "bad", "other"}]

ASSUME StreamAssumption ==
    /\ Bodies \subseteq Seq(Line)
    /\ ChunkSizes \subseteq Nat \ {0} /\ Capacity \in Nat \ {0}

VARIABLES
    endpoint,    \* which handler serves the request
    body,        \* the lines the upstream sends
    got,         \* bytes that have arrived
    buf, processed,     \* the parser's buffer and its offset into it
    result,      \* StreamResult: tool calls and finish reason
    todo,        \* parts of the datum the receiver still has to process
    finishing,   \* the datum has a finish reason
    pc,          \* where the handler's task is
    writer,
    handed,      \* events put into the channel
    read,        \* events the client has taken out
    connected,   \* the client still listens
    stored       \* signature saves handed to the signature manager

upstreamVars == <<body, got>>
parserVars == <<buf, processed, result>>
datumVars == <<todo, finishing>>
clientVars == <<read, connected>>
vars == <<endpoint, upstreamVars, parserVars, datumVars, pc, writer, handed,
          clientVars, stored>>

CR == 3
LF == 4
Bytes(lines) == [i \in 1..4 * Len(lines) |-> <<((i - 1) \div 4) + 1, ((i - 1) % 4) + 1>>]

\* A line cut wrongly does not parse.
NotParsed == [kind |-> "bad"]
LineOf(bytes) ==
    IF Len(bytes) = 2 /\ bytes[1][1] = bytes[2][1] /\ bytes[1][2] = 1 /\ bytes[2][2] = 2
    THEN body[bytes[1][1]]
    ELSE NotParsed

Init ==
    /\ endpoint \in {"claude", "openai"}
    /\ body \in Bodies
    /\ got = 0
    /\ buf = <<>> /\ processed = 0
    /\ result = [calls |-> {}, finish |-> NoReason]
    /\ todo = <<>> /\ finishing = FALSE
    /\ pc = "connect"
    /\ \E signing \in BOOLEAN :
          writer = IF endpoint = "claude" THEN NewClaudeWriter(signing) ELSE NewChatWriter(signing)
    /\ handed = 0 /\ read = 0
    /\ connected = TRUE
    /\ stored = 0

-----------------------------------------------------------------------------
(* The upstream request. *)

Connect ==
    /\ pc = "connect"
    /\ pc' = "read"
    /\ UNCHANGED <<endpoint, upstreamVars, parserVars, datumVars, writer, handed, clientVars, stored>>

\* Every attempt failed: the client gets an error and the end.
ConnectFails ==
    /\ pc = "connect"
    /\ pc' = "closing"
    /\ writer' = [writer EXCEPT !.out = IF endpoint = "claude" THEN ClaudeError ELSE ChatError]
    /\ UNCHANGED <<endpoint, upstreamVars, parserVars, datumVars, handed, clientVars, stored>>

Chunk(n) ==
    /\ pc = "read"
    /\ got + n <= 4 * Len(body)
    /\ buf' = buf \o SubSeq(Bytes(body), got + 1, got + n)
    /\ got' = got + n
    /\ pc' = "lines"
    /\ UNCHANGED <<endpoint, body, processed, result, datumVars, writer, handed, clientVars, stored>>

\* The body ends or the connection breaks, after any byte: both end in finish.
UpstreamEnds ==
    /\ pc = "read"
    /\ pc' = "finish"
    /\ UNCHANGED <<endpoint, upstreamVars, parserVars, datumVars, writer, handed, clientVars, stored>>

-----------------------------------------------------------------------------
(* The line loop. *)

Newlines == {i \in processed + 1..Len(buf) : buf[i][2] = LF}

\* One byte too far: the line ends with its newline and the next one is cut.
Newline_OneTooFar == 1 + CHOOSE i \in Newlines : \A j \in Newlines : i <= j

Newline == CHOOSE i \in Newlines : \A j \in Newlines : i <= j

WithoutCR(bytes) ==
    IF bytes # <<>> /\ bytes[Len(bytes)][2] = CR THEN SubSeq(bytes, 1, Len(bytes) - 1) ELSE bytes

\* A call in a thought is counted too.
CallsIn_Thoughts(parts) == {parts[i].call : i \in DOMAIN parts} \ {None}

\* What the parser keeps of a datum: a thought and a text hide a call.
Counts(p) == ~p.thought /\ p.text = <<>> /\ p.call # None
CallsIn(parts) == {parts[i].call : i \in {j \in DOMAIN parts : Counts(parts[j])}}

TakeLine ==
    /\ pc = "lines"
    /\ Newlines # {}
    /\ LET line == LineOf(WithoutCR(SubSeq(buf, processed + 1, Newline - 1)))
       IN  \/ /\ line.kind = "done"
              /\ buf' = SubSeq(buf, Newline + 1, Len(buf))
              /\ pc' = "finish"
              /\ UNCHANGED <<processed, result, datumVars>>
           \/ /\ line.kind \in {"bad", "other"}
              /\ processed' = Newline
              /\ UNCHANGED <<buf, result, datumVars, pc>>
           \/ /\ line.kind = "data"
              /\ processed' = Newline
              /\ result' = [calls |-> result.calls \cup CallsIn(line.datum.parts),
                            finish |-> IF line.datum.finish # NoReason THEN line.datum.finish
                                       ELSE result.finish]
              /\ todo' = line.datum.parts
              /\ finishing' = (line.datum.finish # NoReason)
              /\ pc' = "parts"
              /\ UNCHANGED buf
    /\ UNCHANGED <<endpoint, upstreamVars, writer, handed, clientVars, stored>>

\* The offset is not set back.
Drain_KeepsOffset ==
    /\ pc = "lines"
    /\ Newlines = {}
    /\ buf' = SubSeq(buf, processed + 1, Len(buf))
    /\ pc' = "read"
    /\ UNCHANGED <<endpoint, upstreamVars, processed, result, datumVars, writer, handed, clientVars, stored>>

\* No whole line is left: drop what was processed and wait for a chunk.
Drain ==
    /\ pc = "lines"
    /\ Newlines = {}
    /\ buf' = SubSeq(buf, processed + 1, Len(buf))
    /\ processed' = 0
    /\ pc' = "read"
    /\ UNCHANGED <<endpoint, upstreamVars, result, datumVars, writer, handed, clientVars, stored>>

-----------------------------------------------------------------------------
(* The receiver: all parts of the datum first, then events and saves. *)

ProcessPart ==
    /\ pc = "parts"
    /\ todo # <<>>
    /\ writer' = IF endpoint = "claude" THEN ClaudePart(writer, Head(todo))
                 ELSE ChatPart(writer, Head(todo))
    /\ todo' = Tail(todo)
    /\ UNCHANGED <<endpoint, upstreamVars, parserVars, finishing, pc, handed, clientVars, stored>>

PartsDone ==
    /\ pc = "parts"
    /\ todo = <<>>
    /\ writer' = IF endpoint = "openai" /\ finishing THEN FlushToolCalls(writer) ELSE writer
    /\ pc' = IF endpoint = "claude" THEN "send" ELSE "save"
    /\ UNCHANGED <<endpoint, upstreamVars, parserVars, datumVars, handed, clientVars, stored>>

\* The channel accepts an event while there is room, or fails at once when
\* the client is gone.
Send ==
    /\ pc \in {"send", "closing"}
    /\ connected
    /\ handed < Len(writer.out)
    /\ handed - read < Capacity
    /\ handed' = handed + 1
    /\ UNCHANGED <<endpoint, upstreamVars, parserVars, datumVars, pc, writer, clientVars, stored>>

\* The task does not notice that the client is gone.
Sent_Deaf ==
    /\ pc \in {"send", "closing"}
    /\ handed = Len(writer.out)
    /\ pc' = IF pc = "closing" THEN "done"
             ELSE IF endpoint = "claude" THEN "save" ELSE "lines"
    /\ UNCHANGED <<endpoint, upstreamVars, parserVars, datumVars, writer, handed, clientVars, stored>>

\* A client that is gone ends the work on the datum.
Sent_DropsSaves ==
    /\ pc \in {"send", "closing"}
    /\ handed = Len(writer.out) \/ ~connected
    /\ pc' = IF pc = "closing" THEN "done"
             ELSE IF endpoint = "claude" /\ connected THEN "save" ELSE "lines"
    /\ UNCHANGED <<endpoint, upstreamVars, parserVars, datumVars, writer, handed, clientVars, stored>>

\* The batch is sent, or its first failing event ended it.
Sent ==
    /\ pc \in {"send", "closing"}
    /\ handed = Len(writer.out) \/ ~connected
    /\ pc' = IF pc = "closing" THEN "done"
             ELSE IF endpoint = "claude" THEN "save" ELSE "lines"
    /\ UNCHANGED <<endpoint, upstreamVars, parserVars, datumVars, writer, handed, clientVars, stored>>

\* Signatures are saved before the events (OpenAI) or after them (Claude).
Save ==
    /\ pc = "save"
    /\ stored' = Len(writer.saves)
    /\ pc' = IF endpoint = "claude" THEN "lines" ELSE "send"
    /\ UNCHANGED <<endpoint, upstreamVars, parserVars, datumVars, writer, handed, clientVars>>

StopReason ==
    IF endpoint = "claude" THEN IF result.calls # {} THEN "tool_use" ELSE "end_turn"
    ELSE IF result.finish = NoReason THEN "stop" ELSE result.finish

Finish ==
    /\ pc = "finish"
    /\ writer' = IF endpoint = "claude" THEN ClaudeFinish(writer, StopReason)
                 ELSE ChatFinish(writer, StopReason)
    /\ pc' = "closing"
    /\ UNCHANGED <<endpoint, upstreamVars, parserVars, datumVars, handed, clientVars, stored>>

-----------------------------------------------------------------------------
(* The client. *)

ClientReads ==
    /\ connected
    /\ read < handed
    /\ read' = read + 1
    /\ UNCHANGED <<endpoint, upstreamVars, parserVars, datumVars, pc, writer, handed, connected, stored>>

ClientLeaves ==
    /\ connected
    /\ connected' = FALSE
    /\ UNCHANGED <<endpoint, upstreamVars, parserVars, datumVars, pc, writer, handed, read, stored>>

Handler == Connect \/ ConnectFails \/ TakeLine \/ Drain \/ ProcessPart \/ PartsDone
           \/ Send \/ Sent \/ Save \/ Finish

Network == UpstreamEnds \/ \E n \in ChunkSizes : Chunk(n)

Next == Handler \/ Network \/ ClientReads \/ ClientLeaves

Spec == Init /\ [][Next]_vars

\* The task runs when it can, the upstream sends or ends, and a client that
\* stays reads.  Nothing makes a client leave.
FairSpec == Spec /\ WF_vars(Handler) /\ WF_vars(Network) /\ WF_vars(ClientReads)

-----------------------------------------------------------------------------
received == SubSeq(writer.out, 1, read)

\* Variables keep their types.  Until the line loop has ended its offset stays
\* within the buffer, or the next slice would panic; the client reads what was
\* handed over, and no more was handed over than written.
TypeOK ==
    /\ endpoint \in {"claude", "openai"}
    /\ pc \in {"connect", "read", "lines", "parts", "send", "save", "finish", "closing", "done"}
    /\ got \in Nat /\ processed \in Nat
    /\ pc \notin {"finish", "closing", "done"} => processed <= Len(buf)
    /\ todo \in Seq(Part)
    /\ finishing \in BOOLEAN /\ connected \in BOOLEAN
    /\ handed \in 0..Len(writer.out)
    /\ read \in 0..handed
    /\ stored \in 0..Len(writer.saves)

\* Whatever the upstream sends and wherever it breaks off, and however late
\* the client reads, what the client has read follows the event grammar: one
\* start, blocks with consecutive indices that open, fill and close one at a
\* time, a signature only after thinking text and last in its block, one end.
Grammar == INSTANCE EventGrammar WITH received <- received
WellFormed == Grammar!Spec
=============================================================================
