----------------------- MODULE GatewayStreamProperties -----------------------
(* What a streamed answer must carry, besides being well formed. *)
EXTENDS GatewayStream, SequencesExt

\* The data lines that have arrived whole, before a line that ends the body.
Arrived ==
    {l \in 1..got \div 4 : body[l].kind = "data" /\ \A m \in 1..l : body[m].kind # "done"}

PartsOf(lines) ==
    FlattenSeq([l \in DOMAIN body |-> IF l \in lines THEN body[l].datum.parts ELSE <<>>])

\* The text a part carries to the client, by the block it belongs to.
Says(p) ==
    IF p.thought THEN <<"thinking", p.text>>
    ELSE IF p.text # <<>> THEN <<"text", p.text>>
    ELSE IF p.image # None THEN <<"text", <<p.image>>>>
    ELSE IF p.call # None THEN <<"tool_use", <<p.call>>>>
    ELSE <<"text", <<>>>>

\* Deltas without text and placeholders are not told apart.
Told(said) == IF said[2] = <<>> \/ said[2] = MissingThought THEN <<>> ELSE <<said>>

Saying(parts) == FlattenSeq([i \in DOMAIN parts |-> Told(Says(parts[i]))])

IsCall(said) == said[1] = "tool_use"
Words(parts) ==
    FlattenSeq([i \in DOMAIN parts |-> IF IsCall(Says(parts[i])) THEN <<>> ELSE Told(Says(parts[i]))])
CallIds(parts) ==
    FlattenSeq([i \in DOMAIN parts |-> IF IsCall(Says(parts[i])) THEN Says(parts[i])[2] ELSE <<>>])

\* The same, read off the events a client got.
Carried(e) ==
    IF e.kind \in {"thinking_delta", "reasoning"} THEN Told(<<"thinking", e.text>>)
    ELSE IF e.kind \in {"text_delta", "content"} THEN Told(<<"text", e.text>>)
    ELSE IF e.kind = "input_json_delta" THEN Told(<<"tool_use", e.text>>)
    ELSE <<>>
Heard(events) == FlattenSeq([i \in DOMAIN events |-> Carried(events[i])])

ChatCalls(events) ==
    FlattenSeq([i \in DOMAIN events |-> IF events[i].type = "tool_calls" THEN events[i].text ELSE <<>>])

Answered == pc = "done" /\ connected /\ read = handed /\ writer.out # ClaudeError /\ writer.out # ChatError

\* A client that stays gets every text, thought, image and call of the data
\* lines that arrived whole, once and in the order the upstream sent them,
\* wherever the chunks cut the lines and wherever the body broke off.  (The
\* OpenAI writer holds calls back until a finish reason and sends those of a
\* body that breaks off before it never.)
ClientGetsAll ==
    Answered =>
        IF endpoint = "claude" THEN Heard(received) = Saying(PartsOf(Arrived))
        ELSE /\ Heard(received) = Words(PartsOf(Arrived))
             /\ ChatCalls(received) =
                    CallIds(PartsOf({l \in Arrived :
                                \E m \in Arrived : l <= m /\ body[m].datum.finish # NoReason}))

\* The upstream's parts are a union: no part is an image and a call.  The
\* writer would show the image of such a part, the parser count its call.
Unmixed(parts) == \A i \in DOMAIN parts : parts[i].image = None \/ parts[i].call = None
BodyUnmixed ==
    \A i \in DOMAIN body : body[i].kind = "data" => Unmixed(body[i].datum.parts)

\* The stop reason of a message, which comes from the parser, agrees with the
\* blocks the writer has sent: "tool_use" exactly when there is a tool call.
IsCallStart(e) == e.type = "content_block_start" /\ e.kind = "tool_use"
Called(events) == \E i \in DOMAIN events : IsCallStart(events[i])
StopReasonTrue ==
    endpoint = "claude" /\ pc = "done" /\ BodyUnmixed =>
        \A i \in DOMAIN writer.out :
            writer.out[i].type = "message_delta" =>
                ((writer.out[i].kind = "tool_use") <=> Called(writer.out))

\* A thinking signature is bound to one tool call at most ("只把 thinking 的
\* 签名绑定到第一个 tool_use"): no two saves of calls carry the same one,
\* when the upstream itself sends each signature once.
SignatureBoundOnce ==
    LET parts == PartsOf(Arrived)
        sent(s) == {i \in DOMAIN parts : parts[i].sig = s}
        bound(s) == {i \in DOMAIN writer.saves : writer.saves[i].sig = s}
    IN  \A s \in Sigs : (\A i, j \in sent(s) : i = j) => \A i, j \in bound(s) : i = j

\* Events whose text the log merges with that of the event before.
TextKinds == {"thinking_delta", "text_delta", "content", "reasoning"}
Merging(events, e) ==
    LET n == Len(events)
        joins == /\ n > 0 /\ e.kind \in TextKinds
                 /\ events[n].kind = e.kind /\ events[n].index = e.index
    IN  IF joins THEN [events EXCEPT ![n].text = @ \o e.text] ELSE Append(events, e)
Merged(events) ==
    LET merged[n \in 0..Len(events)] ==
            IF n = 0 THEN <<>>
            ELSE IF events[n].type = "[DONE]" THEN merged[n - 1]
            ELSE Merging(merged[n - 1], events[n])
    IN  merged[Len(events)]

\* The client log tells all that was produced, also for a client that left,
\* and differs from the events only in merging neighbouring text deltas.
LogTellsAll ==
    pc = "done" /\ writer.out # ClaudeError /\ writer.out # ChatError =>
        FlushLog(writer).log = Merged(writer.out)

\* No signature is lost with the client: when the handler waits for the next
\* chunk or is done, all saves have been handed to the signature manager.
SavesOutliveClient == pc \in {"read", "done"} => stored = Len(writer.saves)

\* A stream ends once the upstream ends, unless the client stays and never
\* leaves room in the channel; a client that stays reads, so it always ends.
StreamEnds == <>(pc = "done")
=============================================================================
