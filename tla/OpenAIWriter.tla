---------------------------- MODULE OpenAIWriter ----------------------------
(***************************************************************************)
(* StreamWriter of gateway/openai/stream.rs, as a record and the maps its  *)
(* methods are.  Function calls are held back in calls until the upstream  *)
(* names a finish reason.  Text parts are whole strings, so that the UTF-8 *)
(* buffers are empty between calls and are left out.                       *)
(***************************************************************************)
EXTENDS ClaudeWriter

\* signing: the model is a Claude thinking model (is_claude_thinking).
NewChatWriter(signing) ==
    [sent_role |-> FALSE, calls |-> <<>>, sig |-> None, thought |-> <<>>,
     signing |-> signing, out |-> <<>>, saves |-> <<>>, log |-> <<>>,
     pending |-> NoPending]

ChatEvent(type, text) == Event(type, 0, type, text)

FlushChatLog(w) ==
    IF w.pending.text = <<>> THEN w
    ELSE [w EXCEPT !.pending = NoPending,
                   !.log = Append(@, ChatEvent(w.pending.kind, w.pending.text))]

\* Content and reasoning are merged in the log, each until the other comes.
CollectChunk(w, event) ==
    LET same == w.pending.kind = event.type
        v == IF same THEN w ELSE FlushChatLog(w)
        before == IF same THEN w.pending.text ELSE <<>>
        flushed == FlushChatLog(w)
    IN  IF event.type \in {"content", "reasoning"}
        THEN [v EXCEPT !.pending = [index |-> 0, kind |-> event.type,
                                    text |-> before \o event.text]]
        ELSE [flushed EXCEPT !.log = Append(@, event)]

WriteChunk(w, event) ==
    [CollectChunk(w, event) EXCEPT !.out = Append(@, event)]

WriteRole(w) ==
    IF w.sent_role THEN w
    ELSE [WriteChunk(w, ChatEvent("role", <<>>)) EXCEPT !.sent_role = TRUE]

\* write_content and write_reasoning: nothing but the role for an empty text.
WriteText(w, type, text) ==
    IF text = <<>> THEN WriteRole(w)
    ELSE WriteChunk(WriteRole(w), ChatEvent(type, text))

SaveAndTakeReasoning(w, key, image, sig) ==
    IF sig = None THEN w
    ELSE [w EXCEPT !.saves = Append(@, SignatureSave(key, image, sig, w.thought)),
                   !.thought = <<>>]

\* For Claude thinking models the pending signature goes first.
ChatCall(w, p) ==
    LET pending == w.signing /\ w.sig # None
        v == SaveAndTakeReasoning(w, p.call, FALSE, IF pending THEN w.sig ELSE p.sig)
    IN  [v EXCEPT !.sig = IF pending THEN None ELSE @,
                  !.calls = Append(@, p.call)]

ChatThought(w, p) ==
    LET held == IF w.signing /\ p.sig # None THEN p.sig ELSE w.sig
    IN  WriteText([w EXCEPT !.sig = held, !.thought = @ \o p.text], "reasoning", p.text)

ChatPart(w, p) ==
    IF p.thought THEN ChatThought(w, p)
    ELSE IF p.text # <<>> THEN WriteText(w, "content", p.text)
    ELSE IF p.image # None
         THEN WriteText(SaveAndTakeReasoning(w, p.image, TRUE, p.sig), "content", <<p.image>>)
    ELSE IF p.call # None THEN ChatCall(w, p)
    ELSE w

FlushToolCalls(w) ==
    IF w.calls = <<>> THEN w
    ELSE [WriteChunk(WriteRole(w), ChatEvent("tool_calls", w.calls)) EXCEPT !.calls = <<>>]

\* [DONE] is not logged.
ChatFinish(w, reason) ==
    LET v == WriteChunk(WriteRole(w), Event("finish", 0, reason, <<>>))
    IN  [v EXCEPT !.out = Append(@, ChatEvent("[DONE]", <<>>))]

ChatError == <<ChatEvent("chat_error", <<>>), ChatEvent("[DONE]", <<>>)>>
=============================================================================
