---------------------------- MODULE ClaudeWriter ----------------------------
(***************************************************************************)
(* ClaudeStreamWriter of gateway/claude/stream.rs.  A writer is a record;  *)
(* each method maps a writer to the writer after it.  out and saves are    *)
(* all events and signature saves the writer has returned so far, and log  *)
(* is the merged client log.                                               *)
(***************************************************************************)
EXTENDS UpstreamData

Event(type, index, kind, text) ==
    [type |-> type, index |-> index, kind |-> kind, text |-> text]

NoBlock == [index |-> 0, kind |-> "none"]
NoPending == [index |-> 0, kind |-> "none", text |-> <<>>]

\* signing: the model is a Claude model (enable_signature).
NewClaudeWriter(signing) ==
    [started |-> FALSE, next_index |-> 0, block |-> NoBlock, sig |-> None,
     thought |-> <<>>, emitted |-> FALSE, signing |-> signing,
     out |-> <<>>, saves |-> <<>>, log |-> <<>>, pending |-> NoPending]

-----------------------------------------------------------------------------
(* The client log merges neighbouring deltas of one block. *)

FlushLog(w) ==
    IF w.pending.text = <<>>
    THEN [w EXCEPT !.pending = NoPending]
    ELSE [w EXCEPT !.pending = NoPending,
                   !.log = Append(@, Event("content_block_delta", w.pending.index,
                                           w.pending.kind, w.pending.text))]

CollectDelta(w, kind, index, text) ==
    LET same == w.pending.kind = kind /\ w.pending.index = index
        v == IF same THEN w ELSE FlushLog(w)
        before == IF same THEN w.pending.text ELSE <<>>
    IN  IF text = <<>> THEN w
        ELSE [v EXCEPT !.pending = [index |-> index, kind |-> kind, text |-> before \o text]]

\* Without flushing the merged delta first.
EmitPlain_Unflushed(w, event) ==
    [w EXCEPT !.out = Append(@, event), !.log = Append(@, event)]

\* An event other than a text delta goes to the client and to the log.
EmitPlain(w, event) ==
    LET v == FlushLog(w)
    IN  [v EXCEPT !.out = Append(@, event), !.log = Append(@, event)]

EmitDelta(w, kind, text) ==
    LET v == CollectDelta(w, kind, w.block.index, text)
    IN  [v EXCEPT !.out = Append(@, Event("content_block_delta", w.block.index, kind, text))]

EmitThinkingDelta(w, text) == EmitDelta(w, "thinking_delta", text)
EmitTextDelta(w, text) == EmitDelta(w, "text_delta", text)

-----------------------------------------------------------------------------
(* Blocks and signatures. *)

OpenBlock(w, kind) ==
    LET v == EmitPlain(w, Event("content_block_start", w.next_index, kind, <<>>))
    IN  [v EXCEPT !.next_index = @ + 1,
                  !.block = [index |-> w.next_index, kind |-> kind],
                  !.thought = IF kind = "thinking" THEN <<>> ELSE @,
                  !.emitted = IF kind = "thinking" THEN FALSE ELSE @]

CloseBlock(w) ==
    IF w.block.kind = "none" THEN w
    ELSE [EmitPlain(w, Event("content_block_stop", w.block.index, "none", <<>>))
            EXCEPT !.block = NoBlock]

\* Without the placeholder.
FlushSignature_Bare(w) ==
    IF w.block.kind = "thinking" /\ w.signing /\ w.sig # None /\ ~w.emitted
    THEN [EmitPlain(w, Event("content_block_delta", w.block.index, "signature_delta", <<w.sig>>))
            EXCEPT !.emitted = TRUE]
    ELSE w

\* A signature that came without any thinking text gets a placeholder first.
FlushSignature(w) ==
    LET v == IF Trimmed(w.thought)
             THEN [EmitThinkingDelta(w, MissingThought)
                     EXCEPT !.thought = @ \o MissingThought]
             ELSE w
    IN  IF w.block.kind = "thinking" /\ w.signing /\ w.sig # None /\ ~w.emitted
        THEN [EmitPlain(v, Event("content_block_delta", w.block.index,
                                 "signature_delta", <<w.sig>>))
                EXCEPT !.emitted = TRUE]
        ELSE w

Reasoning(w) == IF Trimmed(w.thought) THEN MissingThought ELSE w.thought

SignatureSave(key, image, sig, reasoning) ==
    [key |-> key, image |-> image, sig |-> sig, reasoning |-> reasoning]

\* The pending signature stays for the next call.
EmitToolUse_KeepsPending(w, call, sig) ==
    LET i == w.next_index
        bound == IF sig # None THEN sig ELSE IF w.signing THEN w.sig ELSE None
    IN  [EmitPlain(EmitPlain(EmitPlain(w,
                Event("content_block_start", i, "tool_use", <<call>>)),
                Event("content_block_delta", i, "input_json_delta", <<call>>)),
                Event("content_block_stop", i, "none", <<>>))
            EXCEPT !.next_index = i + 1,
                   !.saves = IF bound = None THEN @
                             ELSE Append(@, SignatureSave(call, FALSE, bound, Reasoning(w)))]

\* A tool call is a block of its own, whole.  It takes its own signature or
\* else the pending one of the thinking before it, which is then used up.
EmitToolUse(w, call, sig) ==
    LET i == w.next_index
        v == EmitPlain(EmitPlain(EmitPlain(w,
                Event("content_block_start", i, "tool_use", <<call>>)),
                Event("content_block_delta", i, "input_json_delta", <<call>>)),
                Event("content_block_stop", i, "none", <<>>))
        bound == IF sig # None THEN sig ELSE IF w.signing THEN w.sig ELSE None
    IN  [v EXCEPT !.next_index = i + 1,
                  !.sig = IF sig = None /\ w.signing THEN None ELSE @,
                  !.saves = IF bound = None THEN @
                            ELSE Append(@, SignatureSave(call, FALSE, bound, Reasoning(w)))]

-----------------------------------------------------------------------------
(* process_part, one operator per kind of part. *)

Start(w) ==
    IF w.started THEN w
    ELSE [EmitPlain(w, Event("message_start", 0, "none", <<>>)) EXCEPT !.started = TRUE]

HoldSignature(w, p) ==
    IF w.signing /\ p.thought /\ p.sig # None
    THEN [w EXCEPT !.sig = p.sig, !.emitted = FALSE]
    ELSE w

ThoughtPart(w, p) ==
    LET v == IF w.block.kind = "thinking" THEN w ELSE OpenBlock(CloseBlock(w), "thinking")
    IN  IF p.text = <<>> THEN v
        ELSE [EmitThinkingDelta(v, p.text) EXCEPT !.thought = @ \o p.text]

IntoTextBlock(w) ==
    IF w.block.kind = "text" THEN w
    ELSE OpenBlock(CloseBlock(FlushSignature(w)), "text")

TextPart(w, p) == EmitTextDelta(IntoTextBlock(w), p.text)

ImagePart(w, p) ==
    LET v == EmitTextDelta(IntoTextBlock(w), <<p.image>>)
    IN  IF p.sig = None THEN v
        ELSE [v EXCEPT !.saves = Append(@, SignatureSave(p.image, TRUE, p.sig,
                                                         Reasoning(IntoTextBlock(w))))]

ToolPart(w, p) == EmitToolUse(CloseBlock(w), p.call, p.sig)

ClaudePart(w, p) ==
    LET v == HoldSignature(Start(w), p)
    IN  IF p.thought THEN ThoughtPart(v, p)
        ELSE IF p.text # <<>> THEN TextPart(v, p)
        ELSE IF p.image # None THEN ImagePart(v, p)
        ELSE IF p.call # None THEN ToolPart(v, p)
        ELSE v

ClaudeFinish(w, stop_reason) ==
    EmitPlain(EmitPlain(CloseBlock(FlushSignature(w)),
        Event("message_delta", 0, stop_reason, <<>>)),
        Event("message_stop", 0, "none", <<>>))

ClaudeError == <<Event("error", 0, "none", <<>>), Event("message_stop", 0, "none", <<>>)>>
=============================================================================
