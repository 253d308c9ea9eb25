--------------------------- MODULE ClaudeConversion ---------------------------
(***************************************************************************)
(* gateway/claude/convert.rs and response.rs: the messages of a Claude     *)
(* client become Vertex contents, a whole answer becomes a message.  A     *)
(* message is [role, blocks], a block [type, text, sig, id].  A signature  *)
(* of at most 50 characters counts as none.                                *)
(***************************************************************************)
EXTENDS VertexContents

Block(type, text, sig, id) == [type |-> type, text |-> text, sig |-> sig, id |-> id]
TextBlock(text) == Block("text", text, None, None)
Result(id) == Block("tool_result", <<>>, None, id)

\* The blocks before this one count too.
lookahead_tool_use_id_FromStart(blocks, start) ==
    LET i == SelectInSeq(blocks, LAMBDA b : b.type = "tool_use")
    IN  IF i = 0 THEN None ELSE blocks[i].id

\* Not the block right behind.
lookahead_tool_use_id_OffByOne(blocks, start) ==
    LET later == SelectInSubSeq(blocks, start + 1, Len(blocks), LAMBDA b : b.type = "tool_use")
    IN  IF later = 0 THEN None ELSE blocks[later].id

\* The next tool_use behind a block names its signature in the cache.
lookahead_tool_use_id(blocks, start) ==
    LET later == SelectInSubSeq(blocks, start, Len(blocks), LAMBDA b : b.type = "tool_use")
    IN  IF later = 0 THEN None ELSE blocks[later].id

Recovered(cache, blocks, i) ==
    IF blocks[i].sig # None THEN blocks[i].sig
    ELSE lookup_strict(cache, lookahead_tool_use_id(blocks, i + 1)).sig

\* Claude insists on the signature of a thinking block: recover it or drop
\* the block.  Other models get the bare thought.
ThinkingParts(cache, blocks, i, claude) ==
    LET b == blocks[i]
        sig == Recovered(cache, blocks, i)
    IN  IF ~claude THEN IF b.text = <<>> THEN <<>> ELSE ThoughtOf(b.text, None)
        ELSE IF sig = None THEN <<>>
        ELSE ThoughtOf(IF Trimmed(b.text) THEN MissingThought ELSE b.text, sig)

BlockParts(cache, blocks, i, so_far, claude) ==
    LET b == blocks[i] IN
    CASE b.type = "text" -> TextOf(b.text)
      [] b.type = "thinking" -> ThinkingParts(cache, blocks, i, claude)
      [] b.type = "redacted_thinking" -> IF claude THEN <<>> ELSE ThoughtOf(<<>>, None)
      [] b.type = "tool_use" -> CallOf(b.id, IF claude THEN None ELSE lookup(cache, b.id))
      [] b.type = "tool_result" ->
            IF find_function_name(so_far, b.id) = None THEN <<>>
            ELSE ResponseTo(b.id, find_function_name(so_far, b.id))

extract_content_parts(cache, blocks, so_far, claude) ==
    FlattenSeq([i \in DOMAIN blocks |-> BlockParts(cache, blocks, i, so_far, claude)])

VertexRole(role) == IF role = "assistant" THEN "model" ELSE "user"

ClaudeContents(cache, messages, claude) ==
    LET add(out, m) ==
            LET parts == extract_content_parts(cache, m.blocks, out, claude)
            IN  IF parts = <<>> THEN out ELSE Append(out, Content(VertexRole(m.role), parts))
    IN  FoldLeft(add, <<>>, messages)

-----------------------------------------------------------------------------
(* to_messages_response: the parts of a whole answer. *)

EmptyReply == [thinking |-> <<>>, text |-> <<>>, sig |-> None, calls |-> <<>>, saves |-> <<>>]

ReplySave(r, p, claude) ==
    LET sig == IF p.sig = None /\ claude THEN r.sig ELSE p.sig
    IN  IF sig = None THEN <<>>
        ELSE <<[key |-> p.call, sig |-> sig,
                reasoning |-> IF Trimmed(r.thinking) THEN MissingThought ELSE r.thinking]>>

ReplyPart(r, p, claude) ==
    LET v == IF claude /\ p.thought /\ p.sig # None THEN [r EXCEPT !.sig = p.sig] ELSE r
    IN  IF p.thought THEN [v EXCEPT !.thinking = @ \o p.text]
        ELSE IF p.text # <<>> THEN [v EXCEPT !.text = @ \o p.text]
        ELSE IF p.call # None
             THEN [v EXCEPT !.calls = Append(@, Block("tool_use", <<>>, None, p.call)),
                            !.saves = @ \o ReplySave(v, p, claude)]
        ELSE v

\* All thinking comes first, in one block under its last signature.
to_messages_response(parts, claude) ==
    LET r == FoldLeft(LAMBDA acc, p : ReplyPart(acc, p, claude), EmptyReply, parts)
        thinking == IF r.sig # None /\ Trimmed(r.thinking) THEN MissingThought ELSE r.thinking
    IN  [blocks |-> (IF thinking = <<>> THEN <<>>
                     ELSE <<Block("thinking", thinking, r.sig, None)>>)
                    \o (IF r.text = <<>> THEN <<>> ELSE <<TextBlock(r.text)>>)
                    \o r.calls,
         saves |-> r.saves]
=============================================================================
