------------------------- MODULE GatewayStreamProofs -------------------------
(***************************************************************************)
(* Theorems about GatewayStream, for every body, chunking, capacity and    *)
(* client.  Between two parts a writer's fields agree with the last event  *)
(* it wrote (ClaudeStands, ChatStands); each method leads from such a      *)
(* writer to such a writer, and whatever it appends the grammar admits.    *)
(* IInv says so of the handler in every state; the refinement follows.     *)
(* Tells adds what the log and the counted calls have to do with the       *)
(* output, InStep that the parser stands at the start of a line, and       *)
(* DataInv that the output is what the lines taken so far say.             *)
(***************************************************************************)
EXTENDS GatewayStreamProperties, SequenceLemmas

-----------------------------------------------------------------------------
(* Types of the two writers. *)

Symbols == Letters \cup {"missing_thought_text"} \cup Images \cup Calls \cup Sigs
Strings == Seq(Symbols)

\* Event types, event kinds and stop reasons.
Names == {"none", "thinking", "text", "tool_use", "thinking_delta", "text_delta",
          "signature_delta", "input_json_delta", "message_start", "message_delta",
          "message_stop", "content_block_start", "content_block_delta",
          "content_block_stop", "error", "end_turn", "stop", "STOP", "role", "content",
          "reasoning", "tool_calls", "finish", "[DONE]", "chat_error"}

Events == [type : Names, index : Nat, kind : Names, text : Strings]
Saves == [key : Calls \cup Images, image : BOOLEAN, sig : Sigs, reasoning : Strings]
Pendings == [index : Nat, kind : Names, text : Strings]
Blocks == [index : Nat, kind : {"none", "thinking", "text"}]

ClaudeWriters ==
    [started : BOOLEAN, next_index : Nat, block : Blocks, sig : Sigs \cup {None},
     thought : Strings, emitted : BOOLEAN, signing : BOOLEAN,
     out : Seq(Events), saves : Seq(Saves), log : Seq(Events), pending : Pendings]

ChatWriters ==
    [sent_role : BOOLEAN, calls : Seq(Calls), sig : Sigs \cup {None}, thought : Strings,
     signing : BOOLEAN, out : Seq(Events), saves : Seq(Saves), log : Seq(Events),
     pending : Pendings]

\* Later output continues earlier output.
Extends(v, w) ==
    /\ Len(w.out) <= Len(v.out) /\ \A i \in 1..Len(w.out) : v.out[i] = w.out[i]
    /\ Len(w.saves) <= Len(v.saves)

\* A sequence of events that the grammar admits.
Chained(s) ==
    \A i \in 1..Len(s) : IF i = 1 THEN Grammar!First(s[1]) ELSE Grammar!Follows(s[i - 1], s[i])

\* What an event must be to go on with a sequence.
GoesOn(s, e) == IF s = <<>> THEN Grammar!First(e) ELSE Grammar!Follows(s[Len(s)], e)

\* Appending an event that goes on keeps a sequence admitted.
LEMMA AppendChained ==
    ASSUME NEW s \in Seq(Events), NEW e \in Events, Chained(s), GoesOn(s, e)
    PROVE  Chained(Append(s, e))
<1>1. /\ Len(Append(s, e)) = Len(s) + 1
      /\ \A i \in 1..Len(s) : Append(s, e)[i] = s[i]
      /\ Append(s, e)[Len(s) + 1] = e
  BY AppendProperties
<1> SUFFICES ASSUME NEW i \in 1..Len(s) + 1
             PROVE  IF i = 1 THEN Grammar!First(Append(s, e)[1])
                    ELSE Grammar!Follows(Append(s, e)[i - 1], Append(s, e)[i])
  BY <1>1 DEF Chained
<1>2. CASE i \in 1..Len(s)
  BY <1>1, <1>2 DEF Chained
<1>3. CASE i = Len(s) + 1 /\ Len(s) = 0
  BY <1>1, <1>3, EmptySeq DEF GoesOn
<1>4. CASE i = Len(s) + 1 /\ Len(s) # 0
  <2>1. s # <<>> /\ i # 1 /\ Append(s, e)[i - 1] = s[Len(s)] /\ Append(s, e)[i] = e
    BY <1>1, <1>4
  <2> QED
    BY <2>1 DEF GoesOn
<1> QED
  BY <1>2, <1>3, <1>4

\* The symbols a writer puts into an event or a save.
LEMMA TextsAreStrings ==
    /\ <<>> \in Strings /\ MissingThought \in Strings
    /\ \A x \in Calls \cup Images \cup Sigs : <<x>> \in Strings
    /\ Seq(Letters) \subseteq Strings /\ Seq(Calls) \subseteq Strings
    /\ \A s, t \in Strings : s \o t \in Strings
<1>1. Letters \subseteq Symbols /\ Calls \subseteq Symbols
  BY DEF Symbols
<1>2. Seq(Letters) \subseteq Strings /\ Seq(Calls) \subseteq Strings
  BY <1>1, SeqMonotonic DEF Strings
<1>3. <<>> \in Strings /\ MissingThought \in Strings
  <2>1. "missing_thought_text" \in Symbols
    BY DEF Symbols
  <2>2. \A x \in Symbols : <<x>> \in Seq(Symbols)
    OBVIOUS
  <2> QED
    BY <2>1, <2>2 DEF Strings, MissingThought
<1>4. \A x \in Calls \cup Images \cup Sigs : <<x>> \in Strings
  <2>1. \A x \in Calls \cup Images \cup Sigs : x \in Symbols
    BY DEF Symbols
  <2> QED
    BY <2>1 DEF Strings
<1>5. \A s, t \in Strings : s \o t \in Strings
  BY DEF Strings
<1> QED
  BY <1>2, <1>3, <1>4, <1>5

\* Every name the writers use is one of Names.
LEMMA NameList ==
    /\ \A k \in {"none", "thinking", "text", "tool_use", "thinking_delta", "text_delta",
                  "signature_delta", "input_json_delta"} : k \in Names
    /\ \A t \in {"message_start", "message_delta", "message_stop", "content_block_start",
                  "content_block_delta", "content_block_stop", "error"} : t \in Names
    /\ \A r \in {"end_turn", "tool_use", "stop", "STOP"} : r \in Names
    /\ \A t \in {"role", "content", "reasoning", "tool_calls", "finish", "[DONE]",
                  "chat_error"} : t \in Names
BY DEF Names

\* Continuing is transitive.
LEMMA ExtendsTransitive ==
    ASSUME NEW u, NEW v, NEW w, u.out \in Seq(Events), v.out \in Seq(Events), w.out \in Seq(Events),
           u.saves \in Seq(Saves), v.saves \in Seq(Saves), w.saves \in Seq(Saves),
           Extends(v, w), Extends(u, v)
    PROVE  Extends(u, w)
BY LenProperties DEF Extends

\* Every writer continues itself.
LEMMA ExtendsReflexive ==
    ASSUME NEW w, w.out \in Seq(Events), w.saves \in Seq(Saves)
    PROVE  Extends(w, w)
BY LenProperties DEF Extends

\* A writer that appended one event to another's output.
LEMMA AppendExtends ==
    ASSUME NEW v, NEW w, w.out \in Seq(Events), w.saves \in Seq(Saves), NEW e \in Events,
           v.out = Append(w.out, e), v.saves = w.saves
    PROVE  /\ Extends(v, w)
           /\ v.out # <<>> /\ v.out[Len(v.out)] = e /\ Len(v.out) = Len(w.out) + 1
BY AppendProperties, LenProperties, EmptySeq DEF Extends

-----------------------------------------------------------------------------
(* The Claude writer: its log and its two ways to emit an event. *)

\* What a method leaves alone.
SameState(v, w) ==
    /\ v.started = w.started /\ v.next_index = w.next_index /\ v.block = w.block
    /\ v.sig = w.sig /\ v.thought = w.thought /\ v.emitted = w.emitted
    /\ v.signing = w.signing /\ v.saves = w.saves

\* An event built from names and text is an event.
LEMMA EventType ==
    ASSUME NEW type \in Names, NEW i \in Nat, NEW kind \in Names, NEW text \in Strings
    PROVE  Event(type, i, kind, text) \in Events
BY DEF Event, Events

\* Flushing the log changes neither the output nor the state.
LEMMA FlushLogKeeps ==
    ASSUME NEW w \in ClaudeWriters
    PROVE  /\ FlushLog(w) \in ClaudeWriters
           /\ SameState(FlushLog(w), w) /\ FlushLog(w).out = w.out
<1>1. NoPending \in Pendings
  BY TextsAreStrings, NameList DEF NoPending, Pendings
<1>2. Event("content_block_delta", w.pending.index, w.pending.kind, w.pending.text) \in Events
  BY EventType, NameList DEF ClaudeWriters, Pendings
<1>3. Append(w.log, Event("content_block_delta", w.pending.index, w.pending.kind, w.pending.text))
         \in Seq(Events)
  BY <1>2, AppendProperties DEF ClaudeWriters
<1> QED
  BY <1>1, <1>3 DEF FlushLog, ClaudeWriters, SameState

\* A plain event is appended to the output, nothing else that counts changes.
LEMMA EmitPlainAppends ==
    ASSUME NEW w \in ClaudeWriters, NEW e \in Events
    PROVE  /\ EmitPlain(w, e) \in ClaudeWriters
           /\ SameState(EmitPlain(w, e), w) /\ EmitPlain(w, e).out = Append(w.out, e)
<1> DEFINE v == FlushLog(w)
<1>1. v \in ClaudeWriters /\ SameState(v, w) /\ v.out = w.out
  BY FlushLogKeeps
<1>2. Append(v.out, e) \in Seq(Events) /\ Append(v.log, e) \in Seq(Events)
  BY <1>1, AppendProperties DEF ClaudeWriters
<1> HIDE DEF v
<1>3. LET u == [v EXCEPT !.out = Append(@, e), !.log = Append(@, e)]
      IN  u \in ClaudeWriters /\ SameState(u, w) /\ u.out = Append(w.out, e)
  BY <1>1, <1>2 DEF ClaudeWriters, SameState
<1> QED
  BY <1>3 DEF EmitPlain, v

\* So is a delta, at the index of the open block.
LEMMA EmitDeltaAppends ==
    ASSUME NEW w \in ClaudeWriters, NEW kind \in Names, NEW text \in Strings
    PROVE  /\ EmitDelta(w, kind, text) \in ClaudeWriters
           /\ SameState(EmitDelta(w, kind, text), w)
           /\ EmitDelta(w, kind, text).out =
                  Append(w.out, Event("content_block_delta", w.block.index, kind, text))
<1> DEFINE v == CollectDelta(w, kind, w.block.index, text)
           e == Event("content_block_delta", w.block.index, kind, text)
<1>1. e \in Events /\ w.block.index \in Nat
  BY EventType, NameList DEF ClaudeWriters, Blocks
<1>2. v \in ClaudeWriters /\ SameState(v, w) /\ v.out = w.out
  <2>1. \A t \in Strings : [index |-> w.block.index, kind |-> kind, text |-> t] \in Pendings
    BY <1>1 DEF Pendings
  <2>2. /\ w.pending.text \o text \in Strings
        /\ <<>> \o text \in Strings
    BY TextsAreStrings DEF ClaudeWriters, Pendings
  <2>3. \A u \in ClaudeWriters, p \in Pendings :
           SameState(u, w) /\ u.out = w.out
           => LET x == [u EXCEPT !.pending = p]
              IN  x \in ClaudeWriters /\ SameState(x, w) /\ x.out = w.out
    BY DEF ClaudeWriters, SameState
  <2>4. SameState(w, w)
    BY DEF SameState
  <2> QED
    BY <2>1, <2>2, <2>3, <2>4, FlushLogKeeps, ZenonT(60) DEF CollectDelta
<1>3. Append(v.out, e) \in Seq(Events)
  BY <1>1, <1>2, AppendProperties DEF ClaudeWriters
<1> HIDE DEF v, e
<1>4. LET u == [v EXCEPT !.out = Append(@, e)]
      IN  u \in ClaudeWriters /\ SameState(u, w) /\ u.out = Append(w.out, e)
  BY <1>2, <1>3 DEF ClaudeWriters, SameState
<1> QED
  BY <1>4 DEF EmitDelta, v, e

-----------------------------------------------------------------------------
(* The Claude writer between two parts: its fields agree with its output.  *)

\* No block is open after event e.
Between(w, e) ==
    /\ w.block.kind = "none"
    /\ \/ e.type = "message_start" /\ w.next_index = 0
       \/ e.type = "content_block_stop" /\ w.next_index = e.index + 1

\* The block of event e is open.
Within(w, e) ==
    /\ w.block.kind # "none"
    /\ e.type \in {"content_block_start", "content_block_delta"}
    /\ e.index = w.block.index /\ w.next_index = w.block.index + 1

\* And e lets a delta of the block's kind follow; a thinking block without
\* a delta has no text, so that a signature gets its placeholder.
Fills(w, e) ==
    \/ /\ e.type = "content_block_start" /\ e.kind = w.block.kind
       /\ w.block.kind = "thinking" => w.thought = <<>>
    \/ /\ e.type = "content_block_delta"
       /\ e.kind = IF w.block.kind = "thinking" THEN "thinking_delta" ELSE "text_delta"

Sound(w) == w \in ClaudeWriters /\ Chained(w.out) /\ w.started = (w.out # <<>>)

Closable(w) ==
    Sound(w) /\ w.started /\ (Between(w, Last(w.out)) \/ Within(w, Last(w.out)))

Running(w) ==
    /\ Sound(w) /\ w.started
    /\ \/ Between(w, Last(w.out))
       \/ Within(w, Last(w.out)) /\ Fills(w, Last(w.out))

Fresh(w) == Sound(w) /\ ~w.started /\ w.block.kind = "none" /\ w.next_index = 0

ClaudeStands(w) == Fresh(w) \/ Running(w)

\* One more event that goes on with the output.
LEMMA PlainStep ==
    ASSUME NEW w \in ClaudeWriters, Chained(w.out), NEW e \in Events, GoesOn(w.out, e)
    PROVE  LET v == EmitPlain(w, e)
           IN  /\ v \in ClaudeWriters /\ SameState(v, w) /\ Chained(v.out) /\ Extends(v, w)
               /\ v.out # <<>> /\ Last(v.out) = e
<1>1. w.out \in Seq(Events) /\ w.saves \in Seq(Saves)
  BY DEF ClaudeWriters
<1>2. EmitPlain(w, e) \in ClaudeWriters /\ SameState(EmitPlain(w, e), w)
      /\ EmitPlain(w, e).out = Append(w.out, e)
  BY EmitPlainAppends
<1>3. EmitPlain(w, e).saves = w.saves
  BY <1>2 DEF SameState
<1>4. Chained(Append(w.out, e))
  BY <1>1, AppendChained
<1> QED
  BY <1>1, <1>2, <1>3, <1>4, AppendExtends DEF Last

\* One more delta that goes on with the output.
LEMMA DeltaStep ==
    ASSUME NEW w \in ClaudeWriters, Chained(w.out), NEW kind \in Names, NEW text \in Strings,
           GoesOn(w.out, Event("content_block_delta", w.block.index, kind, text))
    PROVE  LET v == EmitDelta(w, kind, text)
           IN  /\ v \in ClaudeWriters /\ SameState(v, w) /\ Chained(v.out) /\ Extends(v, w)
               /\ v.out # <<>>
               /\ Last(v.out) = Event("content_block_delta", w.block.index, kind, text)
<1> DEFINE e == Event("content_block_delta", w.block.index, kind, text)
<1>1. w.out \in Seq(Events) /\ w.saves \in Seq(Saves) /\ e \in Events
  BY EventType, NameList DEF ClaudeWriters, Blocks
<1>2. EmitDelta(w, kind, text) \in ClaudeWriters /\ SameState(EmitDelta(w, kind, text), w)
      /\ EmitDelta(w, kind, text).out = Append(w.out, e)
  BY EmitDeltaAppends
<1>3. EmitDelta(w, kind, text).saves = w.saves
  BY <1>2 DEF SameState
<1>4. Chained(Append(w.out, e))
  BY <1>1, AppendChained
<1> QED
  BY <1>1, <1>2, <1>3, <1>4, AppendExtends DEF Last

\* close_current_block leaves no block open.
LEMMA CloseBlockStands ==
    ASSUME NEW w, Closable(w)
    PROVE  LET v == CloseBlock(w)
           IN  Running(v) /\ v.block.kind = "none" /\ Extends(v, w) /\ v.saves = w.saves
<1>1. CASE w.block.kind = "none"
  <2>1. CloseBlock(w) = w
    BY <1>1 DEF CloseBlock
  <2>2. Running(w)
    BY <1>1 DEF Closable, Running, Within
  <2>3. Extends(w, w)
    BY ExtendsReflexive DEF Closable, Sound, ClaudeWriters
  <2> QED
    BY <1>1, <2>1, <2>2, <2>3
<1>2. CASE w.block.kind # "none"
  <2> DEFINE e == Event("content_block_stop", w.block.index, "none", <<>>)
             u == EmitPlain(w, e)
             v == [u EXCEPT !.block = NoBlock]
  <2>1. w \in ClaudeWriters /\ Chained(w.out) /\ w.out # <<>> /\ Within(w, Last(w.out))
    BY <1>2 DEF Closable, Sound, Between
  <2>2. e \in Events /\ e.type = "content_block_stop" /\ e.index = w.block.index
    BY <2>1, EventType, NameList, TextsAreStrings DEF ClaudeWriters, Blocks, Event
  <2>3. GoesOn(w.out, e)
    BY <2>1, <2>2 DEF GoesOn, Within, Last, Grammar!Follows, Grammar!Inside
  <2>4. /\ u \in ClaudeWriters /\ SameState(u, w) /\ Chained(u.out) /\ Extends(u, w)
        /\ u.out # <<>> /\ Last(u.out) = e
    BY <2>1, <2>2, <2>3, PlainStep
  <2> HIDE DEF u, e
  <2>5. /\ v \in ClaudeWriters /\ v.out = u.out /\ v.saves = u.saves /\ v.started = u.started
        /\ v.block.kind = "none" /\ v.next_index = w.block.index + 1
    BY <2>1, <2>4 DEF ClaudeWriters, NoBlock, Blocks, SameState, Within
  <2>6. Running(v) /\ Extends(v, w) /\ v.saves = w.saves
    BY <2>2, <2>4, <2>5 DEF Running, Sound, Between, Extends, SameState, Closable
  <2>7. CloseBlock(w) = v
    BY <1>2 DEF CloseBlock, u, e
  <2> QED
    BY <2>5, <2>6, <2>7
<1> QED
  BY <1>1, <1>2

\* open_block opens the next block after the last was closed.
LEMMA OpenBlockStands ==
    ASSUME NEW w, Running(w), w.block.kind = "none", NEW kind \in {"thinking", "text"}
    PROVE  LET v == OpenBlock(w, kind)
           IN  Running(v) /\ v.block.kind = kind /\ Extends(v, w)
<1> DEFINE e == Event("content_block_start", w.next_index, kind, <<>>)
           u == EmitPlain(w, e)
           v == OpenBlock(w, kind)
<1>1. w \in ClaudeWriters /\ Chained(w.out) /\ w.out # <<>> /\ Between(w, Last(w.out))
      /\ w.started
  BY DEF Running, Sound, Within
<1>2. e \in Events /\ e.type = "content_block_start" /\ e.index = w.next_index /\ e.kind = kind
  BY <1>1, EventType, NameList, TextsAreStrings DEF ClaudeWriters, Event
<1>3. GoesOn(w.out, e)
  BY <1>1, <1>2 DEF GoesOn, Between, Last, Grammar!Follows, Grammar!Starts
<1>4. /\ u \in ClaudeWriters /\ SameState(u, w) /\ Chained(u.out) /\ Extends(u, w)
      /\ u.out # <<>> /\ Last(u.out) = e
  BY <1>1, <1>2, <1>3, PlainStep
<1>5. v = [u EXCEPT !.next_index = @ + 1,
                    !.block = [index |-> w.next_index, kind |-> kind],
                    !.thought = IF kind = "thinking" THEN <<>> ELSE @,
                    !.emitted = IF kind = "thinking" THEN FALSE ELSE @]
  BY DEF OpenBlock
<1> HIDE DEF u, e, v
<1>6. [index |-> w.next_index, kind |-> kind] \in Blocks
  BY <1>1 DEF ClaudeWriters, Blocks
<1>7. /\ v \in ClaudeWriters /\ v.out = u.out /\ v.saves = u.saves /\ v.started = u.started
      /\ v.block.kind = kind /\ v.block.index = w.next_index
      /\ v.next_index = w.next_index + 1
      /\ kind = "thinking" => v.thought = <<>>
  <2>1. \A t \in Strings, d \in BOOLEAN, b \in Blocks, n \in Nat :
           [u EXCEPT !.next_index = n, !.block = b, !.thought = t, !.emitted = d] \in ClaudeWriters
    BY <1>4 DEF ClaudeWriters
  <2>2. <<>> \in Strings /\ u.thought \in Strings /\ u.emitted \in BOOLEAN
        /\ u.next_index \in Nat /\ u.next_index = w.next_index
    BY <1>4, TextsAreStrings DEF ClaudeWriters, SameState
  <2>3. v \in ClaudeWriters
    <3> DEFINE t == IF kind = "thinking" THEN <<>> ELSE u.thought
               d == IF kind = "thinking" THEN FALSE ELSE u.emitted
    <3>1. t \in Strings /\ d \in BOOLEAN /\ u.next_index + 1 \in Nat
      <4>1. t \in Strings
        BY <2>2
      <4>2. d \in BOOLEAN
        BY <2>2, Zenon
      <4>3. u.next_index + 1 \in Nat
        BY <2>2
      <4> QED
        BY <4>1, <4>2, <4>3
    <3>2. v = [u EXCEPT !.next_index = u.next_index + 1,
                        !.block = [index |-> w.next_index, kind |-> kind],
                        !.thought = t, !.emitted = d]
      BY <1>5
    <3> HIDE DEF t, d
    <3> QED
      BY <1>6, <2>1, <3>1, <3>2
  <2> QED
    BY <1>4, <1>5, <2>2, <2>3 DEF ClaudeWriters
<1> QED
  BY <1>1, <1>2, <1>4, <1>7, ZenonT(60) DEF Running, Sound, Within, Fills, Extends, SameState, v

\* A change of the fields that the output does not depend on.
LEMMA RunningKept ==
    ASSUME NEW v, Running(v), NEW u \in ClaudeWriters, u.out = v.out, u.started = v.started,
           u.block = v.block, u.next_index = v.next_index,
           u.thought = v.thought \/ v.block.kind = "none"
                                  \/ Last(v.out).type = "content_block_delta"
    PROVE  Running(u)
<1>1. Sound(u) /\ u.started
  BY DEF Running, Sound
<1>2. CASE Between(v, Last(v.out))
  BY <1>1, <1>2 DEF Running, Between
<1>3. CASE Within(v, Last(v.out)) /\ Fills(v, Last(v.out))
  BY <1>1, <1>3 DEF Running, Within, Fills
<1> QED
  BY <1>2, <1>3 DEF Running

\* Recording a signature save disturbs nothing.
LEMMA SaveAdded ==
    ASSUME NEW v, Running(v), NEW s \in Saves
    PROVE  LET u == [v EXCEPT !.saves = Append(@, s)]
           IN  Running(u) /\ u.block = v.block /\ Extends(u, v)
<1> DEFINE u == [v EXCEPT !.saves = Append(@, s)]
<1>1. v \in ClaudeWriters /\ v.out \in Seq(Events) /\ v.saves \in Seq(Saves)
  BY DEF Running, Sound, ClaudeWriters
<1>2. Append(v.saves, s) \in Seq(Saves) /\ Len(Append(v.saves, s)) = Len(v.saves) + 1
  BY <1>1, AppendProperties
<1>3. /\ u \in ClaudeWriters /\ u.out = v.out /\ u.started = v.started /\ u.block = v.block
      /\ u.next_index = v.next_index /\ u.thought = v.thought /\ u.saves = Append(v.saves, s)
  BY <1>1, <1>2 DEF ClaudeWriters
<1> HIDE DEF u
<1>4. Extends(u, v)
  BY <1>1, <1>2, <1>3, LenProperties DEF Extends
<1> QED
  BY <1>3, <1>4, RunningKept DEF u

\* The reasoning text of a save is text.
LEMMA ReasoningType ==
    ASSUME NEW w \in ClaudeWriters
    PROVE  Reasoning(w) \in Strings
BY TextsAreStrings DEF Reasoning, ClaudeWriters

\* A delta of the open block's kind.
LEMMA EmitDeltaStands ==
    ASSUME NEW w, Running(w), w.block.kind # "none", NEW text \in Strings,
           NEW kind, kind = IF w.block.kind = "thinking" THEN "thinking_delta" ELSE "text_delta"
    PROVE  LET v == EmitDelta(w, kind, text)
           IN  /\ Running(v) /\ SameState(v, w) /\ Extends(v, w)
               /\ Last(v.out).type = "content_block_delta" /\ Last(v.out).kind = kind
<1> DEFINE e == Event("content_block_delta", w.block.index, kind, text)
           v == EmitDelta(w, kind, text)
<1>1. w \in ClaudeWriters /\ Chained(w.out) /\ w.out # <<>> /\ Within(w, Last(w.out))
      /\ Fills(w, Last(w.out)) /\ w.started
  BY DEF Running, Sound, Between
<1>2. w.block.kind \in {"thinking", "text"}
  BY <1>1 DEF ClaudeWriters, Blocks
<1>3. e.type = "content_block_delta" /\ e.index = w.block.index /\ e.kind = kind
  BY DEF Event
<1>4. kind \in Names
  BY NameList
<1>5. GoesOn(w.out, e)
  BY <1>1, <1>2, <1>3 DEF GoesOn, Within, Fills, Last, Grammar!Follows, Grammar!Inside, Grammar!Fits
<1>6. /\ v \in ClaudeWriters /\ SameState(v, w) /\ Chained(v.out) /\ Extends(v, w)
      /\ v.out # <<>> /\ Last(v.out) = e
  BY <1>1, <1>4, <1>5, DeltaStep
<1> HIDE DEF e, v
<1>7. Running(v)
  BY <1>1, <1>3, <1>6 DEF Running, Sound, Within, Fills, SameState
<1> QED
  BY <1>3, <1>6, <1>7 DEF v

\* flush_signature leaves the block such that only closing it is admitted.
LEMMA FlushSignatureClosable ==
    ASSUME NEW w, Running(w)
    PROVE  LET v == FlushSignature(w)
           IN  Closable(v) /\ Extends(v, w) /\ v.saves = w.saves
<1>0. w \in ClaudeWriters /\ Closable(w) /\ Extends(w, w)
  BY ExtendsReflexive DEF Running, Closable, Sound, ClaudeWriters
<1>1. CASE ~(w.block.kind = "thinking" /\ w.signing /\ w.sig # None /\ ~w.emitted)
  BY <1>0, <1>1 DEF FlushSignature
<1>2. CASE w.block.kind = "thinking" /\ w.signing /\ w.sig # None /\ ~w.emitted
  <2> DEFINE u == EmitThinkingDelta(w, MissingThought)
             v == IF Trimmed(w.thought) THEN [u EXCEPT !.thought = @ \o MissingThought] ELSE w
             e == Event("content_block_delta", w.block.index, "signature_delta", <<w.sig>>)
             x == EmitPlain(v, e)
             z == [x EXCEPT !.emitted = TRUE]
  <2>1. FlushSignature(w) = z
    BY <1>2 DEF FlushSignature
  <2>2. /\ Running(v) /\ v.block = w.block /\ Extends(v, w) /\ v.saves = w.saves
        /\ Last(v.out).type = "content_block_delta" /\ Last(v.out).kind = "thinking_delta"
    <3>1. CASE Trimmed(w.thought)
      <4>1. /\ Running(u) /\ SameState(u, w) /\ Extends(u, w)
            /\ Last(u.out).type = "content_block_delta" /\ Last(u.out).kind = "thinking_delta"
        BY <1>2, EmitDeltaStands, TextsAreStrings DEF EmitThinkingDelta
      <4> HIDE DEF u
      <4>2. u \in ClaudeWriters /\ u.thought \o MissingThought \in Strings
        BY <4>1, TextsAreStrings DEF Running, Sound, ClaudeWriters
      <4>3. v \in ClaudeWriters /\ v.out = u.out /\ v.started = u.started /\ v.block = u.block
            /\ v.next_index = u.next_index /\ v.saves = u.saves
        BY <3>1, <4>2 DEF ClaudeWriters
      <4> HIDE DEF v
      <4>4. Running(v)
        BY <4>1, <4>3, RunningKept
      <4> QED
        BY <4>1, <4>3, <4>4 DEF SameState, Extends
    <3>2. CASE ~Trimmed(w.thought)
      <4>1. w.thought # <<>>
        BY <3>2 DEF Trimmed
      <4>2. Within(w, Last(w.out)) /\ Fills(w, Last(w.out))
        BY <1>2 DEF Running, Between
      <4> QED
        BY <1>0, <1>2, <3>2, <4>1, <4>2 DEF Fills
    <3> QED
      BY <3>1, <3>2
  <2> HIDE DEF v
  <2>3. v \in ClaudeWriters /\ Chained(v.out) /\ v.out # <<>> /\ Within(v, Last(v.out))
        /\ v.started
    BY <1>2, <2>2 DEF Running, Sound, Between
  <2>4. e \in Events /\ e.type = "content_block_delta" /\ e.index = v.block.index
        /\ e.kind = "signature_delta"
    <3>1. w.sig \in Sigs /\ w.block.index \in Nat
      BY <1>0, <1>2 DEF ClaudeWriters, Blocks
    <3>2. <<w.sig>> \in Strings
      BY <3>1, TextsAreStrings
    <3> QED
      BY <2>2, <3>1, <3>2, EventType, NameList DEF Event
  <2> HIDE DEF e
  <2>5. GoesOn(v.out, e)
    BY <2>2, <2>3, <2>4 DEF GoesOn, Within, Last, Grammar!Follows, Grammar!Inside, Grammar!Fits
  <2>6. /\ x \in ClaudeWriters /\ SameState(x, v) /\ Chained(x.out) /\ Extends(x, v)
        /\ x.out # <<>> /\ Last(x.out) = e
    BY <2>3, <2>4, <2>5, PlainStep
  <2> HIDE DEF x
  <2>7. /\ z \in ClaudeWriters /\ z.out = x.out /\ z.saves = x.saves /\ z.started = x.started
        /\ z.block = x.block /\ z.next_index = x.next_index
    BY <2>6 DEF ClaudeWriters
  <2> HIDE DEF z
  <2>8. Closable(z)
    BY <2>3, <2>4, <2>6, <2>7 DEF Closable, Sound, Within, SameState
  <2>9. Extends(z, v)
    BY <2>6, <2>7 DEF Extends
  <2>10. Extends(z, w)
    BY <1>0, <2>2, <2>3, <2>7, <2>9, ExtendsTransitive DEF ClaudeWriters
  <2>11. z.saves = w.saves
    BY <2>2, <2>6, <2>7 DEF SameState
  <2> QED
    BY <2>1, <2>8, <2>10, <2>11
<1> QED
  BY <1>1, <1>2

\* A tool call writes a whole block; no block is open before or after it.
LEMMA EmitToolUseStands ==
    ASSUME NEW w, Running(w), w.block.kind = "none", NEW call \in Calls, NEW sig \in Sigs \cup {None}
    PROVE  LET v == EmitToolUse(w, call, sig)
           IN  Running(v) /\ Extends(v, w)
<1> DEFINE i == w.next_index
           e1 == Event("content_block_start", i, "tool_use", <<call>>)
           e2 == Event("content_block_delta", i, "input_json_delta", <<call>>)
           e3 == Event("content_block_stop", i, "none", <<>>)
           u1 == EmitPlain(w, e1)
           u2 == EmitPlain(u1, e2)
           u3 == EmitPlain(u2, e3)
           bound == IF sig # None THEN sig ELSE IF w.signing THEN w.sig ELSE None
           save == SignatureSave(call, FALSE, bound, Reasoning(w))
           v == EmitToolUse(w, call, sig)
<1>1. w \in ClaudeWriters /\ Chained(w.out) /\ w.out # <<>> /\ Between(w, Last(w.out))
      /\ w.started /\ i \in Nat /\ w.sig \in Sigs \cup {None}
  BY DEF Running, Sound, Within, ClaudeWriters
<1>2. /\ e1 \in Events /\ e1.type = "content_block_start" /\ e1.index = i /\ e1.kind = "tool_use"
      /\ e2 \in Events /\ e2.type = "content_block_delta" /\ e2.index = i
      /\ e2.kind = "input_json_delta"
      /\ e3 \in Events /\ e3.type = "content_block_stop" /\ e3.index = i
  <2>1. <<call>> \in Strings /\ <<>> \in Strings
    BY TextsAreStrings
  <2> QED
    BY <1>1, <2>1, EventType, NameList DEF Event
<1>3. v = [u3 EXCEPT !.next_index = i + 1,
                     !.sig = IF sig = None /\ w.signing THEN None ELSE @,
                     !.saves = IF bound = None THEN @ ELSE Append(@, save)]
  BY DEF EmitToolUse
<1>4. bound # None => save \in Saves
  BY <1>1, ReasoningType DEF SignatureSave, Saves
<1> HIDE DEF e1, e2, e3, save, v
<1>5. GoesOn(w.out, e1)
  BY <1>1, <1>2 DEF GoesOn, Between, Last, Grammar!Follows, Grammar!Starts
<1>6. /\ u1 \in ClaudeWriters /\ SameState(u1, w) /\ Chained(u1.out) /\ Extends(u1, w)
      /\ u1.out # <<>> /\ Last(u1.out) = e1
  BY <1>1, <1>2, <1>5, PlainStep
<1> HIDE DEF u1
<1>7. GoesOn(u1.out, e2)
  BY <1>2, <1>6 DEF GoesOn, Last, Grammar!Follows, Grammar!Inside, Grammar!Fits
<1>8. /\ u2 \in ClaudeWriters /\ SameState(u2, u1) /\ Chained(u2.out) /\ Extends(u2, u1)
      /\ u2.out # <<>> /\ Last(u2.out) = e2
  BY <1>2, <1>6, <1>7, PlainStep
<1> HIDE DEF u2
<1>9. GoesOn(u2.out, e3)
  BY <1>2, <1>8 DEF GoesOn, Last, Grammar!Follows, Grammar!Inside
<1>10. /\ u3 \in ClaudeWriters /\ SameState(u3, u2) /\ Chained(u3.out) /\ Extends(u3, u2)
       /\ u3.out # <<>> /\ Last(u3.out) = e3
  BY <1>2, <1>8, <1>9, PlainStep
<1> HIDE DEF u3
<1>11. Extends(u3, w)
  <2>1. Extends(u2, w)
    BY <1>1, <1>6, <1>8, ExtendsTransitive DEF ClaudeWriters
  <2> QED
    BY <1>1, <1>8, <1>10, <2>1, ExtendsTransitive DEF ClaudeWriters
<1> DEFINE g == IF sig = None /\ w.signing THEN None ELSE u3.sig
           t == IF bound = None THEN u3.saves ELSE Append(u3.saves, save)
<1>12. v = [u3 EXCEPT !.next_index = i + 1, !.sig = g, !.saves = t]
  BY <1>3
<1>13. g \in Sigs \cup {None} /\ i + 1 \in Nat
  BY <1>1, <1>10 DEF ClaudeWriters
<1>14. t \in Seq(Saves) /\ Len(u3.saves) <= Len(t)
  <2>1. u3.saves \in Seq(Saves)
    BY <1>10 DEF ClaudeWriters
  <2>2. bound # None => Append(u3.saves, save) \in Seq(Saves)
                        /\ Len(Append(u3.saves, save)) = Len(u3.saves) + 1
    BY <1>4, <2>1, AppendProperties
  <2> QED
    BY <2>1, <2>2, LenProperties
<1> HIDE DEF g, t
<1>15. /\ v \in ClaudeWriters /\ v.next_index = i + 1 /\ v.saves = t /\ v.out = u3.out
       /\ v.started = u3.started /\ v.block = u3.block
  BY <1>10, <1>12, <1>13, <1>14 DEF ClaudeWriters
<1>16. Running(v)
  <2>1. v.started /\ v.block.kind = "none"
    BY <1>1, <1>6, <1>8, <1>10, <1>15 DEF SameState
  <2>2. Chained(v.out) /\ v.out # <<>> /\ Last(v.out) = e3
    BY <1>10, <1>15
  <2> QED
    BY <1>2, <1>15, <2>1, <2>2 DEF Running, Sound, Between
<1>17. Extends(v, u3)
  BY <1>10, <1>14, <1>15, LenProperties DEF Extends, ClaudeWriters
<1>18. Extends(v, w)
  BY <1>1, <1>10, <1>11, <1>15, <1>17, ExtendsTransitive DEF ClaudeWriters
<1> QED
  BY <1>16, <1>18 DEF v

\* The first part of a message starts it.
LEMMA StartStands ==
    ASSUME NEW w, ClaudeStands(w)
    PROVE  Running(Start(w)) /\ Extends(Start(w), w)
<1>0. w \in ClaudeWriters /\ Extends(w, w)
  BY ExtendsReflexive DEF ClaudeStands, Fresh, Running, Sound, ClaudeWriters
<1>1. CASE w.started
  BY <1>0, <1>1 DEF Start, ClaudeStands, Fresh
<1>2. CASE ~w.started
  <2> DEFINE e == Event("message_start", 0, "none", <<>>)
             u == EmitPlain(w, e)
             v == [u EXCEPT !.started = TRUE]
  <2>1. w \in ClaudeWriters /\ Chained(w.out) /\ w.out = <<>> /\ w.block.kind = "none"
        /\ w.next_index = 0
    BY <1>2 DEF ClaudeStands, Fresh, Running, Sound
  <2>2. e \in Events /\ e.type = "message_start"
    BY EventType, NameList, TextsAreStrings DEF Event
  <2>3. GoesOn(w.out, e)
    BY <2>1, <2>2 DEF GoesOn, Grammar!First
  <2> HIDE DEF e
  <2>4. /\ u \in ClaudeWriters /\ SameState(u, w) /\ Chained(u.out) /\ Extends(u, w)
        /\ u.out # <<>> /\ Last(u.out) = e
    BY <2>1, <2>2, <2>3, PlainStep
  <2> HIDE DEF u
  <2>5. /\ v \in ClaudeWriters /\ v.started /\ v.out = u.out /\ v.saves = u.saves
        /\ v.block = u.block /\ v.next_index = u.next_index
    BY <2>4 DEF ClaudeWriters
  <2> HIDE DEF v
  <2>6. Start(w) = v
    BY <1>2 DEF Start, v, u, e
  <2>7. Running(v) /\ Extends(v, w)
    BY <2>1, <2>2, <2>4, <2>5, ZenonT(60) DEF Running, Sound, Between, SameState, Extends
  <2> QED
    BY <2>6, <2>7
<1> QED
  BY <1>1, <1>2

\* What a started writer is known to be.
LEMMA RunningTypes ==
    ASSUME NEW w, Running(w)
    PROVE  /\ w \in ClaudeWriters /\ w.out \in Seq(Events) /\ w.saves \in Seq(Saves)
           /\ w.out # <<>> /\ w.thought \in Strings /\ Extends(w, w)
           /\ Closable(w) /\ ClaudeStands(w)
BY ExtendsReflexive DEF Running, Sound, Closable, ClaudeStands, ClaudeWriters

\* A pending signature is state only.
LEMMA HoldSignatureStands ==
    ASSUME NEW w, Running(w), NEW p \in Part
    PROVE  Running(HoldSignature(w, p)) /\ Extends(HoldSignature(w, p), w)
<1>1. CASE ~(w.signing /\ p.thought /\ p.sig # None)
  BY <1>1, RunningTypes DEF HoldSignature
<1>2. CASE w.signing /\ p.thought /\ p.sig # None
  <2> DEFINE g == p.sig
             v == [w EXCEPT !.sig = g, !.emitted = FALSE]
  <2>1. g \in Sigs \cup {None} /\ w \in ClaudeWriters
    BY RunningTypes DEF Part
  <2> HIDE DEF g
  <2>2. /\ v \in ClaudeWriters /\ v.out = w.out /\ v.saves = w.saves /\ v.started = w.started
        /\ v.block = w.block /\ v.next_index = w.next_index /\ v.thought = w.thought
    BY <2>1 DEF ClaudeWriters
  <2> HIDE DEF v
  <2>3. Running(v)
    BY <2>2, RunningKept
  <2>4. Extends(v, w)
    BY <2>2, RunningTypes DEF Extends
  <2>5. HoldSignature(w, p) = v
    BY <1>2 DEF HoldSignature, v, g
  <2> QED
    BY <2>3, <2>4, <2>5
<1> QED
  BY <1>1, <1>2

\* A thought goes into a thinking block.
LEMMA ThoughtPartStands ==
    ASSUME NEW w, Running(w), NEW p \in Part
    PROVE  Running(ThoughtPart(w, p)) /\ Extends(ThoughtPart(w, p), w)
<1> DEFINE v == IF w.block.kind = "thinking" THEN w ELSE OpenBlock(CloseBlock(w), "thinking")
           x == EmitThinkingDelta(v, p.text)
           y == [x EXCEPT !.thought = @ \o p.text]
<1>1. Running(v) /\ v.block.kind = "thinking" /\ Extends(v, w)
  <2>1. CASE w.block.kind = "thinking"
    BY <2>1, RunningTypes
  <2>2. CASE w.block.kind # "thinking"
    <3> DEFINE c == CloseBlock(w)
               o == OpenBlock(c, "thinking")
    <3>1. Running(c) /\ c.block.kind = "none" /\ Extends(c, w)
      BY RunningTypes, CloseBlockStands
    <3> HIDE DEF c
    <3>2. Running(o) /\ o.block.kind = "thinking" /\ Extends(o, c)
      BY <3>1, OpenBlockStands
    <3> HIDE DEF o
    <3>3. Extends(o, w)
      BY <3>1, <3>2, RunningTypes, ExtendsTransitive
    <3>4. v = o
      BY <2>2 DEF o, c
    <3> QED
      BY <3>2, <3>3, <3>4
  <2> QED
    BY <2>1, <2>2
<1>2. p.text \in Strings
  BY TextsAreStrings DEF Part, Texts
<1> HIDE DEF v
<1>3. /\ Running(x) /\ SameState(x, v) /\ Extends(x, v)
      /\ Last(x.out).type = "content_block_delta"
  BY <1>1, <1>2, EmitDeltaStands DEF EmitThinkingDelta
<1> HIDE DEF x
<1>4. /\ y \in ClaudeWriters /\ y.out = x.out /\ y.saves = x.saves /\ y.started = x.started
      /\ y.block = x.block /\ y.next_index = x.next_index
  <2>1. x \in ClaudeWriters /\ x.thought \o p.text \in Strings
    BY <1>2, <1>3, RunningTypes, TextsAreStrings
  <2> QED
    BY <2>1 DEF ClaudeWriters
<1> HIDE DEF y
<1>5. Running(y)
  BY <1>3, <1>4, RunningKept
<1>6. Extends(y, v)
  BY <1>3, <1>4 DEF Extends
<1>7. Extends(y, w)
  BY <1>1, <1>5, <1>6, RunningTypes, ExtendsTransitive
<1>8. ThoughtPart(w, p) = IF p.text = <<>> THEN v ELSE y
  BY DEF ThoughtPart, v, x, y
<1> QED
  BY <1>1, <1>5, <1>7, <1>8

\* Text goes into a text block, after the signature of the thinking block.
LEMMA IntoTextBlockStands ==
    ASSUME NEW w, Running(w)
    PROVE  LET v == IntoTextBlock(w)
           IN  Running(v) /\ v.block.kind = "text" /\ Extends(v, w)
<1>1. CASE w.block.kind = "text"
  BY <1>1, RunningTypes DEF IntoTextBlock
<1>2. CASE w.block.kind # "text"
  <2> DEFINE f == FlushSignature(w)
             c == CloseBlock(f)
             o == OpenBlock(c, "text")
  <2>1. Closable(f) /\ Extends(f, w)
    BY FlushSignatureClosable
  <2> HIDE DEF f
  <2>2. Running(c) /\ c.block.kind = "none" /\ Extends(c, f)
    BY <2>1, CloseBlockStands
  <2> HIDE DEF c
  <2>3. Running(o) /\ o.block.kind = "text" /\ Extends(o, c)
    BY <2>2, OpenBlockStands
  <2> HIDE DEF o
  <2>4. f.out \in Seq(Events) /\ f.saves \in Seq(Saves)
    BY <2>1 DEF Closable, Sound, ClaudeWriters
  <2>5. Extends(c, w)
    BY <2>1, <2>2, <2>4, RunningTypes, ExtendsTransitive
  <2>6. Extends(o, w)
    BY <2>2, <2>3, <2>5, RunningTypes, ExtendsTransitive
  <2>7. IntoTextBlock(w) = o
    BY <1>2 DEF IntoTextBlock, o, c, f
  <2> QED
    BY <2>3, <2>6, <2>7
<1> QED
  BY <1>1, <1>2

\* Text and images.
LEMMA TextStands ==
    ASSUME NEW w, Running(w), NEW text \in Strings
    PROVE  LET v == EmitTextDelta(IntoTextBlock(w), text)
           IN  Running(v) /\ Extends(v, w)
<1> DEFINE t == IntoTextBlock(w)
           v == EmitTextDelta(t, text)
<1>1. Running(t) /\ t.block.kind = "text" /\ Extends(t, w)
  BY IntoTextBlockStands
<1> HIDE DEF t
<1>2. Running(v) /\ Extends(v, t)
  BY <1>1, EmitDeltaStands DEF EmitTextDelta
<1> HIDE DEF v
<1>3. Extends(v, w)
  BY <1>1, <1>2, RunningTypes, ExtendsTransitive
<1> QED
  BY <1>2, <1>3 DEF v, t

\* An image is text with a save of its own.
LEMMA ImagePartStands ==
    ASSUME NEW w, Running(w), NEW p \in Part, p.image # None
    PROVE  Running(ImagePart(w, p)) /\ Extends(ImagePart(w, p), w)
<1> DEFINE v == EmitTextDelta(IntoTextBlock(w), <<p.image>>)
           save == SignatureSave(p.image, TRUE, p.sig, Reasoning(IntoTextBlock(w)))
           u == [v EXCEPT !.saves = Append(@, save)]
<1>1. p.image \in Images /\ p.sig \in Sigs \cup {None}
  BY DEF Part
<1>2. <<p.image>> \in Strings
  BY <1>1, TextsAreStrings
<1>3. Running(v) /\ Extends(v, w)
  BY <1>2, TextStands
<1>4. p.sig # None => save \in Saves
  BY <1>1, IntoTextBlockStands, RunningTypes, ReasoningType DEF SignatureSave, Saves
<1> HIDE DEF v, save
<1>5. p.sig # None => Running(u) /\ Extends(u, v)
  BY <1>3, <1>4, SaveAdded
<1> HIDE DEF u
<1>6. p.sig # None => Extends(u, w)
  BY <1>3, <1>5, RunningTypes, ExtendsTransitive
<1>7. ImagePart(w, p) = IF p.sig = None THEN v ELSE u
  BY DEF ImagePart, u, v, save
<1> QED
  BY <1>3, <1>5, <1>6, <1>7

\* A tool call closes the open block first.
LEMMA ToolPartStands ==
    ASSUME NEW w, Running(w), NEW p \in Part, p.call # None
    PROVE  Running(ToolPart(w, p)) /\ Extends(ToolPart(w, p), w)
<1> DEFINE c == CloseBlock(w)
           v == EmitToolUse(c, p.call, p.sig)
<1>1. Running(c) /\ c.block.kind = "none" /\ Extends(c, w)
  BY RunningTypes, CloseBlockStands
<1>2. p.call \in Calls /\ p.sig \in Sigs \cup {None}
  BY DEF Part
<1> HIDE DEF c
<1>3. Running(v) /\ Extends(v, c)
  BY <1>1, <1>2, EmitToolUseStands
<1> HIDE DEF v
<1>4. Extends(v, w)
  BY <1>1, <1>3, RunningTypes, ExtendsTransitive
<1> QED
  BY <1>3, <1>4 DEF ToolPart, v, c

\* process_part keeps the writer sound, whatever the part.
LEMMA ClaudePartStands ==
    ASSUME NEW w, ClaudeStands(w), NEW p \in Part
    PROVE  ClaudeStands(ClaudePart(w, p)) /\ Extends(ClaudePart(w, p), w)
<1> DEFINE s == Start(w)
           v == HoldSignature(s, p)
           y == ClaudePart(w, p)
<1>1. Running(s) /\ Extends(s, w)
  BY StartStands
<1> HIDE DEF s
<1>2. Running(v) /\ Extends(v, s)
  BY <1>1, HoldSignatureStands
<1>3. y = IF p.thought THEN ThoughtPart(v, p)
          ELSE IF p.text # <<>> THEN TextPart(v, p)
          ELSE IF p.image # None THEN ImagePart(v, p)
          ELSE IF p.call # None THEN ToolPart(v, p)
          ELSE v
  BY DEF ClaudePart, s
<1> HIDE DEF v, y
<1>4. w.out \in Seq(Events) /\ w.saves \in Seq(Saves)
  BY DEF ClaudeStands, Fresh, Running, Sound, ClaudeWriters
<1>5. Extends(v, w)
  BY <1>1, <1>2, <1>4, RunningTypes, ExtendsTransitive
<1>6. p.text \in Strings
  BY TextsAreStrings DEF Part, Texts
<1>7. Running(y) /\ Extends(y, v)
  <2>1. CASE p.thought
    BY <1>2, <1>3, <2>1, ThoughtPartStands
  <2>2. CASE ~p.thought /\ p.text # <<>>
    BY <1>2, <1>3, <1>6, <2>2, TextStands DEF TextPart
  <2>3. CASE ~p.thought /\ p.text = <<>> /\ p.image # None
    BY <1>2, <1>3, <2>3, ImagePartStands
  <2>4. CASE ~p.thought /\ p.text = <<>> /\ p.image = None /\ p.call # None
    BY <1>2, <1>3, <2>4, ToolPartStands
  <2>5. CASE ~p.thought /\ p.text = <<>> /\ p.image = None /\ p.call = None
    BY <1>2, <1>3, <2>5, RunningTypes
  <2> QED
    BY <2>1, <2>2, <2>3, <2>4, <2>5
<1>8. Extends(y, w)
  BY <1>2, <1>4, <1>5, <1>7, RunningTypes, ExtendsTransitive
<1> QED
  BY <1>7, <1>8, RunningTypes DEF y

\* finish ends the message properly in every state of the writer.
LEMMA ClaudeFinishAdmitted ==
    ASSUME NEW w, ClaudeStands(w), NEW reason \in Names
    PROVE  LET v == ClaudeFinish(w, reason)
           IN  v \in ClaudeWriters /\ Chained(v.out) /\ Extends(v, w) /\ v.saves = w.saves
<1> DEFINE c == CloseBlock(FlushSignature(w))
           e1 == Event("message_delta", 0, reason, <<>>)
           e2 == Event("message_stop", 0, "none", <<>>)
           u == EmitPlain(c, e1)
           v == EmitPlain(u, e2)
<1>1. c \in ClaudeWriters /\ Chained(c.out) /\ Extends(c, w) /\ c.saves = w.saves
      /\ (c.out # <<>> => Between(c, Last(c.out)))
  <2>1. CASE Running(w)
    <3> DEFINE f == FlushSignature(w)
    <3>1. Closable(f) /\ Extends(f, w) /\ f.saves = w.saves
      BY <2>1, FlushSignatureClosable
    <3> HIDE DEF f
    <3>2. Running(CloseBlock(f)) /\ CloseBlock(f).block.kind = "none" /\ Extends(CloseBlock(f), f)
          /\ CloseBlock(f).saves = f.saves
      BY <3>1, CloseBlockStands
    <3>3. f.out \in Seq(Events) /\ f.saves \in Seq(Saves)
      BY <3>1 DEF Closable, Sound, ClaudeWriters
    <3>4. Extends(CloseBlock(f), w)
      BY <2>1, <3>1, <3>2, <3>3, RunningTypes, ExtendsTransitive
    <3> QED
      BY <3>1, <3>2, <3>4 DEF Running, Sound, Within, f
  <2>2. CASE Fresh(w)
    <3>1. w \in ClaudeWriters /\ Chained(w.out) /\ w.out = <<>> /\ w.block.kind = "none"
      BY <2>2 DEF Fresh, Sound
    <3>2. Extends(w, w)
      BY <3>1, ExtendsReflexive DEF ClaudeWriters
    <3>3. c = w
      BY <3>1 DEF FlushSignature, CloseBlock
    <3> QED
      BY <3>1, <3>2, <3>3
  <2> QED
    BY <2>1, <2>2 DEF ClaudeStands
<1>2. /\ e1 \in Events /\ e1.type = "message_delta"
      /\ e2 \in Events /\ e2.type = "message_stop"
  BY EventType, NameList, TextsAreStrings DEF Event
<1> HIDE DEF c, e1, e2
<1>3. GoesOn(c.out, e1)
  BY <1>1, <1>2 DEF GoesOn, Between, Last, Grammar!First, Grammar!Follows
<1>4. /\ u \in ClaudeWriters /\ SameState(u, c) /\ Chained(u.out) /\ Extends(u, c)
      /\ u.out # <<>> /\ Last(u.out) = e1
  BY <1>1, <1>2, <1>3, PlainStep
<1> HIDE DEF u
<1>5. GoesOn(u.out, e2)
  BY <1>2, <1>4 DEF GoesOn, Last, Grammar!Follows
<1>6. v \in ClaudeWriters /\ SameState(v, u) /\ Chained(v.out) /\ Extends(v, u)
  BY <1>2, <1>4, <1>5, PlainStep
<1> HIDE DEF v
<1>7. w \in ClaudeWriters
  BY DEF ClaudeStands, Fresh, Running, Sound
<1>8. Extends(u, w)
  BY <1>1, <1>4, <1>7, ExtendsTransitive DEF ClaudeWriters
<1>9. Extends(v, w)
  BY <1>4, <1>6, <1>7, <1>8, ExtendsTransitive DEF ClaudeWriters
<1>10. v.saves = w.saves
  BY <1>1, <1>4, <1>6 DEF SameState
<1> QED
  BY <1>6, <1>9, <1>10 DEF ClaudeFinish, v, u, c, e1, e2

-----------------------------------------------------------------------------
(* The OpenAI writer: once the role is sent, any delta goes on with the    *)
(* output.                                                                 *)

ChatStands(w) ==
    /\ w \in ChatWriters /\ Chained(w.out)
    /\ w.sent_role = (w.out # <<>>)
    /\ w.out # <<>> => Last(w.out).type \in {"role"} \cup Grammar!ChatDeltas

ChatSame(v, w) ==
    /\ v.sent_role = w.sent_role /\ v.calls = w.calls /\ v.sig = w.sig /\ v.thought = w.thought
    /\ v.signing = w.signing /\ v.saves = w.saves

\* The same for the log of the OpenAI writer.
LEMMA FlushChatLogKeeps ==
    ASSUME NEW w \in ChatWriters
    PROVE  /\ FlushChatLog(w) \in ChatWriters
           /\ ChatSame(FlushChatLog(w), w) /\ FlushChatLog(w).out = w.out
<1> DEFINE l == Append(w.log, ChatEvent(w.pending.kind, w.pending.text))
<1>1. NoPending \in Pendings
  BY TextsAreStrings, NameList DEF NoPending, Pendings
<1>2. ChatEvent(w.pending.kind, w.pending.text) \in Events
  BY EventType DEF ChatWriters, Pendings, ChatEvent
<1>3. l \in Seq(Events)
  BY <1>2, AppendProperties DEF ChatWriters
<1> HIDE DEF l
<1>4. LET v == [w EXCEPT !.pending = NoPending, !.log = l]
      IN  v \in ChatWriters /\ ChatSame(v, w) /\ v.out = w.out
  BY <1>1, <1>3 DEF ChatWriters, ChatSame
<1>5. ChatSame(w, w)
  BY DEF ChatSame
<1> QED
  BY <1>4, <1>5 DEF FlushChatLog, l

\* A chunk is appended to the output.
LEMMA WriteChunkAppends ==
    ASSUME NEW w \in ChatWriters, NEW e \in Events
    PROVE  /\ WriteChunk(w, e) \in ChatWriters
           /\ ChatSame(WriteChunk(w, e), w) /\ WriteChunk(w, e).out = Append(w.out, e)
<1> DEFINE v == CollectChunk(w, e)
           f == FlushChatLog(w)
<1>1. v \in ChatWriters /\ ChatSame(v, w) /\ v.out = w.out
  <2>1. /\ f \in ChatWriters /\ ChatSame(f, w) /\ f.out = w.out
        /\ ChatSame(w, w)
    BY FlushChatLogKeeps DEF ChatSame
  <2> HIDE DEF f
  <2> DEFINE same == w.pending.kind = e.type
             u == IF same THEN w ELSE f
             t == (IF same THEN w.pending.text ELSE <<>>) \o e.text
             q == [index |-> 0, kind |-> e.type, text |-> t]
  <2>2. u \in ChatWriters /\ ChatSame(u, w) /\ u.out = w.out
    BY <2>1
  <2>3. Append(f.log, e) \in Seq(Events)
    BY <2>1, AppendProperties DEF ChatWriters
  <2>4. LET x == [f EXCEPT !.log = Append(@, e)]
        IN  x \in ChatWriters /\ ChatSame(x, w) /\ x.out = w.out
    BY <2>1, <2>3 DEF ChatWriters, ChatSame
  <2>5. t \in Strings /\ e.type \in Names
    BY TextsAreStrings DEF ChatWriters, Pendings, Events
  <2>6. v = IF e.type \in {"content", "reasoning"} THEN [u EXCEPT !.pending = q]
            ELSE [f EXCEPT !.log = Append(@, e)]
    BY DEF CollectChunk, f
  <2> HIDE DEF u, t, v
  <2>7. q \in Pendings
    BY <2>5 DEF Pendings
  <2> HIDE DEF q
  <2>8. LET x == [u EXCEPT !.pending = q]
        IN  x \in ChatWriters /\ ChatSame(x, w) /\ x.out = w.out
    BY <2>2, <2>7 DEF ChatWriters, ChatSame
  <2> QED
    BY <2>4, <2>6, <2>8
<1>2. Append(v.out, e) \in Seq(Events)
  BY <1>1, AppendProperties DEF ChatWriters
<1> HIDE DEF v
<1>3. LET x == [v EXCEPT !.out = Append(@, e)]
      IN  x \in ChatWriters /\ ChatSame(x, w) /\ x.out = Append(w.out, e)
  BY <1>1, <1>2 DEF ChatWriters, ChatSame
<1> QED
  BY <1>3 DEF WriteChunk, v

\* One more chunk that goes on with the output.
LEMMA ChunkStep ==
    ASSUME NEW w \in ChatWriters, Chained(w.out), NEW e \in Events, GoesOn(w.out, e)
    PROVE  LET v == WriteChunk(w, e)
           IN  /\ v \in ChatWriters /\ ChatSame(v, w) /\ Chained(v.out) /\ Extends(v, w)
               /\ v.out # <<>> /\ Last(v.out) = e
<1>1. w.out \in Seq(Events) /\ w.saves \in Seq(Saves)
  BY DEF ChatWriters
<1>2. WriteChunk(w, e) \in ChatWriters /\ ChatSame(WriteChunk(w, e), w)
      /\ WriteChunk(w, e).out = Append(w.out, e)
  BY WriteChunkAppends
<1>3. WriteChunk(w, e).saves = w.saves
  BY <1>2 DEF ChatSame
<1>4. Chained(Append(w.out, e))
  BY <1>1, AppendChained
<1> QED
  BY <1>1, <1>2, <1>3, <1>4, AppendExtends DEF Last

\* What a writer between two parts is known to be.
LEMMA ChatStandsTypes ==
    ASSUME NEW w, ChatStands(w)
    PROVE  /\ w \in ChatWriters /\ w.out \in Seq(Events) /\ w.saves \in Seq(Saves)
           /\ Extends(w, w)
BY ExtendsReflexive DEF ChatStands, ChatWriters

\* A change of the fields that the output does not depend on.
LEMMA ChatKept ==
    ASSUME NEW v, ChatStands(v), NEW u \in ChatWriters, u.out = v.out, u.sent_role = v.sent_role
    PROVE  ChatStands(u)
BY DEF ChatStands

\* write_role: the role is out, once.
LEMMA WriteRoleStands ==
    ASSUME NEW w, ChatStands(w)
    PROVE  LET v == WriteRole(w)
           IN  ChatStands(v) /\ v.out # <<>> /\ Extends(v, w) /\ v.saves = w.saves
<1>1. CASE w.sent_role
  BY <1>1, ChatStandsTypes DEF WriteRole, ChatStands
<1>2. CASE ~w.sent_role
  <2> DEFINE e == ChatEvent("role", <<>>)
             u == WriteChunk(w, e)
             v == [u EXCEPT !.sent_role = TRUE]
  <2>1. w \in ChatWriters /\ Chained(w.out) /\ w.out = <<>>
    BY <1>2 DEF ChatStands
  <2>2. e \in Events /\ e.type = "role"
    BY EventType, NameList, TextsAreStrings DEF ChatEvent, Event
  <2> HIDE DEF e
  <2>3. GoesOn(w.out, e)
    BY <2>1, <2>2 DEF GoesOn, Grammar!First
  <2>4. /\ u \in ChatWriters /\ ChatSame(u, w) /\ Chained(u.out) /\ Extends(u, w)
        /\ u.out # <<>> /\ Last(u.out) = e
    BY <2>1, <2>2, <2>3, ChunkStep
  <2> HIDE DEF u
  <2>5. /\ v \in ChatWriters /\ v.sent_role /\ v.out = u.out /\ v.saves = u.saves
    BY <2>4 DEF ChatWriters
  <2> HIDE DEF v
  <2>6. ChatStands(v) /\ Extends(v, w) /\ v.saves = w.saves /\ v.out # <<>>
    BY <2>2, <2>4, <2>5 DEF ChatStands, ChatSame, Extends
  <2> QED
    BY <1>2, <2>6 DEF WriteRole, v, u, e
<1> QED
  BY <1>1, <1>2

\* A delta after the role.
LEMMA ChatDeltaStands ==
    ASSUME NEW w, ChatStands(w), NEW e \in Events, e.type \in Grammar!ChatDeltas
    PROVE  LET v == WriteChunk(WriteRole(w), e)
           IN  ChatStands(v) /\ Extends(v, w)
<1> DEFINE r == WriteRole(w)
           v == WriteChunk(r, e)
<1>1. ChatStands(r) /\ r.out # <<>> /\ Extends(r, w)
  BY WriteRoleStands
<1> HIDE DEF r
<1>2. r \in ChatWriters /\ Chained(r.out) /\ GoesOn(r.out, e)
  BY <1>1 DEF ChatStands, GoesOn, Last, Grammar!Follows
<1>3. /\ v \in ChatWriters /\ ChatSame(v, r) /\ Chained(v.out) /\ Extends(v, r)
      /\ v.out # <<>> /\ Last(v.out) = e
  BY <1>2, ChunkStep
<1> HIDE DEF v
<1>4. ChatStands(v)
  BY <1>1, <1>3 DEF ChatStands, ChatSame
<1>5. Extends(v, w)
  BY <1>1, <1>3, <1>4, ChatStandsTypes, ExtendsTransitive
<1> QED
  BY <1>4, <1>5 DEF v, r

\* write_content and write_reasoning.
LEMMA WriteTextStands ==
    ASSUME NEW w, ChatStands(w), NEW type \in {"content", "reasoning"}, NEW text \in Strings
    PROVE  ChatStands(WriteText(w, type, text)) /\ Extends(WriteText(w, type, text), w)
<1> DEFINE e == ChatEvent(type, text)
<1>1. e \in Events /\ e.type \in Grammar!ChatDeltas
  BY EventType, NameList DEF ChatEvent, Event, Grammar!ChatDeltas
<1> HIDE DEF e
<1>2. WriteText(w, type, text) = IF text = <<>> THEN WriteRole(w) ELSE WriteChunk(WriteRole(w), e)
  BY DEF WriteText, e
<1> QED
  BY <1>1, <1>2, WriteRoleStands, ChatDeltaStands

\* A save takes the reasoning and leaves the output.
LEMMA SaveAndTakeStands ==
    ASSUME NEW w, ChatStands(w), NEW key \in Calls \cup Images, NEW image \in BOOLEAN,
           NEW sig \in Sigs \cup {None}
    PROVE  LET v == SaveAndTakeReasoning(w, key, image, sig)
           IN  ChatStands(v) /\ Extends(v, w)
<1>1. CASE sig = None
  BY <1>1, ChatStandsTypes DEF SaveAndTakeReasoning
<1>2. CASE sig # None
  <2> DEFINE s == SignatureSave(key, image, sig, w.thought)
             t == Append(w.saves, s)
             v == [w EXCEPT !.saves = t, !.thought = <<>>]
  <2>1. w \in ChatWriters /\ w.out \in Seq(Events) /\ w.saves \in Seq(Saves)
        /\ w.thought \in Strings
    BY ChatStandsTypes DEF ChatWriters
  <2>2. s \in Saves
    BY <1>2, <2>1 DEF SignatureSave, Saves
  <2> HIDE DEF s
  <2>3. t \in Seq(Saves) /\ Len(t) = Len(w.saves) + 1
    BY <2>1, <2>2, AppendProperties
  <2> HIDE DEF t
  <2>4. /\ v \in ChatWriters /\ v.out = w.out /\ v.sent_role = w.sent_role /\ v.saves = t
    BY <2>1, <2>3, TextsAreStrings DEF ChatWriters
  <2> HIDE DEF v
  <2>5. ChatStands(v)
    BY <2>4, ChatKept
  <2>6. Extends(v, w)
    BY <2>1, <2>3, <2>4, LenProperties DEF Extends
  <2>7. SaveAndTakeReasoning(w, key, image, sig) = v
    BY <1>2 DEF SaveAndTakeReasoning, v, t, s
  <2> QED
    BY <2>5, <2>6, <2>7
<1> QED
  BY <1>1, <1>2

\* A call is held back.
LEMMA ChatCallStands ==
    ASSUME NEW w, ChatStands(w), NEW p \in Part, p.call # None
    PROVE  ChatStands(ChatCall(w, p)) /\ Extends(ChatCall(w, p), w)
<1> DEFINE pending == w.signing /\ w.sig # None
           sig == IF pending THEN w.sig ELSE p.sig
           v == SaveAndTakeReasoning(w, p.call, FALSE, sig)
           g == IF pending THEN None ELSE v.sig
           l == Append(v.calls, p.call)
           u == [v EXCEPT !.sig = g, !.calls = l]
<1>1. p.call \in Calls /\ p.sig \in Sigs \cup {None} /\ w.sig \in Sigs \cup {None}
  BY ChatStandsTypes DEF Part, ChatWriters
<1>2. sig \in Sigs \cup {None} /\ FALSE \in BOOLEAN
  BY <1>1
<1>3. u = ChatCall(w, p)
  BY DEF ChatCall
<1> HIDE DEF sig
<1>4. ChatStands(v) /\ Extends(v, w)
  BY <1>1, <1>2, SaveAndTakeStands
<1> HIDE DEF v
<1>5. v \in ChatWriters /\ v.calls \in Seq(Calls) /\ v.sig \in Sigs \cup {None}
  BY <1>4, ChatStandsTypes DEF ChatWriters
<1>6. g \in Sigs \cup {None} /\ l \in Seq(Calls)
  BY <1>1, <1>5, AppendProperties
<1> HIDE DEF g, l
<1>7. u \in ChatWriters /\ u.out = v.out /\ u.sent_role = v.sent_role /\ u.saves = v.saves
  BY <1>5, <1>6 DEF ChatWriters
<1> HIDE DEF u
<1>8. ChatStands(u) /\ Extends(u, w)
  BY <1>4, <1>7, ChatKept DEF Extends
<1> QED
  BY <1>3, <1>8

\* A thought becomes reasoning.
LEMMA ChatThoughtStands ==
    ASSUME NEW w, ChatStands(w), NEW p \in Part
    PROVE  ChatStands(ChatThought(w, p)) /\ Extends(ChatThought(w, p), w)
<1> DEFINE held == IF w.signing /\ p.sig # None THEN p.sig ELSE w.sig
           t == w.thought \o p.text
           v == [w EXCEPT !.sig = held, !.thought = t]
           u == WriteText(v, "reasoning", p.text)
<1>1. w \in ChatWriters /\ w.sig \in Sigs \cup {None} /\ w.thought \in Strings
      /\ p.sig \in Sigs \cup {None} /\ p.text \in Strings
  BY ChatStandsTypes, TextsAreStrings DEF ChatWriters, Part, Texts
<1>2. held \in Sigs \cup {None} /\ t \in Strings
  BY <1>1, TextsAreStrings
<1>3. u = ChatThought(w, p)
  BY DEF ChatThought
<1> HIDE DEF held, t
<1>4. v \in ChatWriters /\ v.out = w.out /\ v.sent_role = w.sent_role /\ v.saves = w.saves
  BY <1>1, <1>2 DEF ChatWriters
<1> HIDE DEF v
<1>5. ChatStands(v) /\ Extends(v, w)
  BY <1>4, ChatKept, ChatStandsTypes DEF Extends
<1>6. ChatStands(u) /\ Extends(u, v)
  BY <1>1, <1>5, WriteTextStands
<1> HIDE DEF u
<1>7. Extends(u, w)
  BY <1>5, <1>6, ChatStandsTypes, ExtendsTransitive
<1> QED
  BY <1>3, <1>6, <1>7

\* process_part keeps the OpenAI writer sound, whatever the part.
LEMMA ChatPartStands ==
    ASSUME NEW w, ChatStands(w), NEW p \in Part
    PROVE  ChatStands(ChatPart(w, p)) /\ Extends(ChatPart(w, p), w)
<1> DEFINE s == SaveAndTakeReasoning(w, p.image, TRUE, p.sig)
           i == WriteText(s, "content", <<p.image>>)
           y == ChatPart(w, p)
<1>1. p.text \in Strings /\ p.sig \in Sigs \cup {None} /\ p.image \in Images \cup {None}
  BY TextsAreStrings DEF Part, Texts
<1>2. p.image # None => ChatStands(i) /\ Extends(i, w)
  <2> HAVE p.image # None
  <2>1. p.image \in Calls \cup Images /\ <<p.image>> \in Strings
    BY <1>1, TextsAreStrings
  <2>2. ChatStands(s) /\ Extends(s, w)
    BY <1>1, <2>1, SaveAndTakeStands
  <2> HIDE DEF s
  <2>3. ChatStands(i) /\ Extends(i, s)
    BY <2>1, <2>2, WriteTextStands
  <2> HIDE DEF i
  <2> QED
    BY <2>2, <2>3, ChatStandsTypes, ExtendsTransitive
<1>3. y = IF p.thought THEN ChatThought(w, p)
          ELSE IF p.text # <<>> THEN WriteText(w, "content", p.text)
          ELSE IF p.image # None THEN i
          ELSE IF p.call # None THEN ChatCall(w, p)
          ELSE w
  BY DEF ChatPart
<1> HIDE DEF i, y
<1>4. CASE p.thought
  BY <1>3, <1>4, ChatThoughtStands DEF y
<1>5. CASE ~p.thought /\ p.text # <<>>
  BY <1>1, <1>3, <1>5, WriteTextStands DEF y
<1>6. CASE ~p.thought /\ p.text = <<>> /\ p.image # None
  BY <1>2, <1>3, <1>6 DEF y
<1>7. CASE ~p.thought /\ p.text = <<>> /\ p.image = None /\ p.call # None
  BY <1>3, <1>7, ChatCallStands DEF y
<1>8. CASE ~p.thought /\ p.text = <<>> /\ p.image = None /\ p.call = None
  BY <1>3, <1>8, ChatStandsTypes DEF y
<1> QED
  BY <1>4, <1>5, <1>6, <1>7, <1>8

\* The calls held back go out in one chunk.
LEMMA FlushToolCallsStands ==
    ASSUME NEW w, ChatStands(w)
    PROVE  ChatStands(FlushToolCalls(w)) /\ Extends(FlushToolCalls(w), w)
<1> DEFINE e == ChatEvent("tool_calls", w.calls)
           u == WriteChunk(WriteRole(w), e)
           v == [u EXCEPT !.calls = <<>>]
<1>1. w.calls \in Strings
  BY ChatStandsTypes, TextsAreStrings DEF ChatWriters
<1>2. e \in Events /\ e.type \in Grammar!ChatDeltas
  BY <1>1, EventType, NameList DEF ChatEvent, Event, Grammar!ChatDeltas
<1>3. FlushToolCalls(w) = IF w.calls = <<>> THEN w ELSE v
  BY DEF FlushToolCalls
<1> HIDE DEF e
<1>4. ChatStands(u) /\ Extends(u, w)
  BY <1>2, ChatDeltaStands
<1> HIDE DEF u
<1>5. v \in ChatWriters /\ v.out = u.out /\ v.sent_role = u.sent_role /\ v.saves = u.saves
  <2>1. u \in ChatWriters /\ <<>> \in Seq(Calls)
    BY <1>4, ChatStandsTypes
  <2> QED
    BY <2>1 DEF ChatWriters
<1> HIDE DEF v
<1>6. ChatStands(v) /\ Extends(v, w)
  BY <1>4, <1>5, ChatKept DEF Extends
<1> QED
  BY <1>3, <1>6, ChatStandsTypes

\* finish ends the stream properly in every state of the writer.
LEMMA ChatFinishAdmitted ==
    ASSUME NEW w, ChatStands(w), NEW reason \in Names
    PROVE  LET v == ChatFinish(w, reason)
           IN  v \in ChatWriters /\ Chained(v.out) /\ Extends(v, w) /\ v.saves = w.saves
<1> DEFINE r == WriteRole(w)
           e1 == Event("finish", 0, reason, <<>>)
           e2 == ChatEvent("[DONE]", <<>>)
           u == WriteChunk(r, e1)
           o == Append(u.out, e2)
           v == [u EXCEPT !.out = o]
<1>1. ChatStands(r) /\ r.out # <<>> /\ Extends(r, w) /\ r.saves = w.saves
  BY WriteRoleStands
<1>2. /\ e1 \in Events /\ e1.type = "finish"
      /\ e2 \in Events /\ e2.type = "[DONE]"
  BY EventType, NameList, TextsAreStrings DEF Event, ChatEvent
<1>3. ChatFinish(w, reason) = v
  BY DEF ChatFinish
<1> HIDE DEF r, e1, e2
<1>4. r \in ChatWriters /\ Chained(r.out) /\ GoesOn(r.out, e1)
  BY <1>1, <1>2 DEF ChatStands, GoesOn, Last, Grammar!Follows
<1>5. /\ u \in ChatWriters /\ ChatSame(u, r) /\ Chained(u.out) /\ Extends(u, r)
      /\ u.out # <<>> /\ Last(u.out) = e1
  BY <1>2, <1>4, ChunkStep
<1> HIDE DEF u
<1>6. GoesOn(u.out, e2) /\ u.out \in Seq(Events) /\ u.saves \in Seq(Saves)
  BY <1>2, <1>5 DEF GoesOn, Last, Grammar!Follows, ChatWriters
<1>7. Chained(o) /\ o \in Seq(Events)
  BY <1>2, <1>5, <1>6, AppendChained, AppendProperties
<1>8. v \in ChatWriters /\ v.out = o /\ v.saves = u.saves
  BY <1>5, <1>7 DEF ChatWriters
<1>9. Extends(v, u)
  BY <1>2, <1>6, <1>8, AppendExtends
<1> HIDE DEF v, o
<1>10. Extends(u, w)
  BY <1>1, <1>4, <1>5, <1>6, ChatStandsTypes, ExtendsTransitive
<1>11. Extends(v, w)
  BY <1>6, <1>7, <1>8, <1>9, <1>10, ChatStandsTypes, ExtendsTransitive
<1> QED
  BY <1>1, <1>3, <1>5, <1>7, <1>8, <1>11 DEF ChatSame

-----------------------------------------------------------------------------
(* The inductive invariant. *)

Stands == IF endpoint = "claude" THEN ClaudeStands(writer) ELSE ChatStands(writer)

WriterTyped ==
    /\ IF endpoint = "claude" THEN writer \in ClaudeWriters ELSE writer \in ChatWriters
    /\ Chained(writer.out)

FinishReasons == {NoReason, "STOP"}

\* The parser's buffer holds bytes of the body's lines.
ParserTyped ==
    /\ body \in Seq(Line)
    /\ got <= 4 * Len(body)
    /\ buf \in Seq((1..Len(body)) \X (1..4))
    /\ result.finish \in FinishReasons

\* Where the handler waits, all signature saves have been handed over.
Saved ==
    \/ pc \in {"parts", "save"} \/ (endpoint = "claude" /\ pc = "send")
    \/ stored = Len(writer.saves)

IInv ==
    /\ TypeOK
    /\ ParserTyped
    /\ WriterTyped
    /\ pc \notin {"closing", "done"} => Stands
    /\ pc = "connect" => writer.out = <<>>
    /\ Saved

\* A writer between two parts has admitted output.
LEMMA StandsTyped ==
    ASSUME Stands
    PROVE  WriterTyped
BY DEF Stands, WriterTyped, ClaudeStands, Fresh, Running, Sound, ChatStands

\* The types of the output and of the saves.
LEMMA WriterTypes ==
    ASSUME WriterTyped
    PROVE  writer.out \in Seq(Events) /\ writer.saves \in Seq(Saves) /\ Extends(writer, writer)
BY ExtendsReflexive DEF WriterTyped, ClaudeWriters, ChatWriters

\* The invariant holds before the upstream request.
LEMMA InitIInv == Init => IInv
<1> SUFFICES ASSUME Init PROVE IInv
  OBVIOUS
<1>1. PICK signing \in BOOLEAN :
         writer = IF endpoint = "claude" THEN NewClaudeWriter(signing) ELSE NewChatWriter(signing)
  BY DEF Init
<1>2. Chained(<<>>) /\ <<>> \in Strings /\ NoPending \in Pendings
  BY EmptySeq, TextsAreStrings, NameList DEF Chained, NoPending, Pendings
<1>3. ASSUME endpoint = "claude"
      PROVE  Stands /\ writer.out = <<>> /\ writer.saves = <<>>
  <2>1. NoBlock \in Blocks /\ NoBlock.kind = "none"
    BY DEF NoBlock, Blocks
  <2>2. NewClaudeWriter(signing) \in ClaudeWriters
    BY <1>2, <2>1 DEF NewClaudeWriter, ClaudeWriters
  <2>3. /\ writer \in ClaudeWriters /\ writer.out = <<>> /\ writer.saves = <<>>
        /\ writer.started = FALSE /\ writer.block = NoBlock /\ writer.next_index = 0
    BY <1>1, <1>3, <2>2 DEF NewClaudeWriter
  <2>4. ClaudeStands(writer)
    BY <1>2, <2>1, <2>3 DEF ClaudeStands, Fresh, Sound
  <2> QED
    BY <1>3, <2>3, <2>4 DEF Stands
<1>4. ASSUME endpoint = "openai"
      PROVE  Stands /\ writer.out = <<>> /\ writer.saves = <<>>
  <2>2. NewChatWriter(signing) \in ChatWriters
    BY <1>2 DEF NewChatWriter, ChatWriters
  <2>3. /\ writer \in ChatWriters /\ writer.out = <<>> /\ writer.saves = <<>>
        /\ writer.sent_role = FALSE
    BY <1>1, <1>4, <2>2 DEF NewChatWriter
  <2>4. ChatStands(writer)
    BY <1>2, <2>3 DEF ChatStands
  <2> QED
    BY <1>4, <2>3, <2>4 DEF Stands
<1>5. Stands /\ writer.out = <<>> /\ writer.saves = <<>>
  BY <1>3, <1>4 DEF Init
<1>6. /\ endpoint \in {"claude", "openai"} /\ body \in Bodies /\ got = 0 /\ buf = <<>>
      /\ processed = 0 /\ result.finish = NoReason /\ todo = <<>> /\ finishing = FALSE
      /\ pc = "connect" /\ handed = 0 /\ read = 0 /\ connected = TRUE /\ stored = 0
  BY DEF Init
<1>7. TypeOK
  <2>1. Len(writer.out) = 0 /\ Len(writer.saves) = 0
    BY <1>5
  <2>2. todo \in Seq(Part)
    BY <1>6
  <2>3. finishing \in BOOLEAN /\ connected \in BOOLEAN
    BY <1>6, Zenon
  <2>4. /\ endpoint \in {"claude", "openai"} /\ got \in Nat /\ processed \in Nat
        /\ handed \in 0..Len(writer.out) /\ read \in 0..handed /\ stored \in 0..Len(writer.saves)
    BY <1>6, <2>1
  <2>5. processed <= Len(buf)
    BY <1>6
  <2> QED
    BY <1>6, <2>2, <2>3, <2>4, <2>5, Zenon DEF TypeOK
<1>8. ParserTyped
  <2>1. body \in Seq(Line) /\ Len(body) \in Nat
    BY <1>6, StreamAssumption, LenProperties
  <2>2. buf \in Seq((1..Len(body)) \X (1..4))
    BY <1>6
  <2>3. got <= 4 * Len(body)
    BY <1>6, <2>1
  <2> QED
    BY <1>6, <2>1, <2>2, <2>3 DEF ParserTyped, FinishReasons
<1> QED
  BY <1>5, <1>6, <1>7, <1>8, StandsTyped DEF IInv, Saved

-----------------------------------------------------------------------------
(* Steps of the parser, the channel and the client. *)

\* memchr finds a newline behind the offset when there is one.
LEMMA NewlineIsLeast ==
    ASSUME ParserTyped, processed \in Nat, Newlines # {}
    PROVE  Newline \in processed + 1..Len(buf)
<1>1. Newlines \subseteq Nat /\ Newlines \subseteq processed + 1..Len(buf)
  BY DEF Newlines
<1>2. PICK n \in Newlines : \A m \in Newlines : <<m, n>> \notin OpToRel(<, Nat)
  BY <1>1, WFMin, NatLessThanWellFounded, Zenon
<1>3. \A m \in Newlines : ~(m < n)
  BY <1>1, <1>2, Zenon DEF OpToRel
<1>4. \A m \in Newlines : n <= m
  BY <1>1, <1>3
<1>5. \E i \in Newlines : \A j \in Newlines : i <= j
  BY <1>4
<1>6. Newline \in Newlines
  BY <1>5, Zenon DEF Newline
<1> QED
  BY <1>1, <1>6

\* Every line that parses as data has a datum.
LEMMA LineOfType ==
    ASSUME ParserTyped, NEW bytes \in Seq((1..Len(body)) \X (1..4)), LineOf(bytes).kind = "data"
    PROVE  LineOf(bytes).datum \in Datum
<1>1. CASE Len(bytes) = 2
  <2>1. bytes[1] \in (1..Len(body)) \X (1..4)
    BY <1>1, ElementOfSeq
  <2>2. bytes[1][1] \in 1..Len(body)
    BY <2>1
  <2>3. body[bytes[1][1]] \in Line
    BY <2>2, ElementOfSeq DEF ParserTyped
  <2>4. LineOf(bytes) = body[bytes[1][1]] \/ LineOf(bytes) = NotParsed
    BY DEF LineOf
  <2> QED
    BY <2>3, <2>4 DEF Line, NotParsed
<1>2. CASE Len(bytes) # 2
  BY <1>2 DEF LineOf, NotParsed
<1> QED
  BY <1>1, <1>2

\* A step that leaves the writer alone.
LEMMA QuietStep ==
    ASSUME IInv, UNCHANGED <<endpoint, writer>>, TypeOK', ParserTyped', Saved',
           pc' \notin {"closing", "done"} => pc \notin {"closing", "done"},
           pc' = "connect" => pc = "connect"
    PROVE  IInv' /\ Extends(writer', writer)
<1>1. WriterTyped' /\ (Stands => Stands')
  BY DEF IInv, WriterTyped, Stands
<1>2. Extends(writer', writer)
  BY WriterTypes DEF IInv
<1> QED
  BY <1>1, <1>2 DEF IInv

\* A step that leaves the parser alone.
LEMMA ParserKept ==
    ASSUME ParserTyped, UNCHANGED <<body, got, buf, result>>
    PROVE  ParserTyped'
BY DEF ParserTyped

\* The upstream answers.
LEMMA ConnectStep == IInv /\ Connect => IInv' /\ Extends(writer', writer)
<1> SUFFICES ASSUME IInv, Connect PROVE IInv' /\ Extends(writer', writer)
  OBVIOUS
<1> USE DEF upstreamVars, parserVars, datumVars, clientVars
<1>1. TypeOK' /\ Saved'
  BY DEF IInv, TypeOK, Connect, Saved
<1>2. ParserTyped'
  BY ParserKept DEF IInv, Connect
<1> QED
  BY <1>1, <1>2, QuietStep DEF Connect

\* The upstream ends.
LEMMA UpstreamEndsStep == IInv /\ UpstreamEnds => IInv' /\ Extends(writer', writer)
<1> SUFFICES ASSUME IInv, UpstreamEnds PROVE IInv' /\ Extends(writer', writer)
  OBVIOUS
<1> USE DEF upstreamVars, parserVars, datumVars, clientVars
<1>1. TypeOK' /\ Saved'
  BY DEF IInv, TypeOK, UpstreamEnds, Saved
<1>2. ParserTyped'
  BY ParserKept DEF IInv, UpstreamEnds
<1> QED
  BY <1>1, <1>2, QuietStep DEF UpstreamEnds

\* The bytes of a body are its lines' bytes.
LEMMA BytesType ==
    ASSUME body \in Seq(Line)
    PROVE  Bytes(body) \in Seq((1..Len(body)) \X (1..4)) /\ Len(Bytes(body)) = 4 * Len(body)
<1> DEFINE L == Len(body)
<1> HIDE DEF L
<1>1. L \in Nat
  BY LenProperties DEF L
<1>2. \A i \in 1..4 * L : ((i - 1) \div 4) + 1 \in 1..L /\ ((i - 1) % 4) + 1 \in 1..4
  BY <1>1
<1>3. \A i \in 1..4 * L : <<((i - 1) \div 4) + 1, ((i - 1) % 4) + 1>> \in (1..L) \X (1..4)
  BY <1>2
<1>4. 4 * L \in Nat
  BY <1>1
<1>5. Bytes(body) = [i \in 1..4 * L |-> <<((i - 1) \div 4) + 1, ((i - 1) % 4) + 1>>]
  BY DEF Bytes, L
<1>6. Bytes(body) \in [1..4 * L -> (1..L) \X (1..4)]
  BY <1>3, <1>5
<1>7. Bytes(body) \in Seq((1..L) \X (1..4)) /\ Len(Bytes(body)) = 4 * L
  <2> DEFINE N == 4 * L
             S == (1..L) \X (1..4)
             B == Bytes(body)
  <2>1. N \in Nat /\ B \in [1..N -> S]
    BY <1>4, <1>6
  <2> HIDE DEF N, S, B
  <2>2. B \in Seq(S)
    BY <2>1
  <2>3. Len(B) = N
    BY <2>1, <2>2, LenProperties
  <2> QED
    BY <2>2, <2>3 DEF N, S, B
<1> QED
  BY <1>7 DEF L

\* A chunk's bytes are bytes of the body's lines.
LEMMA ChunkArrives ==
    ASSUME IInv, NEW n \in ChunkSizes, Chunk(n)
    PROVE  IInv' /\ Extends(writer', writer)
<1> USE DEF upstreamVars, parserVars, datumVars, clientVars
<1>1. /\ n \in Nat \ {0} /\ got \in Nat /\ body \in Seq(Line) /\ Len(body) \in Nat
      /\ got + n <= 4 * Len(body) /\ got' = got + n
  BY StreamAssumption DEF IInv, TypeOK, ParserTyped, Chunk
<1>2. TypeOK' /\ Saved'
  BY <1>1 DEF IInv, TypeOK, Chunk, Saved
<1>3. Bytes(body) \in Seq((1..Len(body)) \X (1..4)) /\ Len(Bytes(body)) = 4 * Len(body)
  BY <1>1, BytesType
<1>4. SubSeq(Bytes(body), got + 1, got + n) \in Seq((1..Len(body)) \X (1..4))
  BY <1>1, <1>3, SubSeqProperties
<1>5. ParserTyped'
  BY <1>1, <1>4, ConcatProperties DEF IInv, ParserTyped, Chunk
<1> QED
  BY <1>2, <1>5, QuietStep DEF Chunk

\* What is left in the buffer is bytes of the body's lines.
LEMMA DrainStep == IInv /\ Drain => IInv' /\ Extends(writer', writer)
<1> SUFFICES ASSUME IInv, Drain PROVE IInv' /\ Extends(writer', writer)
  OBVIOUS
<1> USE DEF upstreamVars, parserVars, datumVars, clientVars
<1>1. TypeOK' /\ Saved'
  BY DEF IInv, TypeOK, Drain, Saved
<1>2. ParserTyped'
  <2>1. buf \in Seq((1..Len(body)) \X (1..4)) /\ processed \in Nat
    BY DEF IInv, TypeOK, ParserTyped
  <2>2. SubSeq(buf, processed + 1, Len(buf)) \in Seq((1..Len(body)) \X (1..4))
    BY <2>1, SubSeqProperties, LenProperties
  <2> QED
    BY <2>2 DEF IInv, ParserTyped, Drain
<1> QED
  BY <1>1, <1>2, QuietStep DEF Drain

\* A line is cut out of the buffer.
LEMMA TakeLineStep == IInv /\ TakeLine => IInv' /\ Extends(writer', writer)
<1> SUFFICES ASSUME IInv, TakeLine PROVE IInv' /\ Extends(writer', writer)
  OBVIOUS
<1> USE DEF upstreamVars, parserVars, datumVars, clientVars
<1> DEFINE Byte == (1..Len(body)) \X (1..4)
           raw == SubSeq(buf, processed + 1, Newline - 1)
           line == LineOf(WithoutCR(raw))
<1>1. buf \in Seq(Byte) /\ processed \in Nat /\ Newline \in processed + 1..Len(buf)
  BY NewlineIsLeast DEF IInv, TypeOK, ParserTyped, TakeLine
<1>2. WithoutCR(raw) \in Seq(Byte)
  <2>1. raw \in Seq(Byte)
    BY <1>1, SubSeqProperties, LenProperties
  <2> HIDE DEF raw
  <2>2. raw # <<>> => SubSeq(raw, 1, Len(raw) - 1) \in Seq(Byte)
    BY <2>1, SubSeqProperties, LenProperties, EmptySeq
  <2> QED
    BY <2>1, <2>2 DEF WithoutCR
<1>3. line.kind = "data" => line.datum \in Datum
  BY <1>2, LineOfType DEF IInv
<1>4. SubSeq(buf, Newline + 1, Len(buf)) \in Seq(Byte)
  BY <1>1, SubSeqProperties, LenProperties
<1> HIDE DEF line
<1>5. CASE line.kind = "data" /\ processed' = Newline
           /\ result' = [calls |-> result.calls \cup CallsIn(line.datum.parts),
                         finish |-> IF line.datum.finish # NoReason THEN line.datum.finish
                                    ELSE result.finish]
           /\ todo' = line.datum.parts /\ finishing' = (line.datum.finish # NoReason)
           /\ pc' = "parts" /\ UNCHANGED buf
  <2>1. todo' \in Seq(Part) /\ line.datum.finish \in FinishReasons
    BY <1>3, <1>5 DEF Datum, FinishReasons
  <2>2. result'.finish \in FinishReasons
    BY <1>5, <2>1 DEF IInv, ParserTyped
  <2>3. finishing' \in BOOLEAN
    BY <1>5, Zenon
  <2>4. TypeOK' /\ Saved'
    BY <1>1, <1>5, <2>1, <2>3 DEF IInv, TypeOK, TakeLine, Saved
  <2>5. ParserTyped'
    BY <1>5, <2>2 DEF IInv, ParserTyped, TakeLine
  <2> QED
    BY <1>5, <2>4, <2>5, QuietStep DEF TakeLine
<1>6. CASE /\ line.kind = "done" /\ buf' = SubSeq(buf, Newline + 1, Len(buf)) /\ pc' = "finish"
           /\ UNCHANGED <<processed, result, datumVars>>
  <2>1. TypeOK' /\ Saved'
    BY <1>1, <1>6 DEF IInv, TypeOK, TakeLine, Saved
  <2>2. ParserTyped'
    BY <1>4, <1>6 DEF IInv, ParserTyped, TakeLine
  <2> QED
    BY <1>6, <2>1, <2>2, QuietStep DEF TakeLine
<1>7. CASE line.kind \in {"bad", "other"} /\ processed' = Newline
           /\ UNCHANGED <<buf, result, datumVars, pc>>
  <2>1. TypeOK' /\ Saved'
    BY <1>1, <1>7 DEF IInv, TypeOK, TakeLine, Saved
  <2>2. ParserTyped'
    BY <1>7, ParserKept DEF IInv, TakeLine
  <2> QED
    BY <1>7, <2>1, <2>2, QuietStep DEF TakeLine
<1> QED
  BY <1>5, <1>6, <1>7 DEF TakeLine, line

\* An event goes into the channel.
LEMMA SendStep == IInv /\ Send => IInv' /\ Extends(writer', writer)
<1> SUFFICES ASSUME IInv, Send PROVE IInv' /\ Extends(writer', writer)
  OBVIOUS
<1> USE DEF upstreamVars, parserVars, datumVars, clientVars
<1>1. handed \in Nat /\ read \in Nat /\ Len(writer.out) \in Nat /\ Len(writer.saves) \in Nat
  BY WriterTypes, LenProperties DEF IInv, TypeOK
<1>2. TypeOK'
  BY <1>1 DEF IInv, TypeOK, Send
<1>3. Saved'
  BY DEF IInv, TypeOK, Saved, Send
<1>4. ParserTyped'
  BY ParserKept DEF IInv, Send
<1> QED
  BY <1>2, <1>3, <1>4, QuietStep DEF Send

\* The batch is sent or given up.
LEMMA SentStep == IInv /\ Sent => IInv' /\ Extends(writer', writer)
<1> SUFFICES ASSUME IInv, Sent PROVE IInv' /\ Extends(writer', writer)
  OBVIOUS
<1> USE DEF upstreamVars, parserVars, datumVars, clientVars
<1>1. handed \in Nat /\ read \in Nat /\ Len(writer.out) \in Nat /\ Len(writer.saves) \in Nat
  BY WriterTypes, LenProperties DEF IInv, TypeOK
<1>2. TypeOK'
  BY <1>1 DEF IInv, TypeOK, Sent
<1>3. Saved'
  BY DEF IInv, TypeOK, Saved, Sent
<1>4. ParserTyped'
  BY ParserKept DEF IInv, Sent
<1> QED
  BY <1>2, <1>3, <1>4, QuietStep DEF Sent

\* The saves are handed over.
LEMMA SaveStep == IInv /\ Save => IInv' /\ Extends(writer', writer)
<1> SUFFICES ASSUME IInv, Save PROVE IInv' /\ Extends(writer', writer)
  OBVIOUS
<1> USE DEF upstreamVars, parserVars, datumVars, clientVars
<1>1. handed \in Nat /\ read \in Nat /\ Len(writer.out) \in Nat /\ Len(writer.saves) \in Nat
  BY WriterTypes, LenProperties DEF IInv, TypeOK
<1>2. TypeOK'
  BY <1>1 DEF IInv, TypeOK, Save
<1>3. Saved'
  BY DEF IInv, TypeOK, Saved, Save
<1>4. ParserTyped'
  BY ParserKept DEF IInv, Save
<1> QED
  BY <1>2, <1>3, <1>4, QuietStep DEF Save

\* The client reads.
LEMMA ClientReadsStep == IInv /\ ClientReads => IInv' /\ Extends(writer', writer)
<1> SUFFICES ASSUME IInv, ClientReads PROVE IInv' /\ Extends(writer', writer)
  OBVIOUS
<1> USE DEF upstreamVars, parserVars, datumVars, clientVars
<1>1. handed \in Nat /\ read \in Nat /\ Len(writer.out) \in Nat /\ Len(writer.saves) \in Nat
  BY WriterTypes, LenProperties DEF IInv, TypeOK
<1>2. TypeOK'
  BY <1>1 DEF IInv, TypeOK, ClientReads
<1>3. Saved'
  BY DEF IInv, TypeOK, Saved, ClientReads
<1>4. ParserTyped'
  BY ParserKept DEF IInv, ClientReads
<1> QED
  BY <1>2, <1>3, <1>4, QuietStep DEF ClientReads

\* The client leaves.
LEMMA ClientLeavesStep == IInv /\ ClientLeaves => IInv' /\ Extends(writer', writer)
<1> SUFFICES ASSUME IInv, ClientLeaves PROVE IInv' /\ Extends(writer', writer)
  OBVIOUS
<1> USE DEF upstreamVars, parserVars, datumVars, clientVars
<1>1. handed \in Nat /\ read \in Nat /\ Len(writer.out) \in Nat /\ Len(writer.saves) \in Nat
  BY WriterTypes, LenProperties DEF IInv, TypeOK
<1>2. TypeOK'
  BY <1>1 DEF IInv, TypeOK, ClientLeaves
<1>3. Saved'
  BY DEF IInv, TypeOK, Saved, ClientLeaves
<1>4. ParserTyped'
  BY ParserKept DEF IInv, ClientLeaves
<1> QED
  BY <1>2, <1>3, <1>4, QuietStep DEF ClientLeaves

-----------------------------------------------------------------------------
(* Steps that write. *)

\* A step whose writer continues the one before it.
LEMMA WritingStep ==
    ASSUME IInv, UNCHANGED <<endpoint, handed, read, stored, body, got, buf, processed, result,
                             finishing, connected>>,
           WriterTyped', Extends(writer', writer), todo' \in Seq(Part),
           pc' \in {"parts", "send", "save", "closing"},
           pc' # "closing" => Stands' /\ pc \notin {"finish", "closing", "done"}, Saved'
    PROVE  IInv'
<1>1. /\ Len(writer.out) <= Len(writer'.out) /\ Len(writer.saves) <= Len(writer'.saves)
      /\ Len(writer.out) \in Nat /\ Len(writer'.out) \in Nat
      /\ Len(writer.saves) \in Nat /\ Len(writer'.saves) \in Nat
  BY LenProperties DEF Extends, IInv, WriterTyped, ClaudeWriters, ChatWriters
<1>2. TypeOK'
  BY <1>1 DEF IInv, TypeOK
<1>3. ParserTyped'
  BY ParserKept DEF IInv
<1> QED
  BY <1>2, <1>3 DEF IInv

\* A part is processed by the writer of the endpoint.
LEMMA ProcessPartStep == IInv /\ ProcessPart => IInv' /\ Extends(writer', writer)
<1> SUFFICES ASSUME IInv, ProcessPart PROVE IInv' /\ Extends(writer', writer)
  OBVIOUS
<1> USE DEF upstreamVars, parserVars, datumVars, clientVars
<1>1. Head(todo) \in Part /\ Tail(todo) \in Seq(Part)
  BY HeadTailProperties DEF IInv, TypeOK, ProcessPart
<1>2. Stands
  BY DEF IInv, ProcessPart
<1>3. Stands' /\ Extends(writer', writer)
  BY <1>1, <1>2, ClaudePartStands, ChatPartStands DEF Stands, ProcessPart
<1>4. WriterTyped'
  BY <1>3 DEF Stands, WriterTyped, ClaudeStands, Fresh, Running, Sound, ChatStands
<1>5. Saved'
  BY DEF Saved, ProcessPart
<1> QED
  BY <1>1, <1>3, <1>4, <1>5, WritingStep DEF ProcessPart

\* All parts of a datum are processed.
LEMMA PartsDoneStep == IInv /\ PartsDone => IInv' /\ Extends(writer', writer)
<1> SUFFICES ASSUME IInv, PartsDone PROVE IInv' /\ Extends(writer', writer)
  OBVIOUS
<1> USE DEF upstreamVars, parserVars, datumVars, clientVars
<1>1. Stands /\ Extends(writer, writer) /\ todo \in Seq(Part)
  BY WriterTypes DEF IInv, TypeOK, PartsDone
<1>2. Stands' /\ Extends(writer', writer)
  <2>1. CASE endpoint = "openai" /\ finishing
    BY <1>1, <2>1, FlushToolCallsStands DEF Stands, PartsDone
  <2>2. CASE ~(endpoint = "openai" /\ finishing)
    BY <1>1, <2>2 DEF Stands, PartsDone
  <2> QED
    BY <2>1, <2>2
<1>3. WriterTyped'
  BY <1>2 DEF Stands, WriterTyped, ClaudeStands, Fresh, Running, Sound, ChatStands
<1>4. Saved'
  BY DEF Saved, PartsDone
<1> QED
  BY <1>1, <1>2, <1>3, <1>4, WritingStep DEF PartsDone

\* The stream is finished, after any part.
LEMMA FinishStep == IInv /\ Finish => IInv' /\ Extends(writer', writer)
<1> SUFFICES ASSUME IInv, Finish PROVE IInv' /\ Extends(writer', writer)
  OBVIOUS
<1> USE DEF upstreamVars, parserVars, datumVars, clientVars
<1>1. Stands /\ todo \in Seq(Part)
  BY DEF IInv, TypeOK, Finish
<1>2. StopReason \in Names
  BY NameList DEF IInv, ParserTyped, FinishReasons, StopReason
<1>3. WriterTyped' /\ Extends(writer', writer) /\ writer'.saves = writer.saves
  BY <1>1, <1>2, ClaudeFinishAdmitted, ChatFinishAdmitted DEF Stands, WriterTyped, Finish
<1>4. Saved'
  BY <1>3 DEF IInv, Saved, Finish
<1> QED
  BY <1>1, <1>3, <1>4, WritingStep DEF Finish

\* The error answers of both endpoints are admitted output.
LEMMA ErrorsAdmitted ==
    /\ ClaudeError \in Seq(Events) /\ Chained(ClaudeError)
    /\ ChatError \in Seq(Events) /\ Chained(ChatError)
<1>1. \A e, f \in Events :
         Grammar!First(e) /\ Grammar!Follows(e, f) => <<e, f>> \in Seq(Events) /\ Chained(<<e, f>>)
  BY DEF Chained
<1> DEFINE e1 == Event("error", 0, "none", <<>>)
           e2 == Event("message_stop", 0, "none", <<>>)
           f1 == ChatEvent("chat_error", <<>>)
           f2 == ChatEvent("[DONE]", <<>>)
<1>2. /\ e1 \in Events /\ e1.type = "error" /\ e2 \in Events /\ e2.type = "message_stop"
      /\ f1 \in Events /\ f1.type = "chat_error" /\ f2 \in Events /\ f2.type = "[DONE]"
  BY EventType, NameList, TextsAreStrings DEF Event, ChatEvent
<1> HIDE DEF e1, e2, f1, f2
<1>3. /\ Grammar!First(e1) /\ Grammar!Follows(e1, e2)
      /\ Grammar!First(f1) /\ Grammar!Follows(f1, f2)
  BY <1>2 DEF Grammar!First, Grammar!Follows
<1> QED
  BY <1>1, <1>2, <1>3 DEF ClaudeError, ChatError, e1, e2, f1, f2

\* No attempt succeeded.
LEMMA ConnectFailsStep == IInv /\ ConnectFails => IInv' /\ Extends(writer', writer)
<1> SUFFICES ASSUME IInv, ConnectFails PROVE IInv' /\ Extends(writer', writer)
  OBVIOUS
<1> USE DEF upstreamVars, parserVars, datumVars, clientVars
<1>1. WriterTyped /\ writer.out = <<>> /\ todo \in Seq(Part) /\ writer.saves \in Seq(Saves)
  BY WriterTypes DEF IInv, TypeOK, ConnectFails
<1>2. /\ WriterTyped' /\ writer'.saves = writer.saves
  <2>1. CASE endpoint = "claude"
    <3>1. writer' = [writer EXCEPT !.out = ClaudeError] /\ writer \in ClaudeWriters /\ endpoint' = endpoint
      BY <1>1, <2>1 DEF WriterTyped, ConnectFails
    <3>2. writer' \in ClaudeWriters /\ writer'.out = ClaudeError /\ writer'.saves = writer.saves
      BY <3>1, ErrorsAdmitted DEF ClaudeWriters
    <3> QED
      BY <2>1, <3>1, <3>2, ErrorsAdmitted DEF WriterTyped
  <2>2. CASE endpoint # "claude"
    <3>1. writer' = [writer EXCEPT !.out = ChatError] /\ writer \in ChatWriters /\ endpoint' = endpoint
      BY <1>1, <2>2 DEF WriterTyped, ConnectFails
    <3>2. writer' \in ChatWriters /\ writer'.out = ChatError /\ writer'.saves = writer.saves
      BY <3>1, ErrorsAdmitted DEF ChatWriters
    <3> QED
      BY <2>2, <3>1, <3>2, ErrorsAdmitted DEF WriterTyped
  <2> QED
    BY <2>1, <2>2
<1>3. Extends(writer', writer)
  <2>1. writer'.out \in Seq(Events)
    BY <1>2 DEF WriterTyped, ClaudeWriters, ChatWriters
  <2>2. Len(writer.out) = 0 /\ Len(writer'.out) \in Nat /\ Len(writer.saves) \in Nat
    BY <1>1, <2>1, LenProperties
  <2> QED
    BY <1>2, <2>2 DEF Extends
<1>4. Saved'
  BY <1>2 DEF IInv, Saved, ConnectFails
<1> QED
  BY <1>1, <1>2, <1>3, <1>4, WritingStep DEF ConnectFails

\* Every step keeps the invariant, and output that was written stays.
LEMMA NextIInv == IInv /\ [Next]_vars => IInv' /\ Extends(writer', writer)
<1> SUFFICES ASSUME IInv, [Next]_vars PROVE IInv' /\ Extends(writer', writer)
  OBVIOUS
<1>1. CASE UNCHANGED vars
  <2> USE DEF vars, upstreamVars, parserVars, datumVars, clientVars
  <2>1. TypeOK' /\ Saved'
    BY <1>1 DEF IInv, TypeOK, Saved
  <2>2. ParserTyped'
    BY <1>1, ParserKept DEF IInv
  <2> QED
    BY <1>1, <2>1, <2>2, QuietStep
<1>2. CASE Handler
  BY <1>2, ConnectStep, ConnectFailsStep, TakeLineStep, DrainStep, ProcessPartStep, PartsDoneStep,
     SendStep, SentStep, SaveStep, FinishStep DEF Handler
<1>3. CASE Network
  BY <1>3, UpstreamEndsStep, ChunkArrives DEF Network
<1>4. CASE ClientReads \/ ClientLeaves
  BY <1>4, ClientReadsStep, ClientLeavesStep
<1> QED
  BY <1>1, <1>2, <1>3, <1>4 DEF Next

\* The invariant holds in every reachable state.
LEMMA Invariance == Spec => []IInv
BY InitIInv, NextIInv, PTL DEF Spec

-----------------------------------------------------------------------------
(* Results. *)

\* Types of the stream's state: parts, offsets and counters stay in range,
\* also when a line is cut, a chunk ends anywhere or the client leaves.
THEOREM TypeCorrect == Spec => []TypeOK
<1>1. IInv => TypeOK
  BY DEF IInv
<1> QED
  BY <1>1, Invariance, PTL

\* No signature is lost with the client, whatever the body and whenever the
\* client leaves.
THEOREM SavesSurvive == Spec => []SavesOutliveClient
<1>1. IInv => SavesOutliveClient
  BY DEF IInv, Saved, SavesOutliveClient
<1> QED
  BY <1>1, Invariance, PTL

\* What the client reads is a behaviour of the event grammar, for every
\* body, every chunking, every capacity and every client.
THEOREM Implements == Spec => WellFormed
<1>1. Init => Grammar!Init
  BY DEF Init, Grammar!Init, received
<1>2. IInv /\ [Next]_vars /\ IInv' => [Grammar!Next]_received
  <2> SUFFICES ASSUME IInv, [Next]_vars, IInv' PROVE [Grammar!Next]_received
    OBVIOUS
  <2>1. /\ Extends(writer', writer)
        /\ writer.out \in Seq(Events) /\ writer'.out \in Seq(Events)
        /\ Len(writer.out) \in Nat /\ Len(writer'.out) \in Nat
        /\ read \in 0..Len(writer.out)
    <3>1. Extends(writer', writer)
      BY NextIInv
    <3>2. writer.out \in Seq(Events)
      BY DEF IInv, WriterTyped, ClaudeWriters, ChatWriters
    <3>3. writer'.out \in Seq(Events)
      BY DEF IInv, WriterTyped, ClaudeWriters, ChatWriters
    <3>4. read \in 0..handed /\ handed \in 0..Len(writer.out)
      BY DEF IInv, TypeOK
    <3>5. Len(writer.out) \in Nat /\ Len(writer'.out) \in Nat
      BY <3>2, <3>3, LenProperties
    <3> QED
      BY <3>1, <3>2, <3>3, <3>4, <3>5
  <2>2. CASE read' = read
    <3>1. Len(writer.out) <= Len(writer'.out)
          /\ \A i \in 1..Len(writer.out) : writer'.out[i] = writer.out[i]
      BY <2>1 DEF Extends
    <3>2. SubSeq(writer'.out, 1, read) = SubSeq(writer.out, 1, read)
      BY <2>1, <3>1
    <3> QED
      BY <2>2, <3>2 DEF received
  <2>3. CASE read' # read
    <3>1. ClientReads
      BY <2>3 DEF Next, vars, upstreamVars, parserVars, datumVars, clientVars, Handler, Network,
         Connect, ConnectFails, TakeLine, Drain, ProcessPart, PartsDone, Send, Sent, Save, Finish,
         UpstreamEnds, Chunk, ClientLeaves
    <3>2. writer' = writer /\ read' = read + 1 /\ read + 1 \in 1..Len(writer.out)
      BY <2>1, <3>1 DEF ClientReads, IInv, TypeOK
    <3> DEFINE o == writer.out
               e == o[read + 1]
    <3>3. received = SubSeq(o, 1, read) /\ received' = SubSeq(o, 1, read + 1)
      BY <3>2 DEF received
    <3>4. o \in Seq(Events) /\ Chained(o) /\ read + 1 \in 1..Len(o) /\ read \in Nat
      BY <2>1, <3>2 DEF IInv, WriterTyped
    <3> HIDE DEF o
    <3>5. /\ Len(received) = read /\ Len(received') = read + 1
          /\ received' = Append(received, e) /\ received'[read + 1] = e
      BY <2>1, <3>2, <3>3, <3>4, SMTT(30)
    <3>6. received \in Seq(Events) /\ \A i \in 1..read : received[i] = o[i]
      BY <3>3, <3>4, SubSeqProperties
    <3>7. Grammar!Continues(received, e)
      <4>1. CASE read = 0
        <5>1. received = <<>> /\ Grammar!First(e)
          <6>1. received = <<>>
            BY <3>5, <3>6, <4>1, EmptySeq
          <6> QED
            BY <3>4, <4>1, <6>1 DEF Chained
        <5> QED
          BY <5>1 DEF Grammar!Continues
      <4>2. CASE read # 0
        <5>1. received # <<>> /\ received[Len(received)] = o[read]
          BY <3>4, <3>5, <3>6, <4>2, EmptySeq
        <5>2. read + 1 \in 1..Len(o) /\ read + 1 # 1 /\ (read + 1) - 1 = read
          BY <3>4, <4>2
        <5>3. Grammar!Follows(o[read], e)
          BY <3>4, <5>2 DEF Chained
        <5> QED
          BY <5>1, <5>3 DEF Grammar!Continues
      <4> QED
        BY <4>1, <4>2
    <3> QED
      BY <3>5, <3>7 DEF Grammar!Next
  <2> QED
    BY <2>2, <2>3
<1> QED
  BY <1>1, <1>2, Invariance, PTL DEF Spec, WellFormed, Grammar!Spec

-----------------------------------------------------------------------------
(* The log.  Merged is a recursion over the events: a function that obeys   *)
(* it exists for every sequence, and two such functions agree where the     *)
(* events do.                                                               *)

\* What the recursion of Merged makes of the first n events.
Step(s, f, n) ==
    IF n = 0 THEN <<>>
    ELSE IF s[n].type = "[DONE]" THEN f[n - 1]
    ELSE Merging(f[n - 1], s[n])

Obeys(f, s, m) == f = [n \in 0..m |-> Step(s, f, n)]

LEMMA StepLocal ==
    ASSUME NEW s, NEW t, NEW f, NEW g, NEW n \in Nat,
           n # 0 => f[n - 1] = g[n - 1] /\ s[n] = t[n]
    PROVE  Step(s, f, n) = Step(t, g, n)
  BY DEF Step

LEMMA ObeyedExists ==
    ASSUME NEW s, NEW m \in Nat
    PROVE  \E f : Obeys(f, s, m)
<1>. DEFINE Bad == {n \in Nat : ~\E f : Obeys(f, s, n)}
<1>. SUFFICES ASSUME Bad # {} PROVE FALSE
  OBVIOUS
<1>1. PICK k \in Bad : \A n \in Bad : k <= n
  BY LeastNatural
<1>2. CASE k = 0
  <2>. DEFINE g == [n \in 0..0 |-> <<>>]
  <2>1. \A n \in 0..0 : Step(s, g, n) = <<>>
    BY DEF Step
  <2>2. g = [n \in 0..0 |-> Step(s, g, n)]
    BY <2>1
  <2>. QED
    BY <1>2, <2>2 DEF Obeys
<1>3. CASE k # 0
  <2>1. k \in Nat /\ k - 1 \in Nat
    BY <1>3
  <2>2. k - 1 \notin Bad
    BY <1>1, <2>1
  <2>3. PICK f : Obeys(f, s, k - 1)
    BY <2>1, <2>2
  <2>. DEFINE g == [n \in 0..k |-> IF n = k THEN Step(s, f, k) ELSE f[n]]
  <2>4. \A n \in 0..k - 1 : g[n] = f[n]
    BY <2>1
  <2>5. \A n \in 0..k - 1 : f[n] = Step(s, f, n)
    BY <2>3 DEF Obeys
  <2>6. ASSUME NEW n \in 0..k PROVE g[n] = Step(s, g, n)
    <3>1. n # 0 => g[n - 1] = f[n - 1]
      BY <2>1, <2>4
    <3>. HIDE DEF g
    <3>2. Step(s, f, n) = Step(s, g, n)
      BY <3>1, StepLocal
    <3>3. g[n] = Step(s, f, n)
      BY <2>1, <2>4, <2>5 DEF g
    <3>. QED
      BY <3>2, <3>3
  <2>7. g = [n \in 0..k |-> Step(s, g, n)]
    <3>1. g = [n \in 0..k |-> g[n]]
      OBVIOUS
    <3>. HIDE DEF g
    <3>. QED
      BY <2>6, <3>1
  <2>. QED
    BY <2>7 DEF Obeys
<1>. QED
  BY <1>2, <1>3

LEMMA ObeyedAgree ==
    ASSUME NEW s, NEW t, NEW f, NEW g, NEW m \in Nat, NEW k \in Nat, m <= k,
           Obeys(f, s, m), Obeys(g, t, k), \A i \in 1..m : s[i] = t[i]
    PROVE  f[m] = g[m]
<1>. DEFINE Bad == {n \in 0..m : f[n] # g[n]}
<1>. SUFFICES ASSUME Bad # {} PROVE FALSE
  OBVIOUS
<1>0. Bad \subseteq Nat
  OBVIOUS
<1>. HIDE DEF Bad
<1>1. PICK n \in Bad : \A j \in Bad : n <= j
  BY <1>0, LeastNatural
<1>. USE DEF Bad
<1>2. /\ n \in 0..m /\ n \in 0..k /\ f[n] # g[n]
      /\ n # 0 => n - 1 \in 0..m /\ n - 1 \notin Bad /\ n \in 1..m
  BY <1>1
<1>3. n # 0 => f[n - 1] = g[n - 1] /\ s[n] = t[n]
  BY <1>2
<1>4. f[n] = Step(s, f, n) /\ g[n] = Step(t, g, n)
  BY <1>2 DEF Obeys
<1>. QED
  BY <1>2, <1>3, <1>4, StepLocal

LEMMA MergedObeys ==
    ASSUME NEW s, Len(s) \in Nat
    PROVE  \E f : Obeys(f, s, Len(s)) /\ Merged(s) = f[Len(s)]
<1>. DEFINE f == CHOOSE f : Obeys(f, s, Len(s))
<1>1. Obeys(f, s, Len(s))
  BY ObeyedExists
<1>2. Merged(s) = f[Len(s)]
  BY DEF Merged, Obeys, Step
<1>. QED
  BY <1>1, <1>2

\* What the recursion says of one more event.
LEMMA MergedEmpty == Merged(<<>>) = <<>>
<1>1. PICK f : Obeys(f, <<>>, Len(<<>>)) /\ Merged(<<>>) = f[Len(<<>>)]
  BY MergedObeys
<1>2. Merged(<<>>) = f[0] /\ f[0] = Step(<<>>, f, 0)
  BY <1>1 DEF Obeys
<1>. QED
  BY <1>2 DEF Step

LEMMA MergedAppend ==
    ASSUME NEW s \in Seq(Events), NEW e \in Events
    PROVE  Merged(Append(s, e)) = IF e.type = "[DONE]" THEN Merged(s) ELSE Merging(Merged(s), e)
<1>. DEFINE t == Append(s, e)
            n == Len(s) + 1
<1>1. /\ Len(s) \in Nat /\ n \in Nat /\ Len(t) = n /\ t[n] = e /\ n # 0 /\ n - 1 = Len(s)
      /\ n \in 0..n /\ Len(s) <= n
      /\ \A i \in 1..Len(s) : s[i] = t[i]
  BY AppendProperties, LenProperties
<1>. HIDE DEF t, n
<1>2. PICK f : Obeys(f, s, Len(s)) /\ Merged(s) = f[Len(s)]
  BY <1>1, MergedObeys
<1>3. PICK g : Obeys(g, t, n) /\ Merged(t) = g[n]
  BY <1>1, MergedObeys
<1>4. f[Len(s)] = g[Len(s)]
  BY <1>1, <1>2, <1>3, ObeyedAgree
<1>5. g[n] = Step(t, g, n)
  BY <1>1, <1>3 DEF Obeys
<1>6. Step(t, g, n) = IF e.type = "[DONE]" THEN g[Len(s)] ELSE Merging(g[Len(s)], e)
  BY <1>1 DEF Step
<1>. QED
  BY <1>2, <1>3, <1>4, <1>5, <1>6 DEF t

\* An event of another block or kind is an entry of its own.
LEMMA MergingApart ==
    ASSUME NEW m \in Seq(Events), NEW e \in Events,
           \/ e.kind \notin TextKinds \/ m = <<>>
           \/ Last(m).kind # e.kind \/ Last(m).index # e.index
    PROVE  Merging(m, e) = Append(m, e)
<1>1. Len(m) > 0 => m # <<>> /\ Last(m) = m[Len(m)]
  BY DEF Last
<1>2. ~(/\ Len(m) > 0 /\ e.kind \in TextKinds
        /\ m[Len(m)].kind = e.kind /\ m[Len(m)].index = e.index)
  BY <1>1
<1>. QED
  BY <1>2 DEF Merging

\* A delta of the block and kind of the last entry lengthens it.
LEMMA MergingJoins ==
    ASSUME NEW m \in Seq(Events), NEW d \in Events, NEW e \in Events,
           e.kind \in TextKinds, d.kind = e.kind, d.index = e.index
    PROVE  Merging(Append(m, d), e) = Append(m, [d EXCEPT !.text = @ \o e.text])
<1>. DEFINE s == Append(m, d)
            n == Len(m) + 1
            x == [d EXCEPT !.text = @ \o e.text]
<1>1. /\ Len(m) \in Nat /\ n \in Nat /\ n > 0 /\ Len(s) = n /\ s[n] = d /\ s \in Seq(Events)
      /\ \A i \in 1..Len(m) : s[i] = m[i]
  BY AppendProperties, LenProperties
<1>2. Merging(s, e) = [s EXCEPT ![n] = x]
  BY <1>1 DEF Merging
<1>3. x \in Events
  BY TextsAreStrings DEF Events
<1>4. [s EXCEPT ![n] = x] = Append(m, x)
  <2>. DEFINE t == [s EXCEPT ![n] = x]
  <2>. HIDE DEF x, s
  <2>1. n \in 1..Len(s)
    BY <1>1
  <2>2. t \in Seq(Events) /\ Len(t) = n /\ t[n] = x /\ \A i \in 1..Len(m) : t[i] = m[i]
    BY <1>1, <1>3, <2>1, ExceptSeq
  <2>3. Append(m, x) \in Seq(Events) /\ Len(Append(m, x)) = n /\ Append(m, x)[n] = x
        /\ \A i \in 1..Len(m) : Append(m, x)[i] = m[i]
    BY <1>1, <1>3, AppendProperties
  <2>. HIDE DEF t
  <2>4. \A i \in 1..Len(t) : t[i] = Append(m, x)[i]
    BY <1>1, <2>2, <2>3
  <2>5. t = Append(m, x)
    BY <2>2, <2>3, <2>4, SeqEqual
  <2>. QED
    BY <2>5 DEF t
<1>. QED
  BY <1>2, <1>4

LEMMA DeltaJoins ==
    ASSUME NEW m \in Seq(Events), NEW type \in Names, NEW i \in Nat, NEW kind \in Names \cap TextKinds,
           NEW text \in Strings, NEW e \in Events, e.kind = kind, e.index = i
    PROVE  Merging(Append(m, Event(type, i, kind, text)), e)
             = Append(m, Event(type, i, kind, text \o e.text))
<1>. DEFINE d == Event(type, i, kind, text)
            z == d.text \o e.text
<1>1. d \in Events /\ d.kind = kind /\ d.index = i /\ d.text = text
  BY EventType DEF Event
<1>. HIDE DEF z
<1>2. [d EXCEPT !.text = z] = Event(type, i, kind, z)
  BY DEF Event
<1>. HIDE DEF d
<1>3. Merging(Append(m, d), e) = Append(m, [d EXCEPT !.text = z])
  BY <1>1, MergingJoins DEF z
<1>4. z = text \o e.text
  BY <1>1 DEF z
<1>. QED
  BY <1>2, <1>3, <1>4 DEF d

-----------------------------------------------------------------------------
(* What the Claude writer's output and log tell. *)

\* The log with the delta that is still being merged.
ClaudeLog(w) ==
    IF w.pending.text = <<>> THEN w.log
    ELSE Append(w.log, Event("content_block_delta", w.pending.index, w.pending.kind,
                             w.pending.text))

\* A log that a delta may follow as an entry of its own.
Parted(w) == w.pending.text = <<>> => w.log = <<>> \/ Last(w.log).kind \notin TextKinds

ClaudeTold(w) == ClaudeLog(w) = Merged(w.out) /\ Parted(w)

Ended(events) == \E i \in DOMAIN events : events[i].type = "message_delta"

\* Neither a call nor the end is added, and the log goes on telling all.
Carries(v, w) ==
    /\ (Called(v.out) <=> Called(w.out))
    /\ (Ended(v.out) <=> Ended(w.out))
    /\ ClaudeTold(w) => ClaudeTold(v)

LEMMA CarriesTransitive ==
    ASSUME NEW u, NEW v, NEW w, Carries(u, v), Carries(v, w)
    PROVE  Carries(u, w)
  BY Zenon DEF Carries

LEMMA CarriesKept ==
    ASSUME NEW v, NEW w, v.out = w.out, v.log = w.log, v.pending = w.pending
    PROVE  Carries(v, w)
<1>1. ClaudeLog(v) = ClaudeLog(w) /\ Parted(v) = Parted(w)
  BY DEF ClaudeLog, Parted
<1>. QED
  BY <1>1 DEF Carries, ClaudeTold

\* What one more event tells.
LEMMA AppendTells ==
    ASSUME NEW s \in Seq(Events), NEW e \in Events
    PROVE  /\ (Called(Append(s, e)) <=> Called(s) \/ IsCallStart(e))
           /\ (Ended(Append(s, e)) <=> Ended(s) \/ e.type = "message_delta")
<1>. DEFINE t == Append(s, e)
<1>1. /\ DOMAIN s = 1..Len(s) /\ DOMAIN t = 1..Len(s) + 1 /\ Len(s) \in Nat
      /\ t[Len(s) + 1] = e /\ \A i \in 1..Len(s) : t[i] = s[i]
  BY AppendProperties, LenProperties
<1>2. /\ \A i \in DOMAIN s : i \in DOMAIN t /\ t[i] = s[i]
      /\ Len(s) + 1 \in DOMAIN t
      /\ \A i \in DOMAIN t : i \in DOMAIN s \/ i = Len(s) + 1
  BY <1>1
<1>. HIDE DEF t
<1>3. (\E i \in DOMAIN t : IsCallStart(t[i])) <=> (\E i \in DOMAIN s : IsCallStart(s[i])) \/ IsCallStart(e)
  BY <1>1, <1>2, Zenon
<1>4. (\E i \in DOMAIN t : t[i].type = "message_delta")
      <=> (\E i \in DOMAIN s : s[i].type = "message_delta") \/ e.type = "message_delta"
  BY <1>1, <1>2, Zenon
<1>. QED
  BY <1>3, <1>4, Zenon DEF t, Called, Ended

LEMMA ClaudeLogType ==
    ASSUME NEW w \in ClaudeWriters
    PROVE  /\ ClaudeLog(w) \in Seq(Events) /\ w.log \in Seq(Events) /\ w.out \in Seq(Events)
           /\ w.pending \in Pendings /\ w.block \in Blocks
           /\ FlushLog(w) \in ClaudeWriters /\ FlushLog(w).log = ClaudeLog(w)
           /\ FlushLog(w).pending = NoPending
<1>1. w.log \in Seq(Events) /\ w.out \in Seq(Events) /\ w.pending \in Pendings /\ w.block \in Blocks
  BY DEF ClaudeWriters
<1>2. Event("content_block_delta", w.pending.index, w.pending.kind, w.pending.text) \in Events
  BY <1>1, EventType, NameList DEF Pendings
<1>3. ClaudeLog(w) \in Seq(Events)
  BY <1>1, <1>2, AppendProperties DEF ClaudeLog
<1>4. FlushLog(w).log = ClaudeLog(w) /\ FlushLog(w).pending = NoPending
  BY DEF FlushLog, ClaudeLog, ClaudeWriters
<1>. QED
  BY <1>1, <1>3, <1>4, FlushLogKeeps

\* An event that is not a delta of text is logged after what came before.
LEMMA PlainTells ==
    ASSUME NEW w \in ClaudeWriters, NEW e \in Events, e.kind \notin TextKinds, e.type # "[DONE]"
    PROVE  LET v == EmitPlain(w, e)
           IN  /\ (Called(v.out) <=> Called(w.out) \/ IsCallStart(e))
               /\ (Ended(v.out) <=> Ended(w.out) \/ e.type = "message_delta")
               /\ ClaudeTold(w) => ClaudeTold(v)
<1>. DEFINE v == EmitPlain(w, e)
            f == FlushLog(w)
<1>1. /\ ClaudeLog(w) \in Seq(Events) /\ w.out \in Seq(Events)
      /\ f \in ClaudeWriters /\ f.log = ClaudeLog(w) /\ f.pending = NoPending
  BY ClaudeLogType
<1>2. v = [f EXCEPT !.out = Append(@, e), !.log = Append(@, e)]
  BY DEF EmitPlain
<1>3. v.log = Append(ClaudeLog(w), e) /\ v.pending = NoPending
  <2>. HIDE DEF f, v
  <2>. QED
    BY <1>1, <1>2 DEF ClaudeWriters
<1>4. v.out = Append(w.out, e)
  BY EmitPlainAppends
<1>. HIDE DEF v, f
<1>5. ASSUME ClaudeTold(w) PROVE ClaudeTold(v)
  <2>1. Merged(v.out) = Merging(ClaudeLog(w), e)
    BY <1>1, <1>4, <1>5, MergedAppend DEF ClaudeTold
  <2>2. Merging(ClaudeLog(w), e) = Append(ClaudeLog(w), e)
    BY <1>1, MergingApart
  <2>3. ClaudeLog(v) = v.log
    BY <1>3 DEF ClaudeLog, NoPending
  <2>4. Last(v.log) = e
    BY <1>1, <1>3, AppendProperties, LenProperties DEF Last
  <2>. QED
    BY <1>3, <2>1, <2>2, <2>3, <2>4 DEF ClaudeTold, Parted
<1>. QED
  BY <1>1, <1>4, <1>5, AppendTells DEF v

\* A delta lengthens the entry of the log that is still being merged, or
\* starts one.
LEMMA DeltaTells ==
    ASSUME NEW w \in ClaudeWriters, NEW kind \in {"thinking_delta", "text_delta"},
           NEW text \in Strings, text # <<>>
    PROVE  Carries(EmitDelta(w, kind, text), w)
<1>. DEFINE i == w.block.index
            e == Event("content_block_delta", i, kind, text)
            d == Event("content_block_delta", w.pending.index, w.pending.kind, w.pending.text)
            c == CollectDelta(w, kind, i, text)
            v == EmitDelta(w, kind, text)
            same == w.pending.kind = kind /\ w.pending.index = i
            f == FlushLog(w)
<1>1. /\ ClaudeLog(w) \in Seq(Events) /\ w.log \in Seq(Events) /\ w.out \in Seq(Events)
      /\ w.pending \in Pendings /\ i \in Nat
      /\ f \in ClaudeWriters /\ f.log = ClaudeLog(w) /\ f.pending = NoPending
  BY ClaudeLogType DEF Blocks
<1>2. kind \in Names /\ kind \in TextKinds
  BY NameList DEF TextKinds
<1>3. e \in Events /\ e.kind = kind /\ e.index = i /\ e.text = text /\ e.type = "content_block_delta"
  BY <1>1, <1>2, EventType, NameList DEF Event
<1>4. d \in Events /\ d.kind = w.pending.kind /\ d.index = w.pending.index /\ d.text = w.pending.text
  BY <1>1, EventType, NameList DEF Pendings, Event
<1>5. v.out = Append(w.out, e)
  BY <1>2, EmitDeltaAppends
<1>6. /\ same => c = [w EXCEPT !.pending = [index |-> i, kind |-> kind, text |-> w.pending.text \o text]]
      /\ ~same => c = [f EXCEPT !.pending = [index |-> i, kind |-> kind, text |-> <<>> \o text]]
  BY DEF CollectDelta
<1>7. w.pending.text \in Strings /\ <<>> \o text = text
  <2>1. \A t \in Seq(Symbols) : <<>> \o t = t
    OBVIOUS
  <2>. QED
    BY <1>1, <2>1 DEF Pendings, Strings
<1>8. /\ same => c.log = w.log /\ c.pending = [index |-> i, kind |-> kind, text |-> w.pending.text \o text]
      /\ ~same => c.log = ClaudeLog(w) /\ c.pending = [index |-> i, kind |-> kind, text |-> text]
      /\ c = [c EXCEPT !.out = @]
  <2>. HIDE DEF c, f, i, same
  <2>. QED
    BY <1>1, <1>6, <1>7, ZenonT(60) DEF ClaudeWriters
<1>9. v.log = c.log /\ v.pending = c.pending
  <2>1. v = [c EXCEPT !.out = Append(@, e)]
    BY DEF EmitDelta
  <2>2. c \in ClaudeWriters \/ DOMAIN c = DOMAIN w
    <3>. HIDE DEF c, f, i, same
    <3>. QED
      BY <1>1, <1>6 DEF ClaudeWriters
  <2>. HIDE DEF c, v, e
  <2>. QED
    BY <2>1, <2>2 DEF ClaudeWriters
<1>10. w.pending.text \o text # <<>>
  <2>1. \A s, t \in Seq(Symbols) : t # <<>> => s \o t # <<>>
    BY ConcatProperties, LenProperties, EmptySeq
  <2>. QED
    BY <1>7, <2>1 DEF Strings
<1>. HIDE DEF c, v, f, e, d
<1>11. ASSUME ClaudeTold(w) PROVE ClaudeTold(v)
  <2>1. Merged(v.out) = Merging(ClaudeLog(w), e)
    BY <1>1, <1>3, <1>5, <1>11, MergedAppend DEF ClaudeTold
  <2>2. CASE same /\ w.pending.text # <<>>
    <3>1. ClaudeLog(w) = Append(w.log, d)
      BY <2>2 DEF ClaudeLog, d
    <3>2. d = Event("content_block_delta", i, kind, w.pending.text)
      BY <2>2 DEF d
    <3>3. Merging(Append(w.log, d), e)
            = Append(w.log, Event("content_block_delta", i, kind, w.pending.text \o text))
      <4>1. "content_block_delta" \in Names /\ kind \in Names \cap TextKinds
        BY <1>2, NameList
      <4>. DEFINE l == w.log
                  t == w.pending.text
      <4>2. l \in Seq(Events) /\ t \in Strings /\ i \in Nat /\ e \in Events /\ e.kind = kind /\ e.index = i
        BY <1>1, <1>3, <1>7
      <4>. HIDE DEF i, l, t
      <4>3. Merging(Append(l, Event("content_block_delta", i, kind, t)), e)
              = Append(l, Event("content_block_delta", i, kind, t \o e.text))
        BY <4>1, <4>2, DeltaJoins
      <4>. USE DEF l, t
      <4>. QED
        BY <1>3, <3>2, <4>3
    <3>4. ClaudeLog(v) = Append(w.log, Event("content_block_delta", i, kind, w.pending.text \o text))
      <4>1. /\ v.log = w.log
            /\ v.pending = [index |-> i, kind |-> kind, text |-> w.pending.text \o text]
        BY <1>8, <1>9, <2>2
      <4>2. v.pending.index = i /\ v.pending.kind = kind /\ v.pending.text = w.pending.text \o text
        BY <4>1
      <4>. QED
        BY <1>10, <4>1, <4>2 DEF ClaudeLog
    <3>. QED
      BY <1>8, <1>9, <1>10, <2>1, <2>2, <3>1, <3>2, <3>3, <3>4 DEF ClaudeTold, Parted
  <2>3. CASE w.pending.text = <<>>
    <3>1. ClaudeLog(w) = w.log
      BY <2>3 DEF ClaudeLog
    <3>2. Merging(w.log, e) = Append(w.log, e)
      BY <1>1, <1>2, <1>3, <1>11, <2>3, MergingApart DEF ClaudeTold, Parted
    <3>3. v.log = w.log /\ v.pending = [index |-> i, kind |-> kind, text |-> text]
      BY <1>7, <1>8, <1>9, <2>3, <3>1
    <3>4. ClaudeLog(v) = Append(w.log, e) /\ Parted(v)
      BY <3>3 DEF ClaudeLog, Parted, e
    <3>. QED
      BY <2>1, <3>1, <3>2, <3>4 DEF ClaudeTold
  <2>4. CASE ~same /\ w.pending.text # <<>>
    <3>1. ClaudeLog(w) = Append(w.log, d)
      BY <2>4 DEF ClaudeLog, d
    <3>2. Last(ClaudeLog(w)) = d
      BY <1>1, <1>4, <3>1, AppendProperties, LenProperties DEF Last
    <3>3. Merging(ClaudeLog(w), e) = Append(ClaudeLog(w), e)
      BY <1>1, <1>3, <1>4, <2>4, <3>2, MergingApart
    <3>4. v.log = ClaudeLog(w) /\ v.pending = [index |-> i, kind |-> kind, text |-> text]
      BY <1>8, <1>9, <2>4
    <3>5. ClaudeLog(v) = Append(ClaudeLog(w), e) /\ Parted(v)
      BY <3>4 DEF ClaudeLog, Parted, e
    <3>. QED
      BY <2>1, <3>3, <3>5 DEF ClaudeTold
  <2>. QED
    BY <2>2, <2>3, <2>4
<1>12. (Called(v.out) <=> Called(w.out)) /\ (Ended(v.out) <=> Ended(w.out))
  <2>1. ~IsCallStart(e) /\ e.type # "message_delta"
    BY <1>3 DEF IsCallStart
  <2>. QED
    BY <1>1, <1>3, <1>5, <2>1, AppendTells
<1>. QED
  BY <1>11, <1>12 DEF Carries, v

\* The methods of the Claude writer.
LEMMA QuietPlain ==
    ASSUME NEW w \in ClaudeWriters, NEW e \in Events, e.kind \notin TextKinds,
           e.type \notin {"[DONE]", "message_delta"}, ~IsCallStart(e)
    PROVE  Carries(EmitPlain(w, e), w)
  BY PlainTells DEF Carries

LEMMA CloseBlockTells ==
    ASSUME NEW w \in ClaudeWriters
    PROVE  Carries(CloseBlock(w), w)
<1>1. CASE w.block.kind = "none"
  BY <1>1, CarriesKept DEF CloseBlock
<1>2. CASE w.block.kind # "none"
  <2>. DEFINE e == Event("content_block_stop", w.block.index, "none", <<>>)
              u == EmitPlain(w, e)
              v == CloseBlock(w)
  <2>1. w.block.index \in Nat
    BY DEF ClaudeWriters, Blocks
  <2>2. e \in Events
    BY <2>1, EventType, NameList, TextsAreStrings
  <2>3. e.kind \notin TextKinds /\ e.type \notin {"[DONE]", "message_delta"} /\ ~IsCallStart(e)
    BY DEF Event, TextKinds, IsCallStart
  <2>4. v = [u EXCEPT !.block = NoBlock]
    BY <1>2 DEF CloseBlock
  <2>. HIDE DEF e, v
  <2>5. Carries(u, w) /\ u \in ClaudeWriters
    BY <2>2, <2>3, QuietPlain, EmitPlainAppends
  <2>. HIDE DEF u
  <2>6. Carries(v, u)
    BY <2>4, <2>5, CarriesKept DEF ClaudeWriters
  <2>. QED
    BY <2>5, <2>6, CarriesTransitive DEF v
<1>. QED
  BY <1>1, <1>2

LEMMA OpenBlockTells ==
    ASSUME NEW w \in ClaudeWriters, NEW kind \in {"thinking", "text"}
    PROVE  Carries(OpenBlock(w, kind), w)
<1>. DEFINE e == Event("content_block_start", w.next_index, kind, <<>>)
            u == EmitPlain(w, e)
            v == OpenBlock(w, kind)
<1>1. w.next_index \in Nat
  BY DEF ClaudeWriters
<1>2. e \in Events
  BY <1>1, EventType, NameList, TextsAreStrings
<1>3. e.kind \notin TextKinds /\ e.type \notin {"[DONE]", "message_delta"} /\ ~IsCallStart(e)
  BY DEF Event, TextKinds, IsCallStart
<1>4. v = [u EXCEPT !.next_index = @ + 1,
                    !.block = [index |-> w.next_index, kind |-> kind],
                    !.thought = IF kind = "thinking" THEN <<>> ELSE @,
                    !.emitted = IF kind = "thinking" THEN FALSE ELSE @]
  BY DEF OpenBlock
<1>. HIDE DEF e, v
<1>5. Carries(u, w) /\ u \in ClaudeWriters
  BY <1>2, <1>3, QuietPlain, EmitPlainAppends
<1>. HIDE DEF u
<1>6. v.out = u.out /\ v.log = u.log /\ v.pending = u.pending
  BY <1>4, <1>5 DEF ClaudeWriters
<1>7. Carries(v, u)
  BY <1>6, CarriesKept
<1>. QED
  BY <1>5, <1>7, CarriesTransitive DEF v

LEMMA FlushSignatureTells ==
    ASSUME NEW w \in ClaudeWriters
    PROVE  Carries(FlushSignature(w), w)
<1>1. CASE ~(w.block.kind = "thinking" /\ w.signing /\ w.sig # None /\ ~w.emitted)
  BY <1>1, CarriesKept DEF FlushSignature
<1>2. CASE w.block.kind = "thinking" /\ w.signing /\ w.sig # None /\ ~w.emitted
  <2>. DEFINE u == EmitThinkingDelta(w, MissingThought)
              v == IF Trimmed(w.thought) THEN [u EXCEPT !.thought = @ \o MissingThought] ELSE w
              e == Event("content_block_delta", w.block.index, "signature_delta", <<w.sig>>)
              x == EmitPlain(v, e)
              z == [x EXCEPT !.emitted = TRUE]
  <2>1. FlushSignature(w) = z
    BY <1>2 DEF FlushSignature
  <2>2. v \in ClaudeWriters /\ Carries(v, w)
    <3>1. "thinking_delta" \in Names /\ MissingThought \in Strings /\ MissingThought # <<>>
      BY NameList, TextsAreStrings DEF MissingThought
    <3>2. u \in ClaudeWriters /\ Carries(u, w)
      BY <3>1, EmitDeltaAppends, DeltaTells DEF EmitThinkingDelta
    <3>. HIDE DEF u
    <3>3. u.thought \o MissingThought \in Strings
      BY <3>1, <3>2, TextsAreStrings DEF ClaudeWriters
    <3>. DEFINE y == [u EXCEPT !.thought = @ \o MissingThought]
    <3>4. y \in ClaudeWriters /\ y.out = u.out /\ y.log = u.log /\ y.pending = u.pending
      BY <3>2, <3>3 DEF ClaudeWriters
    <3>. HIDE DEF y
    <3>5. Carries(y, w)
      BY <3>2, <3>4, CarriesKept, CarriesTransitive
    <3>6. Carries(w, w)
      BY CarriesKept
    <3>. QED
      BY <3>4, <3>5, <3>6 DEF y
  <2>. HIDE DEF v
  <2>3. w.sig \in Sigs /\ w.block.index \in Nat
    BY <1>2 DEF ClaudeWriters, Blocks
  <2>4. e \in Events
    BY <2>3, EventType, NameList, TextsAreStrings
  <2>5. e.kind \notin TextKinds /\ e.type \notin {"[DONE]", "message_delta"} /\ ~IsCallStart(e)
    BY DEF Event, TextKinds, IsCallStart
  <2>. HIDE DEF e
  <2>6. x \in ClaudeWriters /\ Carries(x, v)
    BY <2>2, <2>4, <2>5, QuietPlain, EmitPlainAppends
  <2>. HIDE DEF x
  <2>7. Carries(z, x)
    <3>1. z.out = x.out /\ z.log = x.log /\ z.pending = x.pending
      BY <2>6 DEF ClaudeWriters
    <3>. QED
      BY <3>1, CarriesKept
  <2>. HIDE DEF z
  <2>. QED
    BY <2>1, <2>2, <2>6, <2>7, CarriesTransitive
<1>. QED
  BY <1>1, <1>2

\* A tool call is the one method that adds a call.
LEMMA EmitToolUseTells ==
    ASSUME NEW w \in ClaudeWriters, NEW call \in Calls, NEW sig
    PROVE  LET v == EmitToolUse(w, call, sig)
           IN  /\ Called(v.out)
               /\ Ended(v.out) <=> Ended(w.out)
               /\ ClaudeTold(w) => ClaudeTold(v)
<1>. DEFINE i == w.next_index
            e1 == Event("content_block_start", i, "tool_use", <<call>>)
            e2 == Event("content_block_delta", i, "input_json_delta", <<call>>)
            e3 == Event("content_block_stop", i, "none", <<>>)
            u1 == EmitPlain(w, e1)
            u2 == EmitPlain(u1, e2)
            u3 == EmitPlain(u2, e3)
            v == EmitToolUse(w, call, sig)
<1>1. i \in Nat /\ <<call>> \in Strings /\ <<>> \in Strings
  BY TextsAreStrings DEF ClaudeWriters
<1>2. e1 \in Events /\ e2 \in Events /\ e3 \in Events
  BY <1>1, EventType, NameList
<1>3. /\ e1.kind \notin TextKinds /\ e1.type \notin {"[DONE]", "message_delta"} /\ IsCallStart(e1)
      /\ e2.kind \notin TextKinds /\ e2.type \notin {"[DONE]", "message_delta"} /\ ~IsCallStart(e2)
      /\ e3.kind \notin TextKinds /\ e3.type \notin {"[DONE]", "message_delta"} /\ ~IsCallStart(e3)
  BY DEF Event, TextKinds, IsCallStart
<1>4. v.out = u3.out /\ v.log = u3.log /\ v.pending = u3.pending
  <2>. DEFINE bound == IF sig # None THEN sig ELSE IF w.signing THEN w.sig ELSE None
              n == i + 1
              g == IF sig = None /\ w.signing THEN None ELSE u3.sig
              t == IF bound = None THEN u3.saves
                   ELSE Append(u3.saves, SignatureSave(call, FALSE, bound, Reasoning(w)))
  <2>1. v = [u3 EXCEPT !.next_index = n, !.sig = g, !.saves = t]
    BY DEF EmitToolUse
  <2>2. u3 \in ClaudeWriters
    <3>1. u1 \in ClaudeWriters
      BY <1>2, EmitPlainAppends
    <3>. HIDE DEF u1, e1, e2, e3
    <3>2. u2 \in ClaudeWriters
      BY <1>2, <3>1, EmitPlainAppends
    <3>. HIDE DEF u2
    <3>. QED
      BY <1>2, <3>2, EmitPlainAppends
  <2>. HIDE DEF u3, v, g, t, n
  <2>. QED
    BY <2>1, <2>2 DEF ClaudeWriters
<1>. HIDE DEF e1, e2, e3, v
<1>5. /\ u1 \in ClaudeWriters /\ Called(u1.out) /\ (Ended(u1.out) <=> Ended(w.out))
      /\ ClaudeTold(w) => ClaudeTold(u1)
  BY <1>2, <1>3, PlainTells, EmitPlainAppends
<1>. HIDE DEF u1
<1>6. u2 \in ClaudeWriters /\ Carries(u2, u1)
  BY <1>2, <1>3, <1>5, QuietPlain, EmitPlainAppends
<1>. HIDE DEF u2
<1>7. u3 \in ClaudeWriters /\ Carries(u3, u2)
  BY <1>2, <1>3, <1>6, QuietPlain, EmitPlainAppends
<1>. HIDE DEF u3
<1>8. Carries(v, u3)
  BY <1>4, CarriesKept
<1>9. Carries(v, u1)
  BY <1>6, <1>7, <1>8, CarriesTransitive
<1>. QED
  BY <1>5, <1>9 DEF Carries, v

\* The part starts a tool call.
Calling(p) == ~p.thought /\ p.text = <<>> /\ p.image = None /\ p.call # None

LEMMA StartTells ==
    ASSUME NEW w \in ClaudeWriters
    PROVE  Carries(Start(w), w)
<1>1. CASE w.started
  BY <1>1, CarriesKept DEF Start
<1>2. CASE ~w.started
  <2>. DEFINE e == Event("message_start", 0, "none", <<>>)
              u == EmitPlain(w, e)
              v == Start(w)
  <2>1. e \in Events
    BY EventType, NameList, TextsAreStrings
  <2>2. e.kind \notin TextKinds /\ e.type \notin {"[DONE]", "message_delta"} /\ ~IsCallStart(e)
    BY DEF Event, TextKinds, IsCallStart
  <2>3. v = [u EXCEPT !.started = TRUE]
    BY <1>2 DEF Start
  <2>. HIDE DEF e, v
  <2>4. Carries(u, w) /\ u \in ClaudeWriters
    BY <2>1, <2>2, QuietPlain, EmitPlainAppends
  <2>. HIDE DEF u
  <2>5. Carries(v, u)
    BY <2>3, <2>4, CarriesKept DEF ClaudeWriters
  <2>. QED
    BY <2>4, <2>5, CarriesTransitive DEF v
<1>. QED
  BY <1>1, <1>2

LEMMA HoldSignatureTells ==
    ASSUME NEW w \in ClaudeWriters, NEW p \in Part
    PROVE  Carries(HoldSignature(w, p), w)
<1>. DEFINE v == HoldSignature(w, p)
<1>1. v.out = w.out /\ v.log = w.log /\ v.pending = w.pending
  BY DEF HoldSignature, ClaudeWriters
<1>. QED
  BY <1>1, CarriesKept

LEMMA ThoughtPartTells ==
    ASSUME NEW w, Running(w), NEW p \in Part
    PROVE  Carries(ThoughtPart(w, p), w)
<1>. DEFINE c == CloseBlock(w)
            o == OpenBlock(c, "thinking")
            v == IF w.block.kind = "thinking" THEN w ELSE o
            x == EmitThinkingDelta(v, p.text)
            y == [x EXCEPT !.thought = @ \o p.text]
<1>1. v \in ClaudeWriters /\ Carries(v, w)
  <2>1. w \in ClaudeWriters /\ Carries(w, w) /\ Closable(w)
    BY CarriesKept, RunningTypes
  <2>2. Running(c) /\ c.block.kind = "none" /\ Carries(c, w)
    BY <2>1, CloseBlockStands, CloseBlockTells
  <2>. HIDE DEF c
  <2>3. c \in ClaudeWriters /\ o \in ClaudeWriters /\ Carries(o, c)
    BY <2>2, RunningTypes, OpenBlockStands, OpenBlockTells
  <2>. HIDE DEF o
  <2>. QED
    BY <2>1, <2>2, <2>3, CarriesTransitive
<1>2. ThoughtPart(w, p) = IF p.text = <<>> THEN v ELSE y
  BY DEF ThoughtPart
<1>. HIDE DEF v
<1>3. CASE p.text = <<>>
  BY <1>1, <1>2, <1>3
<1>4. CASE p.text # <<>>
  <2>1. p.text \in Strings /\ "thinking_delta" \in Names
    BY TextsAreStrings, NameList DEF Part, Texts
  <2>2. x \in ClaudeWriters /\ Carries(x, v)
    BY <1>1, <1>4, <2>1, EmitDeltaAppends, DeltaTells DEF EmitThinkingDelta
  <2>. HIDE DEF x
  <2>3. y.out = x.out /\ y.log = x.log /\ y.pending = x.pending
    BY <2>2 DEF ClaudeWriters
  <2>. HIDE DEF y
  <2>. QED
    BY <1>1, <1>2, <1>4, <2>2, <2>3, CarriesKept, CarriesTransitive
<1>. QED
  BY <1>3, <1>4

LEMMA TextTells ==
    ASSUME NEW w, Running(w), NEW text \in Strings, text # <<>>
    PROVE  Carries(EmitTextDelta(IntoTextBlock(w), text), w)
<1>. DEFINE f == FlushSignature(w)
            c == CloseBlock(f)
            o == OpenBlock(c, "text")
            t == IntoTextBlock(w)
            v == EmitTextDelta(t, text)
<1>1. w \in ClaudeWriters /\ Carries(w, w)
  BY CarriesKept, RunningTypes
<1>2. Closable(f) /\ f \in ClaudeWriters /\ Carries(f, w)
  BY <1>1, FlushSignatureClosable, FlushSignatureTells DEF Closable, Sound
<1>3. t = IF w.block.kind = "text" THEN w ELSE o
  BY DEF IntoTextBlock
<1>. HIDE DEF f
<1>4. Running(c) /\ c.block.kind = "none" /\ c \in ClaudeWriters /\ Carries(c, f)
  BY <1>2, CloseBlockStands, CloseBlockTells, RunningTypes
<1>. HIDE DEF c
<1>5. o \in ClaudeWriters /\ Carries(o, c)
  BY <1>4, RunningTypes, OpenBlockStands, OpenBlockTells
<1>. HIDE DEF o, t
<1>6. t \in ClaudeWriters /\ Carries(t, w)
  <2>1. Carries(o, w)
    BY <1>2, <1>4, <1>5, CarriesTransitive
  <2>. QED
    BY <1>1, <1>3, <1>5, <2>1
<1>7. Carries(v, t)
  BY <1>6, DeltaTells DEF EmitTextDelta
<1>. QED
  BY <1>6, <1>7, CarriesTransitive DEF t

LEMMA ImagePartTells ==
    ASSUME NEW w, Running(w), NEW p \in Part, p.image # None
    PROVE  Carries(ImagePart(w, p), w)
<1>. DEFINE v == EmitTextDelta(IntoTextBlock(w), <<p.image>>)
            s == Append(v.saves, SignatureSave(p.image, TRUE, p.sig, Reasoning(IntoTextBlock(w))))
            u == [v EXCEPT !.saves = s]
<1>1. p.image \in Images
  BY DEF Part
<1>2. <<p.image>> \in Strings /\ <<p.image>> # <<>>
  BY <1>1, TextsAreStrings
<1>3. Carries(v, w) /\ v \in ClaudeWriters
  BY <1>2, TextTells, TextStands, RunningTypes
<1>4. ImagePart(w, p) = IF p.sig = None THEN v ELSE u
  BY DEF ImagePart
<1>. HIDE DEF v, s
<1>5. Carries(u, v)
  BY <1>3, CarriesKept DEF ClaudeWriters
<1>. QED
  BY <1>3, <1>4, <1>5, CarriesTransitive

LEMMA ToolPartTells ==
    ASSUME NEW w, Running(w), NEW p \in Part, p.call # None
    PROVE  LET v == ToolPart(w, p)
           IN  /\ Called(v.out)
               /\ Ended(v.out) <=> Ended(w.out)
               /\ ClaudeTold(w) => ClaudeTold(v)
<1>. DEFINE c == CloseBlock(w)
            v == EmitToolUse(c, p.call, p.sig)
<1>1. c \in ClaudeWriters /\ Carries(c, w) /\ p.call \in Calls
  BY RunningTypes, CloseBlockStands, CloseBlockTells DEF Part
<1>. HIDE DEF c
<1>2. Called(v.out) /\ (Ended(v.out) <=> Ended(c.out)) /\ (ClaudeTold(c) => ClaudeTold(v))
  BY <1>1, EmitToolUseTells
<1>. HIDE DEF v
<1>3. Called(v.out) /\ (Ended(v.out) <=> Ended(w.out)) /\ (ClaudeTold(w) => ClaudeTold(v))
  BY <1>1, <1>2, Zenon DEF Carries
<1>. QED
  BY <1>3 DEF ToolPart, c, v

\* A part adds a call if it starts one, never the end, and is logged.
LEMMA ClaudePartTells ==
    ASSUME NEW w, ClaudeStands(w), NEW p \in Part
    PROVE  LET y == ClaudePart(w, p)
           IN  /\ Called(y.out) <=> Called(w.out) \/ Calling(p)
               /\ Ended(y.out) <=> Ended(w.out)
               /\ ClaudeTold(w) => ClaudeTold(y)
<1>. DEFINE s == Start(w)
            v == HoldSignature(s, p)
            y == ClaudePart(w, p)
<1>1. Running(s) /\ Carries(s, w)
  BY StartStands, StartTells DEF ClaudeStands, Fresh, Running, Sound
<1>2. y = IF p.thought THEN ThoughtPart(v, p)
          ELSE IF p.text # <<>> THEN TextPart(v, p)
          ELSE IF p.image # None THEN ImagePart(v, p)
          ELSE IF p.call # None THEN ToolPart(v, p)
          ELSE v
  BY DEF ClaudePart
<1>. HIDE DEF s
<1>3. Running(v) /\ v \in ClaudeWriters /\ Carries(v, s)
  BY <1>1, HoldSignatureStands, HoldSignatureTells, RunningTypes
<1>4. Carries(v, w)
  BY <1>1, <1>3, CarriesTransitive
<1>. HIDE DEF v, y
<1>5. p.text \in Strings
  BY TextsAreStrings DEF Part, Texts
<1>6. CASE Calling(p)
  <2>1. y = ToolPart(v, p) /\ p.call # None
    BY <1>2, <1>6 DEF Calling
  <2>2. Called(y.out) /\ (Ended(y.out) <=> Ended(v.out)) /\ (ClaudeTold(v) => ClaudeTold(y))
    BY <1>3, <2>1, ToolPartTells
  <2>3. Called(y.out) /\ (Ended(y.out) <=> Ended(w.out)) /\ (ClaudeTold(w) => ClaudeTold(y))
    BY <1>4, <2>2, Zenon DEF Carries
  <2>. QED
    BY <1>6, <2>3 DEF y
<1>7. CASE ~Calling(p)
  <2>1. Carries(y, v)
    <3>1. CASE p.thought
      BY <1>2, <1>3, <3>1, ThoughtPartTells
    <3>2. CASE ~p.thought /\ p.text # <<>>
      BY <1>2, <1>3, <1>5, <3>2, TextTells DEF TextPart
    <3>3. CASE ~p.thought /\ p.text = <<>> /\ p.image # None
      BY <1>2, <1>3, <3>3, ImagePartTells
    <3>4. CASE ~p.thought /\ p.text = <<>> /\ p.image = None
      <4>1. y = v
        BY <1>2, <1>7, <3>4 DEF Calling
      <4>. QED
        BY <4>1, CarriesKept
    <3>. QED
      BY <3>1, <3>2, <3>3, <3>4
  <2>2. Carries(y, w)
    BY <1>4, <2>1, CarriesTransitive
  <2>3. /\ Called(y.out) <=> Called(w.out)
        /\ Ended(y.out) <=> Ended(w.out)
        /\ ClaudeTold(w) => ClaudeTold(y)
    BY <2>2, Zenon DEF Carries
  <2>. QED
    BY <1>7, <2>3 DEF y
<1>. QED
  BY <1>6, <1>7

\* finish adds one end, with the reason given, and no call.
LEMMA ClaudeFinishTells ==
    ASSUME NEW w, ClaudeStands(w), NEW reason \in {"tool_use", "end_turn"}
    PROVE  LET v == ClaudeFinish(w, reason)
           IN  /\ Called(v.out) <=> Called(w.out)
               /\ ClaudeTold(w) => ClaudeTold(v)
               /\ ~Ended(w.out) => \A i \in DOMAIN v.out :
                                      v.out[i].type = "message_delta" => v.out[i].kind = reason
<1>. DEFINE f == FlushSignature(w)
            c == CloseBlock(f)
            e1 == Event("message_delta", 0, reason, <<>>)
            e2 == Event("message_stop", 0, "none", <<>>)
            u == EmitPlain(c, e1)
            v == EmitPlain(u, e2)
<1>1. c \in ClaudeWriters /\ Carries(c, w)
  <2>1. w \in ClaudeWriters
    BY DEF ClaudeStands, Fresh, Running, Sound
  <2>2. Carries(f, w)
    BY <2>1, FlushSignatureTells
  <2>3. f \in ClaudeWriters /\ c \in ClaudeWriters
    <3>1. CASE Running(w)
      <4>1. Closable(f)
        BY <3>1, FlushSignatureClosable
      <4>. HIDE DEF f
      <4>2. Running(c)
        BY <4>1, CloseBlockStands
      <4>. QED
        BY <4>1, <4>2 DEF Closable, Running, Sound
    <3>2. CASE Fresh(w)
      <4>1. f = w /\ c = w
        BY <3>2 DEF Fresh, FlushSignature, CloseBlock
      <4>. QED
        BY <2>1, <4>1
    <3>. QED
      BY <3>1, <3>2 DEF ClaudeStands
  <2>. HIDE DEF f
  <2>4. Carries(c, f)
    BY <2>3, CloseBlockTells
  <2>. QED
    BY <2>2, <2>3, <2>4, CarriesTransitive
<1>2. e1 \in Events /\ e2 \in Events
  BY EventType, NameList, TextsAreStrings
<1>3. /\ e1.kind \notin TextKinds /\ e1.type = "message_delta" /\ e1.kind = reason /\ ~IsCallStart(e1)
      /\ e2.kind \notin TextKinds /\ e2.type \notin {"[DONE]", "message_delta"} /\ ~IsCallStart(e2)
  BY DEF Event, TextKinds, IsCallStart
<1>4. ClaudeFinish(w, reason) = v
  BY DEF ClaudeFinish
<1>. HIDE DEF f, c, e1, e2
<1>5. /\ u \in ClaudeWriters /\ u.out = Append(c.out, e1)
      /\ (Called(u.out) <=> Called(c.out)) /\ (ClaudeTold(c) => ClaudeTold(u))
  BY <1>1, <1>2, <1>3, PlainTells, EmitPlainAppends
<1>. HIDE DEF u
<1>6. v.out = Append(u.out, e2) /\ Carries(v, u)
  BY <1>2, <1>3, <1>5, QuietPlain, EmitPlainAppends
<1>. HIDE DEF v
<1>7. (Called(v.out) <=> Called(w.out)) /\ (ClaudeTold(w) => ClaudeTold(v))
  BY <1>1, <1>5, <1>6, Zenon DEF Carries
<1>8. ASSUME ~Ended(w.out), NEW i \in DOMAIN v.out, v.out[i].type = "message_delta"
      PROVE  v.out[i].kind = reason
  <2>1. ~Ended(c.out)
    BY <1>1, <1>8, Zenon DEF Carries
  <2>2. /\ c.out \in Seq(Events) /\ u.out \in Seq(Events) /\ Len(c.out) \in Nat
        /\ Len(u.out) = Len(c.out) + 1 /\ Len(v.out) = Len(c.out) + 2
        /\ \A k \in 1..Len(c.out) : v.out[k] = c.out[k]
        /\ v.out[Len(c.out) + 1] = e1 /\ v.out[Len(c.out) + 2] = e2
    <3>1. c.out \in Seq(Events) /\ u.out \in Seq(Events) /\ Len(c.out) \in Nat
      BY <1>1, <1>5, LenProperties DEF ClaudeWriters
    <3>2. /\ Len(u.out) = Len(c.out) + 1 /\ u.out[Len(c.out) + 1] = e1
          /\ \A k \in 1..Len(c.out) : u.out[k] = c.out[k]
      BY <1>2, <1>5, <3>1, AppendProperties
    <3>3. /\ Len(v.out) = Len(u.out) + 1 /\ v.out[Len(u.out) + 1] = e2
          /\ \A k \in 1..Len(u.out) : v.out[k] = u.out[k]
      BY <1>2, <1>6, <3>1, AppendProperties
    <3>. QED
      BY <3>1, <3>2, <3>3
  <2>3. v.out \in Seq(Events)
    BY <1>2, <1>6, <2>2, AppendProperties
  <2>4. i \in 1..Len(c.out) + 2
    BY <1>8, <2>2, <2>3, LenProperties
  <2>5. CASE i \in 1..Len(c.out)
    <3>1. i \in DOMAIN c.out /\ c.out[i].type = "message_delta"
      BY <1>8, <2>2, <2>5, LenProperties
    <3>. QED
      BY <2>1, <3>1 DEF Ended
  <2>6. CASE i = Len(c.out) + 1
    BY <1>3, <2>2, <2>6
  <2>7. CASE i = Len(c.out) + 2
    BY <1>3, <1>8, <2>2, <2>7
  <2>. QED
    BY <2>2, <2>4, <2>5, <2>6, <2>7
<1>. QED
  BY <1>4, <1>7, <1>8 DEF v

-----------------------------------------------------------------------------
(* What the OpenAI writer's log tells. *)

ChatLog(w) ==
    IF w.pending.text = <<>> THEN w.log
    ELSE Append(w.log, ChatEvent(w.pending.kind, w.pending.text))

ChatTold(w) == ChatLog(w) = Merged(w.out) /\ Parted(w)

LEMMA ChatToldKept ==
    ASSUME NEW v, NEW w, v.out = w.out, v.log = w.log, v.pending = w.pending
    PROVE  ChatTold(v) <=> ChatTold(w)
<1>1. ChatLog(v) = ChatLog(w) /\ Parted(v) = Parted(w)
  BY DEF ChatLog, Parted
<1>. QED
  BY <1>1 DEF ChatTold

LEMMA ChatLogType ==
    ASSUME NEW w \in ChatWriters
    PROVE  /\ ChatLog(w) \in Seq(Events) /\ w.log \in Seq(Events) /\ w.out \in Seq(Events)
           /\ w.pending \in Pendings
           /\ FlushChatLog(w) \in ChatWriters /\ FlushChatLog(w).log = ChatLog(w)
           /\ FlushChatLog(w).pending.text = <<>>
<1>1. w.log \in Seq(Events) /\ w.out \in Seq(Events) /\ w.pending \in Pendings
  BY DEF ChatWriters
<1>2. ChatEvent(w.pending.kind, w.pending.text) \in Events
  BY <1>1, EventType DEF Pendings, ChatEvent
<1>3. ChatLog(w) \in Seq(Events)
  BY <1>1, <1>2, AppendProperties DEF ChatLog
<1>4. FlushChatLog(w).log = ChatLog(w) /\ FlushChatLog(w).pending.text = <<>>
  BY DEF FlushChatLog, ChatLog, ChatWriters, NoPending
<1>. QED
  BY <1>1, <1>3, <1>4, FlushChatLogKeeps

LEMMA PlainChunkTells ==
    ASSUME NEW w \in ChatWriters, ChatTold(w), NEW e \in Events, e.kind \notin TextKinds,
           e.type \notin {"content", "reasoning", "[DONE]"}
    PROVE  ChatTold(WriteChunk(w, e)) /\ WriteChunk(w, e).pending.text = <<>>
<1>. DEFINE v == WriteChunk(w, e)
            f == FlushChatLog(w)
<1>1. /\ ChatLog(w) \in Seq(Events) /\ w.out \in Seq(Events)
      /\ f \in ChatWriters /\ f.log = ChatLog(w) /\ f.pending.text = <<>>
  BY ChatLogType
<1>2. v = [[f EXCEPT !.log = Append(@, e)] EXCEPT !.out = Append(@, e)]
  BY DEF WriteChunk, CollectChunk
<1>3. v.log = Append(ChatLog(w), e) /\ v.pending = f.pending
  <2>. HIDE DEF f, v
  <2>. QED
    BY <1>1, <1>2 DEF ChatWriters
<1>4. v.out = Append(w.out, e)
  BY WriteChunkAppends
<1>. HIDE DEF v, f
<1>5. Merged(v.out) = Merging(ChatLog(w), e)
  BY <1>1, <1>4, MergedAppend DEF ChatTold
<1>6. Merging(ChatLog(w), e) = Append(ChatLog(w), e)
  BY <1>1, MergingApart
<1>7. ChatLog(v) = v.log
  BY <1>1, <1>3 DEF ChatLog
<1>8. Last(v.log) = e
  BY <1>1, <1>3, AppendProperties, LenProperties DEF Last
<1>. QED
  BY <1>1, <1>3, <1>5, <1>6, <1>7, <1>8 DEF ChatTold, Parted, v

LEMMA TextChunkTells ==
    ASSUME NEW w \in ChatWriters, ChatTold(w), NEW kind \in {"content", "reasoning"},
           NEW text \in Strings, text # <<>>
    PROVE  ChatTold(WriteChunk(w, ChatEvent(kind, text)))
<1>. DEFINE e == ChatEvent(kind, text)
            d == ChatEvent(w.pending.kind, w.pending.text)
            c == CollectChunk(w, e)
            v == WriteChunk(w, e)
            same == w.pending.kind = kind
            f == FlushChatLog(w)
<1>1. /\ ChatLog(w) \in Seq(Events) /\ w.log \in Seq(Events) /\ w.out \in Seq(Events)
      /\ w.pending \in Pendings
      /\ f \in ChatWriters /\ f.log = ChatLog(w)
  BY ChatLogType
<1>2. kind \in Names /\ kind \in TextKinds /\ kind \in Names \cap TextKinds
  BY NameList DEF TextKinds
<1>3. e \in Events /\ e.kind = kind /\ e.index = 0 /\ e.text = text /\ e.type = kind
  BY <1>2, EventType DEF ChatEvent, Event
<1>4. d \in Events /\ d.kind = w.pending.kind
  BY <1>1, EventType DEF Pendings, ChatEvent, Event
<1>5. v.out = Append(w.out, e)
  BY <1>3, WriteChunkAppends
<1>. HIDE DEF e
<1>6. /\ same => c = [w EXCEPT !.pending = [index |-> 0, kind |-> kind, text |-> w.pending.text \o text]]
      /\ ~same => c = [f EXCEPT !.pending = [index |-> 0, kind |-> kind, text |-> <<>> \o text]]
  BY <1>3 DEF CollectChunk
<1>7. w.pending.text \in Strings /\ <<>> \o text = text
  <2>1. \A t \in Seq(Symbols) : <<>> \o t = t
    OBVIOUS
  <2>. QED
    BY <1>1, <2>1 DEF Pendings, Strings
<1>8. /\ same => c.log = w.log /\ c.pending = [index |-> 0, kind |-> kind, text |-> w.pending.text \o text]
      /\ ~same => c.log = ChatLog(w) /\ c.pending = [index |-> 0, kind |-> kind, text |-> text]
  <2>. HIDE DEF c, f, same
  <2>. QED
    BY <1>1, <1>6, <1>7 DEF ChatWriters
<1>9. v.log = c.log /\ v.pending = c.pending
  <2>1. v = [c EXCEPT !.out = Append(@, e)]
    BY DEF WriteChunk
  <2>2. DOMAIN c = DOMAIN w
    <3>. HIDE DEF c, f, same
    <3>. QED
      BY <1>1, <1>6 DEF ChatWriters
  <2>. HIDE DEF c, v
  <2>. QED
    BY <2>1, <2>2 DEF ChatWriters
<1>10. w.pending.text \o text # <<>>
  <2>1. \A s, t \in Seq(Symbols) : t # <<>> => s \o t # <<>>
    BY ConcatProperties, LenProperties, EmptySeq
  <2>. QED
    BY <1>7, <2>1 DEF Strings
<1>. HIDE DEF c, v, f, d
<1>11. Merged(v.out) = Merging(ChatLog(w), e)
  BY <1>1, <1>3, <1>5, MergedAppend DEF ChatTold
<1>12. CASE same /\ w.pending.text # <<>>
  <2>. DEFINE l == w.log
              t == w.pending.text
  <2>1. ChatLog(w) = Append(l, ChatEvent(kind, t))
    BY <1>12 DEF ChatLog
  <2>2. l \in Seq(Events) /\ t \in Strings
    BY <1>1, <1>7
  <2>. HIDE DEF l, t
  <2>3. Merging(Append(l, Event(kind, 0, kind, t)), e) = Append(l, Event(kind, 0, kind, t \o e.text))
    BY <1>2, <1>3, <2>2, DeltaJoins
  <2>4. Merged(v.out) = Append(l, ChatEvent(kind, t \o text))
    BY <1>3, <1>11, <2>1, <2>3 DEF ChatEvent
  <2>5. v.log = l /\ v.pending = [index |-> 0, kind |-> kind, text |-> t \o text]
    BY <1>8, <1>9, <1>12 DEF l, t
  <2>6. v.pending.kind = kind /\ v.pending.text = t \o text /\ t \o text # <<>>
    BY <1>10, <2>5 DEF t
  <2>. QED
    BY <2>4, <2>5, <2>6 DEF ChatTold, ChatLog, Parted, v, e
<1>13. CASE w.pending.text = <<>>
  <2>1. ChatLog(w) = w.log
    BY <1>13 DEF ChatLog
  <2>2. Merging(w.log, e) = Append(w.log, e)
    BY <1>1, <1>3, <1>13, MergingApart DEF ChatTold, Parted
  <2>3. v.log = w.log /\ v.pending = [index |-> 0, kind |-> kind, text |-> text]
    BY <1>7, <1>8, <1>9, <1>13, <2>1
  <2>4. ChatLog(v) = Append(w.log, e) /\ Parted(v)
    BY <2>3 DEF ChatLog, Parted, e
  <2>. QED
    BY <1>11, <2>1, <2>2, <2>4 DEF ChatTold, v, e
<1>14. CASE ~same /\ w.pending.text # <<>>
  <2>1. ChatLog(w) = Append(w.log, d)
    BY <1>14 DEF ChatLog, d
  <2>2. Last(ChatLog(w)) = d
    BY <1>1, <1>4, <2>1, AppendProperties, LenProperties DEF Last
  <2>3. Merging(ChatLog(w), e) = Append(ChatLog(w), e)
    BY <1>1, <1>3, <1>4, <1>14, <2>2, MergingApart
  <2>4. v.log = ChatLog(w) /\ v.pending = [index |-> 0, kind |-> kind, text |-> text]
    BY <1>8, <1>9, <1>14
  <2>5. ChatLog(v) = Append(ChatLog(w), e) /\ Parted(v)
    BY <2>4 DEF ChatLog, Parted, e
  <2>. QED
    BY <1>11, <2>3, <2>5 DEF ChatTold, v, e
<1>. QED
  BY <1>12, <1>13, <1>14

LEMMA WriteRoleTells ==
    ASSUME NEW w \in ChatWriters, ChatTold(w)
    PROVE  ChatTold(WriteRole(w)) /\ WriteRole(w) \in ChatWriters
<1>1. CASE w.sent_role
  BY <1>1 DEF WriteRole
<1>2. CASE ~w.sent_role
  <2>. DEFINE e == ChatEvent("role", <<>>)
              u == WriteChunk(w, e)
              v == [u EXCEPT !.sent_role = TRUE]
  <2>1. e \in Events
    BY EventType, NameList, TextsAreStrings DEF ChatEvent
  <2>2. e.kind \notin TextKinds /\ e.type \notin {"content", "reasoning", "[DONE]"}
    BY DEF ChatEvent, Event, TextKinds
  <2>. HIDE DEF e
  <2>3. u \in ChatWriters /\ ChatTold(u)
    BY <2>1, <2>2, WriteChunkAppends, PlainChunkTells
  <2>. HIDE DEF u
  <2>4. v \in ChatWriters /\ v.out = u.out /\ v.log = u.log /\ v.pending = u.pending
    BY <2>3 DEF ChatWriters
  <2>5. WriteRole(w) = v
    BY <1>2 DEF WriteRole, u, e
  <2>. HIDE DEF v
  <2>. QED
    BY <2>3, <2>4, <2>5, ChatToldKept
<1>. QED
  BY <1>1, <1>2

LEMMA WriteTextTells ==
    ASSUME NEW w \in ChatWriters, ChatTold(w), NEW kind \in {"content", "reasoning"},
           NEW text \in Strings
    PROVE  ChatTold(WriteText(w, kind, text))
  BY WriteRoleTells, TextChunkTells DEF WriteText

LEMMA SaveAndTakeTells ==
    ASSUME NEW w \in ChatWriters, ChatTold(w), NEW key, NEW image, NEW sig
    PROVE  ChatTold(SaveAndTakeReasoning(w, key, image, sig))
<1>. DEFINE t == Append(w.saves, SignatureSave(key, image, sig, w.thought))
            v == SaveAndTakeReasoning(w, key, image, sig)
<1>1. v = IF sig = None THEN w ELSE [w EXCEPT !.saves = t, !.thought = <<>>]
  BY DEF SaveAndTakeReasoning
<1>. HIDE DEF v, t
<1>2. v.out = w.out /\ v.log = w.log /\ v.pending = w.pending
  BY <1>1 DEF ChatWriters
<1>. QED
  BY <1>2, ChatToldKept DEF v

LEMMA ChatPartTells ==
    ASSUME NEW w, ChatStands(w), ChatTold(w), NEW p \in Part
    PROVE  ChatTold(ChatPart(w, p))
<1>1. w \in ChatWriters /\ p.text \in Strings /\ p.sig \in Sigs \cup {None}
  BY ChatStandsTypes, TextsAreStrings DEF Part, Texts
<1>2. CASE p.thought
  <2>. DEFINE held == IF w.signing /\ p.sig # None THEN p.sig ELSE w.sig
              t == w.thought \o p.text
              v == [w EXCEPT !.sig = held, !.thought = t]
  <2>1. held \in Sigs \cup {None} /\ t \in Strings
    BY <1>1, TextsAreStrings DEF ChatWriters
  <2>2. ChatPart(w, p) = WriteText(v, "reasoning", p.text)
    BY <1>2 DEF ChatPart, ChatThought
  <2>. HIDE DEF held, t
  <2>3. v \in ChatWriters /\ v.out = w.out /\ v.log = w.log /\ v.pending = w.pending
    BY <1>1, <2>1 DEF ChatWriters
  <2>. HIDE DEF v
  <2>. QED
    BY <1>1, <2>2, <2>3, ChatToldKept, WriteTextTells
<1>3. CASE ~p.thought /\ p.text # <<>>
  <2>1. ChatPart(w, p) = WriteText(w, "content", p.text)
    BY <1>3 DEF ChatPart
  <2>. QED
    BY <1>1, <2>1, WriteTextTells
<1>4. CASE ~p.thought /\ p.text = <<>> /\ p.image # None
  <2>. DEFINE s == SaveAndTakeReasoning(w, p.image, TRUE, p.sig)
  <2>1. ChatPart(w, p) = WriteText(s, "content", <<p.image>>)
    BY <1>4 DEF ChatPart
  <2>2. p.image \in Images /\ p.image \in Calls \cup Images /\ TRUE \in BOOLEAN
    BY <1>4 DEF Part
  <2>3. <<p.image>> \in Strings
    BY <2>2, TextsAreStrings
  <2>4. s \in ChatWriters /\ ChatTold(s)
    BY <1>1, <2>2, SaveAndTakeStands, SaveAndTakeTells, ChatStandsTypes
  <2>. HIDE DEF s
  <2>. QED
    BY <2>1, <2>3, <2>4, WriteTextTells
<1>5. CASE ~p.thought /\ p.text = <<>> /\ p.image = None /\ p.call # None
  <2>. DEFINE pending == w.signing /\ w.sig # None
              sig == IF pending THEN w.sig ELSE p.sig
              v == SaveAndTakeReasoning(w, p.call, FALSE, sig)
              u == [v EXCEPT !.sig = IF pending THEN None ELSE @, !.calls = Append(@, p.call)]
  <2>1. ChatPart(w, p) = u
    BY <1>5 DEF ChatPart, ChatCall
  <2>2. p.call \in Calls \cup Images /\ FALSE \in BOOLEAN /\ sig \in Sigs \cup {None}
    BY <1>1, <1>5 DEF Part, ChatWriters
  <2>. HIDE DEF sig
  <2>3. v \in ChatWriters /\ ChatTold(v)
    BY <1>1, <2>2, SaveAndTakeStands, SaveAndTakeTells, ChatStandsTypes
  <2>. HIDE DEF v, pending
  <2>4. u.out = v.out /\ u.log = v.log /\ u.pending = v.pending
    BY <2>3 DEF ChatWriters
  <2>. HIDE DEF u
  <2>. QED
    BY <2>1, <2>3, <2>4, ChatToldKept
<1>6. CASE ~p.thought /\ p.text = <<>> /\ p.image = None /\ p.call = None
  BY <1>6 DEF ChatPart
<1>. QED
  BY <1>2, <1>3, <1>4, <1>5, <1>6

LEMMA FlushToolCallsTells ==
    ASSUME NEW w, ChatStands(w), ChatTold(w)
    PROVE  ChatTold(FlushToolCalls(w))
<1>. DEFINE r == WriteRole(w)
            e == ChatEvent("tool_calls", w.calls)
            u == WriteChunk(r, e)
            v == [u EXCEPT !.calls = <<>>]
<1>1. w \in ChatWriters /\ w.calls \in Strings
  BY ChatStandsTypes, TextsAreStrings DEF ChatWriters
<1>2. e \in Events
  BY <1>1, EventType, NameList DEF ChatEvent
<1>3. e.kind \notin TextKinds /\ e.type \notin {"content", "reasoning", "[DONE]"}
  BY DEF ChatEvent, Event, TextKinds
<1>4. FlushToolCalls(w) = IF w.calls = <<>> THEN w ELSE v
  BY DEF FlushToolCalls
<1>5. r \in ChatWriters /\ ChatTold(r)
  BY <1>1, WriteRoleTells
<1>. HIDE DEF e, r
<1>6. u \in ChatWriters /\ ChatTold(u)
  BY <1>2, <1>3, <1>5, WriteChunkAppends, PlainChunkTells
<1>. HIDE DEF u
<1>7. v.out = u.out /\ v.log = u.log /\ v.pending = u.pending
  BY <1>6 DEF ChatWriters
<1>. HIDE DEF v
<1>. QED
  BY <1>4, <1>6, <1>7, ChatToldKept

\* After finish nothing is left to be merged.
LEMMA ChatFinishTells ==
    ASSUME NEW w, ChatStands(w), ChatTold(w), NEW reason \in Names, reason \notin TextKinds
    PROVE  LET v == ChatFinish(w, reason)
           IN  v.pending.text = <<>> /\ v.log = Merged(v.out)
<1>. DEFINE r == WriteRole(w)
            e1 == Event("finish", 0, reason, <<>>)
            e2 == ChatEvent("[DONE]", <<>>)
            u == WriteChunk(r, e1)
            v == [u EXCEPT !.out = Append(@, e2)]
<1>1. e1 \in Events /\ e2 \in Events
  BY EventType, NameList, TextsAreStrings DEF ChatEvent
<1>2. e1.kind \notin TextKinds /\ e1.type \notin {"content", "reasoning", "[DONE]"} /\ e2.type = "[DONE]"
  BY DEF ChatEvent, Event
<1>3. ChatFinish(w, reason) = v
  BY DEF ChatFinish
<1>4. r \in ChatWriters /\ ChatTold(r)
  BY ChatStandsTypes, WriteRoleTells
<1>. HIDE DEF e1, e2, r
<1>5. u \in ChatWriters /\ ChatTold(u) /\ u.pending.text = <<>>
  BY <1>1, <1>2, <1>4, WriteChunkAppends, PlainChunkTells
<1>. HIDE DEF u
<1>6. v.out = Append(u.out, e2) /\ v.log = u.log /\ v.pending = u.pending /\ u.out \in Seq(Events)
  BY <1>5 DEF ChatWriters
<1>. HIDE DEF v
<1>7. Merged(v.out) = Merged(u.out)
  BY <1>1, <1>2, <1>6, MergedAppend
<1>8. ChatLog(u) = u.log
  BY <1>5 DEF ChatLog
<1>9. v.pending.text = <<>> /\ v.log = Merged(v.out)
  BY <1>5, <1>6, <1>7, <1>8 DEF ChatTold
<1>. QED
  BY <1>3, <1>9

-----------------------------------------------------------------------------
(* The invariant behind the stop reason and the log. *)

Closed == pc \in {"closing", "done"}

\* The parser counts the calls of a datum at once, the writer part by part:
\* while parts are left, what the parser counted is written or still to come.
CallsTold ==
    endpoint = "claude" /\ BodyUnmixed =>
        IF Closed
        THEN \A i \in DOMAIN writer.out :
                writer.out[i].type = "message_delta" =>
                    ((writer.out[i].kind = "tool_use") <=> Called(writer.out))
        ELSE /\ ~Ended(writer.out)
             /\ result.calls # {} <=>
                    \/ Called(writer.out)
                    \/ pc = "parts" /\ \E i \in DOMAIN todo : Counts(todo[i])
             /\ pc = "parts" => Unmixed(todo)

\* The log, with the delta that is still being merged, tells the output.
LogTold ==
    IF Closed
    THEN writer.out # ClaudeError /\ writer.out # ChatError
            => FlushLog(writer).log = Merged(writer.out)
    ELSE IF endpoint = "claude" THEN ClaudeTold(writer) ELSE ChatTold(writer)

Tells == CallsTold /\ LogTold

LEMMA InitTells == Init => Tells
<1>. SUFFICES ASSUME Init PROVE Tells
  OBVIOUS
<1>1. PICK signing \in BOOLEAN :
         writer = IF endpoint = "claude" THEN NewClaudeWriter(signing) ELSE NewChatWriter(signing)
  BY DEF Init
<1>2. writer.out = <<>> /\ writer.log = <<>> /\ writer.pending.text = <<>>
  BY <1>1 DEF NewClaudeWriter, NewChatWriter, NoPending
<1>3. DOMAIN <<>> = {}
  OBVIOUS
<1>4. ~Called(writer.out) /\ ~Ended(writer.out)
  BY <1>2, <1>3 DEF Called, Ended
<1>5. result.calls = {} /\ ~Closed /\ pc # "parts"
  BY DEF Init, Closed
<1>6. CallsTold
  BY <1>4, <1>5 DEF CallsTold
<1>7. LogTold
  BY <1>2, <1>5, MergedEmpty DEF LogTold, ClaudeTold, ChatTold, ClaudeLog, ChatLog, Parted
<1>. QED
  BY <1>6, <1>7 DEF Tells

\* A step that neither takes a line nor writes.
LEMMA QuietTells ==
    ASSUME Tells, UNCHANGED <<endpoint, body, writer, result, todo>>,
           pc' = "parts" <=> pc = "parts",
           pc' \in {"closing", "done"} <=> pc \in {"closing", "done"}
    PROVE  Tells'
<1>1. BodyUnmixed' = BodyUnmixed
  BY DEF BodyUnmixed
<1>2. Closed' <=> Closed
  BY DEF Closed
<1>3. CallsTold'
  BY <1>1, <1>2 DEF Tells, CallsTold
<1>4. LogTold'
  BY <1>2 DEF Tells, LogTold
<1>. QED
  BY <1>3, <1>4 DEF Tells

\* The parser counts a call exactly when some part of the datum is one.
LEMMA CallsInCounts ==
    ASSUME NEW parts
    PROVE  CallsIn(parts) # {} <=> \E i \in DOMAIN parts : Counts(parts[i])
  BY DEF CallsIn

LEMMA TakeLineTells == IInv /\ Tells /\ TakeLine => Tells'
<1>. SUFFICES ASSUME IInv, Tells, TakeLine PROVE Tells'
  OBVIOUS
<1>. USE DEF upstreamVars, parserVars, datumVars, clientVars
<1>. DEFINE raw == WithoutCR(SubSeq(buf, processed + 1, Newline - 1))
            line == LineOf(raw)
<1>1. line.kind = "data" => \E k \in DOMAIN body : line = body[k]
  <2>. SUFFICES ASSUME line.kind = "data" PROVE \E k \in DOMAIN body : line = body[k]
    OBVIOUS
  <2>. DEFINE Byte == (1..Len(body)) \X (1..4)
              cut == SubSeq(buf, processed + 1, Newline - 1)
  <2>1. buf \in Seq(Byte) /\ processed \in Nat /\ Newline \in processed + 1..Len(buf)
    BY NewlineIsLeast DEF IInv, TypeOK, ParserTyped, TakeLine
  <2>2. raw \in Seq(Byte)
    <3>1. cut \in Seq(Byte)
      BY <2>1, SubSeqProperties, LenProperties
    <3>. HIDE DEF cut
    <3>2. cut # <<>> => SubSeq(cut, 1, Len(cut) - 1) \in Seq(Byte)
      BY <3>1, SubSeqProperties, LenProperties, EmptySeq
    <3>. QED
      BY <3>1, <3>2 DEF WithoutCR, cut
  <2>. HIDE DEF raw
  <2>3. CASE Len(raw) = 2
    <3>1. raw[1] \in Byte
      <4>. HIDE DEF Byte
      <4>1. 1 \in 1..Len(raw)
        BY <2>3
      <4>. QED
        BY <2>2, <4>1, ElementOfSeq
    <3>2. raw[1][1] \in 1..Len(body)
      BY <3>1
    <3>3. 1..Len(body) = DOMAIN body
      BY LenProperties DEF IInv, ParserTyped
    <3>4. line = body[raw[1][1]] \/ line = NotParsed
      BY DEF LineOf
    <3>5. line # NotParsed
      BY DEF NotParsed
    <3>. QED
      BY <3>2, <3>3, <3>4, <3>5
  <2>4. CASE Len(raw) # 2
    BY <2>4 DEF LineOf, NotParsed
  <2>. QED
    BY <2>3, <2>4
<1>. HIDE DEF line
<1>2. CASE line.kind = "data" /\ processed' = Newline
           /\ result' = [calls |-> result.calls \cup CallsIn(line.datum.parts),
                         finish |-> IF line.datum.finish # NoReason THEN line.datum.finish
                                    ELSE result.finish]
           /\ todo' = line.datum.parts /\ finishing' = (line.datum.finish # NoReason)
           /\ pc' = "parts" /\ UNCHANGED buf
  <2>1. pc = "lines" /\ UNCHANGED <<endpoint, body, writer>> /\ ~Closed /\ ~Closed'
    BY <1>2 DEF TakeLine, Closed
  <2>2. BodyUnmixed' = BodyUnmixed
    BY <2>1 DEF BodyUnmixed
  <2>3. ASSUME endpoint = "claude", BodyUnmixed
        PROVE  /\ ~Ended(writer.out)
               /\ result'.calls # {} <=> \/ Called(writer.out)
                                         \/ \E i \in DOMAIN todo' : Counts(todo'[i])
               /\ Unmixed(todo')
    <3>1. ~Ended(writer.out) /\ (result.calls # {} <=> Called(writer.out))
      BY <2>1, <2>3 DEF Tells, CallsTold
    <3>2. result'.calls = result.calls \cup CallsIn(todo')
      BY <1>2
    <3>3. CallsIn(todo') # {} <=> \E i \in DOMAIN todo' : Counts(todo'[i])
      BY CallsInCounts
    <3>4. Unmixed(todo')
      BY <1>1, <1>2, <2>3 DEF BodyUnmixed
    <3>. QED
      BY <3>1, <3>2, <3>3, <3>4
  <2>4. CallsTold'
    BY <1>2, <2>1, <2>2, <2>3 DEF CallsTold
  <2>5. LogTold'
    BY <2>1 DEF Tells, LogTold
  <2>. QED
    BY <2>4, <2>5 DEF Tells
<1>3. CASE UNCHANGED <<result, datumVars>> /\ pc' \in {"finish", "lines"}
  BY <1>3, QuietTells DEF TakeLine
<1>. QED
  BY <1>2, <1>3 DEF TakeLine, line

LEMMA ProcessPartTells == IInv /\ Tells /\ ProcessPart => Tells'
<1>. SUFFICES ASSUME IInv, Tells, ProcessPart PROVE Tells'
  OBVIOUS
<1>. USE DEF upstreamVars, parserVars, datumVars, clientVars
<1>. DEFINE p == Head(todo)
<1>1. /\ p \in Part /\ Tail(todo) \in Seq(Part) /\ p = todo[1] /\ todo \in Seq(Part)
      /\ Len(todo) \in Nat /\ Len(todo) >= 1 /\ Len(Tail(todo)) = Len(todo) - 1
      /\ \A i \in 1..Len(Tail(todo)) : Tail(todo)[i] = todo[i + 1]
  BY HeadTailProperties, LenProperties, EmptySeq DEF IInv, TypeOK, ProcessPart
<1>2. /\ DOMAIN todo = 1..Len(todo) /\ DOMAIN Tail(todo) = 1..Len(todo) - 1
  BY <1>1, LenProperties
<1>3. /\ \A i \in DOMAIN Tail(todo) : i + 1 \in DOMAIN todo /\ Tail(todo)[i] = todo[i + 1]
      /\ \A i \in DOMAIN todo : i = 1 \/ (i - 1 \in DOMAIN Tail(todo) /\ Tail(todo)[i - 1] = todo[i])
      /\ 1 \in DOMAIN todo /\ todo[1] = p
  BY <1>1, <1>2
<1>. HIDE DEF p
<1>4. /\ pc = "parts" /\ pc' = "parts" /\ UNCHANGED <<endpoint, body, result>> /\ todo' = Tail(todo)
      /\ writer' = IF endpoint = "claude" THEN ClaudePart(writer, p) ELSE ChatPart(writer, p)
  BY DEF ProcessPart, p
<1>5. ~Closed /\ ~Closed' /\ Stands /\ BodyUnmixed' = BodyUnmixed
  BY <1>4 DEF Closed, IInv, BodyUnmixed
<1>6. CASE endpoint = "claude"
  <2>1. writer' = ClaudePart(writer, p) /\ ClaudeStands(writer)
    BY <1>4, <1>5, <1>6 DEF Stands
  <2>2. /\ Called(writer'.out) <=> Called(writer.out) \/ Calling(p)
        /\ Ended(writer'.out) <=> Ended(writer.out)
        /\ ClaudeTold(writer) => ClaudeTold(writer')
    BY <1>1, <2>1, ClaudePartTells DEF p
  <2>3. ASSUME BodyUnmixed
        PROVE  /\ ~Ended(writer'.out)
               /\ result.calls # {} <=> \/ Called(writer'.out)
                                        \/ \E i \in DOMAIN todo' : Counts(todo'[i])
               /\ Unmixed(todo')
    <3>1. /\ ~Ended(writer.out) /\ Unmixed(todo)
          /\ result.calls # {} <=> Called(writer.out) \/ \E i \in DOMAIN todo : Counts(todo[i])
      BY <1>4, <1>5, <1>6, <2>3 DEF Tells, CallsTold
    <3>2. Counts(p) <=> Calling(p)
      <4>1. p.image = None \/ p.call = None
        BY <1>3, <3>1 DEF Unmixed
      <4>. QED
        BY <4>1 DEF Counts, Calling
    <3>3. (\E i \in DOMAIN todo : Counts(todo[i]))
            <=> Counts(p) \/ \E i \in DOMAIN Tail(todo) : Counts(Tail(todo)[i])
      BY <1>3
    <3>4. Unmixed(Tail(todo))
      BY <1>3, <3>1 DEF Unmixed
    <3>. QED
      BY <1>4, <2>2, <3>1, <3>2, <3>3, <3>4
  <2>4. CallsTold'
    BY <1>4, <1>5, <2>3 DEF CallsTold
  <2>5. LogTold'
    BY <1>4, <1>5, <1>6, <2>2 DEF Tells, LogTold
  <2>. QED
    BY <2>4, <2>5 DEF Tells
<1>7. CASE endpoint # "claude"
  <2>1. ChatTold(writer')
    BY <1>1, <1>4, <1>5, <1>7, ChatPartTells DEF Tells, LogTold, Stands, p
  <2>. QED
    BY <1>4, <1>5, <1>7, <2>1 DEF Tells, LogTold, CallsTold
<1>. QED
  BY <1>6, <1>7

LEMMA PartsDoneTells == IInv /\ Tells /\ PartsDone => Tells'
<1>. SUFFICES ASSUME IInv, Tells, PartsDone PROVE Tells'
  OBVIOUS
<1>. USE DEF upstreamVars, parserVars, datumVars, clientVars
<1>1. /\ pc = "parts" /\ pc' \in {"send", "save"} /\ UNCHANGED <<endpoint, body, result>>
      /\ todo = <<>> /\ endpoint \in {"claude", "openai"}
      /\ writer' = IF endpoint = "openai" /\ finishing THEN FlushToolCalls(writer) ELSE writer
  BY DEF PartsDone, IInv, TypeOK
<1>2. ~Closed /\ ~Closed' /\ Stands /\ BodyUnmixed' = BodyUnmixed /\ pc' # "parts"
  BY <1>1 DEF Closed, IInv, BodyUnmixed
<1>3. CASE endpoint = "claude"
  <2>1. writer' = writer /\ DOMAIN todo = {}
    BY <1>1, <1>3
  <2>2. CallsTold'
    BY <1>1, <1>2, <1>3, <2>1 DEF Tells, CallsTold
  <2>3. LogTold'
    BY <1>1, <1>2, <2>1 DEF Tells, LogTold
  <2>. QED
    BY <2>2, <2>3 DEF Tells
<1>4. CASE endpoint = "openai"
  <2>1. ChatTold(writer) /\ ChatStands(writer)
    BY <1>2, <1>4 DEF Tells, LogTold, Stands
  <2>2. ChatTold(writer')
    BY <1>1, <2>1, FlushToolCallsTells
  <2>. QED
    BY <1>1, <1>2, <1>4, <2>2 DEF Tells, LogTold, CallsTold
<1>. QED
  BY <1>1, <1>3, <1>4

LEMMA FinishTells == IInv /\ Tells /\ Finish => Tells'
<1>. SUFFICES ASSUME IInv, Tells, Finish PROVE Tells'
  OBVIOUS
<1>. USE DEF upstreamVars, parserVars, datumVars, clientVars
<1>1. /\ pc = "finish" /\ pc' = "closing" /\ UNCHANGED <<endpoint, body, result>>
      /\ writer' = IF endpoint = "claude" THEN ClaudeFinish(writer, StopReason)
                   ELSE ChatFinish(writer, StopReason)
  BY DEF Finish
<1>2. ~Closed /\ Closed' /\ Stands /\ BodyUnmixed' = BodyUnmixed
  BY <1>1 DEF Closed, IInv, BodyUnmixed
<1>3. CASE endpoint = "claude"
  <2>1. StopReason \in {"tool_use", "end_turn"} /\ (StopReason = "tool_use" <=> result.calls # {})
    BY <1>3 DEF StopReason
  <2>. DEFINE v == ClaudeFinish(writer, StopReason)
  <2>2. ClaudeStands(writer) /\ ClaudeTold(writer) /\ writer' = v
    BY <1>1, <1>2, <1>3 DEF Stands, Tells, LogTold
  <2>3. /\ Called(v.out) <=> Called(writer.out)
        /\ ClaudeTold(v)
        /\ ~Ended(writer.out) => \A i \in DOMAIN v.out :
                v.out[i].type = "message_delta" => v.out[i].kind = StopReason
    BY <2>1, <2>2, ClaudeFinishTells
  <2>4. v \in ClaudeWriters
    BY <2>1, <2>2, ClaudeFinishAdmitted, NameList
  <2>. HIDE DEF v
  <2>5. FlushLog(v).log = Merged(v.out)
    BY <2>3, <2>4, ClaudeLogType DEF ClaudeTold
  <2>6. ASSUME BodyUnmixed
        PROVE  \A i \in DOMAIN v.out :
                  v.out[i].type = "message_delta" => ((v.out[i].kind = "tool_use") <=> Called(v.out))
    <3>1. ~Ended(writer.out) /\ (result.calls # {} <=> Called(writer.out))
      BY <1>1, <1>2, <1>3, <2>6 DEF Tells, CallsTold
    <3>. QED
      BY <2>1, <2>3, <3>1
  <2>7. CallsTold'
    BY <1>2, <2>2, <2>6 DEF CallsTold
  <2>8. LogTold'
    BY <1>2, <2>2, <2>5 DEF LogTold
  <2>. QED
    BY <2>7, <2>8 DEF Tells
<1>4. CASE endpoint # "claude"
  <2>1. StopReason \in Names /\ StopReason \notin TextKinds
    BY <1>4, NameList DEF StopReason, IInv, ParserTyped, FinishReasons, TextKinds
  <2>. DEFINE v == ChatFinish(writer, StopReason)
  <2>2. ChatStands(writer) /\ ChatTold(writer) /\ writer' = v
    BY <1>1, <1>2, <1>4 DEF Stands, Tells, LogTold
  <2>3. v.pending.text = <<>> /\ v.log = Merged(v.out) /\ v \in ChatWriters
    BY <2>1, <2>2, ChatFinishTells, ChatFinishAdmitted
  <2>. HIDE DEF v
  <2>4. FlushLog(v).log = v.log
    BY <2>3 DEF FlushLog, ChatWriters
  <2>5. LogTold'
    BY <1>2, <2>2, <2>3, <2>4 DEF LogTold
  <2>6. CallsTold'
    BY <1>1, <1>4 DEF CallsTold
  <2>. QED
    BY <2>5, <2>6 DEF Tells
<1>. QED
  BY <1>3, <1>4

LEMMA ConnectFailsTells == IInv /\ Tells /\ ConnectFails => Tells'
<1>. SUFFICES ASSUME IInv, Tells, ConnectFails PROVE Tells'
  OBVIOUS
<1>. USE DEF upstreamVars, parserVars, datumVars, clientVars
<1>1. /\ pc' = "closing" /\ endpoint' = endpoint /\ Closed'
      /\ writer' = [writer EXCEPT !.out = IF endpoint = "claude" THEN ClaudeError ELSE ChatError]
  BY DEF ConnectFails, Closed
<1>2. writer'.out = IF endpoint = "claude" THEN ClaudeError ELSE ChatError
  BY <1>1 DEF IInv, WriterTyped, ClaudeWriters, ChatWriters
<1>3. LogTold'
  BY <1>1, <1>2 DEF LogTold
<1>4. \A i \in DOMAIN ClaudeError : ClaudeError[i].type # "message_delta"
  BY DEF ClaudeError, Event
<1>5. CallsTold'
  BY <1>1, <1>2, <1>4 DEF CallsTold
<1>. QED
  BY <1>3, <1>5 DEF Tells

LEMMA NextTells == IInv /\ Tells /\ [Next]_vars => Tells'
<1>. SUFFICES ASSUME IInv, Tells, [Next]_vars PROVE Tells'
  OBVIOUS
<1>. USE DEF upstreamVars, parserVars, datumVars, clientVars
<1>1. CASE UNCHANGED vars
  BY <1>1, QuietTells DEF vars
<1>2. CASE Connect
  BY <1>2, QuietTells DEF Connect
<1>3. CASE Drain
  BY <1>3, QuietTells DEF Drain
<1>4. CASE Send
  BY <1>4, QuietTells DEF Send
<1>5. CASE Sent
  BY <1>5, QuietTells DEF Sent
<1>6. CASE Save
  BY <1>6, QuietTells DEF Save
<1>7. CASE UpstreamEnds
  BY <1>7, QuietTells DEF UpstreamEnds
<1>8. ASSUME NEW n \in ChunkSizes, Chunk(n) PROVE Tells'
  BY <1>8, QuietTells DEF Chunk
<1>9. CASE ClientReads \/ ClientLeaves
  BY <1>9, QuietTells DEF ClientReads, ClientLeaves
<1>. QED
  BY <1>1, <1>2, <1>3, <1>4, <1>5, <1>6, <1>7, <1>8, <1>9, TakeLineTells, ProcessPartTells,
     PartsDoneTells, FinishTells, ConnectFailsTells DEF Next, Handler, Network

\* The stop reason of a message agrees with its tool calls, for every body
\* whose parts are unions and wherever it breaks off.
THEOREM StopReasonAgrees == Spec => []StopReasonTrue
<1>1. Tells => StopReasonTrue
  BY DEF Tells, CallsTold, Closed, StopReasonTrue
<1>. QED
  BY <1>1, InitIInv, NextIInv, InitTells, NextTells, PTL DEF Spec

\* The client log tells every event, whatever the body, and merges nothing
\* but neighbouring deltas of one block.
THEOREM LogComplete == Spec => []LogTellsAll
<1>1. Tells => LogTellsAll
  BY DEF Tells, LogTold, Closed, LogTellsAll
<1>. QED
  BY <1>1, InitIInv, NextIInv, InitTells, NextTells, PTL DEF Spec

-----------------------------------------------------------------------------
(* The parser is in step with the lines: its offset is a line's start.      *)

Parsing == pc \notin {"finish", "closing", "done"}

\* Bytes the parser has done with, and the lines they are.
Offset == got - Len(buf) + processed
Taken == Offset \div 4

InStep ==
    Parsing =>
        /\ Len(buf) <= got /\ processed <= Len(buf)
        /\ \A i \in 1..Len(buf) : buf[i] = Bytes(body)[got - Len(buf) + i]
        /\ Offset = 4 * Taken
        /\ \A l \in 1..Taken : body[l].kind # "done"
        /\ pc \in {"connect", "read"} => Taken = got \div 4

LEMMA BytesAt ==
    ASSUME body \in Seq(Line), NEW n \in Nat, n < Len(body), NEW j \in 1..4
    PROVE  4 * n + j \in 1..4 * Len(body) /\ Bytes(body)[4 * n + j] = <<n + 1, j>>
<1>1. Len(body) \in Nat
  BY LenProperties
<1>2. 4 * n + j \in 1..4 * Len(body)
  BY <1>1
<1>3. (4 * n + j - 1) \div 4 = n /\ (4 * n + j - 1) % 4 = j - 1
  BY <1>1
<1>4. Bytes(body)[4 * n + j] = <<((4 * n + j - 1) \div 4) + 1, ((4 * n + j - 1) % 4) + 1>>
  BY <1>2 DEF Bytes
<1>. QED
  BY <1>2, <1>3, <1>4

\* The sizes of what has arrived and is buffered.
LEMMA StepSizes ==
    ASSUME IInv, InStep, Parsing
    PROVE  /\ got \in Nat /\ processed \in Nat /\ Len(buf) \in Nat /\ Len(body) \in Nat
           /\ got <= 4 * Len(body) /\ Len(buf) <= got /\ processed <= Len(buf)
           /\ Taken \in Nat /\ got - Len(buf) + processed = 4 * Taken
           /\ Taken <= got \div 4 /\ Taken <= Len(body)
<1>1. /\ got \in Nat /\ processed \in Nat /\ Len(buf) \in Nat /\ Len(body) \in Nat
      /\ got <= 4 * Len(body) /\ Len(buf) <= got /\ processed <= Len(buf)
  BY LenProperties DEF IInv, TypeOK, ParserTyped, InStep
<1>2. Offset \in Nat
  BY <1>1 DEF Offset
<1>3. Offset \div 4 \in Nat
  BY <1>2
<1>4. Taken \in Nat /\ Offset = 4 * Taken
  BY <1>3 DEF Taken, InStep
<1>5. got - Len(buf) + processed = 4 * Taken
  BY <1>4 DEF Offset
<1>. QED
  BY <1>1, <1>4, <1>5

\* The bytes behind the offset are those of the next line.
LEMMA NextBytes ==
    ASSUME IInv, InStep, Parsing, NEW j \in 1..4, processed + j <= Len(buf)
    PROVE  Taken < Len(body) /\ buf[processed + j] = <<Taken + 1, j>>
<1>1. /\ got \in Nat /\ processed \in Nat /\ Len(buf) \in Nat /\ Len(body) \in Nat
      /\ got <= 4 * Len(body) /\ Taken \in Nat /\ got - Len(buf) + processed = 4 * Taken
  BY StepSizes
<1>2. Taken < Len(body)
  BY <1>1
<1>3. buf[processed + j] = Bytes(body)[got - Len(buf) + (processed + j)]
  BY <1>1 DEF InStep
<1>4. got - Len(buf) + (processed + j) = 4 * Taken + j
  BY <1>1
<1>5. Bytes(body)[4 * Taken + j] = <<Taken + 1, j>>
  BY <1>1, <1>2, BytesAt DEF IInv, ParserTyped
<1>. QED
  BY <1>2, <1>3, <1>4, <1>5

\* There is a newline behind the offset exactly when a whole line is; it is
\* the line's last byte.
LEMMA NewlineEndsLine ==
    ASSUME IInv, InStep, Parsing
    PROVE  /\ Newlines # {} <=> processed + 4 <= Len(buf)
           /\ Newlines # {} => Newline = processed + 4
<1>1. processed \in Nat /\ Len(buf) \in Nat
  BY StepSizes
<1>2. ASSUME processed + 4 <= Len(buf) PROVE processed + 4 \in Newlines
  <2>1. buf[processed + 4] = <<Taken + 1, 4>>
    BY <1>1, <1>2, NextBytes
  <2>. QED
    BY <1>1, <1>2, <2>1 DEF Newlines, LF
<1>3. ASSUME NEW i \in Newlines PROVE processed + 4 <= i /\ i <= Len(buf)
  <2>1. i \in processed + 1..Len(buf) /\ buf[i][2] = 4
    BY DEF Newlines, LF
  <2>2. ASSUME i < processed + 4 PROVE FALSE
    <3>. DEFINE j == i - processed
    <3>1. j \in 1..3 /\ j \in 1..4 /\ processed + j = i /\ processed + j <= Len(buf)
      BY <1>1, <2>1, <2>2
    <3>. HIDE DEF j
    <3>2. buf[i] = <<Taken + 1, j>>
      BY <3>1, NextBytes
    <3>. QED
      BY <2>1, <3>1, <3>2
  <2>. QED
    BY <1>1, <2>1, <2>2
<1>4. ASSUME Newlines # {} PROVE processed + 4 <= Len(buf)
  <2>1. PICK i : i \in Newlines
    BY <1>4
  <2>2. processed + 4 <= i /\ i <= Len(buf)
    BY <1>3, <2>1
  <2>3. i \in Nat
    BY <1>1, <2>1 DEF Newlines
  <2>. QED
    BY <1>1, <2>2, <2>3
<1>5. Newlines # {} => Newline = processed + 4
  <2>. SUFFICES ASSUME Newlines # {} PROVE Newline = processed + 4
    OBVIOUS
  <2>1. processed + 4 \in Newlines /\ \A j \in Newlines : processed + 4 <= j
    BY <1>2, <1>3, <1>4
  <2>2. Newline \in Newlines /\ \A j \in Newlines : Newline <= j
    BY <2>1, Zenon DEF Newline
  <2>3. Newline <= processed + 4 /\ processed + 4 <= Newline
    BY <2>1, <2>2
  <2>4. Newline \in Nat
    BY <1>1, <2>2 DEF Newlines
  <2>. QED
    BY <1>1, <2>3, <2>4
<1>. QED
  BY <1>2, <1>4, <1>5

\* What the parser takes for a line is the next line of the body, however
\* the chunks have cut it.
LEMMA LineIsNext ==
    ASSUME IInv, InStep, Parsing, Newlines # {}
    PROVE  /\ Newline = processed + 4 /\ Newline <= Len(buf)
           /\ Taken + 1 \in DOMAIN body /\ 4 * (Taken + 1) <= got
           /\ LineOf(WithoutCR(SubSeq(buf, processed + 1, Newline - 1))) = body[Taken + 1]
<1>1. /\ got \in Nat /\ processed \in Nat /\ Len(buf) \in Nat /\ Len(body) \in Nat
      /\ got <= 4 * Len(body) /\ Taken \in Nat /\ got - Len(buf) + processed = 4 * Taken
      /\ Taken <= Len(body) /\ processed <= Len(buf)
  BY StepSizes
<1>2. Newline = processed + 4 /\ processed + 4 <= Len(buf)
  BY NewlineEndsLine
<1>3. /\ buf[processed + 1] = <<Taken + 1, 1>> /\ buf[processed + 2] = <<Taken + 1, 2>>
      /\ buf[processed + 3] = <<Taken + 1, 3>> /\ Taken < Len(body)
  BY <1>1, <1>2, NextBytes, SMTT(30)
<1>. DEFINE Byte == (1..Len(body)) \X (1..4)
            cut == SubSeq(buf, processed + 1, Newline - 1)
            bytes == SubSeq(cut, 1, 2)
<1>4. buf \in Seq(Byte)
  BY DEF IInv, ParserTyped
<1>. HIDE DEF Byte
<1>5. /\ cut \in Seq(Byte) /\ Len(cut) = 3
      /\ cut[1] = <<Taken + 1, 1>> /\ cut[2] = <<Taken + 1, 2>> /\ cut[3] = <<Taken + 1, 3>>
  <2>. DEFINE m == processed + 1
              n == processed + 3
  <2>1. /\ cut = SubSeq(buf, m, n) /\ m \in 1..Len(buf) + 1 /\ n \in m - 1..Len(buf)
        /\ n - m + 1 = 3 /\ m + 1 - 1 = processed + 1 /\ m + 2 - 1 = processed + 2
        /\ m + 3 - 1 = processed + 3
    BY <1>1, <1>2
  <2>. HIDE DEF m, n, cut
  <2>2. /\ cut \in Seq(Byte) /\ Len(cut) = 3
        /\ \A i \in 1..3 : cut[i] = buf[m + i - 1]
    BY <1>1, <1>4, <2>1, SubSeqProperties
  <2>3. cut[1] = buf[m + 1 - 1] /\ cut[2] = buf[m + 2 - 1] /\ cut[3] = buf[m + 3 - 1]
    BY <2>2
  <2>. QED
    BY <1>3, <2>1, <2>2, <2>3
<1>. HIDE DEF cut
<1>6. WithoutCR(cut) = bytes
  <2>1. cut # <<>>
    BY <1>5, EmptySeq
  <2>2. Len(cut) - 1 = 2 /\ cut[Len(cut)][2] = 3
    BY <1>5
  <2>. QED
    BY <2>1, <2>2 DEF WithoutCR, CR
<1>7. Len(bytes) = 2 /\ bytes[1] = <<Taken + 1, 1>> /\ bytes[2] = <<Taken + 1, 2>>
  BY <1>5, SubSeqProperties
<1>. HIDE DEF bytes
<1>8. LineOf(bytes) = body[Taken + 1]
  BY <1>7 DEF LineOf
<1>9. DOMAIN body = 1..Len(body)
  BY LenProperties DEF IInv, ParserTyped
<1>. QED
  BY <1>1, <1>2, <1>3, <1>6, <1>8, <1>9 DEF cut

LEMMA InitInStep == Init => InStep
<1>. SUFFICES ASSUME Init PROVE InStep
  OBVIOUS
<1>1. got = 0 /\ processed = 0 /\ Len(buf) = 0
  BY DEF Init
<1>2. Offset = 0 /\ Taken = 0 /\ got \div 4 = 0
  BY <1>1 DEF Offset, Taken
<1>. QED
  BY <1>1, <1>2 DEF InStep

\* A step that leaves the body and the parser alone.
LEMMA QuietInStep ==
    ASSUME InStep, UNCHANGED <<body, got, buf, processed>>, Parsing' => Parsing,
           pc' \in {"connect", "read"} => pc \in {"connect", "read"}
    PROVE  InStep' /\ Taken' = Taken
<1>1. Offset' = Offset
  BY DEF Offset
<1>2. Taken' = Taken
  BY <1>1 DEF Taken
<1>3. Bytes(body)' = Bytes(body)
  BY DEF Bytes
<1>. QED
  BY <1>1, <1>2, <1>3 DEF InStep

LEMMA ChunkInStep ==
    ASSUME IInv, InStep, NEW n \in ChunkSizes, Chunk(n)
    PROVE  InStep' /\ Taken' = Taken
<1>. USE DEF upstreamVars, parserVars, datumVars, clientVars
<1>. DEFINE b == Bytes(body)
            new == SubSeq(b, got + 1, got + n)
<1>1. /\ pc = "read" /\ pc' = "lines" /\ buf' = buf \o new /\ got' = got + n
      /\ UNCHANGED <<body, processed>> /\ got + n <= 4 * Len(body) /\ n \in Nat
  BY StreamAssumption DEF Chunk
<1>2. Parsing /\ Parsing' /\ pc' \notin {"connect", "read"}
  BY <1>1 DEF Parsing
<1>3. /\ got \in Nat /\ processed \in Nat /\ Len(buf) \in Nat /\ Len(body) \in Nat
      /\ Len(buf) <= got /\ processed <= Len(buf) /\ Taken \in Nat
      /\ got - Len(buf) + processed = 4 * Taken
  BY <1>2, StepSizes
<1>4. Len(new) = n /\ \A i \in 1..n : new[i] = b[got + i]
  <2>. DEFINE l == got + 1
              h == got + n
  <2>1. l \in Int /\ h \in Int /\ n = h - l + 1 /\ (l <= h \/ n = 0) /\ \A i \in 1..n : l + i - 1 = got + i
    BY <1>1, <1>3
  <2>2. \A i \in l..h : b[i] \in {b[k] : k \in l..h}
    OBVIOUS
  <2>3. new = SubSeq(b, l, h)
    OBVIOUS
  <2>. HIDE DEF l, h, new, b
  <2>4. /\ Len(new) = IF l <= h THEN h - l + 1 ELSE 0
        /\ \A i \in 1..h - l + 1 : new[i] = b[l + i - 1]
    BY <2>1, <2>2, <2>3, SubSeqProperties
  <2>. QED
    BY <1>1, <2>1, <2>4
<1>5. /\ Len(buf') = Len(buf) + n
      /\ \A i \in 1..Len(buf') : buf'[i] = IF i <= Len(buf) THEN buf[i] ELSE new[i - Len(buf)]
  <2>. DEFINE Byte == (1..Len(body)) \X (1..4)
  <2>1. b \in Seq(Byte) /\ Len(b) = 4 * Len(body) /\ buf \in Seq(Byte)
    BY BytesType DEF IInv, ParserTyped
  <2>2. new \in Seq(Byte)
    <3>. HIDE DEF b, Byte
    <3>1. \A i \in got + 1..got + n : b[i] \in Byte
      BY <1>1, <1>3, <2>1, ElementOfSeq
    <3>. QED
      BY <1>1, <1>3, <3>1, SubSeqProperties
  <2>. HIDE DEF Byte, new
  <2>3. /\ Len(buf \o new) = Len(buf) + Len(new)
        /\ \A i \in 1..Len(buf) + Len(new) :
              (buf \o new)[i] = IF i <= Len(buf) THEN buf[i] ELSE new[i - Len(buf)]
    BY <2>1, <2>2, ConcatProperties
  <2>4. buf' = buf \o new /\ Len(new) = n
    BY <1>1, <1>4
  <2>. QED
    BY <2>3, <2>4
<1>. HIDE DEF new
<1>6. Offset' = Offset
  BY <1>1, <1>3, <1>5 DEF Offset
<1>7. Taken' = Taken
  BY <1>6 DEF Taken
<1>8. Bytes(body)' = b
  BY <1>1 DEF Bytes
<1>9. ASSUME NEW i \in 1..Len(buf') PROVE buf'[i] = b[got' - Len(buf') + i]
  <2>1. got' - Len(buf') + i = got - Len(buf) + i
    BY <1>1, <1>3, <1>5
  <2>2. CASE i <= Len(buf)
    BY <1>2, <1>3, <1>5, <2>1, <2>2 DEF InStep
  <2>3. CASE i > Len(buf)
    <3>1. i - Len(buf) \in 1..n /\ got + (i - Len(buf)) = got - Len(buf) + i
      BY <1>1, <1>3, <1>5, <2>3
    <3>2. buf'[i] = new[i - Len(buf)]
      BY <1>3, <1>5, <2>3
    <3>. QED
      BY <1>4, <2>1, <3>1, <3>2
  <2>. QED
    BY <1>3, <2>2, <2>3
<1>. HIDE DEF b
<1>. QED
  BY <1>1, <1>2, <1>3, <1>5, <1>6, <1>7, <1>8, <1>9 DEF InStep

LEMMA DrainInStep ==
    ASSUME IInv, InStep, Drain
    PROVE  InStep' /\ Taken' = Taken /\ Taken = got \div 4
<1>. USE DEF upstreamVars, parserVars, datumVars, clientVars
<1>1. /\ pc = "lines" /\ pc' = "read" /\ buf' = SubSeq(buf, processed + 1, Len(buf))
      /\ processed' = 0 /\ UNCHANGED <<body, got>> /\ Newlines = {}
  BY DEF Drain
<1>2. Parsing /\ Parsing'
  BY <1>1 DEF Parsing
<1>3. /\ got \in Nat /\ processed \in Nat /\ Len(buf) \in Nat /\ Len(body) \in Nat
      /\ Len(buf) <= got /\ processed <= Len(buf) /\ Taken \in Nat
      /\ got - Len(buf) + processed = 4 * Taken
  BY <1>2, StepSizes
<1>4. processed + 4 > Len(buf)
  BY <1>1, <1>2, <1>3, NewlineEndsLine
<1>5. Taken = got \div 4
  BY <1>3, <1>4
<1>6. /\ Len(buf') = Len(buf) - processed
      /\ \A i \in 1..Len(buf') : buf'[i] = buf[processed + i]
  <2>. DEFINE l == processed + 1
              h == Len(buf)
  <2>1. l \in Int /\ h \in Int /\ h - l + 1 = h - processed /\ (l <= h \/ h - processed = 0)
        /\ \A i \in 1..h - processed : l + i - 1 = processed + i
    BY <1>3
  <2>2. \A i \in l..h : buf[i] \in {buf[k] : k \in l..h}
    OBVIOUS
  <2>. HIDE DEF l, h
  <2>3. /\ Len(SubSeq(buf, l, h)) = IF l <= h THEN h - l + 1 ELSE 0
        /\ \A i \in 1..h - l + 1 : SubSeq(buf, l, h)[i] = buf[l + i - 1]
    BY <2>1, <2>2, SubSeqProperties
  <2>4. buf' = SubSeq(buf, l, h)
    BY <1>1 DEF l, h
  <2>5. h = Len(buf)
    BY DEF h
  <2>. QED
    BY <1>3, <2>1, <2>3, <2>4, <2>5
<1>. DEFINE n == Len(buf')
<1>. HIDE DEF n
<1>11. got' = got /\ processed' = 0 /\ n = Len(buf) - processed /\ n = Len(buf')
  BY <1>1, <1>6 DEF n
<1>7. Offset' = Offset
  BY <1>3, <1>11 DEF Offset
<1>8. Taken' = Taken
  BY <1>7 DEF Taken
<1>9. ASSUME NEW i \in 1..Len(buf') PROVE buf'[i] = Bytes(body)'[got' - Len(buf') + i]
  <2>1. processed + i \in 1..Len(buf) /\ buf'[i] = buf[processed + i]
    BY <1>3, <1>6
  <2>2. got' - Len(buf') + i = got - Len(buf) + (processed + i)
    BY <1>3, <1>11
  <2>3. Bytes(body)' = Bytes(body)
    BY <1>1 DEF Bytes
  <2>. QED
    BY <1>2, <2>1, <2>2, <2>3 DEF InStep
<1>10. Len(buf') <= got' /\ processed' <= Len(buf')
  BY <1>3, <1>4, <1>11
<1>12. Offset' = 4 * Taken' /\ (\A l \in 1..Taken' : body'[l].kind # "done") /\ Taken' = got' \div 4
  BY <1>1, <1>2, <1>5, <1>7, <1>8, <1>11 DEF InStep
<1>. QED
  BY <1>2, <1>5, <1>8, <1>9, <1>10, <1>12 DEF InStep

\* A line is taken: the one after those taken before.
LEMMA TakeLineInStep ==
    ASSUME IInv, InStep, TakeLine
    PROVE  LET line == body[Taken + 1]
           IN  /\ InStep' /\ Taken + 1 \in DOMAIN body /\ 4 * (Taken + 1) <= got
               /\ \/ line.kind = "done" /\ pc' = "finish" /\ UNCHANGED <<todo, finishing, result>>
                  \/ /\ line.kind \in {"bad", "other"} /\ pc' = "lines" /\ Taken' = Taken + 1
                     /\ UNCHANGED <<todo, finishing, result>>
                  \/ /\ line.kind = "data" /\ pc' = "parts" /\ Taken' = Taken + 1
                     /\ todo' = line.datum.parts /\ finishing' = (line.datum.finish # NoReason)
<1>. USE DEF upstreamVars, parserVars, datumVars, clientVars
<1>. DEFINE line == LineOf(WithoutCR(SubSeq(buf, processed + 1, Newline - 1)))
<1>1. pc = "lines" /\ Newlines # {} /\ Parsing /\ UNCHANGED <<body, got>>
  BY DEF TakeLine, Parsing
<1>2. /\ Newline = processed + 4 /\ Newline <= Len(buf)
      /\ Taken + 1 \in DOMAIN body /\ 4 * (Taken + 1) <= got /\ line = body[Taken + 1]
  BY <1>1, LineIsNext
<1>3. /\ got \in Nat /\ processed \in Nat /\ Len(buf) \in Nat
      /\ Len(buf) <= got /\ processed <= Len(buf) /\ Taken \in Nat
      /\ got - Len(buf) + processed = 4 * Taken
  BY <1>1, StepSizes
<1>4. \/ line.kind = "done" /\ pc' = "finish" /\ UNCHANGED <<todo, finishing, result>>
      \/ /\ line.kind \in {"bad", "other"} /\ processed' = Newline
         /\ UNCHANGED <<buf, result, todo, finishing, pc>>
      \/ /\ line.kind = "data" /\ processed' = Newline /\ UNCHANGED buf
         /\ todo' = line.datum.parts /\ finishing' = (line.datum.finish # NoReason) /\ pc' = "parts"
  <2>. HIDE DEF line
  <2>. QED
    BY DEF TakeLine, line
<1>. HIDE DEF line
<1>5. CASE line.kind = "done" /\ pc' = "finish" /\ UNCHANGED <<todo, finishing, result>>
  BY <1>2, <1>5 DEF InStep, Parsing
<1>6. ASSUME processed' = Newline, UNCHANGED buf, pc' \in {"lines", "parts"}, line.kind # "done"
      PROVE  InStep' /\ Taken' = Taken + 1
  <2>1. Parsing' /\ pc' \notin {"connect", "read"}
    BY <1>6 DEF Parsing
  <2>2. Offset' = 4 * (Taken + 1)
    BY <1>1, <1>2, <1>3, <1>6 DEF Offset
  <2>3. Taken' = Taken + 1
    BY <1>3, <2>2 DEF Taken
  <2>4. Bytes(body)' = Bytes(body)
    BY <1>1 DEF Bytes
  <2>5. ASSUME NEW l \in 1..Taken + 1 PROVE body[l].kind # "done"
    BY <1>1, <1>2, <1>3, <1>6 DEF InStep
  <2>. QED
    BY <1>1, <1>2, <1>3, <1>6, <2>1, <2>2, <2>3, <2>4, <2>5 DEF InStep
<1>. QED
  BY <1>1, <1>2, <1>4, <1>5, <1>6

LEMMA NextInStep == IInv /\ InStep /\ [Next]_vars => InStep'
<1>. SUFFICES ASSUME IInv, InStep, [Next]_vars PROVE InStep'
  OBVIOUS
<1>. USE DEF upstreamVars, parserVars, datumVars, clientVars
<1>1. CASE UNCHANGED vars
  BY <1>1, QuietInStep DEF vars, Parsing
<1>2. CASE Connect \/ UpstreamEnds
  BY <1>2, QuietInStep DEF Connect, UpstreamEnds, Parsing
<1>3. CASE ConnectFails
  BY <1>3, QuietInStep DEF ConnectFails, Parsing
<1>4. CASE ProcessPart \/ PartsDone
  BY <1>4, QuietInStep DEF ProcessPart, PartsDone, Parsing
<1>5. CASE Send
  BY <1>5, QuietInStep DEF Send, Parsing
<1>6. CASE Sent \/ Save
  BY <1>6, QuietInStep DEF Sent, Save, Parsing
<1>7. CASE Finish
  BY <1>7, QuietInStep DEF Finish, Parsing
<1>8. CASE ClientReads \/ ClientLeaves
  BY <1>8, QuietInStep DEF ClientReads, ClientLeaves, Parsing
<1>9. ASSUME NEW n \in ChunkSizes, Chunk(n) PROVE InStep'
  BY <1>9, ChunkInStep
<1>. QED
  BY <1>1, <1>2, <1>3, <1>4, <1>5, <1>6, <1>7, <1>8, <1>9, DrainInStep, TakeLineInStep
     DEF Next, Handler, Network

\* Whatever the chunks, the handler takes the lines of the body in order,
\* each one once and whole.
LinesWhole ==
    pc = "lines" /\ Newlines # {} =>
        LineOf(WithoutCR(SubSeq(buf, processed + 1, Newline - 1))) = body[Taken + 1]

LEMMA SynchronInvariance == Spec => [](IInv /\ InStep)
  BY InitIInv, NextIInv, InitInStep, NextInStep, PTL DEF Spec

THEOREM LinesInOrder == Spec => []LinesWhole
<1>1. IInv /\ InStep => LinesWhole
  BY LineIsNext DEF LinesWhole, Parsing
<1>. QED
  BY <1>1, SynchronInvariance, PTL

-----------------------------------------------------------------------------
(* What parts say and events carry, item by item.                           *)

Saids == {"thinking", "text", "tool_use"} \X Strings

LEMMA ToldType ==
    ASSUME NEW said \in Saids
    PROVE  Told(said) \in Seq(Saids)
  BY DEF Told

LEMMA SaysType ==
    ASSUME NEW p \in Part
    PROVE  /\ Says(p) \in Saids /\ Told(Says(p)) \in Seq(Saids)
           /\ Says(p)[2] \in Strings
<1>1. p.text \in Strings /\ <<>> \in Strings
  BY TextsAreStrings DEF Part, Texts
<1>2. p.image # None => <<p.image>> \in Strings
  BY TextsAreStrings DEF Part
<1>3. p.call # None => <<p.call>> \in Strings
  BY TextsAreStrings DEF Part
<1>4. Says(p) \in Saids
  BY <1>1, <1>2, <1>3 DEF Says, Saids
<1>. QED
  BY <1>4, ToldType DEF Saids

LEMMA CarriedType ==
    ASSUME NEW e \in Events
    PROVE  Carried(e) \in Seq(Saids)
<1>1. e.text \in Strings
  BY DEF Events
<1>2. /\ <<"thinking", e.text>> \in Saids /\ <<"text", e.text>> \in Saids
      /\ <<"tool_use", e.text>> \in Saids /\ <<>> \in Seq(Saids)
  BY <1>1 DEF Saids
<1>. QED
  BY <1>2, ToldType DEF Carried

LEMMA SayingAppend ==
    ASSUME NEW P \in Seq(Part)
    PROVE  /\ Saying(P) \in Seq(Saids) /\ Saying(<<>>) = <<>>
           /\ \A p \in Part : Saying(Append(P, p)) = Saying(P) \o Told(Says(p))
<1>1. PICK g \in [Part -> Seq(Saids)] : \A p \in Part : g[p] = Told(Says(p))
  <2>. DEFINE h == [p \in Part |-> Told(Says(p))]
  <2>9. h \in [Part -> Seq(Saids)] /\ \A p \in Part : h[p] = Told(Says(p))
    BY SaysType
  <2>. HIDE DEF h
  <2>. QED
    BY <2>9
<1>2. \A Q \in Seq(Part) : Saying(Q) = Mapped(g, Q)
  <2>. SUFFICES ASSUME NEW Q \in Seq(Part) PROVE Saying(Q) = Mapped(g, Q)
    OBVIOUS
  <2>1. \A i \in DOMAIN Q : Q[i] \in Part
    BY ElementOfSeq, LenProperties
  <2>2. [i \in DOMAIN Q |-> Told(Says(Q[i]))] = [i \in DOMAIN Q |-> g[Q[i]]]
    BY <1>1, <2>1
  <2>. QED
    BY <2>2, Zenon DEF Saying, Mapped
<1>3. \A p \in Part : g[p] = Told(Says(p)) /\ Append(P, p) \in Seq(Part)
  BY <1>1, AppendProperties
<1>4. <<>> \in Seq(Part)
  OBVIOUS
<1>5. Mapped(g, P) \in Seq(Saids)
  BY MappedAppend
<1>6. ASSUME NEW p \in Part PROVE Mapped(g, Append(P, p)) = Mapped(g, P) \o g[p]
  BY <1>5, MappedAppend, SMTT(30)
<1>7. Mapped(g, <<>>) = <<>>
  BY MappedEmpty
<1>. QED
  BY <1>2, <1>3, <1>4, <1>5, <1>6, <1>7

LEMMA WordsAppend ==
    ASSUME NEW P \in Seq(Part)
    PROVE  /\ Words(P) \in Seq(Saids) /\ Words(<<>>) = <<>>
           /\ \A p \in Part : Words(Append(P, p)) =
                Words(P) \o (IF IsCall(Says(p)) THEN <<>> ELSE Told(Says(p)))
<1>1. PICK g \in [Part -> Seq(Saids)] : \A p \in Part : g[p] = IF IsCall(Says(p)) THEN <<>> ELSE Told(Says(p))
  <2>. DEFINE h == [p \in Part |-> IF IsCall(Says(p)) THEN <<>> ELSE Told(Says(p))]
  <2>9. h \in [Part -> Seq(Saids)] /\ \A p \in Part : h[p] = IF IsCall(Says(p)) THEN <<>> ELSE Told(Says(p))
    <3>1. <<>> \in Seq(Saids)
      OBVIOUS
    <3>. QED
      BY <3>1, SaysType
  <2>. HIDE DEF h
  <2>. QED
    BY <2>9
<1>2. \A Q \in Seq(Part) : Words(Q) = Mapped(g, Q)
  <2>. SUFFICES ASSUME NEW Q \in Seq(Part) PROVE Words(Q) = Mapped(g, Q)
    OBVIOUS
  <2>1. \A i \in DOMAIN Q : Q[i] \in Part
    BY ElementOfSeq, LenProperties
  <2>2. [i \in DOMAIN Q |-> IF IsCall(Says(Q[i])) THEN <<>> ELSE Told(Says(Q[i]))]
           = [i \in DOMAIN Q |-> g[Q[i]]]
    BY <1>1, <2>1
  <2>. QED
    BY <2>2, Zenon DEF Words, Mapped
<1>3. \A p \in Part : /\ g[p] = IF IsCall(Says(p)) THEN <<>> ELSE Told(Says(p))
                      /\ Append(P, p) \in Seq(Part)
  BY <1>1, AppendProperties
<1>4. <<>> \in Seq(Part)
  OBVIOUS
<1>5. Mapped(g, P) \in Seq(Saids)
  BY MappedAppend
<1>6. ASSUME NEW p \in Part PROVE Mapped(g, Append(P, p)) = Mapped(g, P) \o g[p]
  BY <1>5, MappedAppend, SMTT(30)
<1>7. Mapped(g, <<>>) = <<>>
  BY MappedEmpty
<1>. QED
  BY <1>2, <1>3, <1>4, <1>5, <1>6, <1>7

LEMMA CallIdsAppend ==
    ASSUME NEW P \in Seq(Part)
    PROVE  /\ CallIds(P) \in Strings /\ CallIds(<<>>) = <<>>
           /\ \A p \in Part : CallIds(Append(P, p)) =
                CallIds(P) \o (IF IsCall(Says(p)) THEN Says(p)[2] ELSE <<>>)
<1>1. PICK g \in [Part -> Seq(Symbols)] : \A p \in Part : g[p] = IF IsCall(Says(p)) THEN Says(p)[2] ELSE <<>>
  <2>. DEFINE h == [p \in Part |-> IF IsCall(Says(p)) THEN Says(p)[2] ELSE <<>>]
  <2>9. h \in [Part -> Seq(Symbols)] /\ \A p \in Part : h[p] = IF IsCall(Says(p)) THEN Says(p)[2] ELSE <<>>
    <3>1. <<>> \in Seq(Symbols)
      OBVIOUS
    <3>. QED
      BY <3>1, SaysType DEF Strings
  <2>. HIDE DEF h
  <2>. QED
    BY <2>9
<1>2. \A Q \in Seq(Part) : CallIds(Q) = Mapped(g, Q)
  <2>. SUFFICES ASSUME NEW Q \in Seq(Part) PROVE CallIds(Q) = Mapped(g, Q)
    OBVIOUS
  <2>1. \A i \in DOMAIN Q : Q[i] \in Part
    BY ElementOfSeq, LenProperties
  <2>2. [i \in DOMAIN Q |-> IF IsCall(Says(Q[i])) THEN Says(Q[i])[2] ELSE <<>>]
           = [i \in DOMAIN Q |-> g[Q[i]]]
    BY <1>1, <2>1
  <2>. QED
    BY <2>2, Zenon DEF CallIds, Mapped
<1>3. \A p \in Part : /\ g[p] = IF IsCall(Says(p)) THEN Says(p)[2] ELSE <<>>
                      /\ Append(P, p) \in Seq(Part)
  BY <1>1, AppendProperties
<1>4. <<>> \in Seq(Part)
  OBVIOUS
<1>5. Mapped(g, P) \in Seq(Symbols)
  BY MappedAppend
<1>6. ASSUME NEW p \in Part PROVE Mapped(g, Append(P, p)) = Mapped(g, P) \o g[p]
  BY <1>5, MappedAppend, SMTT(30)
<1>7. Mapped(g, <<>>) = <<>>
  BY MappedEmpty
<1>. QED
  BY <1>2, <1>3, <1>4, <1>5, <1>6, <1>7 DEF Strings

LEMMA HeardAppend ==
    ASSUME NEW s \in Seq(Events)
    PROVE  /\ Heard(s) \in Seq(Saids) /\ Heard(<<>>) = <<>>
           /\ \A e \in Events : Heard(Append(s, e)) = Heard(s) \o Carried(e)
<1>1. PICK g \in [Events -> Seq(Saids)] : \A e \in Events : g[e] = Carried(e)
  <2>. DEFINE h == [e \in Events |-> Carried(e)]
  <2>9. h \in [Events -> Seq(Saids)] /\ \A e \in Events : h[e] = Carried(e)
    BY CarriedType
  <2>. HIDE DEF h
  <2>. QED
    BY <2>9
<1>2. \A t \in Seq(Events) : Heard(t) = Mapped(g, t)
  <2>. SUFFICES ASSUME NEW t \in Seq(Events) PROVE Heard(t) = Mapped(g, t)
    OBVIOUS
  <2>1. \A i \in DOMAIN t : t[i] \in Events
    BY ElementOfSeq, LenProperties
  <2>2. [i \in DOMAIN t |-> Carried(t[i])] = [i \in DOMAIN t |-> g[t[i]]]
    BY <1>1, <2>1
  <2>. QED
    BY <2>2, Zenon DEF Heard, Mapped
<1>3. \A e \in Events : g[e] = Carried(e) /\ Append(s, e) \in Seq(Events)
  BY <1>1, AppendProperties
<1>4. <<>> \in Seq(Events)
  OBVIOUS
<1>5. Mapped(g, s) \in Seq(Saids)
  BY MappedAppend
<1>6. ASSUME NEW e \in Events PROVE Mapped(g, Append(s, e)) = Mapped(g, s) \o g[e]
  BY <1>5, MappedAppend, SMTT(30)
<1>7. Mapped(g, <<>>) = <<>>
  BY MappedEmpty
<1>. QED
  BY <1>2, <1>3, <1>4, <1>5, <1>6, <1>7

LEMMA ChatCallsAppend ==
    ASSUME NEW s \in Seq(Events)
    PROVE  /\ ChatCalls(s) \in Strings /\ ChatCalls(<<>>) = <<>>
           /\ \A e \in Events : ChatCalls(Append(s, e)) =
                ChatCalls(s) \o (IF e.type = "tool_calls" THEN e.text ELSE <<>>)
<1>1. PICK g \in [Events -> Seq(Symbols)] : \A e \in Events : g[e] = IF e.type = "tool_calls" THEN e.text ELSE <<>>
  <2>. DEFINE h == [e \in Events |-> IF e.type = "tool_calls" THEN e.text ELSE <<>>]
  <2>9. h \in [Events -> Seq(Symbols)] /\ \A e \in Events : h[e] = IF e.type = "tool_calls" THEN e.text ELSE <<>>
    <3>1. <<>> \in Seq(Symbols) /\ \A e \in Events : e.text \in Seq(Symbols)
      BY DEF Events, Strings
    <3>. QED
      BY <3>1
  <2>. HIDE DEF h
  <2>. QED
    BY <2>9
<1>2. \A t \in Seq(Events) : ChatCalls(t) = Mapped(g, t)
  <2>. SUFFICES ASSUME NEW t \in Seq(Events) PROVE ChatCalls(t) = Mapped(g, t)
    OBVIOUS
  <2>1. \A i \in DOMAIN t : t[i] \in Events
    BY ElementOfSeq, LenProperties
  <2>2. [i \in DOMAIN t |-> IF t[i].type = "tool_calls" THEN t[i].text ELSE <<>>]
           = [i \in DOMAIN t |-> g[t[i]]]
    BY <1>1, <2>1
  <2>. QED
    BY <2>2, Zenon DEF ChatCalls, Mapped
<1>3. \A e \in Events : /\ g[e] = IF e.type = "tool_calls" THEN e.text ELSE <<>>
                        /\ Append(s, e) \in Seq(Events)
  BY <1>1, AppendProperties
<1>4. <<>> \in Seq(Events)
  OBVIOUS
<1>5. Mapped(g, s) \in Seq(Symbols)
  BY MappedAppend
<1>6. ASSUME NEW e \in Events PROVE Mapped(g, Append(s, e)) = Mapped(g, s) \o g[e]
  BY <1>5, MappedAppend, SMTT(30)
<1>7. Mapped(g, <<>>) = <<>>
  BY MappedEmpty
<1>. QED
  BY <1>2, <1>3, <1>4, <1>5, <1>6, <1>7 DEF Strings

-----------------------------------------------------------------------------
(* What the Claude writer lets a client hear, and the signatures it keeps.  *)

SameSigs(v, w) == v.sig = w.sig /\ v.saves = w.saves

\* A method adds something for the client to hear, or nothing.
Utters(v, w, said) == Heard(v.out) = Heard(w.out) \o said /\ SameSigs(v, w)

Silent(v, w) == Heard(v.out) = Heard(w.out) /\ SameSigs(v, w)

\* What a part may do with the signatures: it is held, or saved, or the one
\* that was held is saved and used up.
SigStep(v, w, p) ==
    \/ v.saves = w.saves /\ v.sig \in {w.sig, p.sig}
    \/ /\ v.sig = w.sig /\ p.sig # None
       /\ \E r \in Saves : r.sig = p.sig /\ v.saves = Append(w.saves, r)
    \/ /\ v.sig = None /\ w.sig # None
       /\ \E r \in Saves : r.sig = w.sig /\ v.saves = Append(w.saves, r)

Spoken == {"thinking_delta", "reasoning", "text_delta", "content", "input_json_delta"}

LEMMA SilentSays ==
    ASSUME NEW e, e.kind \notin Spoken
    PROVE  Carried(e) = <<>>
  BY DEF Carried, Spoken

LEMMA AddNothing ==
    ASSUME NEW s \in Seq(Events)
    PROVE  Heard(s) \o <<>> = Heard(s)
<1>1. Heard(s) \in Seq(Saids)
  BY HeardAppend
<1>. HIDE DEF Heard
<1>. QED
  BY <1>1

LEMMA SilentThenUtters ==
    ASSUME NEW u, NEW v, NEW w, NEW said, Utters(u, v, said), Silent(v, w)
    PROVE  Utters(u, w, said)
  BY DEF Utters, Silent, SameSigs

LEMMA SilentTransitive ==
    ASSUME NEW u, NEW v, NEW w, Silent(u, v), Silent(v, w)
    PROVE  Silent(u, w)
  BY DEF Silent, SameSigs

LEMMA SilentKept ==
    ASSUME NEW v, NEW w, v.out = w.out, v.sig = w.sig, v.saves = w.saves
    PROVE  Silent(v, w)
  BY DEF Silent, SameSigs

LEMMA PlainUtters ==
    ASSUME NEW w \in ClaudeWriters, NEW e \in Events
    PROVE  Utters(EmitPlain(w, e), w, Carried(e))
<1>1. EmitPlain(w, e).out = Append(w.out, e) /\ SameState(EmitPlain(w, e), w)
  BY EmitPlainAppends
<1>2. w.out \in Seq(Events)
  BY DEF ClaudeWriters
<1>. QED
  BY <1>1, <1>2, HeardAppend DEF Utters, SameState, SameSigs

LEMMA PlainSilent ==
    ASSUME NEW w \in ClaudeWriters, NEW e \in Events, e.kind \notin Spoken
    PROVE  Silent(EmitPlain(w, e), w) /\ EmitPlain(w, e) \in ClaudeWriters
<1>1. EmitPlain(w, e) \in ClaudeWriters
  BY EmitPlainAppends
<1>2. Utters(EmitPlain(w, e), w, <<>>)
  BY PlainUtters, SilentSays
<1>3. Heard(w.out) \o <<>> = Heard(w.out)
  BY AddNothing DEF ClaudeWriters
<1>. QED
  BY <1>1, <1>2, <1>3 DEF Utters, Silent

LEMMA DeltaUtters ==
    ASSUME NEW w \in ClaudeWriters, NEW text \in Strings
    PROVE  /\ Utters(EmitThinkingDelta(w, text), w, Told(<<"thinking", text>>))
           /\ Utters(EmitTextDelta(w, text), w, Told(<<"text", text>>))
           /\ EmitThinkingDelta(w, text) \in ClaudeWriters /\ EmitTextDelta(w, text) \in ClaudeWriters
<1>. DEFINE e(kind) == Event("content_block_delta", w.block.index, kind, text)
<1>1. "thinking_delta" \in Names /\ "text_delta" \in Names /\ w.out \in Seq(Events)
  BY NameList DEF ClaudeWriters
<1>2. \A kind \in Names : e(kind) \in Events
  BY EventType, NameList DEF ClaudeWriters, Blocks
<1>3. /\ Carried(e("thinking_delta")) = Told(<<"thinking", text>>)
      /\ Carried(e("text_delta")) = Told(<<"text", text>>)
  BY DEF Carried, Event
<1>4. \A kind \in Names : /\ EmitDelta(w, kind, text) \in ClaudeWriters
                          /\ SameState(EmitDelta(w, kind, text), w)
                          /\ EmitDelta(w, kind, text).out = Append(w.out, e(kind))
  BY EmitDeltaAppends
<1>. HIDE DEF e
<1>5. \A kind \in Names : Utters(EmitDelta(w, kind, text), w, Carried(e(kind)))
  BY <1>1, <1>2, <1>4, HeardAppend DEF Utters, SameState, SameSigs
<1>. QED
  BY <1>1, <1>3, <1>4, <1>5 DEF EmitThinkingDelta, EmitTextDelta

LEMMA CloseBlockSilent ==
    ASSUME NEW w \in ClaudeWriters
    PROVE  Silent(CloseBlock(w), w)
<1>1. CASE w.block.kind = "none"
  BY <1>1, SilentKept DEF CloseBlock
<1>2. CASE w.block.kind # "none"
  <2>. DEFINE e == Event("content_block_stop", w.block.index, "none", <<>>)
              u == EmitPlain(w, e)
              v == CloseBlock(w)
  <2>1. w.block.index \in Nat
    BY DEF ClaudeWriters, Blocks
  <2>2. e \in Events /\ e.kind \notin Spoken
    BY <2>1, EventType, NameList, TextsAreStrings DEF Event, Spoken
  <2>3. v = [u EXCEPT !.block = NoBlock]
    BY <1>2 DEF CloseBlock
  <2>. HIDE DEF e, v
  <2>4. Silent(u, w) /\ u \in ClaudeWriters
    BY <2>2, PlainSilent
  <2>. HIDE DEF u
  <2>5. Silent(v, u)
    BY <2>3, <2>4, SilentKept DEF ClaudeWriters
  <2>. QED
    BY <2>4, <2>5, SilentTransitive DEF v
<1>. QED
  BY <1>1, <1>2

LEMMA OpenBlockSilent ==
    ASSUME NEW w \in ClaudeWriters, NEW kind \in {"thinking", "text"}
    PROVE  Silent(OpenBlock(w, kind), w)
<1>. DEFINE e == Event("content_block_start", w.next_index, kind, <<>>)
            u == EmitPlain(w, e)
            v == OpenBlock(w, kind)
<1>1. w.next_index \in Nat
  BY DEF ClaudeWriters
<1>2. e \in Events /\ e.kind \notin Spoken
  BY <1>1, EventType, NameList, TextsAreStrings DEF Event, Spoken
<1>3. v = [u EXCEPT !.next_index = @ + 1,
                    !.block = [index |-> w.next_index, kind |-> kind],
                    !.thought = IF kind = "thinking" THEN <<>> ELSE @,
                    !.emitted = IF kind = "thinking" THEN FALSE ELSE @]
  BY DEF OpenBlock
<1>. HIDE DEF e, v
<1>4. Silent(u, w) /\ u \in ClaudeWriters
  BY <1>2, PlainSilent
<1>. HIDE DEF u
<1>5. v.out = u.out /\ v.sig = u.sig /\ v.saves = u.saves
  BY <1>3, <1>4 DEF ClaudeWriters
<1>. QED
  BY <1>4, <1>5, SilentKept, SilentTransitive DEF v

\* The placeholder of a thought without text is not heard.
LEMMA FlushSignatureSilent ==
    ASSUME NEW w \in ClaudeWriters
    PROVE  Silent(FlushSignature(w), w)
<1>1. CASE ~(w.block.kind = "thinking" /\ w.signing /\ w.sig # None /\ ~w.emitted)
  BY <1>1, SilentKept DEF FlushSignature
<1>2. CASE w.block.kind = "thinking" /\ w.signing /\ w.sig # None /\ ~w.emitted
  <2>. DEFINE u == EmitThinkingDelta(w, MissingThought)
              v == IF Trimmed(w.thought) THEN [u EXCEPT !.thought = @ \o MissingThought] ELSE w
              e == Event("content_block_delta", w.block.index, "signature_delta", <<w.sig>>)
              x == EmitPlain(v, e)
              z == [x EXCEPT !.emitted = TRUE]
  <2>1. FlushSignature(w) = z
    BY <1>2 DEF FlushSignature
  <2>2. v \in ClaudeWriters /\ Silent(v, w)
    <3>1. MissingThought \in Strings
      BY TextsAreStrings DEF MissingThought
    <3>2. Told(<<"thinking", MissingThought>>) = <<>>
      BY DEF Told
    <3>3. u \in ClaudeWriters /\ Utters(u, w, <<>>)
      BY <3>1, <3>2, DeltaUtters
    <3>4. Heard(w.out) \o <<>> = Heard(w.out)
      BY AddNothing DEF ClaudeWriters
    <3>. HIDE DEF u
    <3>5. Silent(u, w)
      BY <3>3, <3>4 DEF Utters, Silent
    <3>6. u.thought \o MissingThought \in Strings
      BY <3>1, <3>3, TextsAreStrings DEF ClaudeWriters
    <3>. DEFINE y == [u EXCEPT !.thought = @ \o MissingThought]
    <3>7. y \in ClaudeWriters /\ y.out = u.out /\ y.sig = u.sig /\ y.saves = u.saves
      BY <3>3, <3>6 DEF ClaudeWriters
    <3>. HIDE DEF y
    <3>8. Silent(y, w) /\ Silent(w, w)
      BY <3>5, <3>7, SilentKept, SilentTransitive
    <3>. QED
      BY <3>7, <3>8 DEF y
  <2>. HIDE DEF v
  <2>3. w.sig \in Sigs /\ w.block.index \in Nat
    BY <1>2 DEF ClaudeWriters, Blocks
  <2>4. e \in Events /\ e.kind \notin Spoken
    BY <2>3, EventType, NameList, TextsAreStrings DEF Event, Spoken
  <2>. HIDE DEF e
  <2>5. x \in ClaudeWriters /\ Silent(x, v)
    BY <2>2, <2>4, PlainSilent
  <2>. HIDE DEF x
  <2>6. Silent(z, x)
    BY <2>5, SilentKept DEF ClaudeWriters
  <2>. HIDE DEF z
  <2>. QED
    BY <2>1, <2>2, <2>5, <2>6, SilentTransitive
<1>. QED
  BY <1>1, <1>2

LEMMA StartSilent ==
    ASSUME NEW w \in ClaudeWriters
    PROVE  Silent(Start(w), w)
<1>1. CASE w.started
  BY <1>1, SilentKept DEF Start
<1>2. CASE ~w.started
  <2>. DEFINE e == Event("message_start", 0, "none", <<>>)
              u == EmitPlain(w, e)
              v == Start(w)
  <2>1. e \in Events /\ e.kind \notin Spoken
    BY EventType, NameList, TextsAreStrings DEF Event, Spoken
  <2>2. v = [u EXCEPT !.started = TRUE]
    BY <1>2 DEF Start
  <2>. HIDE DEF e, v
  <2>3. Silent(u, w) /\ u \in ClaudeWriters
    BY <2>1, PlainSilent
  <2>. HIDE DEF u
  <2>4. Silent(v, u)
    BY <2>2, <2>3, SilentKept DEF ClaudeWriters
  <2>. QED
    BY <2>3, <2>4, SilentTransitive DEF v
<1>. QED
  BY <1>1, <1>2

LEMMA ThoughtPartUtters ==
    ASSUME NEW w, Running(w), NEW p \in Part
    PROVE  Utters(ThoughtPart(w, p), w, Told(<<"thinking", p.text>>))
<1>. DEFINE c == CloseBlock(w)
            o == OpenBlock(c, "thinking")
            v == IF w.block.kind = "thinking" THEN w ELSE o
            x == EmitThinkingDelta(v, p.text)
            y == [x EXCEPT !.thought = @ \o p.text]
<1>1. v \in ClaudeWriters /\ Silent(v, w)
  <2>1. w \in ClaudeWriters /\ Silent(w, w) /\ Closable(w)
    BY SilentKept, RunningTypes
  <2>2. Running(c) /\ c.block.kind = "none" /\ Silent(c, w)
    BY <2>1, CloseBlockStands, CloseBlockSilent
  <2>. HIDE DEF c
  <2>3. c \in ClaudeWriters /\ o \in ClaudeWriters /\ Silent(o, c)
    BY <2>2, RunningTypes, OpenBlockStands, OpenBlockSilent
  <2>. HIDE DEF o
  <2>. QED
    BY <2>1, <2>2, <2>3, SilentTransitive
<1>2. ThoughtPart(w, p) = IF p.text = <<>> THEN v ELSE y
  BY DEF ThoughtPart
<1>. HIDE DEF v
<1>3. CASE p.text = <<>>
  <2>1. Told(<<"thinking", p.text>>) = <<>>
    BY <1>3 DEF Told
  <2>2. w.out \in Seq(Events)
    BY RunningTypes DEF ClaudeWriters
  <2>3. Heard(w.out) \o <<>> = Heard(w.out)
    BY <2>2, AddNothing
  <2>. QED
    BY <1>1, <1>2, <1>3, <2>1, <2>3 DEF Utters, Silent
<1>4. CASE p.text # <<>>
  <2>1. p.text \in Strings
    BY TextsAreStrings DEF Part, Texts
  <2>2. x \in ClaudeWriters /\ Utters(x, v, Told(<<"thinking", p.text>>))
    BY <1>1, <2>1, DeltaUtters
  <2>. HIDE DEF x
  <2>3. y.out = x.out /\ y.sig = x.sig /\ y.saves = x.saves
    BY <2>2 DEF ClaudeWriters
  <2>. HIDE DEF y
  <2>4. Utters(y, v, Told(<<"thinking", p.text>>))
    BY <2>2, <2>3 DEF Utters, SameSigs
  <2>. QED
    BY <1>1, <1>2, <1>4, <2>4, SilentThenUtters
<1>. QED
  BY <1>3, <1>4

LEMMA TextUtters ==
    ASSUME NEW w, Running(w), NEW text \in Strings
    PROVE  Utters(EmitTextDelta(IntoTextBlock(w), text), w, Told(<<"text", text>>))
<1>. DEFINE f == FlushSignature(w)
            c == CloseBlock(f)
            o == OpenBlock(c, "text")
            t == IntoTextBlock(w)
            v == EmitTextDelta(t, text)
<1>1. w \in ClaudeWriters /\ Silent(w, w)
  BY SilentKept, RunningTypes
<1>2. Closable(f) /\ f \in ClaudeWriters /\ Silent(f, w)
  BY <1>1, FlushSignatureClosable, FlushSignatureSilent DEF Closable, Sound
<1>3. t = IF w.block.kind = "text" THEN w ELSE o
  BY DEF IntoTextBlock
<1>. HIDE DEF f
<1>4. Running(c) /\ c.block.kind = "none" /\ c \in ClaudeWriters /\ Silent(c, f)
  BY <1>2, CloseBlockStands, CloseBlockSilent, RunningTypes
<1>. HIDE DEF c
<1>5. o \in ClaudeWriters /\ Silent(o, c)
  BY <1>4, RunningTypes, OpenBlockStands, OpenBlockSilent
<1>. HIDE DEF o, t
<1>6. t \in ClaudeWriters /\ Silent(t, w)
  <2>1. Silent(o, w)
    BY <1>2, <1>4, <1>5, SilentTransitive
  <2>. QED
    BY <1>1, <1>3, <1>5, <2>1
<1>7. Utters(v, t, Told(<<"text", text>>))
  BY <1>6, DeltaUtters
<1>. QED
  BY <1>6, <1>7, SilentThenUtters DEF t

\* A save is a record with its signature.
LEMMA SaveType ==
    ASSUME NEW key \in Calls \cup Images, NEW image \in BOOLEAN, NEW sig \in Sigs,
           NEW reasoning \in Strings
    PROVE  /\ SignatureSave(key, image, sig, reasoning) \in Saves
           /\ SignatureSave(key, image, sig, reasoning).sig = sig
  BY DEF SignatureSave, Saves

LEMMA ImagePartUtters ==
    ASSUME NEW w, Running(w), NEW p \in Part, p.image # None
    PROVE  /\ Heard(ImagePart(w, p).out) = Heard(w.out) \o Told(<<"text", <<p.image>>>>)
           /\ SigStep(ImagePart(w, p), w, p)
<1>. DEFINE t == IntoTextBlock(w)
            v == EmitTextDelta(t, <<p.image>>)
            r == SignatureSave(p.image, TRUE, p.sig, Reasoning(t))
            u == [v EXCEPT !.saves = Append(@, r)]
<1>1. p.image \in Images
  BY DEF Part
<1>2. <<p.image>> \in Strings /\ <<p.image>> # <<>>
  BY <1>1, TextsAreStrings
<1>3. Utters(v, w, Told(<<"text", <<p.image>>>>)) /\ v \in ClaudeWriters
  BY <1>2, TextUtters, TextStands, RunningTypes
<1>4. ImagePart(w, p) = IF p.sig = None THEN v ELSE u
  BY DEF ImagePart
<1>5. p.sig # None => r \in Saves /\ r.sig = p.sig
  <2>1. t \in ClaudeWriters
    BY IntoTextBlockStands DEF Running, Sound
  <2>2. Reasoning(t) \in Strings
    BY <2>1, ReasoningType
  <2>. HIDE DEF t
  <2>3. p.image \in Calls \cup Images /\ TRUE \in BOOLEAN /\ (p.sig # None => p.sig \in Sigs)
    BY <1>1 DEF Part
  <2>. QED
    BY <2>2, <2>3, SaveType
<1>. HIDE DEF v, r, t
<1>6. u.out = v.out /\ u.sig = v.sig /\ u.saves = Append(v.saves, r)
  BY <1>3 DEF ClaudeWriters
<1>. HIDE DEF u
<1>7. CASE p.sig = None
  BY <1>3, <1>4, <1>7 DEF Utters, SameSigs, SigStep
<1>8. CASE p.sig # None
  BY <1>3, <1>4, <1>5, <1>6, <1>8 DEF Utters, SameSigs, SigStep
<1>. QED
  BY <1>7, <1>8

LEMMA EmitToolUseUtters ==
    ASSUME NEW w \in ClaudeWriters, NEW p \in Part, p.call # None
    PROVE  LET v == EmitToolUse(w, p.call, p.sig)
           IN  /\ Heard(v.out) = Heard(w.out) \o Told(<<"tool_use", <<p.call>>>>)
               /\ SigStep(v, w, p)
<1>. DEFINE i == w.next_index
            e1 == Event("content_block_start", i, "tool_use", <<p.call>>)
            e2 == Event("content_block_delta", i, "input_json_delta", <<p.call>>)
            e3 == Event("content_block_stop", i, "none", <<>>)
            u1 == EmitPlain(w, e1)
            u2 == EmitPlain(u1, e2)
            u3 == EmitPlain(u2, e3)
            bound == IF p.sig # None THEN p.sig ELSE IF w.signing THEN w.sig ELSE None
            r == SignatureSave(p.call, FALSE, bound, Reasoning(w))
            v == EmitToolUse(w, p.call, p.sig)
<1>1. /\ i \in Nat /\ <<p.call>> \in Strings /\ <<>> \in Strings
      /\ p.call \in Calls \cup Images /\ p.call \in Calls
      /\ p.sig \in Sigs \cup {None} /\ w.sig \in Sigs \cup {None} /\ w.signing \in BOOLEAN
  BY TextsAreStrings DEF ClaudeWriters, Part
<1>2. /\ e1 \in Events /\ e2 \in Events /\ e3 \in Events
  BY <1>1, EventType, NameList
<1>3. /\ e1.kind \notin Spoken /\ e3.kind \notin Spoken
      /\ Carried(e2) = Told(<<"tool_use", <<p.call>>>>)
  BY DEF Event, Spoken, Carried
<1>4. bound # None => r \in Saves /\ r.sig = bound
  <2>1. Reasoning(w) \in Strings /\ FALSE \in BOOLEAN
    BY ReasoningType
  <2>2. bound # None => bound \in Sigs
    BY <1>1
  <2>. HIDE DEF bound
  <2>. QED
    BY <1>1, <2>1, <2>2, SaveType
<1>. HIDE DEF e1, e2, e3, r
<1>5. Silent(u1, w) /\ u1 \in ClaudeWriters
  BY <1>2, <1>3, PlainSilent
<1>. HIDE DEF u1
<1>6. Utters(u2, u1, Told(<<"tool_use", <<p.call>>>>)) /\ u2 \in ClaudeWriters
  BY <1>2, <1>3, <1>5, PlainUtters, EmitPlainAppends
<1>. HIDE DEF u2
<1>7. Silent(u3, u2) /\ u3 \in ClaudeWriters
  BY <1>2, <1>3, <1>6, PlainSilent
<1>8. Utters(u3, w, Told(<<"tool_use", <<p.call>>>>))
  BY <1>5, <1>6, <1>7 DEF Utters, Silent, SameSigs
<1>9. /\ v.out = u3.out
      /\ v.sig = (IF p.sig = None /\ w.signing THEN None ELSE u3.sig)
      /\ v.saves = (IF bound = None THEN u3.saves ELSE Append(u3.saves, r))
  <2>. DEFINE n == i + 1
              g == IF p.sig = None /\ w.signing THEN None ELSE u3.sig
              t == IF bound = None THEN u3.saves ELSE Append(u3.saves, r)
  <2>1. v = [u3 EXCEPT !.next_index = n, !.sig = g, !.saves = t]
    BY DEF EmitToolUse, u1, u2, e1, e2, e3, r
  <2>. HIDE DEF u3, v, g, t, n
  <2>2. v.out = u3.out /\ v.sig = g /\ v.saves = t
    BY <1>7, <2>1 DEF ClaudeWriters
  <2>. QED
    BY <2>2 DEF g, t
<1>. HIDE DEF u3, v
<1>10. Heard(v.out) = Heard(w.out) \o Told(<<"tool_use", <<p.call>>>>)
  BY <1>8, <1>9 DEF Utters
<1>11. u3.sig = w.sig /\ u3.saves = w.saves
  BY <1>8 DEF Utters, SameSigs
<1>12. SigStep(v, w, p)
  <2>1. CASE p.sig # None
    BY <1>4, <1>9, <1>11, <2>1 DEF SigStep
  <2>2. CASE p.sig = None /\ w.signing
    BY <1>4, <1>9, <1>11, <2>2 DEF SigStep
  <2>3. CASE p.sig = None /\ ~w.signing
    BY <1>9, <1>11, <2>3 DEF SigStep
  <2>. QED
    BY <1>1, <2>1, <2>2, <2>3
<1>. QED
  BY <1>10, <1>12 DEF v

LEMMA ToolPartUtters ==
    ASSUME NEW w, Running(w), NEW p \in Part, p.call # None
    PROVE  /\ Heard(ToolPart(w, p).out) = Heard(w.out) \o Told(<<"tool_use", <<p.call>>>>)
           /\ SigStep(ToolPart(w, p), w, p)
<1>. DEFINE c == CloseBlock(w)
            v == EmitToolUse(c, p.call, p.sig)
<1>1. c \in ClaudeWriters /\ Silent(c, w)
  <2>1. Running(c)
    BY RunningTypes, CloseBlockStands
  <2>. HIDE DEF c
  <2>2. c \in ClaudeWriters
    BY <2>1, RunningTypes
  <2>. QED
    BY <2>2, RunningTypes, CloseBlockSilent DEF c
<1>2. ToolPart(w, p) = v
  BY DEF ToolPart
<1>. HIDE DEF c
<1>3. Heard(v.out) = Heard(c.out) \o Told(<<"tool_use", <<p.call>>>>) /\ SigStep(v, c, p)
  BY <1>1, EmitToolUseUtters
<1>. HIDE DEF v
<1>. QED
  BY <1>1, <1>2, <1>3 DEF Silent, SameSigs, SigStep

\* A client hears of every part what it says, and no signature is used twice.
LEMMA ClaudePartUtters ==
    ASSUME NEW w, ClaudeStands(w), NEW p \in Part
    PROVE  LET y == ClaudePart(w, p)
           IN  Heard(y.out) = Heard(w.out) \o Told(Says(p)) /\ SigStep(y, w, p)
<1>. DEFINE s == Start(w)
            v == HoldSignature(s, p)
            y == ClaudePart(w, p)
<1>1. Running(s) /\ Silent(s, w)
  BY StartStands, StartSilent DEF ClaudeStands, Fresh, Running, Sound
<1>2. y = IF p.thought THEN ThoughtPart(v, p)
          ELSE IF p.text # <<>> THEN TextPart(v, p)
          ELSE IF p.image # None THEN ImagePart(v, p)
          ELSE IF p.call # None THEN ToolPart(v, p)
          ELSE v
  BY DEF ClaudePart
<1>. HIDE DEF s
<1>3. Running(v) /\ v \in ClaudeWriters
  BY <1>1, HoldSignatureStands, RunningTypes
<1>4. /\ v.out = s.out /\ v.saves = s.saves /\ v.sig \in {s.sig, p.sig}
      /\ ~p.thought => v.sig = s.sig
  <2>1. s \in ClaudeWriters
    BY <1>1, RunningTypes
  <2>. QED
    BY <2>1 DEF HoldSignature, ClaudeWriters
<1>. HIDE DEF v, y
<1>5. Heard(v.out) = Heard(w.out) /\ v.saves = w.saves /\ v.sig \in {w.sig, p.sig}
      /\ (~p.thought => v.sig = w.sig)
  BY <1>1, <1>4 DEF Silent, SameSigs
<1>6. p.text \in Strings
  BY TextsAreStrings DEF Part, Texts
<1>7. CASE p.thought
  <2>1. Utters(y, v, Told(<<"thinking", p.text>>))
    BY <1>2, <1>3, <1>7, ThoughtPartUtters
  <2>2. Says(p) = <<"thinking", p.text>>
    BY <1>7 DEF Says
  <2>. QED
    BY <1>5, <2>1, <2>2 DEF Utters, SameSigs, SigStep, y
<1>8. CASE ~p.thought /\ p.text # <<>>
  <2>1. Utters(y, v, Told(<<"text", p.text>>))
    BY <1>2, <1>3, <1>6, <1>8, TextUtters DEF TextPart
  <2>2. Says(p) = <<"text", p.text>>
    BY <1>8 DEF Says
  <2>. QED
    BY <1>5, <2>1, <2>2 DEF Utters, SameSigs, SigStep, y
<1>9. CASE ~p.thought /\ p.text = <<>> /\ p.image # None
  <2>1. Heard(y.out) = Heard(v.out) \o Told(<<"text", <<p.image>>>>) /\ SigStep(y, v, p)
    BY <1>2, <1>3, <1>9, ImagePartUtters
  <2>2. Says(p) = <<"text", <<p.image>>>>
    BY <1>9 DEF Says
  <2>. QED
    BY <1>5, <1>9, <2>1, <2>2 DEF SigStep, y
<1>10. CASE ~p.thought /\ p.text = <<>> /\ p.image = None /\ p.call # None
  <2>1. Heard(y.out) = Heard(v.out) \o Told(<<"tool_use", <<p.call>>>>) /\ SigStep(y, v, p)
    BY <1>2, <1>3, <1>10, ToolPartUtters
  <2>2. Says(p) = <<"tool_use", <<p.call>>>>
    BY <1>10 DEF Says
  <2>. QED
    BY <1>5, <1>10, <2>1, <2>2 DEF SigStep, y
<1>11. CASE ~p.thought /\ p.text = <<>> /\ p.image = None /\ p.call = None
  <2>1. y = v /\ Told(Says(p)) = <<>>
    BY <1>2, <1>11 DEF Says, Told
  <2>2. w.out \in Seq(Events)
    BY DEF ClaudeStands, Fresh, Running, Sound, ClaudeWriters
  <2>3. Heard(w.out) \o <<>> = Heard(w.out)
    BY <2>2, AddNothing
  <2>. QED
    BY <1>5, <2>1, <2>3 DEF SigStep, y
<1>. QED
  BY <1>7, <1>8, <1>9, <1>10, <1>11

LEMMA ClaudeFinishSilent ==
    ASSUME NEW w, ClaudeStands(w), NEW reason \in {"tool_use", "end_turn"}
    PROVE  Silent(ClaudeFinish(w, reason), w)
<1>. DEFINE f == FlushSignature(w)
            c == CloseBlock(f)
            e1 == Event("message_delta", 0, reason, <<>>)
            e2 == Event("message_stop", 0, "none", <<>>)
            u == EmitPlain(c, e1)
            v == EmitPlain(u, e2)
<1>1. c \in ClaudeWriters /\ Silent(c, w)
  <2>1. w \in ClaudeWriters
    BY DEF ClaudeStands, Fresh, Running, Sound
  <2>2. Silent(f, w)
    BY <2>1, FlushSignatureSilent
  <2>3. f \in ClaudeWriters /\ c \in ClaudeWriters
    <3>1. CASE Running(w)
      <4>1. Closable(f)
        BY <3>1, FlushSignatureClosable
      <4>. HIDE DEF f
      <4>2. Running(c)
        BY <4>1, CloseBlockStands
      <4>. QED
        BY <4>1, <4>2 DEF Closable, Running, Sound
    <3>2. CASE Fresh(w)
      <4>1. f = w /\ c = w
        BY <3>2 DEF Fresh, FlushSignature, CloseBlock
      <4>. QED
        BY <2>1, <4>1
    <3>. QED
      BY <3>1, <3>2 DEF ClaudeStands
  <2>. HIDE DEF f
  <2>4. Silent(c, f)
    BY <2>3, CloseBlockSilent
  <2>. QED
    BY <2>2, <2>3, <2>4, SilentTransitive
<1>2. e1 \in Events /\ e2 \in Events
  BY EventType, NameList, TextsAreStrings
<1>3. e1.kind \notin Spoken /\ e2.kind \notin Spoken
  BY DEF Event, Spoken
<1>4. ClaudeFinish(w, reason) = v
  BY DEF ClaudeFinish
<1>. HIDE DEF f, c, e1, e2
<1>5. u \in ClaudeWriters /\ Silent(u, c)
  BY <1>1, <1>2, <1>3, PlainSilent
<1>. HIDE DEF u
<1>6. Silent(v, u)
  BY <1>2, <1>3, <1>5, PlainSilent
<1>. HIDE DEF v
<1>. QED
  BY <1>1, <1>4, <1>5, <1>6, SilentTransitive

-----------------------------------------------------------------------------
(* The same for the OpenAI writer, which also collects calls.               *)

\* A method that neither saves nor collects.
ChatUtters(v, w, said) ==
    /\ Utters(v, w, said) /\ v.calls = w.calls
    /\ ChatCalls(v.out) = ChatCalls(w.out)

LEMMA ChatKeptUtters ==
    ASSUME NEW w \in ChatWriters, NEW v, v.out = w.out, v.sig = w.sig, v.saves = w.saves,
           v.calls = w.calls
    PROVE  ChatUtters(v, w, <<>>)
  BY AddNothing DEF ChatUtters, Utters, SameSigs, ChatWriters

LEMMA ChunkUtters ==
    ASSUME NEW w \in ChatWriters, NEW e \in Events
    PROVE  LET v == WriteChunk(w, e)
           IN  /\ Utters(v, w, Carried(e)) /\ v.calls = w.calls
               /\ e.type # "tool_calls" => ChatUtters(v, w, Carried(e))
               /\ e.type = "tool_calls" => ChatCalls(v.out) = ChatCalls(w.out) \o e.text
<1>. DEFINE v == WriteChunk(w, e)
<1>1. v.out = Append(w.out, e) /\ ChatSame(v, w) /\ w.out \in Seq(Events)
  BY WriteChunkAppends DEF ChatWriters
<1>. HIDE DEF v
<1>2. Heard(v.out) = Heard(w.out) \o Carried(e)
  BY <1>1, HeardAppend
<1>3. ChatCalls(v.out) = ChatCalls(w.out) \o (IF e.type = "tool_calls" THEN e.text ELSE <<>>)
  BY <1>1, ChatCallsAppend
<1>4. ChatCalls(w.out) \o <<>> = ChatCalls(w.out)
  <2>1. ChatCalls(w.out) \in Strings
    BY <1>1, ChatCallsAppend
  <2>. HIDE DEF ChatCalls
  <2>. QED
    BY <2>1 DEF Strings
<1>. QED
  BY <1>1, <1>2, <1>3, <1>4 DEF ChatUtters, Utters, SameSigs, ChatSame, v

LEMMA SilentThenChatUtters ==
    ASSUME NEW w \in ChatWriters, NEW v, NEW u, NEW said, ChatUtters(v, w, <<>>), ChatUtters(u, v, said)
    PROVE  ChatUtters(u, w, said)
<1>1. Heard(w.out) \o <<>> = Heard(w.out)
  BY AddNothing DEF ChatWriters
<1>. QED
  BY <1>1 DEF ChatUtters, Utters, SameSigs

LEMMA WriteRoleUtters ==
    ASSUME NEW w \in ChatWriters
    PROVE  ChatUtters(WriteRole(w), w, <<>>) /\ WriteRole(w) \in ChatWriters
<1>1. CASE w.sent_role
  BY <1>1, ChatKeptUtters DEF WriteRole
<1>2. CASE ~w.sent_role
  <2>. DEFINE e == ChatEvent("role", <<>>)
              u == WriteChunk(w, e)
              v == [u EXCEPT !.sent_role = TRUE]
  <2>1. e \in Events
    BY EventType, NameList, TextsAreStrings DEF ChatEvent
  <2>2. e.type # "tool_calls" /\ Carried(e) = <<>>
    BY DEF ChatEvent, Event, Carried
  <2>. HIDE DEF e
  <2>3. u \in ChatWriters /\ ChatUtters(u, w, <<>>)
    BY <2>1, <2>2, WriteChunkAppends, ChunkUtters
  <2>4. WriteRole(w) = v
    BY <1>2 DEF WriteRole, e
  <2>. HIDE DEF u
  <2>5. /\ v \in ChatWriters /\ v.out = u.out /\ v.sig = u.sig /\ v.saves = u.saves
        /\ v.calls = u.calls
    BY <2>3 DEF ChatWriters
  <2>. HIDE DEF v
  <2>. QED
    BY <2>3, <2>4, <2>5 DEF ChatUtters, Utters, SameSigs
<1>. QED
  BY <1>1, <1>2

LEMMA WriteTextUtters ==
    ASSUME NEW w \in ChatWriters, NEW text \in Strings
    PROVE  /\ ChatUtters(WriteText(w, "reasoning", text), w, Told(<<"thinking", text>>))
           /\ ChatUtters(WriteText(w, "content", text), w, Told(<<"text", text>>))
<1>1. WriteRole(w) \in ChatWriters /\ ChatUtters(WriteRole(w), w, <<>>)
  BY WriteRoleUtters
<1>2. text = <<>> => Told(<<"thinking", text>>) = <<>> /\ Told(<<"text", text>>) = <<>>
  BY DEF Told
<1>3. /\ ChatEvent("reasoning", text) \in Events /\ ChatEvent("content", text) \in Events
  BY EventType, NameList DEF ChatEvent
<1>4. /\ Carried(ChatEvent("reasoning", text)) = Told(<<"thinking", text>>)
      /\ Carried(ChatEvent("content", text)) = Told(<<"text", text>>)
      /\ ChatEvent("reasoning", text).type # "tool_calls" /\ ChatEvent("content", text).type # "tool_calls"
  BY DEF Carried, ChatEvent, Event
<1>. DEFINE r == WriteRole(w)
            a == WriteChunk(r, ChatEvent("reasoning", text))
            b == WriteChunk(r, ChatEvent("content", text))
<1>. HIDE DEF r
<1>5. r \in ChatWriters
  BY <1>1 DEF r
<1>6. /\ ChatUtters(a, r, Told(<<"thinking", text>>)) /\ ChatUtters(b, r, Told(<<"text", text>>))
  BY <1>3, <1>4, <1>5, ChunkUtters
<1>7. /\ ChatUtters(a, w, Told(<<"thinking", text>>)) /\ ChatUtters(b, w, Told(<<"text", text>>))
  BY <1>1, <1>6, SilentThenChatUtters DEF r
<1>8. CASE text = <<>>
  BY <1>1, <1>2, <1>8 DEF WriteText
<1>9. CASE text # <<>>
  BY <1>7, <1>9 DEF WriteText, r
<1>. QED
  BY <1>8, <1>9

LEMMA SaveAndTakeSaves ==
    ASSUME NEW w \in ChatWriters, NEW key \in Calls \cup Images, NEW image \in BOOLEAN,
           NEW sig \in Sigs \cup {None}
    PROVE  LET v == SaveAndTakeReasoning(w, key, image, sig)
           IN  /\ v.out = w.out /\ v.calls = w.calls /\ v.sig = w.sig
               /\ sig = None => v.saves = w.saves
               /\ sig # None => \E r \in Saves : r.sig = sig /\ v.saves = Append(w.saves, r)
<1>1. CASE sig = None
  BY <1>1 DEF SaveAndTakeReasoning
<1>2. CASE sig # None
  <2>. DEFINE r == SignatureSave(key, image, sig, w.thought)
              t == Append(w.saves, r)
              v == [w EXCEPT !.saves = t, !.thought = <<>>]
  <2>1. r \in Saves /\ r.sig = sig
    BY <1>2, SaveType DEF ChatWriters
  <2>2. SaveAndTakeReasoning(w, key, image, sig) = v
    BY <1>2 DEF SaveAndTakeReasoning
  <2>. HIDE DEF t
  <2>3. v.out = w.out /\ v.calls = w.calls /\ v.sig = w.sig /\ v.saves = t
    BY DEF ChatWriters
  <2>. HIDE DEF v, r
  <2>. QED
    BY <1>2, <2>1, <2>2, <2>3 DEF t
<1>. QED
  BY <1>1, <1>2

\* What a part adds: words to what is heard, a call to those collected.
LEMMA ChatPartUtters ==
    ASSUME NEW w, ChatStands(w), NEW p \in Part
    PROVE  LET y == ChatPart(w, p)
           IN  /\ Heard(y.out) = Heard(w.out) \o (IF IsCall(Says(p)) THEN <<>> ELSE Told(Says(p)))
               /\ ChatCalls(y.out) = ChatCalls(w.out)
               /\ y.calls = w.calls \o (IF IsCall(Says(p)) THEN Says(p)[2] ELSE <<>>)
               /\ SigStep(y, w, p)
<1>. DEFINE y == ChatPart(w, p)
<1>1. /\ w \in ChatWriters /\ p.text \in Strings /\ p.sig \in Sigs \cup {None}
      /\ w.sig \in Sigs \cup {None} /\ w.out \in Seq(Events)
  BY ChatStandsTypes, TextsAreStrings DEF Part, Texts, ChatWriters
<1>2. w.calls \o <<>> = w.calls /\ w.calls \in Seq(Calls)
  <2>1. w.calls \in Seq(Calls)
    BY <1>1 DEF ChatWriters
  <2>. QED
    BY <2>1
<1>3. Heard(w.out) \o <<>> = Heard(w.out)
  BY <1>1, AddNothing
<1>4. CASE p.thought
  <2>. DEFINE held == IF w.signing /\ p.sig # None THEN p.sig ELSE w.sig
              t == w.thought \o p.text
              v == [w EXCEPT !.sig = held, !.thought = t]
  <2>1. held \in Sigs \cup {None} /\ t \in Strings /\ held \in {w.sig, p.sig}
    BY <1>1, TextsAreStrings DEF ChatWriters
  <2>2. y = WriteText(v, "reasoning", p.text)
    BY <1>4 DEF ChatPart, ChatThought
  <2>. HIDE DEF held, t
  <2>3. /\ v \in ChatWriters /\ v.out = w.out /\ v.saves = w.saves /\ v.calls = w.calls
        /\ v.sig = held
    BY <1>1, <2>1 DEF ChatWriters
  <2>. HIDE DEF v, y
  <2>4. ChatUtters(y, v, Told(<<"thinking", p.text>>))
    BY <1>1, <2>2, <2>3, WriteTextUtters
  <2>5. Says(p) = <<"thinking", p.text>> /\ ~IsCall(Says(p))
    BY <1>4 DEF Says, IsCall
  <2>. QED
    BY <1>2, <2>1, <2>3, <2>4, <2>5 DEF ChatUtters, Utters, SameSigs, SigStep, y
<1>5. CASE ~p.thought /\ p.text # <<>>
  <2>1. y = WriteText(w, "content", p.text)
    BY <1>5 DEF ChatPart
  <2>2. Says(p) = <<"text", p.text>> /\ ~IsCall(Says(p))
    BY <1>5 DEF Says, IsCall
  <2>. HIDE DEF y
  <2>3. ChatUtters(y, w, Told(<<"text", p.text>>))
    BY <1>1, <2>1, WriteTextUtters
  <2>. QED
    BY <1>2, <2>2, <2>3 DEF ChatUtters, Utters, SameSigs, SigStep, y
<1>6. CASE ~p.thought /\ p.text = <<>> /\ p.image # None
  <2>. DEFINE s == SaveAndTakeReasoning(w, p.image, TRUE, p.sig)
  <2>1. y = WriteText(s, "content", <<p.image>>)
    BY <1>6 DEF ChatPart
  <2>2. p.image \in Images /\ p.image \in Calls \cup Images /\ TRUE \in BOOLEAN
    BY <1>6 DEF Part
  <2>3. <<p.image>> \in Strings
    BY <2>2, TextsAreStrings
  <2>4. s \in ChatWriters
    BY <1>1, <2>2, SaveAndTakeStands, ChatStandsTypes
  <2>5. /\ s.out = w.out /\ s.calls = w.calls /\ s.sig = w.sig
        /\ p.sig = None => s.saves = w.saves
        /\ p.sig # None => \E r \in Saves : r.sig = p.sig /\ s.saves = Append(w.saves, r)
    BY <1>1, <2>2, SaveAndTakeSaves
  <2>. HIDE DEF s, y
  <2>6. ChatUtters(y, s, Told(<<"text", <<p.image>>>>))
    BY <2>1, <2>3, <2>4, WriteTextUtters
  <2>7. Says(p) = <<"text", <<p.image>>>> /\ ~IsCall(Says(p))
    BY <1>6 DEF Says, IsCall
  <2>8. SigStep(y, w, p)
    BY <2>5, <2>6 DEF ChatUtters, Utters, SameSigs, SigStep
  <2>. QED
    BY <1>2, <2>5, <2>6, <2>7, <2>8 DEF ChatUtters, Utters, y
<1>7. CASE ~p.thought /\ p.text = <<>> /\ p.image = None /\ p.call # None
  <2>. DEFINE pending == w.signing /\ w.sig # None
              sig == IF pending THEN w.sig ELSE p.sig
              v == SaveAndTakeReasoning(w, p.call, FALSE, sig)
              u == [v EXCEPT !.sig = IF pending THEN None ELSE @, !.calls = Append(@, p.call)]
  <2>1. y = u
    BY <1>7 DEF ChatPart, ChatCall
  <2>2. /\ p.call \in Calls \cup Images /\ p.call \in Calls /\ FALSE \in BOOLEAN
        /\ sig \in Sigs \cup {None}
    BY <1>1, <1>7 DEF Part
  <2>. HIDE DEF sig
  <2>3. v \in ChatWriters
    BY <1>1, <2>2, SaveAndTakeStands, ChatStandsTypes
  <2>4. /\ v.out = w.out /\ v.calls = w.calls /\ v.sig = w.sig
        /\ sig = None => v.saves = w.saves
        /\ sig # None => \E r \in Saves : r.sig = sig /\ v.saves = Append(w.saves, r)
    BY <1>1, <2>2, SaveAndTakeSaves
  <2>. HIDE DEF v, pending, y
  <2>5. /\ u.out = v.out /\ u.saves = v.saves /\ u.calls = Append(v.calls, p.call)
        /\ u.sig = IF pending THEN None ELSE v.sig
    BY <2>3 DEF ChatWriters
  <2>. HIDE DEF u
  <2>6. Says(p) = <<"tool_use", <<p.call>>>> /\ IsCall(Says(p)) /\ Says(p)[2] = <<p.call>>
    BY <1>7 DEF Says, IsCall
  <2>7. Append(w.calls, p.call) = w.calls \o <<p.call>>
    BY <1>2, <2>2
  <2>8. SigStep(y, w, p)
    <3>1. CASE pending
      BY <2>1, <2>4, <2>5, <3>1 DEF SigStep, sig, pending
    <3>2. CASE ~pending
      BY <2>1, <2>4, <2>5, <3>2 DEF SigStep, sig
    <3>. QED
      BY <3>1, <3>2
  <2>. QED
    BY <1>3, <2>1, <2>4, <2>5, <2>6, <2>7, <2>8 DEF y
<1>8. CASE ~p.thought /\ p.text = <<>> /\ p.image = None /\ p.call = None
  <2>1. y = w
    BY <1>8 DEF ChatPart
  <2>2. Says(p) = <<"text", <<>>>> /\ ~IsCall(Says(p)) /\ Told(Says(p)) = <<>>
    BY <1>8 DEF Says, IsCall, Told
  <2>. QED
    BY <1>2, <1>3, <2>1, <2>2 DEF SigStep
<1>. QED
  BY <1>4, <1>5, <1>6, <1>7, <1>8

\* The calls collected are sent, and nothing else.
LEMMA FlushToolCallsUtters ==
    ASSUME NEW w, ChatStands(w)
    PROVE  LET v == FlushToolCalls(w)
           IN  /\ Silent(v, w) /\ v.calls = <<>>
               /\ ChatCalls(v.out) = ChatCalls(w.out) \o w.calls
<1>. DEFINE r == WriteRole(w)
            e == ChatEvent("tool_calls", w.calls)
            u == WriteChunk(r, e)
            v == [u EXCEPT !.calls = <<>>]
<1>1. w \in ChatWriters /\ w.calls \in Strings /\ w.out \in Seq(Events)
  BY ChatStandsTypes, TextsAreStrings DEF ChatWriters
<1>2. e \in Events /\ e.type = "tool_calls" /\ e.text = w.calls
  BY <1>1, EventType, NameList DEF ChatEvent, Event
<1>3. Carried(e) = <<>>
  BY DEF Carried, ChatEvent, Event
<1>4. FlushToolCalls(w) = IF w.calls = <<>> THEN w ELSE v
  BY DEF FlushToolCalls
<1>5. Heard(w.out) \o <<>> = Heard(w.out)
  BY <1>1, AddNothing
<1>6. CASE w.calls = <<>>
  <2>1. ChatCalls(w.out) \in Strings
    BY <1>1, ChatCallsAppend
  <2>. HIDE DEF ChatCalls
  <2>2. ChatCalls(w.out) \o <<>> = ChatCalls(w.out)
    BY <2>1 DEF Strings
  <2>. QED
    BY <1>4, <1>6, <2>2, SilentKept
<1>7. CASE w.calls # <<>>
  <2>1. r \in ChatWriters /\ ChatUtters(r, w, <<>>)
    BY <1>1, WriteRoleUtters
  <2>. HIDE DEF e, r
  <2>2. u \in ChatWriters /\ Utters(u, r, <<>>) /\ ChatCalls(u.out) = ChatCalls(r.out) \o w.calls
    BY <1>2, <1>3, <2>1, WriteChunkAppends, ChunkUtters
  <2>. HIDE DEF u
  <2>3. v.out = u.out /\ v.sig = u.sig /\ v.saves = u.saves /\ v.calls = <<>>
    BY <2>2 DEF ChatWriters
  <2>. HIDE DEF v
  <2>. QED
    BY <1>4, <1>5, <1>7, <2>1, <2>2, <2>3 DEF ChatUtters, Utters, Silent, SameSigs
<1>. QED
  BY <1>6, <1>7

LEMMA ChatFinishSilent ==
    ASSUME NEW w, ChatStands(w), NEW reason \in {"stop", "STOP"}
    PROVE  LET v == ChatFinish(w, reason)
           IN  Silent(v, w) /\ ChatCalls(v.out) = ChatCalls(w.out)
<1>. DEFINE r == WriteRole(w)
            e1 == Event("finish", 0, reason, <<>>)
            e2 == ChatEvent("[DONE]", <<>>)
            u == WriteChunk(r, e1)
            v == [u EXCEPT !.out = Append(@, e2)]
<1>1. e1 \in Events /\ e2 \in Events
  BY EventType, NameList, TextsAreStrings DEF ChatEvent
<1>2. /\ e1.type # "tool_calls" /\ e2.type # "tool_calls" /\ Carried(e1) = <<>> /\ Carried(e2) = <<>>
  BY DEF ChatEvent, Event, Carried
<1>3. ChatFinish(w, reason) = v
  BY DEF ChatFinish
<1>4. w \in ChatWriters /\ r \in ChatWriters /\ ChatUtters(r, w, <<>>) /\ w.out \in Seq(Events)
  BY ChatStandsTypes, WriteRoleUtters
<1>. HIDE DEF e1, e2, r
<1>5. u \in ChatWriters /\ ChatUtters(u, r, <<>>)
  BY <1>1, <1>2, <1>4, WriteChunkAppends, ChunkUtters
<1>. HIDE DEF u
<1>6. /\ v.out = Append(u.out, e2) /\ v.sig = u.sig /\ v.saves = u.saves /\ u.out \in Seq(Events)
  BY <1>5 DEF ChatWriters
<1>. HIDE DEF v
<1>7. Heard(v.out) = Heard(u.out) \o <<>>
  BY <1>1, <1>2, <1>6, HeardAppend
<1>8. ChatCalls(v.out) = ChatCalls(u.out)
  <2>1. ChatCalls(u.out) \in Strings /\ ChatCalls(v.out) = ChatCalls(u.out) \o <<>>
    BY <1>1, <1>2, <1>6, ChatCallsAppend
  <2>. HIDE DEF ChatCalls
  <2>. QED
    BY <2>1 DEF Strings
<1>9. ChatUtters(u, w, <<>>)
  BY <1>4, <1>5, SilentThenChatUtters
<1>10. Heard(w.out) \o <<>> = Heard(w.out)
  BY <1>4, AddNothing
<1>. QED
  BY <1>3, <1>6, <1>7, <1>8, <1>9, <1>10 DEF ChatUtters, Utters, Silent, SameSigs

-----------------------------------------------------------------------------
(* The parts of the first lines of the body.                                *)

PartsAt == [l \in DOMAIN body |-> IF body[l].kind = "data" THEN body[l].datum.parts ELSE <<>>]
UpTo(n) == FlattenSeq(Firsts(PartsAt, n))

LEMMA PartsAtType ==
    ASSUME body \in Seq(Line)
    PROVE  /\ PartsAt \in Seq(Seq(Part)) /\ Len(PartsAt) = Len(body) /\ Len(body) \in Nat
           /\ DOMAIN body = 1..Len(body)
           /\ \A l \in DOMAIN body : body[l].kind = "data" => body[l].datum.parts \in Seq(Part)
<1>1. Len(body) \in Nat /\ DOMAIN body = 1..Len(body) /\ \A l \in DOMAIN body : body[l] \in Line
  BY LenProperties, ElementOfSeq
<1>2. \A x \in Line : x.kind = "data" => x.datum.parts \in Seq(Part)
  BY DEF Line, Datum
<1>3. <<>> \in Seq(Part)
  OBVIOUS
<1>. DEFINE n == Len(body)
            T == Seq(Part)
            f == PartsAt
<1>4. n \in Nat /\ f \in [1..n -> T]
  BY <1>1, <1>2, <1>3 DEF PartsAt
<1>. HIDE DEF f, n, T
<1>5. f \in Seq(T)
  BY <1>4
<1>6. Len(f) = n
  BY <1>4, <1>5, LenProperties
<1>. QED
  BY <1>1, <1>2, <1>5, <1>6 DEF f, n, T

LEMMA FirstsType ==
    ASSUME NEW X, NEW s \in Seq(X), NEW n \in 0..Len(s)
    PROVE  Firsts(s, n) \in Seq(X)
<1>1. n \in Nat /\ \A i \in 1..n : i \in 1..Len(s)
  BY LenProperties
<1>2. Firsts(s, n) \in [1..n -> X]
  BY <1>1, ElementOfSeq DEF Firsts
<1>. QED
  BY <1>1, <1>2

LEMMA UpToGrows ==
    ASSUME body \in Seq(Line)
    PROVE  /\ UpTo(0) = <<>>
           /\ \A n \in 0..Len(body) : UpTo(n) \in Seq(Part)
           /\ \A n \in Nat : n + 1 \in DOMAIN body => UpTo(n + 1) = UpTo(n) \o PartsAt[n + 1]
<1>1. /\ PartsAt \in Seq(Seq(Part)) /\ Len(PartsAt) = Len(body) /\ Len(body) \in Nat
      /\ DOMAIN body = 1..Len(body)
  BY PartsAtType
<1>2. UpTo(0) = <<>>
  <2>1. Firsts(PartsAt, 0) = <<>>
    BY DEF Firsts
  <2>2. FlattenSeq(<<>>) = <<>>
    BY FlattenEmpty
  <2>. QED
    BY <2>1, <2>2 DEF UpTo
<1>3. \A n \in 0..Len(body) : UpTo(n) \in Seq(Part)
  BY <1>1, FirstsType, FlattenType DEF UpTo
<1>4. ASSUME NEW n \in Nat, n + 1 \in DOMAIN body
      PROVE  UpTo(n + 1) = UpTo(n) \o PartsAt[n + 1]
  <2>1. n < Len(PartsAt)
    BY <1>1, <1>4
  <2>2. /\ Firsts(PartsAt, n) \in Seq(Seq(Part)) /\ PartsAt[n + 1] \in Seq(Part)
        /\ Firsts(PartsAt, n + 1) = Append(Firsts(PartsAt, n), PartsAt[n + 1])
    BY <1>1, <2>1, FirstsAppend
  <2>. QED
    BY <2>2, FlattenAppend DEF UpTo
<1>. QED
  BY <1>2, <1>3, <1>4

\* The parts of any data lines.
LEMMA PartsOfType ==
    ASSUME body \in Seq(Line), NEW lines \in SUBSET DOMAIN body,
           \A l \in lines : body[l].kind = "data"
    PROVE  PartsOf(lines) \in Seq(Part)
<1>. DEFINE f == [l \in DOMAIN body |-> IF l \in lines THEN body[l].datum.parts ELSE <<>>]
            m == Len(body)
            T == Seq(Part)
<1>1. m \in Nat /\ f \in [1..m -> T]
  <2>1. /\ m \in Nat /\ DOMAIN body = 1..m
        /\ \A l \in DOMAIN body : body[l].kind = "data" => body[l].datum.parts \in Seq(Part)
    BY PartsAtType
  <2>2. <<>> \in T
    OBVIOUS
  <2>. QED
    BY <2>1, <2>2
<1>2. PartsOf(lines) = FlattenSeq(f)
  BY DEF PartsOf
<1>. HIDE DEF f, m, T
<1>3. f \in Seq(T)
  BY <1>1
<1>. QED
  BY <1>2, <1>3, FlattenType DEF T

\* A set of data lines that agrees with the first n lines begins with their
\* parts, and has no others when it has no later line.
LEMMA PartsOfUpTo ==
    ASSUME body \in Seq(Line), NEW n \in 0..Len(body), NEW lines \in SUBSET DOMAIN body,
           \A l \in lines : body[l].kind = "data",
           \A l \in 1..n : body[l].kind = "data" => l \in lines
    PROVE  /\ Starts(UpTo(n), PartsOf(lines))
           /\ lines \subseteq 1..n => PartsOf(lines) = UpTo(n)
<1>. DEFINE f == [l \in DOMAIN body |-> IF l \in lines THEN body[l].datum.parts ELSE <<>>]
<1>1. /\ Len(body) \in Nat /\ DOMAIN body = 1..Len(body)
      /\ \A l \in DOMAIN body : body[l].kind = "data" => body[l].datum.parts \in Seq(Part)
  BY PartsAtType
<1>2. f \in Seq(Seq(Part)) /\ Len(f) = Len(body)
  <2>1. <<>> \in Seq(Part)
    OBVIOUS
  <2>. DEFINE m == Len(body)
              T == Seq(Part)
  <2>2. m \in Nat /\ f \in [1..m -> T]
    BY <1>1, <2>1
  <2>. HIDE DEF f, m, T
  <2>3. f \in Seq(T)
    BY <2>2
  <2>4. Len(f) = m
    BY <2>2, <2>3, LenProperties
  <2>. QED
    BY <2>3, <2>4 DEF m, T
<1>3. Firsts(f, n) = Firsts(PartsAt, n)
  <2>1. \A i \in 1..n : i \in DOMAIN body /\ f[i] = PartsAt[i]
    BY <1>1 DEF PartsAt
  <2>. HIDE DEF f
  <2>. QED
    BY <2>1 DEF Firsts
<1>4. lines \subseteq 1..n => \A i \in n + 1..Len(f) : f[i] = <<>>
  <2>. SUFFICES ASSUME lines \subseteq 1..n, NEW i \in n + 1..Len(f) PROVE f[i] = <<>>
    OBVIOUS
  <2>1. i \notin lines /\ i \in DOMAIN body
    BY <1>1, <1>2
  <2>. QED
    BY <2>1
<1>5. PartsOf(lines) = FlattenSeq(f)
  BY DEF PartsOf
<1>. HIDE DEF f
<1>6. n \in 0..Len(f)
  BY <1>2
<1>7. /\ Starts(FlattenSeq(Firsts(f, n)), FlattenSeq(f))
      /\ (\A i \in n + 1..Len(f) : f[i] = <<>>) => FlattenSeq(f) = FlattenSeq(Firsts(f, n))
  BY <1>2, <1>6, FlattenStarts
<1>. QED
  BY <1>3, <1>4, <1>5, <1>7 DEF UpTo

-----------------------------------------------------------------------------
(* Signatures: each is held or saved once, if it has come once.             *)

OnceIn(parts, s) ==
    \A i, j \in DOMAIN parts : parts[i].sig = s /\ parts[j].sig = s => i = j

SigsKept(w, parts) ==
    \A s \in Sigs :
        /\ w.sig = s => \E j \in DOMAIN parts : parts[j].sig = s
        /\ \A i \in DOMAIN w.saves : w.saves[i].sig = s => \E j \in DOMAIN parts : parts[j].sig = s
        /\ OnceIn(parts, s) =>
              /\ OnceIn(w.saves, s)
              /\ w.sig = s => \A i \in DOMAIN w.saves : w.saves[i].sig # s

LEMMA AppendFacts ==
    ASSUME NEW X, NEW s \in Seq(X), NEW x \in X
    PROVE  \E k : /\ k \notin DOMAIN s /\ DOMAIN Append(s, x) = DOMAIN s \cup {k}
                  /\ Append(s, x)[k] = x /\ \A i \in DOMAIN s : Append(s, x)[i] = s[i]
<1>1. /\ DOMAIN s = 1..Len(s) /\ Len(s) \in Nat /\ DOMAIN Append(s, x) = 1..Len(s) + 1
      /\ Append(s, x)[Len(s) + 1] = x /\ \A i \in 1..Len(s) : Append(s, x)[i] = s[i]
  BY AppendProperties, LenProperties
<1>2. Len(s) + 1 \notin 1..Len(s) /\ 1..Len(s) + 1 = 1..Len(s) \cup {Len(s) + 1}
  BY <1>1
<1>. QED
  BY <1>1, <1>2, Zenon

LEMMA SigStepKeeps ==
    ASSUME NEW v, NEW w, NEW P \in Seq(Part), NEW p \in Part, w.saves \in Seq(Saves),
           SigsKept(w, P), SigStep(v, w, p)
    PROVE  SigsKept(v, Append(P, p))
<1>. DEFINE Q == Append(P, p)
<1>1. PICK k : /\ k \notin DOMAIN P /\ DOMAIN Q = DOMAIN P \cup {k}
               /\ Q[k] = p /\ \A i \in DOMAIN P : Q[i] = P[i]
  BY AppendFacts
<1>. HIDE DEF Q
<1>. SUFFICES ASSUME NEW s \in Sigs
              PROVE  /\ v.sig = s => \E j \in DOMAIN Q : Q[j].sig = s
                     /\ \A i \in DOMAIN v.saves : v.saves[i].sig = s => \E j \in DOMAIN Q : Q[j].sig = s
                     /\ OnceIn(Q, s) =>
                           /\ OnceIn(v.saves, s)
                           /\ v.sig = s => \A i \in DOMAIN v.saves : v.saves[i].sig # s
  BY DEF SigsKept, Q
<1>. DEFINE InP == \E j \in DOMAIN P : P[j].sig = s
            InQ == \E j \in DOMAIN Q : Q[j].sig = s
            Holds(u) == \E i \in DOMAIN u.saves : u.saves[i].sig = s
<1>2. InQ <=> InP \/ p.sig = s
  BY <1>1
<1>3. OnceIn(Q, s) => OnceIn(P, s) /\ (p.sig = s => ~InP)
  BY <1>1 DEF OnceIn
<1>4. /\ w.sig = s => InP
      /\ Holds(w) => InP
      /\ OnceIn(P, s) => OnceIn(w.saves, s) /\ (w.sig = s => ~Holds(w))
  BY DEF SigsKept
<1>5. s # None
  BY NoneAssumption
<1>6. CASE v.saves = w.saves /\ v.sig \in {w.sig, p.sig}
  <2>1. Holds(v) <=> Holds(w)
    BY <1>6
  <2>2. v.sig = s => InQ
    BY <1>2, <1>4, <1>6
  <2>3. Holds(v) => InQ
    BY <1>2, <1>4, <2>1
  <2>4. OnceIn(Q, s) => OnceIn(v.saves, s) /\ (v.sig = s => ~Holds(v))
    BY <1>3, <1>4, <1>6, <2>1
  <2>. QED
    BY <2>2, <2>3, <2>4
<1>7. ASSUME NEW r \in Saves, v.saves = Append(w.saves, r),
             \/ v.sig = w.sig /\ r.sig = p.sig
             \/ v.sig = None /\ r.sig = w.sig
      PROVE  /\ v.sig = s => InQ
             /\ Holds(v) => InQ
             /\ OnceIn(Q, s) => OnceIn(v.saves, s) /\ (v.sig = s => ~Holds(v))
  <2>1. PICK m : /\ m \notin DOMAIN w.saves /\ DOMAIN v.saves = DOMAIN w.saves \cup {m}
                 /\ v.saves[m] = r /\ \A i \in DOMAIN w.saves : v.saves[i] = w.saves[i]
    BY <1>7, AppendFacts
  <2>2. Holds(v) <=> Holds(w) \/ r.sig = s
    BY <2>1
  <2>3. OnceIn(w.saves, s) /\ (r.sig = s => ~Holds(w)) => OnceIn(v.saves, s)
    BY <2>1 DEF OnceIn
  <2>. HIDE DEF InP, InQ, Holds
  <2>. QED
    BY <1>2, <1>3, <1>4, <1>5, <1>7, <2>2, <2>3
<1>8. CASE /\ v.sig = w.sig /\ p.sig # None
           /\ \E r \in Saves : r.sig = p.sig /\ v.saves = Append(w.saves, r)
  BY <1>7, <1>8
<1>9. CASE /\ v.sig = None /\ w.sig # None
           /\ \E r \in Saves : r.sig = w.sig /\ v.saves = Append(w.saves, r)
  BY <1>7, <1>9
<1>. QED
  BY <1>6, <1>8, <1>9 DEF SigStep

LEMMA SameSigsKeeps ==
    ASSUME NEW v, NEW w, NEW P, SigsKept(w, P), SameSigs(v, w)
    PROVE  SigsKept(v, P)
  BY DEF SigsKept, SameSigs

-----------------------------------------------------------------------------
(* What the writer was given and what it made of it.                        *)

\* The data lines that have arrived are those of the first n.
Whole(n) == Arrived = {l \in 1..n : body[l].kind = "data"}

\* A line whose end has the calls sent.
Finishes(l) == body[l].kind = "data" /\ body[l].datum.finish # NoReason

\* The calls sent are those up to line k, the last one that asked for it.
SentUpTo(k, n) ==
    /\ k # 0 => Finishes(k)
    /\ \A l \in k + 1..n : Finishes(l) => pc = "parts" /\ l = n
    /\ ChatCalls(writer.out) = CallIds(UpTo(k))

ChatKeeps(n, P) ==
    /\ Heard(writer.out) = Words(P)
    /\ ~Closed => CallIds(P) = ChatCalls(writer.out) \o writer.calls
    /\ \E k \in 0..n : SentUpTo(k, n)
    /\ pc = "parts" => n >= 1 /\ (finishing <=> Finishes(n))

\* The upstream refused: the client has only the error.
Spoiled == Closed /\ (writer.out = ClaudeError \/ writer.out = ChatError)

Keeps(n, P) ==
    /\ SigsKept(writer, P)
    /\ Spoiled \/ IF endpoint = "claude" THEN Heard(writer.out) = Saying(P) ELSE ChatKeeps(n, P)

\* The writer has processed the parts P of the first n lines, all but todo.
Processed(n, P) ==
    /\ n \in 0..Len(body) /\ P \in Seq(Part)
    /\ P \o todo = UpTo(n) /\ (todo # <<>> => pc = "parts")
    /\ IF Parsing THEN n = Taken ELSE Whole(n)
    /\ Keeps(n, P)

\* The channel gets the end of the answer unless the client is gone.
HandedAll == pc = "done" /\ connected => handed = Len(writer.out)

DataInv == HandedAll /\ \E n, P : Processed(n, P)

LEMMA NoneLeft ==
    ASSUME NEW S, NEW s \in Seq(S)
    PROVE  s \o <<>> = s
  OBVIOUS

LEMMA ConcatChained ==
    ASSUME NEW s \in Strings, NEW t \in Strings, NEW u \in Strings
    PROVE  (s \o t) \o u = s \o (t \o u)
  BY DEF Strings

LEMMA ConcatStarts ==
    ASSUME NEW S, NEW s \in Seq(S), NEW t \in Seq(S)
    PROVE  s \o t \in Seq(S) /\ Starts(s, s \o t)
<1>. DEFINE u == s \o t
<1>1. /\ u \in Seq(S) /\ Len(u) = Len(s) + Len(t) /\ Len(s) \in Nat /\ Len(t) \in Nat
      /\ \A i \in 1..Len(u) : u[i] = IF i <= Len(s) THEN s[i] ELSE t[i - Len(s)]
  BY ConcatProperties, LenProperties
<1>. HIDE DEF u
<1>2. Len(s) <= Len(u) /\ \A i \in 1..Len(s) : i \in 1..Len(u) /\ u[i] = s[i]
  BY <1>1
<1>. QED
  BY <1>1, <1>2 DEF Starts, u

LEMMA HeadHandedOver ==
    ASSUME NEW S, NEW s \in Seq(S), NEW t \in Seq(S), t # <<>>
    PROVE  /\ Append(s, Head(t)) \o Tail(t) = s \o t
           /\ Append(s, Head(t)) \in Seq(S) /\ Head(t) \in S /\ Tail(t) \in Seq(S)
<1>1. /\ Head(t) \in S /\ Tail(t) \in Seq(S) /\ t[1] = Head(t) /\ Len(t) \in Nat /\ Len(t) >= 1
      /\ Len(Tail(t)) = Len(t) - 1 /\ \A i \in 1..Len(Tail(t)) : Tail(t)[i] = t[i + 1]
  BY HeadTailProperties, LenProperties, EmptySeq
<1>. DEFINE h == Head(t)
            r == Tail(t)
            a == Append(s, h)
<1>2. h \in S /\ r \in Seq(S) /\ t[1] = h /\ Len(r) = Len(t) - 1 /\ \A i \in 1..Len(r) : r[i] = t[i + 1]
  BY <1>1
<1>. HIDE DEF h, r
<1>3. /\ a \in Seq(S) /\ Len(a) = Len(s) + 1 /\ a[Len(s) + 1] = h /\ Len(s) \in Nat
      /\ \A i \in 1..Len(s) : a[i] = s[i]
  BY <1>2, AppendProperties, LenProperties
<1>. HIDE DEF a
<1>. DEFINE x == a \o r
            y == s \o t
<1>4. /\ x \in Seq(S) /\ Len(x) = Len(a) + Len(r)
      /\ \A i \in 1..Len(x) : x[i] = IF i <= Len(a) THEN a[i] ELSE r[i - Len(a)]
  <2>1. a \in Seq(S) /\ r \in Seq(S)
    BY <1>2, <1>3
  <2>. QED
    BY <2>1, ConcatProperties
<1>5. /\ y \in Seq(S) /\ Len(y) = Len(s) + Len(t)
      /\ \A i \in 1..Len(y) : y[i] = IF i <= Len(s) THEN s[i] ELSE t[i - Len(s)]
  BY ConcatProperties
<1>. HIDE DEF x, y
<1>6. Len(x) = Len(y)
  BY <1>1, <1>2, <1>3, <1>4, <1>5
<1>7. ASSUME NEW i \in 1..Len(x) PROVE x[i] = y[i]
  <2>1. CASE i <= Len(s)
    BY <1>1, <1>3, <1>4, <1>5, <1>6, <2>1
  <2>2. CASE i = Len(s) + 1
    BY <1>1, <1>2, <1>3, <1>4, <1>5, <1>6, <2>2
  <2>3. CASE i > Len(s) + 1
    <3>1. /\ i - Len(a) \in 1..Len(r) /\ i - Len(a) + 1 = i - Len(s)
          /\ x[i] = r[i - Len(a)] /\ y[i] = t[i - Len(s)]
      BY <1>1, <1>2, <1>3, <1>4, <1>5, <1>6, <2>3
    <3>. QED
      BY <1>2, <3>1
  <2>. QED
    BY <1>3, <2>1, <2>2, <2>3
<1>8. x = y
  BY <1>4, <1>5, <1>6, <1>7, SeqEqual
<1>. QED
  BY <1>1, <1>3, <1>8 DEF x, y, a, h, r

\* When all whole lines are taken, or the next one ends the body.
LEMMA ArrivedIs ==
    ASSUME IInv, InStep, Parsing,
           \/ Taken = got \div 4
           \/ Taken + 1 <= got \div 4 /\ body[Taken + 1].kind = "done"
    PROVE  Whole(Taken)
<1>1. Taken \in Nat /\ Taken <= got \div 4 /\ got \div 4 \in Nat
  <2>1. Taken \in Nat /\ Taken <= got \div 4 /\ got \in Nat
    BY StepSizes
  <2>. QED
    BY <2>1
<1>2. \A l \in 1..Taken : body[l].kind # "done"
  BY DEF InStep
<1>3. ASSUME NEW l \in 1..got \div 4
      PROVE  (\A m \in 1..l : body[m].kind # "done") <=> l \in 1..Taken
  <2>1. CASE l \in 1..Taken
    BY <1>1, <1>2, <2>1
  <2>2. CASE l \notin 1..Taken
    BY <1>1, <2>2
  <2>. QED
    BY <2>1, <2>2
<1>. QED
  BY <1>1, <1>3 DEF Whole, Arrived

LEMMA InitData == Init => DataInv
<1>. SUFFICES ASSUME Init PROVE DataInv
  OBVIOUS
<1>1. PICK signing \in BOOLEAN :
         writer = IF endpoint = "claude" THEN NewClaudeWriter(signing) ELSE NewChatWriter(signing)
  BY DEF Init
<1>2. writer.out = <<>> /\ writer.saves = <<>> /\ writer.sig = None
  BY <1>1 DEF NewClaudeWriter, NewChatWriter
<1>3. endpoint # "claude" => writer.calls = <<>>
  BY <1>1 DEF NewChatWriter
<1>4. /\ body \in Seq(Line) /\ Len(body) \in Nat /\ todo = <<>> /\ pc = "connect" /\ got = 0
      /\ processed = 0 /\ Len(buf) = 0
  BY StreamAssumption, LenProperties DEF Init
<1>5. Parsing /\ Taken = 0 /\ ~Closed
  BY <1>4 DEF Parsing, Taken, Offset, Closed
<1>6. UpTo(0) = <<>> /\ <<>> \in Seq(Part) /\ <<>> \in Seq(Events)
  BY <1>4, UpToGrows
<1>7. Heard(<<>>) = <<>> /\ Saying(<<>>) = <<>> /\ Words(<<>>) = <<>> /\ CallIds(<<>>) = <<>>
      /\ ChatCalls(<<>>) = <<>>
  BY <1>6, HeardAppend, SayingAppend, WordsAppend, CallIdsAppend, ChatCallsAppend
<1>8. SigsKept(writer, <<>>)
  <2>1. \A s \in Sigs : s # None
    BY NoneAssumption
  <2>2. DOMAIN <<>> = {}
    OBVIOUS
  <2>. QED
    BY <1>2, <2>1, <2>2 DEF SigsKept, OnceIn
<1>9. ChatKeeps(0, <<>>) \/ endpoint = "claude"
  <2>. SUFFICES ASSUME endpoint # "claude" PROVE ChatKeeps(0, <<>>)
    OBVIOUS
  <2>1. SentUpTo(0, 0)
    BY <1>2, <1>6, <1>7 DEF SentUpTo
  <2>2. CallIds(<<>>) = ChatCalls(writer.out) \o writer.calls
    <3>1. <<>> \o <<>> = <<>>
      OBVIOUS
    <3>. QED
      BY <1>2, <1>3, <1>7, <3>1
  <2>. QED
    BY <1>2, <1>4, <1>7, <2>1, <2>2 DEF ChatKeeps
<1>10. Keeps(0, <<>>)
  BY <1>2, <1>7, <1>8, <1>9 DEF Keeps
<1>11. <<>> \o todo = <<>>
  BY <1>4
<1>12. Processed(0, <<>>)
  BY <1>4, <1>5, <1>6, <1>10, <1>11 DEF Processed
<1>. QED
  BY <1>4, <1>12 DEF DataInv, HandedAll

LEMMA BodyKept ==
    ASSUME body' = body, NEW k
    PROVE  UpTo(k)' = UpTo(k) /\ (Finishes(k)' <=> Finishes(k))
<1>1. PartsAt' = PartsAt
  BY DEF PartsAt
<1>. QED
  BY <1>1 DEF UpTo, Firsts, Finishes

\* The calls sent stay as they are while no line is taken and none finished.
LEMMA SentUpToKept ==
    ASSUME NEW k, NEW n, SentUpTo(k, n), body' = body,
           ChatCalls(writer'.out) = ChatCalls(writer.out), pc = "parts" => pc' = "parts"
    PROVE  SentUpTo(k, n)'
  BY BodyKept DEF SentUpTo

\* What the writer keeps does not change with the parser.
LEMMA KeepsKept ==
    ASSUME NEW n, NEW P, Keeps(n, P), UNCHANGED <<endpoint, body, writer, finishing>>,
           pc' = "parts" <=> pc = "parts", Closed' <=> Closed
    PROVE  Keeps(n, P)'
<1>1. SigsKept(writer, P)'
  BY DEF Keeps, SigsKept, OnceIn
<1>2. Spoiled' <=> Spoiled
  BY DEF Spoiled
<1>3. ChatKeeps(n, P) => ChatKeeps(n, P)'
  <2>. SUFFICES ASSUME ChatKeeps(n, P) PROVE ChatKeeps(n, P)'
    OBVIOUS
  <2>1. \E k \in 0..n : SentUpTo(k, n)'
    BY SentUpToKept DEF ChatKeeps
  <2>2. Finishes(n)' <=> Finishes(n)
    BY BodyKept
  <2>. QED
    BY <2>1, <2>2 DEF ChatKeeps
<1>. QED
  BY <1>1, <1>2, <1>3 DEF Keeps

\* A step that writes nothing and takes no line.
LEMMA QuietData ==
    ASSUME NEW n, NEW P, Processed(n, P), UNCHANGED <<endpoint, body, writer, todo, finishing>>,
           Parsing' <=> Parsing, pc' = "parts" <=> pc = "parts", Closed' <=> Closed,
           Parsing => Taken' = Taken, ~Parsing => got' = got
    PROVE  Processed(n, P)'
<1>1. UpTo(n)' = UpTo(n)
  BY BodyKept
<1>2. ~Parsing => (Whole(n)' <=> Whole(n))
  BY DEF Whole, Arrived
<1>3. Keeps(n, P)'
  BY KeepsKept DEF Processed
<1>. QED
  BY <1>1, <1>2, <1>3 DEF Processed

\* The upstream has nothing more.
LEMMA EndsData ==
    ASSUME IInv, InStep, UpstreamEnds, NEW n, NEW P, Processed(n, P)
    PROVE  Processed(n, P)'
<1>. USE DEF upstreamVars, parserVars, datumVars, clientVars
<1>1. /\ pc = "read" /\ pc' = "finish" /\ UNCHANGED <<endpoint, body, got, writer, todo, finishing>>
  BY DEF UpstreamEnds
<1>2. Parsing /\ ~Parsing' /\ ~Closed /\ ~Closed'
  BY <1>1 DEF Parsing, Closed
<1>3. Whole(n)'
  <2>1. n = Taken /\ Taken = got \div 4
    BY <1>1, <1>2 DEF Processed, InStep
  <2>2. Whole(n)
    BY <1>2, <2>1, ArrivedIs
  <2>. QED
    BY <1>1, <2>2 DEF Whole, Arrived
<1>4. UpTo(n)' = UpTo(n)
  BY <1>1, BodyKept
<1>5. Keeps(n, P)'
  BY <1>1, <1>2, KeepsKept DEF Processed
<1>. QED
  BY <1>1, <1>2, <1>3, <1>4, <1>5 DEF Processed

\* A line is taken.
LEMMA TakeLineData ==
    ASSUME IInv, InStep, TakeLine, NEW n, NEW P, Processed(n, P)
    PROVE  \E m : Processed(m, P)'
<1>. USE DEF upstreamVars, parserVars, datumVars, clientVars
<1>. DEFINE line == body[n + 1]
<1>1. pc = "lines" /\ UNCHANGED <<endpoint, body, got, writer>>
  BY DEF TakeLine
<1>2. Parsing /\ ~Closed /\ todo = <<>> /\ n = Taken /\ pc # "parts"
  BY <1>1 DEF Parsing, Closed, Processed
<1>3. /\ InStep' /\ n + 1 \in DOMAIN body /\ 4 * (n + 1) <= got
      /\ \/ line.kind = "done" /\ pc' = "finish" /\ UNCHANGED <<todo, finishing>>
         \/ /\ line.kind \in {"bad", "other"} /\ pc' = "lines" /\ Taken' = n + 1
            /\ UNCHANGED <<todo, finishing>>
         \/ /\ line.kind = "data" /\ pc' = "parts" /\ Taken' = n + 1
            /\ todo' = line.datum.parts /\ finishing' = (line.datum.finish # NoReason)
  BY <1>2, TakeLineInStep
<1>. HIDE DEF line
<1>4. /\ body \in Seq(Line) /\ Len(body) \in Nat /\ n \in Nat /\ n + 1 \in 0..Len(body) /\ got \in Nat
      /\ P \in Seq(Part) /\ UpTo(n) \in Seq(Part) /\ P = UpTo(n)
  <2>1. body \in Seq(Line) /\ Len(body) \in Nat /\ DOMAIN body = 1..Len(body) /\ got \in Nat
    BY LenProperties DEF IInv, TypeOK, ParserTyped
  <2>2. n \in 0..Len(body) /\ P \in Seq(Part) /\ P \o <<>> = UpTo(n)
    BY <1>2 DEF Processed
  <2>3. UpTo(n) \in Seq(Part)
    BY <2>1, <2>2, UpToGrows
  <2>4. P \o <<>> = P
    BY <2>2, NoneLeft
  <2>. QED
    BY <1>3, <2>1, <2>2, <2>3, <2>4
<1>5. UpTo(n + 1) = P \o PartsAt[n + 1]
  BY <1>3, <1>4, UpToGrows
<1>6. CASE line.kind = "done" /\ pc' = "finish" /\ UNCHANGED <<todo, finishing>>
  <2>1. ~Parsing' /\ ~Closed' /\ pc' # "parts"
    BY <1>6 DEF Parsing, Closed
  <2>2. n + 1 <= got \div 4
    BY <1>3, <1>4
  <2>3. Whole(n)'
    <3>1. Whole(n)
      BY <1>2, <1>6, <2>2, ArrivedIs DEF line
    <3>. QED
      BY <1>1, <3>1 DEF Whole, Arrived
  <2>4. Keeps(n, P)'
    BY <1>1, <1>2, <1>6, <2>1, KeepsKept DEF Processed
  <2>5. UpTo(n)' = UpTo(n)
    BY <1>1, BodyKept
  <2>. QED
    BY <1>1, <1>2, <1>6, <2>1, <2>3, <2>4, <2>5 DEF Processed
<1>7. ASSUME line.kind # "done", pc' \in {"lines", "parts"}, Taken' = n + 1,
             Finishes(n + 1) => pc' = "parts",
             pc' = "parts" => (finishing' <=> Finishes(n + 1))
      PROVE  Parsing' /\ Keeps(n + 1, P)'
  <2>1. Parsing' /\ ~Closed'
    BY <1>7 DEF Parsing, Closed
  <2>2. SigsKept(writer, P)'
    BY <1>1 DEF Processed, Keeps, SigsKept, OnceIn
  <2>3. ~Spoiled
    BY <1>2 DEF Spoiled
  <2>4. CASE endpoint = "claude"
    BY <1>1, <2>1, <2>2, <2>3, <2>4 DEF Processed, Keeps
  <2>5. CASE endpoint # "claude"
    <3>1. ChatKeeps(n, P)
      BY <2>3, <2>5 DEF Processed, Keeps
    <3>2. PICK k \in 0..n : SentUpTo(k, n)
      BY <3>1 DEF ChatKeeps
    <3>3. ASSUME NEW l \in k + 1..n + 1, Finishes(l)
          PROVE  pc' = "parts" /\ l = n + 1
      <4>1. CASE l \in k + 1..n
        BY <1>2, <3>2, <3>3, <4>1 DEF SentUpTo
      <4>2. CASE l = n + 1
        BY <1>7, <3>3, <4>2
      <4>. QED
        BY <1>4, <3>2, <3>3, <4>1, <4>2
    <3>4. UpTo(k)' = UpTo(k) /\ \A l : Finishes(l)' <=> Finishes(l)
      BY <1>1, BodyKept
    <3>5. SentUpTo(k, n + 1)'
      BY <1>1, <3>2, <3>3, <3>4 DEF SentUpTo
    <3>6. k \in 0..n + 1
      BY <1>4, <3>2
    <3>7. CallIds(P) = ChatCalls(writer.out) \o writer.calls
      BY <1>2, <3>1 DEF ChatKeeps
    <3>8. ChatKeeps(n + 1, P)'
      <4>1. n + 1 >= 1
        BY <1>4
      <4>2. pc' = "parts" => (finishing' <=> Finishes(n + 1)')
        BY <1>7, <3>4
      <4>. QED
        BY <1>1, <3>1, <3>5, <3>6, <3>7, <4>1, <4>2 DEF ChatKeeps
    <3>. QED
      BY <1>1, <2>1, <2>2, <2>5, <3>8 DEF Keeps
  <2>. QED
    BY <2>4, <2>5
<1>8. CASE line.kind \in {"bad", "other"} /\ pc' = "lines" /\ Taken' = n + 1
           /\ UNCHANGED <<todo, finishing>>
  <2>1. ~Finishes(n + 1) /\ PartsAt[n + 1] = <<>>
    BY <1>3, <1>8 DEF Finishes, PartsAt, line
  <2>2. Parsing' /\ Keeps(n + 1, P)'
    BY <1>7, <1>8, <2>1
  <2>3. UpTo(n + 1)' = UpTo(n + 1)
    BY <1>1, BodyKept
  <2>4. (P \o todo)' = UpTo(n + 1)
    BY <1>2, <1>5, <1>8, <2>1
  <2>5. Processed(n + 1, P)'
    BY <1>1, <1>2, <1>4, <1>8, <2>2, <2>3, <2>4 DEF Processed
  <2>. QED
    BY <2>5
<1>9. CASE line.kind = "data" /\ pc' = "parts" /\ Taken' = n + 1
           /\ todo' = line.datum.parts /\ finishing' = (line.datum.finish # NoReason)
  <2>1. (finishing' <=> Finishes(n + 1)) /\ PartsAt[n + 1] = todo'
    BY <1>3, <1>9, Zenon DEF Finishes, PartsAt, line
  <2>2. Parsing' /\ Keeps(n + 1, P)'
    BY <1>7, <1>9, <2>1
  <2>3. UpTo(n + 1)' = UpTo(n + 1)
    BY <1>1, BodyKept
  <2>4. (P \o todo)' = UpTo(n + 1)
    BY <1>5, <2>1
  <2>5. Processed(n + 1, P)'
    BY <1>1, <1>4, <1>9, <2>2, <2>3, <2>4 DEF Processed
  <2>. QED
    BY <2>5
<1>. QED
  BY <1>3, <1>6, <1>8, <1>9

\* A part is handed to the writer.
LEMMA ProcessPartData ==
    ASSUME IInv, ProcessPart, NEW n, NEW P, Processed(n, P)
    PROVE  \E Q : Processed(n, Q)'
<1>. USE DEF upstreamVars, parserVars, datumVars, clientVars
<1>. PICK p : p = Head(todo)
  OBVIOUS
<1>. DEFINE Q == Append(P, p)
<1>1. /\ pc = "parts" /\ pc' = "parts" /\ UNCHANGED <<endpoint, body, got, buf, processed, finishing>>
      /\ todo' = Tail(todo) /\ todo # <<>>
      /\ writer' = IF endpoint = "claude" THEN ClaudePart(writer, p) ELSE ChatPart(writer, p)
  BY DEF ProcessPart
<1>2. Parsing /\ Parsing' /\ ~Closed /\ ~Closed' /\ ~Spoiled /\ Stands
  BY <1>1 DEF Parsing, Closed, Spoiled, IInv
<1>3. Taken' = Taken
  BY <1>1 DEF Taken, Offset
<1>4. /\ p \in Part /\ Q \in Seq(Part) /\ Q \o Tail(todo) = P \o todo
      /\ P \in Seq(Part) /\ todo \in Seq(Part)
  <2>1. P \in Seq(Part) /\ todo \in Seq(Part) /\ todo # <<>>
    BY <1>1 DEF IInv, TypeOK, Processed
  <2>2. /\ Append(P, Head(todo)) \o Tail(todo) = P \o todo
        /\ Append(P, Head(todo)) \in Seq(Part) /\ Head(todo) \in Part
    BY <2>1, HeadHandedOver
  <2>. QED
    BY <2>1, <2>2
<1>5. UpTo(n)' = UpTo(n) /\ \A l : UpTo(l)' = UpTo(l) /\ (Finishes(l)' <=> Finishes(l))
  BY <1>1, BodyKept
<1>6. /\ Saying(Q) = Saying(P) \o Told(Says(p))
      /\ Words(Q) = Words(P) \o (IF IsCall(Says(p)) THEN <<>> ELSE Told(Says(p)))
      /\ CallIds(Q) = CallIds(P) \o (IF IsCall(Says(p)) THEN Says(p)[2] ELSE <<>>)
  BY <1>4, SayingAppend, WordsAppend, CallIdsAppend
<1>7. writer.out \in Seq(Events) /\ writer.saves \in Seq(Saves)
  BY WriterTypes DEF IInv
<1>. HIDE DEF Q
<1>8. SigsKept(writer, P)
  BY DEF Processed, Keeps
<1>9. CASE endpoint = "claude"
  <2>1. ClaudeStands(writer) /\ writer' = ClaudePart(writer, p)
    BY <1>1, <1>2, <1>9 DEF Stands
  <2>2. Heard(writer'.out) = Heard(writer.out) \o Told(Says(p)) /\ SigStep(writer', writer, p)
    BY <1>4, <2>1, ClaudePartUtters
  <2>3. SigsKept(writer', Q)
    BY <1>4, <1>7, <1>8, <2>2, SigStepKeeps DEF Q
  <2>4. Heard(writer.out) = Saying(P)
    BY <1>2, <1>9 DEF Processed, Keeps
  <2>5. Keeps(n, Q)'
    <3>1. SigsKept(writer, Q)'
      BY <2>3 DEF SigsKept, OnceIn
    <3>. QED
      BY <1>1, <1>6, <1>9, <2>2, <2>4, <3>1 DEF Keeps
  <2>. QED
    BY <1>1, <1>2, <1>3, <1>4, <1>5, <2>5 DEF Processed
<1>10. CASE endpoint # "claude"
  <2>1. ChatStands(writer) /\ writer' = ChatPart(writer, p) /\ writer.calls \in Strings
    <3>1. ChatStands(writer)
      BY <1>2, <1>10 DEF Stands
    <3>2. writer.calls \in Strings
      BY <3>1, ChatStandsTypes, TextsAreStrings DEF ChatWriters
    <3>. QED
      BY <1>1, <1>10, <3>1, <3>2
  <2>. DEFINE said == IF IsCall(Says(p)) THEN Says(p)[2] ELSE <<>>
  <2>2. /\ Heard(writer'.out) = Heard(writer.out) \o (IF IsCall(Says(p)) THEN <<>> ELSE Told(Says(p)))
        /\ ChatCalls(writer'.out) = ChatCalls(writer.out)
        /\ writer'.calls = writer.calls \o said
        /\ SigStep(writer', writer, p)
    BY <1>4, <2>1, ChatPartUtters
  <2>3. SigsKept(writer', Q)
    BY <1>4, <1>7, <1>8, <2>2, SigStepKeeps DEF Q
  <2>4. ChatKeeps(n, P)
    BY <1>2, <1>10 DEF Processed, Keeps
  <2>5. said \in Strings /\ ChatCalls(writer.out) \in Strings
    <3>1. <<>> \in Strings /\ Says(p)[2] \in Strings
      BY <1>4, SaysType, TextsAreStrings
    <3>2. ChatCalls(writer.out) \in Strings
      BY <1>7, ChatCallsAppend
    <3>. QED
      BY <3>1, <3>2
  <2>. HIDE DEF said
  <2>6. CallIds(Q) = ChatCalls(writer'.out) \o writer'.calls
    <3>1. CallIds(P) = ChatCalls(writer.out) \o writer.calls
      BY <1>2, <2>4 DEF ChatKeeps
    <3>2. CallIds(Q) = CallIds(P) \o said
      BY <1>6 DEF said
    <3>. HIDE DEF CallIds, ChatCalls
    <3>3. (ChatCalls(writer.out) \o writer.calls) \o said = ChatCalls(writer.out) \o (writer.calls \o said)
      BY <2>1, <2>5, ConcatChained
    <3>. QED
      BY <2>2, <3>1, <3>2, <3>3
  <2>7. \E k \in 0..n : SentUpTo(k, n)'
    BY <1>1, <2>2, <2>4, SentUpToKept DEF ChatKeeps
  <2>8. ChatKeeps(n, Q)'
    <3>1. Heard(writer'.out) = Words(Q)
      BY <1>6, <2>2, <2>4 DEF ChatKeeps
    <3>2. n >= 1 /\ (finishing' <=> Finishes(n)')
      BY <1>1, <1>5, <2>4 DEF ChatKeeps
    <3>. QED
      BY <2>6, <2>7, <3>1, <3>2 DEF ChatKeeps
  <2>9. Keeps(n, Q)'
    <3>1. SigsKept(writer, Q)'
      BY <2>3 DEF SigsKept, OnceIn
    <3>. QED
      BY <1>1, <1>10, <2>8, <3>1 DEF Keeps
  <2>. QED
    BY <1>1, <1>2, <1>3, <1>4, <1>5, <2>9 DEF Processed
<1>. QED
  BY <1>9, <1>10

\* The parts of a line are done: a finish reason sends the calls.
LEMMA PartsDoneData ==
    ASSUME IInv, PartsDone, NEW n, NEW P, Processed(n, P)
    PROVE  Processed(n, P)'
<1>. USE DEF upstreamVars, parserVars, datumVars, clientVars
<1>1. /\ pc = "parts" /\ pc' \in {"send", "save"} /\ todo = <<>>
      /\ UNCHANGED <<endpoint, body, got, buf, processed, todo, finishing>>
      /\ writer' = IF endpoint = "openai" /\ finishing THEN FlushToolCalls(writer) ELSE writer
      /\ endpoint \in {"claude", "openai"}
  BY DEF PartsDone, IInv, TypeOK
<1>2. Parsing /\ Parsing' /\ ~Closed /\ ~Closed' /\ ~Spoiled /\ Stands /\ pc' # "parts"
  BY <1>1 DEF Parsing, Closed, Spoiled, IInv
<1>3. Taken' = Taken
  BY <1>1 DEF Taken, Offset
<1>4. UpTo(n)' = UpTo(n) /\ \A l : UpTo(l)' = UpTo(l) /\ (Finishes(l)' <=> Finishes(l))
  BY <1>1, BodyKept
<1>5. SigsKept(writer, P)
  BY DEF Processed, Keeps
<1>6. SUFFICES Keeps(n, P)'
  BY <1>1, <1>2, <1>3, <1>4 DEF Processed
<1>7. CASE endpoint = "claude"
  <2>1. SigsKept(writer, P)'
    BY <1>1, <1>5, <1>7 DEF SigsKept, OnceIn
  <2>. QED
    BY <1>1, <1>2, <1>7, <2>1 DEF Processed, Keeps
<1>8. CASE endpoint = "openai"
  <2>1. ChatKeeps(n, P) /\ ChatStands(writer)
    BY <1>2, <1>8 DEF Processed, Keeps, Stands
  <2>2. n \in Nat /\ P \in Seq(Part) /\ P = UpTo(n)
    <3>1. n \in Nat /\ P \in Seq(Part) /\ P \o <<>> = UpTo(n)
      BY <1>1 DEF Processed
    <3>. QED
      BY <3>1, NoneLeft
  <2>3. /\ Heard(writer'.out) = Heard(writer.out) /\ SigsKept(writer', P)
        /\ CallIds(P) = ChatCalls(writer'.out) \o writer'.calls
        /\ \E k \in 0..n : SentUpTo(k, n)'
    <3>1. CallIds(P) \in Strings /\ CallIds(P) = ChatCalls(writer.out) \o writer.calls
      BY <1>2, <2>1, <2>2, CallIdsAppend DEF ChatKeeps
    <3>2. CASE finishing
      <4>1. /\ Silent(writer', writer) /\ writer'.calls = <<>>
            /\ ChatCalls(writer'.out) = ChatCalls(writer.out) \o writer.calls
        BY <1>1, <1>8, <2>1, <3>2, FlushToolCallsUtters
      <4>2. SigsKept(writer', P)
        BY <1>5, <4>1, SameSigsKeeps DEF Silent
      <4>3. CallIds(P) \o <<>> = CallIds(P)
        <5>. HIDE DEF CallIds
        <5>. QED
          BY <3>1, NoneLeft DEF Strings
      <4>4. n >= 1 /\ Finishes(n)
        BY <1>1, <2>1, <3>2 DEF ChatKeeps
      <4>5. SentUpTo(n, n)'
        <5>1. n + 1..n = {}
          BY <2>2
        <5>. QED
          BY <1>4, <2>2, <3>1, <4>1, <4>4, <5>1 DEF SentUpTo
      <4>. QED
        BY <2>2, <3>1, <4>1, <4>2, <4>3, <4>5 DEF Silent
    <3>3. CASE ~finishing
      <4>1. writer' = writer
        BY <1>1, <3>3
      <4>2. PICK k \in 0..n : SentUpTo(k, n)
        BY <2>1 DEF ChatKeeps
      <4>3. \A l \in k + 1..n : ~Finishes(l)
        <5>1. ~Finishes(n)
          BY <1>1, <2>1, <3>3 DEF ChatKeeps
        <5>. QED
          BY <4>2, <5>1 DEF SentUpTo
      <4>4. SentUpTo(k, n)'
        BY <1>4, <4>1, <4>2, <4>3 DEF SentUpTo
      <4>. QED
        BY <1>5, <3>1, <4>1, <4>4
    <3>. QED
      BY <3>2, <3>3
  <2>4. ChatKeeps(n, P)'
    BY <1>2, <2>1, <2>3 DEF ChatKeeps
  <2>5. SigsKept(writer, P)'
    BY <2>3 DEF SigsKept, OnceIn
  <2>. QED
    BY <1>1, <1>8, <2>4, <2>5 DEF Keeps
<1>. QED
  BY <1>1, <1>7, <1>8

\* The end is written, after everything else.
LEMMA FinishData ==
    ASSUME IInv, Finish, NEW n, NEW P, Processed(n, P)
    PROVE  Processed(n, P)'
<1>. USE DEF upstreamVars, parserVars, datumVars, clientVars
<1>1. /\ pc = "finish" /\ pc' = "closing" /\ UNCHANGED <<endpoint, body, got, todo, finishing>>
      /\ writer' = IF endpoint = "claude" THEN ClaudeFinish(writer, StopReason)
                   ELSE ChatFinish(writer, StopReason)
  BY DEF Finish
<1>2. ~Parsing /\ ~Parsing' /\ ~Closed /\ Closed' /\ ~Spoiled /\ Stands /\ todo = <<>>
  BY <1>1 DEF Parsing, Closed, Spoiled, IInv, Processed
<1>3. UpTo(n)' = UpTo(n) /\ (Whole(n)' <=> Whole(n))
  BY <1>1, BodyKept DEF Whole, Arrived
<1>4. SUFFICES Keeps(n, P)'
  BY <1>1, <1>2, <1>3 DEF Processed
<1>5. SigsKept(writer, P)
  BY DEF Processed, Keeps
<1>6. CASE endpoint = "claude"
  <2>1. Silent(writer', writer)
    <3>1. StopReason \in {"tool_use", "end_turn"} /\ ClaudeStands(writer)
      BY <1>2, <1>6 DEF StopReason, Stands
    <3>. QED
      BY <1>1, <1>6, <3>1, ClaudeFinishSilent
  <2>2. SigsKept(writer', P)
    BY <1>5, <2>1, SameSigsKeeps DEF Silent
  <2>3. SigsKept(writer, P)'
    BY <2>2 DEF SigsKept, OnceIn
  <2>. QED
    BY <1>1, <1>2, <1>6, <2>1, <2>3 DEF Processed, Keeps, Silent
<1>7. CASE endpoint # "claude"
  <2>1. Silent(writer', writer) /\ ChatCalls(writer'.out) = ChatCalls(writer.out)
    <3>1. StopReason \in {"stop", "STOP"} /\ ChatStands(writer)
      BY <1>2, <1>7 DEF StopReason, Stands, IInv, ParserTyped, FinishReasons
    <3>. QED
      BY <1>1, <1>7, <3>1, ChatFinishSilent
  <2>2. SigsKept(writer', P)
    BY <1>5, <2>1, SameSigsKeeps DEF Silent
  <2>3. SigsKept(writer, P)'
    BY <2>2 DEF SigsKept, OnceIn
  <2>4. ChatKeeps(n, P)
    BY <1>2, <1>7 DEF Processed, Keeps
  <2>5. \E k \in 0..n : SentUpTo(k, n)'
    BY <1>1, <2>1, <2>4, SentUpToKept DEF ChatKeeps
  <2>6. ChatKeeps(n, P)'
    BY <1>1, <1>2, <2>1, <2>4, <2>5 DEF ChatKeeps, Silent
  <2>. QED
    BY <1>1, <1>7, <2>3, <2>6 DEF Keeps
<1>. QED
  BY <1>6, <1>7

\* Every attempt failed: nothing was given to the writer.
LEMMA ConnectFailsData ==
    ASSUME IInv, InStep, ConnectFails, NEW n, NEW P, Processed(n, P)
    PROVE  Processed(n, P)'
<1>. USE DEF upstreamVars, parserVars, datumVars, clientVars
<1>1. /\ pc = "connect" /\ pc' = "closing" /\ UNCHANGED <<endpoint, body, got, todo, finishing>>
      /\ writer' = [writer EXCEPT !.out = IF endpoint = "claude" THEN ClaudeError ELSE ChatError]
  BY DEF ConnectFails
<1>2. Parsing /\ ~Parsing' /\ Closed' /\ todo = <<>>
  BY <1>1 DEF Parsing, Closed, Processed
<1>3. Whole(n)'
  <2>1. n = Taken /\ Taken = got \div 4
    BY <1>1, <1>2 DEF Processed, InStep
  <2>2. Whole(n)
    BY <1>2, <2>1, ArrivedIs
  <2>. QED
    BY <1>1, <2>2 DEF Whole, Arrived
<1>4. UpTo(n)' = UpTo(n)
  BY <1>1, BodyKept
<1>5. /\ writer'.out = IF endpoint = "claude" THEN ClaudeError ELSE ChatError
      /\ writer'.sig = writer.sig /\ writer'.saves = writer.saves
  BY <1>1 DEF IInv, WriterTyped, ClaudeWriters, ChatWriters
<1>6. Spoiled'
  BY <1>2, <1>5 DEF Spoiled
<1>7. SigsKept(writer', P)
  BY <1>5, SameSigsKeeps DEF SameSigs, Processed, Keeps
<1>8. SigsKept(writer, P)'
  BY <1>7 DEF SigsKept, OnceIn
<1>. QED
  BY <1>1, <1>2, <1>3, <1>4, <1>6, <1>8 DEF Processed, Keeps

\* The end is handed over, or the client is gone.
LEMMA NextHandedAll == HandedAll /\ [Next]_vars => HandedAll'
<1>. SUFFICES ASSUME HandedAll, [Next]_vars PROVE HandedAll'
  OBVIOUS
<1>. USE DEF upstreamVars, parserVars, datumVars, clientVars
<1>1. CASE UNCHANGED vars
  BY <1>1 DEF vars, HandedAll
<1>2. CASE Handler
  <2>1. CASE Sent
    BY <2>1 DEF Sent, HandedAll
  <2>2. CASE Send
    BY <2>2 DEF Send, HandedAll
  <2>3. CASE Connect \/ ConnectFails \/ TakeLine \/ Drain \/ ProcessPart \/ PartsDone \/ Save \/ Finish
    <3>1. pc' # "done"
      BY <2>3 DEF Connect, ConnectFails, TakeLine, Drain, ProcessPart, PartsDone, Save, Finish
    <3>. QED
      BY <3>1 DEF HandedAll
  <2>. QED
    BY <1>2, <2>1, <2>2, <2>3 DEF Handler
<1>3. CASE Network
  BY <1>3 DEF Network, UpstreamEnds, Chunk, HandedAll
<1>4. CASE ClientReads \/ ClientLeaves
  BY <1>4 DEF ClientReads, ClientLeaves, HandedAll
<1>. QED
  BY <1>1, <1>2, <1>3, <1>4 DEF Next

LEMMA NextData == IInv /\ InStep /\ DataInv /\ [Next]_vars => DataInv'
<1>. SUFFICES ASSUME IInv, InStep, DataInv, [Next]_vars PROVE DataInv'
  OBVIOUS
<1>. USE DEF upstreamVars, parserVars, datumVars, clientVars
<1>1. PICK n, P : Processed(n, P)
  BY DEF DataInv
<1>2. HandedAll'
  BY NextHandedAll DEF DataInv
<1>3. SUFFICES \E m, Q : Processed(m, Q)'
  BY <1>2 DEF DataInv
<1>4. CASE TakeLine
  BY <1>1, <1>4, TakeLineData
<1>5. CASE ProcessPart
  BY <1>1, <1>5, ProcessPartData
<1>6. CASE PartsDone \/ Finish
  BY <1>1, <1>6, PartsDoneData, FinishData
<1>7. CASE ConnectFails \/ UpstreamEnds
  BY <1>1, <1>7, ConnectFailsData, EndsData
<1>8. CASE Drain
  <2>1. Taken' = Taken
    BY <1>8, DrainInStep
  <2>. QED
    BY <1>1, <1>8, <2>1, QuietData DEF Drain, Parsing, Closed
<1>9. ASSUME NEW k \in ChunkSizes, Chunk(k) PROVE Processed(n, P)'
  <2>1. Taken' = Taken
    BY <1>9, ChunkInStep
  <2>. QED
    BY <1>1, <1>9, <2>1, QuietData DEF Chunk, Parsing, Closed
<1>10. ASSUME UNCHANGED <<endpoint, body, got, buf, processed, writer, todo, finishing>>,
              Parsing' <=> Parsing, pc' = "parts" <=> pc = "parts", Closed' <=> Closed
       PROVE  Processed(n, P)'
  <2>1. Taken' = Taken
    BY <1>10 DEF Taken, Offset
  <2>. QED
    BY <1>1, <1>10, <2>1, QuietData
<1>11. CASE UNCHANGED vars
  BY <1>10, <1>11 DEF vars, Parsing, Closed
<1>12. CASE Connect
  BY <1>10, <1>12 DEF Connect, Parsing, Closed
<1>13. CASE Send
  BY <1>10, <1>13 DEF Send, Parsing, Closed
<1>14. CASE Sent
  BY <1>10, <1>14 DEF Sent, Parsing, Closed
<1>15. CASE Save
  BY <1>10, <1>15 DEF Save, Parsing, Closed
<1>16. CASE ClientReads \/ ClientLeaves
  BY <1>10, <1>16 DEF ClientReads, ClientLeaves, Parsing, Closed
<1>. QED
  BY <1>4, <1>5, <1>6, <1>7, <1>8, <1>9, <1>11, <1>12, <1>13, <1>14, <1>15, <1>16
     DEF Next, Handler, Network

LEMMA DataInvariance == Spec => [](IInv /\ InStep /\ DataInv)
<1>1. Init => DataInv
  BY InitData
<1>. QED
  BY <1>1, NextData, InitIInv, NextIInv, InitInStep, NextInStep, PTL DEF Spec

\* A client that stays gets what the lines carry, once and in order, wherever
\* the chunks cut the lines and the body broke off: ClientGetsAll.
THEOREM ClientHearsAll == Spec => []ClientGetsAll
<1>1. ASSUME IInv, DataInv PROVE ClientGetsAll
  <2>. SUFFICES ASSUME Answered
       PROVE  IF endpoint = "claude" THEN Heard(received) = Saying(PartsOf(Arrived))
              ELSE /\ Heard(received) = Words(PartsOf(Arrived))
                   /\ ChatCalls(received) =
                          CallIds(PartsOf({l \in Arrived :
                                      \E m \in Arrived : l <= m /\ body[m].datum.finish # NoReason}))
    BY DEF ClientGetsAll
  <2>1. PICK n, P : Processed(n, P)
    BY <1>1 DEF DataInv
  <2>2. /\ pc = "done" /\ ~Parsing /\ ~Spoiled /\ todo = <<>> /\ Whole(n) /\ Keeps(n, P)
        /\ P \in Seq(Part) /\ P \o todo = UpTo(n) /\ n \in 0..Len(body)
    BY <2>1 DEF Answered, Parsing, Spoiled, Processed
  <2>3. received = writer.out
    <3>1. read = Len(writer.out) /\ writer.out \in Seq(Events)
      BY <1>1, WriterTypes DEF DataInv, HandedAll, Answered, IInv
    <3>. QED
      BY <3>1 DEF received
  <2>4. /\ body \in Seq(Line) /\ Len(body) \in Nat /\ DOMAIN body = 1..Len(body)
        /\ Arrived = {l \in 1..n : body[l].kind = "data"}
    BY <1>1, <2>2, LenProperties DEF IInv, ParserTyped, Whole
  <2>5. P = UpTo(n)
    BY <2>2, NoneLeft
  <2>6. PartsOf(Arrived) = P
    <3>1. Arrived \in SUBSET DOMAIN body /\ Arrived \subseteq 1..n
      BY <2>2, <2>4
    <3>. QED
      BY <2>2, <2>4, <2>5, <3>1, PartsOfUpTo
  <2>7. CASE endpoint = "claude"
    BY <2>2, <2>3, <2>6, <2>7 DEF Keeps
  <2>8. CASE endpoint # "claude"
    <3>. DEFINE S == {l \in Arrived : \E m \in Arrived : l <= m /\ body[m].datum.finish # NoReason}
    <3>1. ChatKeeps(n, P)
      BY <2>2, <2>8 DEF Keeps
    <3>2. PICK k \in 0..n : SentUpTo(k, n)
      BY <3>1 DEF ChatKeeps
    <3>3. /\ k # 0 => Finishes(k) /\ k \in Arrived
          /\ \A l \in k + 1..n : ~Finishes(l)
          /\ ChatCalls(writer.out) = CallIds(UpTo(k))
      BY <2>2, <2>4, <3>2 DEF SentUpTo, Finishes
    <3>4. S = {l \in 1..k : body[l].kind = "data"}
      <4>1. ASSUME NEW l \in S PROVE l \in 1..k /\ body[l].kind = "data"
        <5>1. PICK m \in Arrived : l <= m /\ body[m].datum.finish # NoReason
          OBVIOUS
        <5>2. m \in 1..n /\ Finishes(m) /\ l \in 1..n /\ body[l].kind = "data"
          BY <2>4, <5>1 DEF Finishes
        <5>3. m <= k
          BY <2>2, <3>2, <3>3, <5>2
        <5>. QED
          BY <3>2, <5>1, <5>2, <5>3
      <4>2. ASSUME NEW l \in 1..k, body[l].kind = "data" PROVE l \in S
        <5>1. l \in Arrived /\ k # 0 /\ l <= k
          BY <2>2, <2>4, <3>2, <4>2
        <5>. QED
          BY <3>3, <5>1 DEF Finishes
      <4>. QED
        BY <4>1, <4>2
    <3>. HIDE DEF S
    <3>5. PartsOf(S) = UpTo(k)
      <4>1. k \in 0..Len(body) /\ S \in SUBSET DOMAIN body /\ S \subseteq 1..k
        BY <2>2, <2>4, <3>2, <3>4
      <4>. QED
        BY <2>4, <3>4, <4>1, PartsOfUpTo
    <3>6. Heard(received) = Words(PartsOf(Arrived)) /\ ChatCalls(received) = CallIds(PartsOf(S))
      BY <2>3, <2>6, <3>1, <3>3, <3>5 DEF ChatKeeps
    <3>. QED
      BY <2>8, <3>6 DEF S
  <2>. QED
    BY <2>7, <2>8
<1>. QED
  BY <1>1, DataInvariance, PTL

\* A signature that comes once is saved once: SignatureBoundOnce.
THEOREM SignaturesBoundOnce == Spec => []SignatureBoundOnce
<1>1. ASSUME IInv, InStep, DataInv PROVE SignatureBoundOnce
  <2>. DEFINE parts == PartsOf(Arrived)
  <2>1. PICK n, P : Processed(n, P)
    BY <1>1 DEF DataInv
  <2>2. /\ P \in Seq(Part) /\ P \o todo = UpTo(n) /\ n \in 0..Len(body) /\ SigsKept(writer, P)
        /\ todo \in Seq(Part) /\ body \in Seq(Line) /\ Len(body) \in Nat /\ DOMAIN body = 1..Len(body)
        /\ IF Parsing THEN n = Taken ELSE Whole(n)
    BY <1>1, <2>1, LenProperties DEF IInv, TypeOK, ParserTyped, Processed, Keeps
  <2>3. Arrived \in SUBSET DOMAIN body /\ \A l \in Arrived : body[l].kind = "data"
    <3>1. got \in Nat /\ got <= 4 * Len(body)
      BY <1>1 DEF IInv, TypeOK, ParserTyped
    <3>2. got \div 4 <= Len(body) /\ got \div 4 \in Nat
      BY <2>2, <3>1
    <3>. QED
      BY <2>2, <3>2 DEF Arrived
  <2>4. \A l \in 1..n : body[l].kind = "data" => l \in Arrived
    <3>1. CASE Parsing
      <4>1. n = Taken /\ n <= got \div 4 /\ n \in Nat /\ got \div 4 \in Nat
        <5>1. n = Taken /\ n <= got \div 4 /\ n \in Nat /\ got \in Nat
          BY <1>1, <2>2, <3>1, StepSizes
        <5>. QED
          BY <5>1
      <4>2. \A l \in 1..n : body[l].kind # "done"
        BY <1>1, <3>1, <4>1 DEF InStep
      <4>3. \A l \in 1..n : l \in 1..got \div 4 /\ \A m \in 1..l : m \in 1..n
        BY <4>1
      <4>. QED
        BY <4>2, <4>3 DEF Arrived
    <3>2. CASE ~Parsing
      BY <2>2, <3>2 DEF Whole
    <3>. QED
      BY <3>1, <3>2
  <2>5. Starts(UpTo(n), parts)
    BY <2>2, <2>3, <2>4, PartsOfUpTo
  <2>6. parts \in Seq(Part)
    BY <2>2, <2>3, PartsOfType
  <2>. HIDE DEF parts
  <2>7. \A i \in DOMAIN P : i \in DOMAIN parts /\ parts[i] = P[i]
    <3>. DEFINE u == UpTo(n)
    <3>1. u \in Seq(Part) /\ Len(P) <= Len(u) /\ \A i \in 1..Len(P) : u[i] = P[i]
      <4>1. P \o todo \in Seq(Part) /\ Starts(P, P \o todo)
        BY <2>2, ConcatStarts
      <4>. QED
        BY <2>2, <4>1 DEF Starts
    <3>2. Len(u) <= Len(parts) /\ \A i \in 1..Len(u) : parts[i] = u[i]
      BY <2>5 DEF Starts
    <3>3. DOMAIN P = 1..Len(P) /\ DOMAIN parts = 1..Len(parts) /\ Len(P) \in Nat /\ Len(u) \in Nat
          /\ Len(parts) \in Nat
      BY <2>2, <2>6, <3>1, LenProperties
    <3>. HIDE DEF u
    <3>. QED
      BY <3>1, <3>2, <3>3
  <2>. QED
    BY <2>2, <2>7, SMTT(30) DEF SignatureBoundOnce, SigsKept, OnceIn, parts
<1>. QED
  BY <1>1, DataInvariance, PTL
=============================================================================
