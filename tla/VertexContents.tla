---------------------------- MODULE VertexContents ----------------------------
(***************************************************************************)
(* The contents of a Vertex request (vertex/types.rs), what both endpoints *)
(* use to build them, and the signature cache as the conversions see it    *)
(* (signature/manager.rs): an entry by the id of a call or an image.       *)
(***************************************************************************)
EXTENDS UpstreamData, SequencesExt, TLC

CONSTANT FALLBACK_SIGNATURE

Plain == [thought |-> FALSE, text |-> <<>>, image |-> None, call |-> None,
          response |-> None, name |-> None, sig |-> None]
TextOf(text) == IF text = <<>> THEN <<>> ELSE <<[Plain EXCEPT !.text = text]>>
ThoughtOf(text, sig) == <<[Plain EXCEPT !.thought = TRUE, !.text = text, !.sig = sig]>>
CallOf(id, sig) == <<[Plain EXCEPT !.call = id, !.sig = sig]>>
ImageOf(key, sig) == <<[Plain EXCEPT !.image = key, !.sig = sig]>>
ResponseTo(id, name) == <<[Plain EXCEPT !.response = id, !.name = name]>>

Content(role, parts) == [role |-> role, parts |-> parts]

\* str::trim, for texts that are blank or not.
Trim(text) == IF Trimmed(text) THEN <<>> ELSE text

\* The name of the last call with this id, None when there is none.  A
\* function is named like its only call.
find_function_name(contents, id) ==
    IF \E i \in DOMAIN contents : \E j \in DOMAIN contents[i].parts : contents[i].parts[j].call = id
    THEN id ELSE None

\* The items that pass a test: SelectSeq, in a form that proofs can expand.
Keep(s, Test(_)) == FlattenSeq([i \in DOMAIN s |-> IF Test(s[i]) THEN <<s[i]>> ELSE <<>>])

\* Parts that say nothing are dropped, and contents without parts.
Says(p) == p.text # <<>> \/ p.call # None \/ p.response # None \/ p.image # None
sanitize_contents(contents) ==
    LET kept == [i \in DOMAIN contents |->
                    [contents[i] EXCEPT !.parts = Keep(@, Says)]]
    IN  Keep(kept, LAMBDA c : c.parts # <<>>)

\* The agent's own prompt comes before the client's.
inject_agent_system_prompt(sys) == <<"AGENT_SYSTEM_PROMPT">> \o sys

-----------------------------------------------------------------------------
(* The cache maps ids to entries.  An entry may be indexed but unreadable:  *)
(* its record is in no file or cannot be loaded.                            *)

NoEntry == [sig |-> None, reasoning |-> <<>>, readable |-> FALSE]

\* get_by_tool_call_id: the index alone.
Indexed(cache, id) == id \in DOMAIN cache

lookup_strict(cache, id) ==
    IF Indexed(cache, id) /\ cache[id].readable THEN cache[id] ELSE NoEntry

\* lookup_by_tool_call_id: an unreadable entry still has the virtual signature.
lookup(cache, id) ==
    IF ~Indexed(cache, id) THEN None
    ELSE IF cache[id].readable THEN cache[id].sig ELSE FALLBACK_SIGNATURE

\* The last save of an id counts.
Saved(cache, saves) ==
    LET of(id) == {i \in DOMAIN saves : saves[i].key = id}
        entry(s) == [sig |-> s.sig, reasoning |-> s.reasoning, readable |-> TRUE]
    IN  [id \in DOMAIN cache \cup {saves[i].key : i \in DOMAIN saves} |->
            IF of(id) = {} THEN cache[id] ELSE entry(saves[Max(of(id))])]
=============================================================================
