---------------------------- MODULE GatewayRequest ----------------------------
(***************************************************************************)
(* One conversation of a client with the gateway: the history the client   *)
(* sends, its conversion to a Vertex request, the attempts of the Vertex   *)
(* client with the accounts the handler gives it, the answer converted     *)
(* back, the signatures kept for the next turn, and the client, which may  *)
(* keep less of an answer than it got.                                     *)
(***************************************************************************)
EXTENDS ModelTable, ClaudeConversion, OpenAIConversion, OpenAIWriter, VertexErrors

CONSTANTS
    Sessions,           \* clients: endpoint, model, habits and settings
    Schema(_),          \* the schema of a session's tool
    Sanitized(_),       \* ToolParameters of SchemaSanitizer
    Text(_), Sig(_), CallId(_), Picture(_),   \* what the upstream sends n-th
    Accounts,           \* enabled accounts
    retry_max_attempts, retry_status_codes,   \* Config
    MODEL_CAPACITY_EXHAUSTED_MAX_RETRIES,
    MaxTurns,           \* answers in a conversation (bound)
    MaxParts,           \* parts the upstream sends in a conversation (bound)
    MaxFaults           \* restarts and unreadable files (bound)

\* Numbers a client names are i32.  Of the answers of Claude models only the
\* thoughts are signed.  Both loops run at least once: attempts of the handlers
\* and retry_max_attempts of the Vertex client are raised to one.
ASSUME SessionsAssumption ==
    \A s \in Sessions :
        /\ s.endpoint \in {"claude", "openai"}
        /\ s.settings.effort.number \in I32 /\ s.settings.max_tokens \in I32
        /\ s.settings.asked \subseteq [enabled : BOOLEAN, budget : I32, budget_tokens : I32]
        /\ is_claude(s.model) => s.kinds \cap {"owncall", "ownimage"} = {}
\* The upstream names no two calls of a conversation alike.
ASSUME UpstreamAssumption ==
    /\ MaxParts \in Nat
    /\ \A n \in 1..MaxParts : Sig(n) \in Sigs /\ CallId(n) \in Calls /\ Picture(n) \in Images
    /\ \A m, n \in 1..MaxParts : CallId(m) = CallId(n) => m = n
ASSUME LoopsAssumption == Accounts \in Nat \ {0} /\ retry_max_attempts \in Nat \ {0}

VARIABLES
    session,    \* who the client is and what it asks for
    history,    \* the messages of the client's next request
    cache,      \* signatures the gateway has
    vreq,       \* the converted request
    phase,
    account, attempt, capacity,   \* where handler and Vertex client are in their loops
    refused,    \* accounts whose token the upstream has refused
    sends,      \* requests sent upstream for this turn
    answers,    \* the parts of each answer so far
    reply,      \* the answer as it was delivered
    faults

loopVars == <<account, attempt, capacity, refused, sends>>
vars == <<session, history, cache, vreq, phase, loopVars, answers, reply, faults>>

NoRequest == [model |-> "", contents |-> <<>>, config |-> <<>>, tools |-> <<>>, system |-> <<>>]
NoReply == [blocks |-> <<>>, message |-> <<>>]

Claude == session.endpoint = "claude"

UserSays(text) == IF Claude THEN [role |-> "user", blocks |-> <<TextBlock(text)>>]
                  ELSE UserMessage(text)

Init ==
    /\ session \in Sessions
    /\ history = <<UserSays(<<"hello">>)>>
    /\ cache = <<>>
    /\ vreq = NoRequest
    /\ phase = "client"
    /\ account = 1 /\ attempt = 0 /\ capacity = 0 /\ refused = {} /\ sends = 0
    /\ answers = <<>> /\ reply = NoReply /\ faults = 0

-----------------------------------------------------------------------------
(* to_vertex_request of both endpoints. *)

Family(m) ==
    (IF is_gemini(m) THEN {"gemini"} ELSE {}) \cup
    (IF is_claude_thinking(m) THEN {"claude_thinking"} ELSE {}) \cup
    (IF is_gemini_pro_image(m) THEN {"pro_image"} ELSE {})

to_vertex_request(m) ==
    [model |-> backend_model_id(m),
     contents |-> sanitize_contents(
        IF Claude THEN ClaudeContents(cache, history, is_claude(m))
        ELSE ChatContents(cache, history, Family(m))),
     config |-> build_generation_config(session.endpoint, m, session.settings),
     tools |-> IF session.tool = <<>> THEN <<>> ELSE <<Sanitized(Schema(session.tool))>>,
     system |-> IF is_image_model(m) \/ is_gemini3_flash(m) THEN <<>>
                ELSE inject_agent_system_prompt(<<>>)]

Convert ==
    /\ phase = "client"
    /\ vreq' = to_vertex_request(session.model)
    /\ phase' = "sending"
    /\ account' = 1 /\ attempt' = 0 /\ capacity' = 0 /\ refused' = {} /\ sends' = 0
    /\ UNCHANGED <<session, history, cache, answers, reply, faults>>

-----------------------------------------------------------------------------
(* with_retry, and the loop of the handlers over the accounts. *)

\* Also a refused token is tried again.
Retries_Refused(e) == e.status \in retry_status_codes \cup {401} /\ attempt + 1 < retry_max_attempts

\* One retry more.
Retries_OffByOne(e) ==
    e.status \notin {0, 401} /\ e.status \in retry_status_codes /\ attempt + 1 <= retry_max_attempts

\* with_retry: neither an error without a status nor a refused token is tried
\* again here.
Retries(e) ==
    e.status \notin {0, 401} /\ e.status \in retry_status_codes /\ attempt + 1 < retry_max_attempts

Refusing(e) == IF is_auth_failure(e) THEN refused \cup {account} ELSE refused

RetryInClient(e) ==
    /\ phase = "sending"
    /\ Retries(e)
    /\ attempt' = attempt + 1
    /\ refused' = Refusing(e)
    /\ sends' = sends + 1
    /\ phase' = "sleeping"
    /\ UNCHANGED <<session, history, cache, vreq, account, capacity, answers, reply, faults>>

Wake ==
    /\ phase = "sleeping"
    /\ phase' = "sending"
    /\ UNCHANGED <<session, history, cache, vreq, loopVars, answers, reply, faults>>

\* Goes on when no account is left.
NextAccount_Unbounded(e) ==
    /\ should_retry_with_next_token(e)
    /\ capacity' < MODEL_CAPACITY_EXHAUSTED_MAX_RETRIES

NextAccount(e) ==
    /\ should_retry_with_next_token(e)
    /\ capacity' < MODEL_CAPACITY_EXHAUSTED_MAX_RETRIES
    /\ account < Accounts

\* The client gives up.  The handler goes on with the next account or ends.
AttemptsFail(e) ==
    /\ phase = "sending"
    /\ ~Retries(e)
    /\ capacity' = IF e.capacity THEN capacity + 1 ELSE 0
    /\ refused' = Refusing(e)
    /\ sends' = sends + 1
    /\ attempt' = 0
    /\ \/ /\ NextAccount(e)
          /\ account' = account + 1
          /\ UNCHANGED phase
       \/ /\ ~NextAccount(e)
          /\ phase' = "failed"
          /\ UNCHANGED account
    /\ UNCHANGED <<session, history, cache, vreq, answers, reply, faults>>

\* The upstream refuses, or there is no answer at all.
UpstreamFails ==
    \E e \in {NoStatus} \cup {extract_error_details(r.http, r.body) : r \in session.errors} :
        session.errors # {} /\ (RetryInClient(e) \/ AttemptsFail(e))

-----------------------------------------------------------------------------
(* The answer.  A client of the stream puts the message together itself.    *)

Streamed(parts) ==
    IF Claude
    THEN LET w == FoldLeft(ClaudePart, NewClaudeWriter(is_claude(session.model)), parts)
             called == \E i \in DOMAIN parts : parts[i].call # None
         IN  ClaudeFinish(w, IF called THEN "tool_use" ELSE "end_turn")
    ELSE LET w == FoldLeft(ChatPart, NewChatWriter(is_claude_thinking(session.model)), parts)
         IN  ChatFinish(FlushToolCalls(w), "STOP")

Heard(events, kind) ==
    LET deltas == Keep(events, LAMBDA e : e.kind = kind)
    IN  FlattenSeq([i \in DOMAIN deltas |-> deltas[i].text])

BlockHeard(events, start) ==
    LET own == Keep(events, LAMBDA e : e.type = "content_block_delta" /\ e.index = start.index)
        sigs == Heard(own, "signature_delta")
    IN  IF start.kind = "tool_use" THEN Block("tool_use", <<>>, None, Head(start.text))
        ELSE Block(start.kind, Heard(own, "thinking_delta") \o Heard(own, "text_delta"),
                   IF sigs = <<>> THEN None ELSE Head(sigs), None)

BlocksHeard(events) ==
    LET starts == Keep(events, LAMBDA e : e.type = "content_block_start")
    IN  [i \in DOMAIN starts |-> BlockHeard(events, starts[i])]

MessageHeard(events) ==
    ChatMessage("assistant", Heard(events, "content"), Heard(events, "reasoning"),
                Heard(events, "tool_calls"), None)

\* to_chat_completion takes the parts as the stream writer does.
to_chat_completion(parts) ==
    LET w == FlushToolCalls(FoldLeft(ChatPart, NewChatWriter(is_claude_thinking(session.model)), parts))
    IN  [message |-> MessageHeard(w.out), saves |-> w.saves]

\* A whole answer is put together from the stream: texts that follow each
\* other become one, and so do thoughts, with the last signature.
merge_parts(parts) ==
    LET joins(acc, p) == /\ acc # <<>> /\ p.text # <<>>
                         /\ Last(acc).text # <<>> /\ Last(acc).thought = p.thought
        joined(q, p) == [q EXCEPT !.text = @ \o p.text, !.sig = IF p.sig = None THEN @ ELSE p.sig]
        add(acc, p) == IF joins(acc, p) THEN [acc EXCEPT ![Len(acc)] = joined(@, p)]
                       ELSE Append(acc, p)
    IN  FoldLeft(add, <<>>, parts)

\* The message a client gets for the parts of an answer, and what is saved.
Delivered(parts) ==
    LET w == Streamed(parts)
        merged == merge_parts(parts)
        r == to_messages_response(merged, is_claude(session.model))
    IN  IF Claude
        THEN IF session.streams
             THEN [reply |-> [NoReply EXCEPT !.blocks = BlocksHeard(w.out)], saves |-> w.saves]
             ELSE [reply |-> [NoReply EXCEPT !.blocks = r.blocks], saves |-> r.saves]
        ELSE IF session.streams
             THEN [reply |-> [NoReply EXCEPT !.message = MessageHeard(w.out)], saves |-> w.saves]
             ELSE [reply |-> [NoReply EXCEPT !.message = to_chat_completion(merged).message],
                   saves |-> to_chat_completion(merged).saves]

Said == Len(FlattenSeq(answers))

\* Part n of a conversation has the n-th text, signature, call or image.
UpstreamPart(kind, n) ==
    [thought |-> kind \in {"think", "signed", "bare"},
     text |-> IF kind \in {"think", "signed", "text"} THEN <<Text(n)>> ELSE <<>>,
     image |-> IF kind \in {"image", "ownimage"} THEN Picture(n) ELSE None,
     call |-> IF kind \in {"call", "owncall"} THEN CallId(n) ELSE None,
     sig |-> IF kind \in {"signed", "bare", "owncall", "ownimage"} THEN Sig(n) ELSE None]

Answer(kinds) ==
    LET parts == [i \in DOMAIN kinds |-> UpstreamPart(kinds[i], Said + i)]
        d == Delivered(parts)
    IN  /\ phase = "sending"
        /\ Len(answers) < MaxTurns
        /\ sends' = sends + 1
        /\ cache' = Saved(cache, d.saves)
        /\ reply' = d.reply
        /\ answers' = Append(answers, parts)
        /\ phase' = "answered"
        /\ UNCHANGED <<session, history, vreq, account, attempt, capacity, refused, faults>>

UpstreamAnswers ==
    \E n \in 1..(MaxParts - Said) : \E kinds \in [1..n -> session.kinds] : Answer(kinds)

-----------------------------------------------------------------------------
(* The client goes on with what it kept of the answer.  session.keeps: all *)
(* of it, thinking without its signatures, no thinking, or thinking only   *)
(* as redacted blocks.                                                     *)

KeptBlock(b) ==
    IF b.type # "thinking" THEN b
    ELSE IF session.keeps = "unsigned" THEN [b EXCEPT !.sig = None]
    ELSE IF session.keeps = "redacted" THEN Block("redacted_thinking", <<>>, None, None)
    ELSE b
Kept(b) == ~(b.type = "thinking" /\ session.keeps = "none")

Echo ==
    IF Claude
    THEN LET kept == Keep(reply.blocks, Kept)
         IN  [role |-> "assistant", blocks |-> [i \in DOMAIN kept |-> KeptBlock(kept[i])]]
    ELSE IF session.keeps = "all" THEN reply.message ELSE [reply.message EXCEPT !.reasoning = <<>>]

CallsOf(m) ==
    IF Claude
    THEN LET used == Keep(m.blocks, LAMBDA b : b.type = "tool_use")
         IN  [i \in DOMAIN used |-> used[i].id]
    ELSE m.tool_calls

ResultsOf(m) ==
    LET calls == CallsOf(m)
    IN  IF Claude THEN <<[role |-> "user", blocks |-> [i \in DOMAIN calls |-> Result(calls[i])]]>>
        ELSE [i \in DOMAIN calls |-> ToolMessage(calls[i])]

\* It runs the tools it was asked to run, or else says something, perhaps
\* about an image it was given.
ImagesIn(m) == IF Claude THEN {} ELSE {m.content[i] : i \in DOMAIN m.content} \cap Images

ClientContinues ==
    /\ phase = "answered"
    /\ \E text \in {<<"more">>} \cup {<<"look", i>> : i \in ImagesIn(Echo)} :
          history' = history \o <<Echo>> \o
                     (IF CallsOf(Echo) = <<>> THEN <<UserSays(text)>> ELSE ResultsOf(Echo))
    /\ phase' = "client"
    /\ reply' = NoReply
    /\ UNCHANGED <<session, cache, vreq, loopVars, answers, faults>>

\* A restart loses entries that were not stored yet; a file that cannot be
\* read leaves entries that are only indexed.
LoseSignatures ==
    /\ phase = "client"
    /\ faults < MaxFaults
    /\ cache # <<>>
    /\ \/ cache' = <<>>
       \/ cache' = [id \in DOMAIN cache |-> [cache[id] EXCEPT !.readable = FALSE]]
    /\ faults' = faults + 1
    /\ UNCHANGED <<session, history, vreq, phase, loopVars, answers, reply>>

Next == Convert \/ Wake \/ UpstreamFails \/ UpstreamAnswers \/ ClientContinues \/ LoseSignatures

Spec == Init /\ [][Next]_vars
=============================================================================
