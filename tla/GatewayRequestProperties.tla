----------------------- MODULE GatewayRequestProperties -----------------------
(* What must hold of the requests the gateway sends upstream. *)
EXTENDS GatewayRequest

Contents == vreq.contents
Parts(i) == Contents[i].parts
CallIn(p) == p.call
ResponseIn(p) == p.response

TypeOK ==
    /\ phase \in {"client", "sending", "sleeping", "answered", "failed"}
    /\ \A id \in DOMAIN cache : id \in Calls \cup Images /\ cache[id].sig \in Sigs
    /\ account \in 1..Accounts /\ attempt \in 0..retry_max_attempts - 1
    /\ refused \subseteq 1..Accounts
    /\ \A i \in DOMAIN Contents :
          /\ Contents[i].role \in {"user", "model"}
          /\ \A j \in DOMAIN Parts(i) :
                /\ Parts(i)[j].sig \in Sigs \cup {None, FALLBACK_SIGNATURE}
                /\ Parts(i)[j].call \in Calls \cup {None}

\* The OpenAI endpoint takes care of Claude's thinking models only.
ThoughtsNeedSignatures ==
    is_claude_thinking(session.model) \/ (Claude /\ is_claude(session.model))

\* Claude takes a thinking block only with a signature ("Claude thinking block
\* 在回传时必须带 signature"): every thought sent to it carries one, and one the
\* upstream gave in the very answer the text is from, whether it comes from
\* the client, from the cache by the next call, or from a merged message.  Where
\* the blocks arrive one by one, no call lies between signature and text.
SignedBy(p, given) ==
    \E n \in DOMAIN given :
        /\ p.sig # None /\ given[n].sig = p.sig
        /\ \A k \in DOMAIN p.text : <<p.text[k]>> = MissingThought \/
              \E m \in DOMAIN given :
                 /\ <<p.text[k]>> = given[m].text
                 /\ Claude /\ session.streams => \A l \in n..m : given[l].call = None
ThoughtsSignedByTheirs ==
    phase = "sending" /\ ThoughtsNeedSignatures =>
        \A i \in DOMAIN Contents : \A j \in DOMAIN Parts(i) :
            Parts(i)[j].thought => \E a \in DOMAIN answers : SignedBy(Parts(i)[j], answers[a])

\* What the upstream signed it gets back signed.  As long as no entry was
\* lost, the first call of each content carries to Gemini the signature it
\* came with, and has before it, for Claude, a signed thought when one came
\* before it in its answer (Claude clients that keep no thinking excepted).
FirstCall(parts) == SelectInSeq(parts, LAMBDA p : p.call # None)
SignedBefore(given, n) == \E m \in 1..n : given[m].thought /\ given[m].sig # None
SignaturesComeBack ==
    phase = "sending" /\ faults = 0 =>
        \A i \in DOMAIN Contents : LET c == FirstCall(Parts(i)) IN
            c # 0 =>
            \E a \in DOMAIN answers : \E n \in DOMAIN answers[a] :
                /\ answers[a][n].call = Parts(i)[c].call
                /\ is_gemini(session.model) /\ answers[a][n].sig # None
                      => Parts(i)[c].sig = answers[a][n].sig
                /\ /\ ThoughtsNeedSignatures
                   /\ SignedBefore(answers[a], n)
                   /\ Claude => session.keeps \in {"all", "unsigned"}
                   => \E j \in 1..c - 1 : Parts(i)[j].thought /\ Parts(i)[j].sig # None

\* However messages are merged, dropped and cleaned, every call of the history
\* is sent once and every result once, after its call and under its name.
Made == UNION {ToSet(CallsOf(history[k])) : k \in {k \in DOMAIN history : history[k].role = "assistant"}}
ResponsesFollowCalls ==
    LET places == UNION {{<<i, j>> : j \in DOMAIN Parts(i)} : i \in DOMAIN Contents}
        part(at) == Parts(at[1])[at[2]]
        once(at, Id(_)) == \A other \in places : Id(part(other)) = Id(part(at)) => other = at
    IN  phase = "sending" =>
            /\ \A at \in places : {part(at).call, part(at).response} \subseteq Made \cup {None}
            /\ \A id \in Made : \E call, response \in places :
                  /\ part(call).call = id /\ once(call, CallIn)
                  /\ part(response).response = id /\ once(response, ResponseIn)
                  /\ call[1] < response[1]
                  /\ part(response).name = id

\* Thinking leaves room for an answer: a budget is below the output limit,
\* for every model, effort and budget a client names.  (For a model that is
\* neither Claude nor Gemini the sum wraps when the budget is within 4096 of
\* i32::MAX.)
BudgetFits ==
    LET b == vreq.config.thinking.budget IN
    phase = "sending" /\ b > 0
        /\ (is_claude(session.model) \/ is_gemini(session.model)
            \/ b <= MaxInt - THINKING_MAX_OUTPUT_TOKENS_OVERHEAD_TOKENS)
    => b < vreq.config.max_output_tokens

\* An account whose token the upstream has refused is not asked again for this
\* turn, neither by the retries of the Vertex client nor by the handler.
RefusedTokenRests == phase \in {"sending", "sleeping"} => account \notin refused

\* The two loops together send a turn at most once per attempt and account.
SendsBounded == sends <= Accounts * retry_max_attempts
=============================================================================
