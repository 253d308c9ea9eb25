------------------------- MODULE GatewayRequestProofs -------------------------
(***************************************************************************)
(* The two retry loops, the thinking budgets and the conversations, for    *)
(* any number of accounts and attempts, any retry status codes, any        *)
(* session, any answers of the upstream and whatever ToolParameters makes  *)
(* of a schema.                                                            *)
(*                                                                         *)
(* Conversations: a message or an answer names each call once              *)
(* (ClientSays, AnswersWith); the history makes each call once and gives   *)
(* each result once, behind its call (Consistent); the conversions keep    *)
(* that (Paired), whatever they merge, drop or look up in the cache.       *)
(* ConversationInv puts the three together.                                *)
(*                                                                         *)
(* Thoughts: what an answer says and what it signs is followed part by     *)
(* part into the blocks, the message and the entries of the cache          *)
(* (Recites, TellsOwn, Bound); what the client makes of it still quotes    *)
(* the answer (Quotes), and so does the request (AllSigned).  VoiceInv     *)
(* puts these together.                                                    *)
(***************************************************************************)
EXTENDS GatewayRequestProperties, SequenceLemmas

-----------------------------------------------------------------------------
(* Budgets *)

Config(thoughts, level, n) == [include_thoughts |-> thoughts, level |-> level, budget |-> n]

\* A thinking config, its budget a number of 32 bits and never negative.
IsConfig(tc) == \E thoughts, level : \E n \in 0..MaxInt : tc = Config(thoughts, level, n)

LEMMA ConfigForms ==
    ASSUME NEW level, NEW n \in 0..MaxInt
    PROVE  IsConfig(Thinking(level, n)) /\ IsConfig(Budget(n)) /\ IsConfig(NoThinking)
<1>1. 0 \in 0..MaxInt
  BY MaxIntAssumption
<1>. QED
  BY <1>1 DEF IsConfig, Config, Thinking, Budget, NoThinking

\* Both endpoints ask for such a config, whatever the client names.
LEMMA AskedConfigs ==
    ASSUME NEW s \in Sessions, NEW m
    PROVE  /\ IsConfig(forced_thinking_config(m))
           /\ IsConfig(thinking_config_from_openai(m, s.settings.effort))
           /\ \A a \in s.settings.asked : IsConfig(thinking_config_from_claude(m, a))
<1>1. /\ 32000 \in 0..MaxInt /\ 0 \in 0..MaxInt /\ 1024 \in 0..MaxInt /\ 4096 \in 0..MaxInt
      /\ \A n \in I32 : n > 0 => n \in 0..MaxInt
  BY MaxIntAssumption DEF I32
<1>2. \A n \in 0..MaxInt : \A l : IsConfig(Thinking(l, n)) /\ IsConfig(Budget(n))
  BY ConfigForms
<1>3. IsConfig(NoThinking)
  BY <1>1, ConfigForms
<1>4. IsConfig(forced_thinking_config(m))
  BY <1>1, <1>2, <1>3
     DEF forced_thinking_config, DEFAULT_CLAUDE_THINKING_BUDGET_TOKENS
<1>5. IsConfig(thinking_config_from_openai(m, s.settings.effort))
  <2>. DEFINE effort == s.settings.effort
              n == IF effort.number > 0 THEN effort.number
                   ELSE IF is_claude_thinking(m) THEN EffortBudget(effort.word) ELSE 1024
  <2>1. effort.number \in I32
    BY SessionsAssumption
  <2>2. EffortBudget(effort.word) \in 0..MaxInt
    BY <1>1 DEF EffortBudget, DEFAULT_CLAUDE_THINKING_BUDGET_TOKENS
  <2>3. n \in 0..MaxInt
    BY <1>1, <2>1, <2>2
  <2>4. thinking_config_from_openai(m, effort) \in
          {forced_thinking_config(m), Budget(32000), Thinking("high", 0), NoThinking, Budget(n),
           Thinking(effort.word, 0)}
    BY DEF thinking_config_from_openai, DEFAULT_CLAUDE_THINKING_BUDGET_TOKENS
  <2>. QED
    BY <1>1, <1>2, <1>3, <1>4, <2>3, <2>4
<1>6. ASSUME NEW a \in s.settings.asked
      PROVE  IsConfig(thinking_config_from_claude(m, a))
  <2>. DEFINE n == IF a.budget > 0 THEN a.budget ELSE Positive(a.budget_tokens)
  <2>1. a.budget \in I32 /\ a.budget_tokens \in I32
    BY SessionsAssumption
  <2>2. n \in 0..MaxInt
    BY <1>1, <2>1 DEF Positive
  <2>3. thinking_config_from_claude(m, a) \in
          {forced_thinking_config(m), NoThinking, Budget(32000), Thinking("high", 0), Budget(n)}
    BY DEF thinking_config_from_claude, DEFAULT_CLAUDE_THINKING_BUDGET_TOKENS
  <2>. QED
    BY <1>1, <1>2, <1>3, <1>4, <2>2, <2>3
<1>. QED
  BY <1>4, <1>5, <1>6

\* FitBudget leaves room below the output limit.  For a model of neither
\* family it does as long as the grown limit does not wrap.
LEMMA Fits ==
    ASSUME NEW m, NEW tc, IsConfig(tc), NEW output \in I32,
           is_claude(m) => output = CLAUDE_MAX_OUTPUT_TOKENS,
           ~is_claude(m) /\ is_gemini(m) => output = GEMINI_MAX_OUTPUT_TOKENS,
           NEW fit, fit = FitBudget(m, tc, output), fit[1].budget > 0,
           \/ is_claude(m) \/ is_gemini(m)
           \/ fit[1].budget <= MaxInt - THINKING_MAX_OUTPUT_TOKENS_OVERHEAD_TOKENS
    PROVE  fit[1].budget < fit[2]
<1>. DEFINE overhead == THINKING_MAX_OUTPUT_TOKENS_OVERHEAD_TOKENS
            grown == Wrap(tc.budget + overhead)
            room == IF output <= 0 THEN grown ELSE output
            cut == [tc EXCEPT !.budget = MaxBudget(room)]
<1>0. PICK thoughts, level : \E n \in 0..MaxInt : tc = Config(thoughts, level, n)
  BY DEF IsConfig
<1>1. PICK n \in 0..MaxInt : tc = Config(thoughts, level, n)
  BY <1>0
<1>2. tc.budget = n /\ \A b : [tc EXCEPT !.budget = b].budget = b
  BY <1>1 DEF Config
<1>3. /\ CLAUDE_MAX_OUTPUT_TOKENS = 64000 /\ GEMINI_MAX_OUTPUT_TOKENS = 65535
      /\ MaxBudget(64000) = 62976 /\ MaxBudget(65535) = 64511 /\ overhead = 4096
  BY DEF CLAUDE_MAX_OUTPUT_TOKENS, GEMINI_MAX_OUTPUT_TOKENS, MaxBudget,
         THINKING_BUDGET_HEADROOM_TOKENS, THINKING_BUDGET_MIN_TOKENS,
         THINKING_MAX_OUTPUT_TOKENS_OVERHEAD_TOKENS
<1>4. n # 0
  BY <1>2 DEF FitBudget
<1>5. CASE is_claude(m)
  <2>1. room = 64000
    BY <1>3, <1>5
  <2>2. fit = <<IF tc.budget > MaxBudget(room) THEN cut ELSE tc, room>>
    BY <1>2, <1>4, <1>5 DEF FitBudget
  <2>. QED
    BY <1>2, <1>3, <2>1, <2>2
<1>6. CASE ~is_claude(m) /\ is_gemini(m)
  <2>1. room = 65535
    BY <1>3, <1>6
  <2>2. fit = <<IF tc.budget >= room THEN cut ELSE tc, room>>
    BY <1>2, <1>4, <1>6 DEF FitBudget
  <2>. QED
    BY <1>2, <1>3, <2>1, <2>2
<1>7. CASE ~is_claude(m) /\ ~is_gemini(m)
  <2>1. fit = <<tc, IF tc.budget >= room THEN grown ELSE room>>
    BY <1>2, <1>4, <1>7 DEF FitBudget
  <2>2. n + 4096 <= MaxInt
    BY <1>2, <1>3, <1>7, <2>1, MaxIntAssumption
  <2>3. grown = n + 4096
    BY <1>2, <1>3, <2>2, MaxIntAssumption DEF Wrap
  <2>4. room \in Int
    BY <2>3 DEF I32
  <2>. QED
    BY <1>2, <2>1, <2>3, <2>4
<1>. QED
  BY <1>5, <1>6, <1>7

LEMMA OutputLimits ==
    ASSUME NEW s \in Sessions, NEW m, NEW output, output = MaxOutput(s.endpoint, m, s.settings.max_tokens)
    PROVE  /\ output \in I32
           /\ is_claude(m) => output = CLAUDE_MAX_OUTPUT_TOKENS
           /\ ~is_claude(m) /\ is_gemini(m) => output = GEMINI_MAX_OUTPUT_TOKENS
<1>1. s.settings.max_tokens \in I32
  BY SessionsAssumption
<1>2. {64000, 65535, 8192, 0} \subseteq I32
  BY MaxIntAssumption DEF I32
<1>. QED
  BY <1>1, <1>2 DEF MaxOutput, CLAUDE_MAX_OUTPUT_TOKENS, GEMINI_MAX_OUTPUT_TOKENS

\* What BudgetFits says, of the config a session is given.
LEMMA ConfigFits ==
    ASSUME NEW s \in Sessions, NEW m,
           NEW config, config = build_generation_config(s.endpoint, m, s.settings),
           config.thinking.budget > 0,
           \/ is_claude(m) \/ is_gemini(m)
           \/ config.thinking.budget <= MaxInt - THINKING_MAX_OUTPUT_TOKENS_OVERHEAD_TOKENS
    PROVE  config.thinking.budget < config.max_output_tokens
<1>. DEFINE asked == CHOOSE a \in s.settings.asked : TRUE
            tc == IF s.endpoint = "openai" THEN thinking_config_from_openai(m, s.settings.effort)
                  ELSE IF s.settings.asked = {} THEN forced_thinking_config(m)
                  ELSE thinking_config_from_claude(m, asked)
            output == MaxOutput(s.endpoint, m, s.settings.max_tokens)
            fit == FitBudget(m, tc, output)
<1>1. IsConfig(tc)
  <2>1. s.settings.asked # {} => asked \in s.settings.asked
    OBVIOUS
  <2>. QED
    BY <2>1, AskedConfigs
<1>2. config.thinking = fit[1] /\ config.max_output_tokens = fit[2]
  BY DEF build_generation_config
<1>. HIDE DEF tc, output
<1>3. /\ output \in I32
      /\ is_claude(m) => output = CLAUDE_MAX_OUTPUT_TOKENS
      /\ ~is_claude(m) /\ is_gemini(m) => output = GEMINI_MAX_OUTPUT_TOKENS
  BY OutputLimits DEF output
<1>. HIDE DEF fit
<1>. QED
  BY <1>1, <1>2, <1>3, Fits DEF fit

-----------------------------------------------------------------------------
(* The loops *)

Phases == {"client", "sending", "sleeping", "answered", "failed"}

\* Each account before this one has had all its attempts at most, this one as
\* many as attempt says; only accounts so far have been refused, and the one
\* that is asked now has not.
LoopInv ==
    /\ session \in Sessions
    /\ phase \in Phases
    /\ account \in 1..Accounts
    /\ attempt \in 0..retry_max_attempts - 1
    /\ sends \in Nat
    /\ refused \subseteq 1..account
    /\ phase \in {"sending", "sleeping"} =>
          /\ account \notin refused
          /\ sends <= (account - 1) * retry_max_attempts + attempt
    /\ sends <= account * retry_max_attempts

\* The config sent is the one the session's model and settings are given.
ConfigInv ==
    phase \in {"sending", "sleeping"} =>
        vreq.config = build_generation_config(session.endpoint, session.model, session.settings)

IInv == LoopInv /\ ConfigInv

\* One more account is one more row of attempts.
LEMMA Rows ==
    ASSUME NEW a \in Nat \ {0}
    PROVE  /\ a * retry_max_attempts \in Nat
           /\ (a - 1) * retry_max_attempts + retry_max_attempts = a * retry_max_attempts
           /\ (a + 1 - 1) * retry_max_attempts = a * retry_max_attempts
  BY LoopsAssumption

LEMMA InitIInv == Init => IInv
<1>. SUFFICES ASSUME Init PROVE IInv
  OBVIOUS
<1>1. 1 \in 1..Accounts /\ 0 \in 0..retry_max_attempts - 1 /\ 1 * retry_max_attempts >= 0
  BY LoopsAssumption
<1>. QED
  BY <1>1 DEF Init, IInv, LoopInv, ConfigInv, Phases

LEMMA Converting ==
    ASSUME IInv, Convert
    PROVE  IInv'
<1>1. 1 \in 1..Accounts /\ 0 \in 0..retry_max_attempts - 1 /\ 1 * retry_max_attempts >= 0
      /\ (1 - 1) * retry_max_attempts + 0 = 0
  BY LoopsAssumption
<1>2. LoopInv'
  BY <1>1 DEF Convert, IInv, LoopInv, Phases
<1>3. to_vertex_request(session.model).config =
        build_generation_config(session.endpoint, session.model, session.settings)
  BY DEF to_vertex_request
<1>4. vreq' = to_vertex_request(session.model) /\ session' = session
  BY DEF Convert
<1>5. ConfigInv'
  BY <1>3, <1>4 DEF ConfigInv
<1>. QED
  BY <1>2, <1>5 DEF IInv

\* The Vertex client tries once more: not after a refusal, and not the last
\* attempt.
LEMMA RetryingInClient ==
    ASSUME IInv, NEW e, RetryInClient(e)
    PROVE  IInv'
<1>1. refused' = refused
  BY DEF RetryInClient, Retries, Refusing, is_auth_failure
<1>2. /\ phase = "sending" /\ phase' = "sleeping" /\ attempt' = attempt + 1 /\ sends' = sends + 1
      /\ UNCHANGED <<session, vreq, account>> /\ attempt + 1 < retry_max_attempts
  BY DEF RetryInClient, Retries
<1>3. account \in Nat \ {0} /\ attempt \in Nat
  BY LoopsAssumption DEF IInv, LoopInv
<1>4. account * retry_max_attempts \in Nat /\ (account - 1) * retry_max_attempts \in Int
      /\ (account - 1) * retry_max_attempts + retry_max_attempts = account * retry_max_attempts
  BY <1>3, Rows, LoopsAssumption
<1>5. LoopInv'
  <2>. DEFINE before == (account - 1) * retry_max_attempts
              all == account * retry_max_attempts
  <2>1. sends <= before + attempt /\ sends \in Nat /\ attempt \in 0..retry_max_attempts - 1
    BY <1>2 DEF IInv, LoopInv
  <2>2. before \in Int /\ all \in Nat /\ before + retry_max_attempts = all
    BY <1>4
  <2>. HIDE DEF before, all
  <2>3. attempt' \in 0..retry_max_attempts - 1 /\ sends' <= before + attempt' /\ sends' <= all
        /\ sends' \in Nat
    BY <1>2, <2>1, <2>2, LoopsAssumption
  <2>. QED
    BY <1>1, <1>2, <2>3 DEF IInv, LoopInv, Phases, before, all
<1>6. ConfigInv'
  BY <1>2 DEF IInv, ConfigInv
<1>. QED
  BY <1>5, <1>6 DEF IInv

\* The client gives up on this account: the next one has not been asked yet.
LEMMA AttemptsFailing ==
    ASSUME IInv, NEW e, AttemptsFail(e)
    PROVE  IInv'
<1>. DEFINE before == (account - 1) * retry_max_attempts
            all == account * retry_max_attempts
            more == (account + 1) * retry_max_attempts
<1>1. /\ phase = "sending" /\ attempt' = 0 /\ sends' = sends + 1
      /\ refused' \subseteq refused \cup {account}
      /\ UNCHANGED <<session, vreq>>
  BY DEF AttemptsFail, Refusing
<1>2. account \in Nat \ {0} /\ account \in 1..Accounts /\ refused \subseteq 1..account
  BY LoopsAssumption DEF IInv, LoopInv
<1>3. sends <= before + attempt /\ sends \in Nat /\ attempt \in 0..retry_max_attempts - 1
  BY <1>1 DEF IInv, LoopInv
<1>4. /\ before \in Int /\ all \in Nat /\ before + retry_max_attempts = all
      /\ more \in Nat /\ all + retry_max_attempts = more
      /\ (account + 1 - 1) * retry_max_attempts = all
  BY <1>2, Rows, LoopsAssumption
<1>. HIDE DEF before, all, more
<1>5. sends' <= all /\ sends' \in Nat /\ 0 \in 0..retry_max_attempts - 1
  BY <1>1, <1>3, <1>4, LoopsAssumption
<1>6. CASE account' = account + 1 /\ phase' = phase /\ account < Accounts
  <2>1. account' \in 1..Accounts /\ refused' \subseteq 1..account' /\ account' \notin refused'
    BY <1>1, <1>2, <1>6, LoopsAssumption
  <2>2. sends' <= (account' - 1) * retry_max_attempts + attempt'
    <3>1. account' - 1 = account
      BY <1>2, <1>6
    <3>2. (account' - 1) * retry_max_attempts = all
      BY <3>1 DEF all
    <3>. QED
      BY <1>1, <1>4, <1>5, <3>2
  <2>3. sends' <= account' * retry_max_attempts
    BY <1>4, <1>5, <1>6, LoopsAssumption DEF more
  <2>4. LoopInv'
    BY <1>1, <1>5, <1>6, <2>1, <2>2, <2>3 DEF IInv, LoopInv, Phases
  <2>. QED
    BY <1>1, <1>6, <2>4 DEF IInv, ConfigInv
<1>7. CASE account' = account /\ phase' = "failed"
  <2>1. refused' \subseteq 1..account'
    BY <1>1, <1>2, <1>7
  <2>2. LoopInv'
    BY <1>1, <1>2, <1>5, <1>7, <2>1 DEF IInv, LoopInv, Phases, all
  <2>. QED
    BY <1>7, <2>2 DEF IInv, ConfigInv
<1>. QED
  BY <1>6, <1>7 DEF AttemptsFail, NextAccount

LEMMA Answering ==
    ASSUME IInv, NEW kinds, Answer(kinds)
    PROVE  IInv'
<1>. DEFINE before == (account - 1) * retry_max_attempts
            all == account * retry_max_attempts
<1>1. /\ phase = "sending" /\ phase' = "answered" /\ sends' = sends + 1
      /\ UNCHANGED <<session, account, attempt, refused>>
  BY DEF Answer
<1>2. account \in Nat \ {0} /\ sends <= before + attempt /\ sends \in Nat
      /\ attempt \in 0..retry_max_attempts - 1
  BY <1>1, LoopsAssumption DEF IInv, LoopInv
<1>3. before \in Int /\ all \in Nat /\ before + retry_max_attempts = all
  BY <1>2, Rows, LoopsAssumption
<1>. HIDE DEF before, all
<1>4. sends' <= all /\ sends' \in Nat
  BY <1>1, <1>2, <1>3, LoopsAssumption
<1>. QED
  BY <1>1, <1>4 DEF IInv, LoopInv, ConfigInv, Phases, all

LEMMA Inductive == IInv /\ [Next]_vars => IInv'
<1>. SUFFICES ASSUME IInv, [Next]_vars PROVE IInv'
  OBVIOUS
<1>1. CASE Convert
  BY <1>1, Converting
<1>2. CASE UpstreamFails
  BY <1>2, RetryingInClient, AttemptsFailing DEF UpstreamFails
<1>3. CASE UpstreamAnswers
  BY <1>3, Answering DEF UpstreamAnswers
<1>4. CASE Wake
  BY <1>4 DEF Wake, loopVars, IInv, LoopInv, ConfigInv, Phases
<1>5. CASE ClientContinues
  BY <1>5 DEF ClientContinues, loopVars, IInv, LoopInv, ConfigInv, Phases
<1>6. CASE LoseSignatures
  BY <1>6 DEF LoseSignatures, loopVars, IInv, LoopInv, ConfigInv, Phases
<1>7. CASE UNCHANGED vars
  BY <1>7 DEF vars, loopVars, IInv, LoopInv, ConfigInv, Phases
<1>. QED
  BY <1>1, <1>2, <1>3, <1>4, <1>5, <1>6, <1>7 DEF Next

\* For any number of accounts and attempts and any errors of the upstream.
THEOREM Invariance == Spec => []IInv
  BY InitIInv, Inductive, PTL DEF Spec

\* Neither the retries of the Vertex client nor the loop over the accounts asks
\* an account again whose token the upstream has refused for this turn.
THEOREM RefusalsRest == Spec => []RefusedTokenRests
<1>1. IInv => RefusedTokenRests
  BY DEF IInv, LoopInv, RefusedTokenRests
<1>. QED
  BY <1>1, Invariance, PTL

\* Together the loops send a turn at most once per attempt and account.
THEOREM TurnsBounded == Spec => []SendsBounded
<1>1. ASSUME LoopInv PROVE SendsBounded
  <2>1. /\ account \in Nat /\ Accounts \in Nat /\ retry_max_attempts \in Nat /\ account <= Accounts
        /\ sends \in Nat /\ sends <= account * retry_max_attempts
    BY <1>1, LoopsAssumption DEF LoopInv
  <2>2. account * retry_max_attempts <= Accounts * retry_max_attempts
    BY <2>1
  <2>. QED
    BY <2>1, <2>2 DEF SendsBounded
<1>. QED
  BY <1>1, Invariance, PTL DEF IInv

\* Every request leaves room for an answer next to the thinking, whatever
\* budget, effort or limit of 32 bits the client names.
THEOREM BudgetsFit == Spec => []BudgetFits
<1>1. ASSUME IInv PROVE BudgetFits
  <2>1. session \in Sessions
    BY <1>1 DEF IInv, LoopInv
  <2>2. ASSUME phase = "sending"
        PROVE  vreq.config = build_generation_config(session.endpoint, session.model, session.settings)
    BY <1>1, <2>2 DEF IInv, ConfigInv
  <2>. QED
    BY <2>1, <2>2, ConfigFits DEF BudgetFits
<1>. QED
  BY <1>1, Invariance, PTL

-----------------------------------------------------------------------------
(* The folds of the model, step by step.  The two lemmas about Iterates are  *)
(* proved once for the step of every fold (StepOf): the function over sets of *)
(* indices that FoldLeft chooses exists for the first m items when it does    *)
(* for m - 1 of them, and its values at 1..k are the steps.                  *)

AddMessage(entries, out, m, claude) ==
    LET parts == extract_content_parts(entries, m.blocks, out, claude)
    IN  IF parts = <<>> THEN out ELSE Append(out, Content(VertexRole(m.role), parts))

MergeStep(entries, acc) ==
    LET i == acc.next
        anchor == Anchor(entries, acc.messages, i)
    IN  IF NeedsAnchor(entries, acc.messages, i) /\ anchor # 0
        THEN [acc EXCEPT !.messages = MergeAt(@, i, anchor)]
        ELSE [acc EXCEPT !.next = @ + 1]
Merging(entries, messages) ==
    FoldLeft(LAMBDA acc, k : MergeStep(entries, acc), [next |-> 1, messages |-> messages], messages)

AddSymbol(entries, parts, symbol, pro_image) ==
    IF symbol \in Images
    THEN parts \o ImageOf(symbol, ImageSignature(entries, symbol, pro_image))
    ELSE IF parts # <<>> /\ Last(parts).image = None
         THEN [parts EXCEPT ![Len(parts)].text = Append(@, symbol)]
         ELSE parts \o TextOf(<<symbol>>)

Joining(acc, p) == /\ acc # <<>> /\ p.text # <<>>
                   /\ Last(acc).text # <<>> /\ Last(acc).thought = p.thought
MergedPart(q, p) == [q EXCEPT !.text = @ \o p.text, !.sig = IF p.sig = None THEN @ ELSE p.sig]
AddPart(acc, p) ==
    IF Joining(acc, p) THEN [acc EXCEPT ![Len(acc)] = MergedPart(@, p)] ELSE Append(acc, p)

Replying(parts, claude) ==
    FoldLeft(LAMBDA acc, p : ReplyPart(acc, p, claude), EmptyReply, parts)
ClaudeWriting(parts, signing) == FoldLeft(ClaudePart, NewClaudeWriter(signing), parts)
ChatWriting(parts, signing) == FoldLeft(ChatPart, NewChatWriter(signing), parts)

\* What one more item b does to a; c holds the fold's other arguments.
StepOf(fold, c, a, b) ==
    IF fold = "claude_contents" THEN AddMessage(c[1], a, b, c[2])
    ELSE IF fold = "merging" THEN MergeStep(c[1], a)
    ELSE IF fold = "text_and_images" THEN AddSymbol(c[1], a, b, c[2])
    ELSE IF fold = "chat_contents" THEN MessageContents(c[1], a, b, c[2])
    ELSE IF fold = "merge_parts" THEN AddPart(a, b)
    ELSE IF fold = "replying" THEN ReplyPart(a, b, c[1])
    ELSE IF fold = "claude_writing" THEN ClaudePart(a, b)
    ELSE ChatPart(a, b)

Value(fold, c, base, s, f, S) ==
    IF S = {} THEN base ELSE StepOf(fold, c, f[S \ {Max(S)}], s[Max(S)])
Iterates(fold, c, base, s, f, m) ==
    f = [S \in SUBSET (1..m) |-> Value(fold, c, base, s, f, S)]

\* The function a fold chooses exists.
LEMMA IterationExists ==
    ASSUME NEW fold, NEW c, NEW base, NEW s, NEW n \in Nat
    PROVE  \E f : Iterates(fold, c, base, s, f, n)
<1>. DEFINE V(f, S) == Value(fold, c, base, s, f, S)
            It(f, m) == Iterates(fold, c, base, s, f, m)
            M == {m \in 0..n : \E f : It(f, m)}
<1>1. 0 \in M
  <2>. DEFINE f == [S \in SUBSET (1..0) |-> base]
  <2>1. \A S \in SUBSET (1..0) : V(f, S) = base
    BY DEF Value
  <2>2. It(f, 0)
    BY <2>1 DEF Iterates
  <2>. QED
    BY <2>2
<1>2. ASSUME NEW m \in 1..n, m - 1 \in M PROVE m \in M
  <2>0. m \in Nat \ {0} /\ m \in 0..n
    OBVIOUS
  <2>1. PICK f : It(f, m - 1)
    BY <1>2
  <2>. DEFINE Op(a, b) == StepOf(fold, c, a, b)
              g == [S \in SUBSET (1..m) |-> IF m \in S THEN Op(f[S \ {m}], s[m]) ELSE f[S]]
  <2>. HIDE DEF Op
  <2>2. ASSUME NEW S \in SUBSET (1..m) PROVE g[S] = V(g, S)
    <3>. DEFINE T == S \ {Max(S)}
    <3>1. CASE m \in S
      <4>1. S # {} /\ Max(S) = m /\ T \in SUBSET (1..m) /\ m \notin T
        BY <2>0, <3>1, Topmost
      <4>2. g[T] = f[T] /\ g[S] = Op(f[T], s[m])
        BY <3>1, <4>1
      <4>. HIDE DEF g, T
      <4>3. V(g, S) = Op(g[T], s[m])
        BY <4>1 DEF T, Value, Op
      <4>. QED
        BY <4>2, <4>3
    <3>2. CASE m \notin S
      <4>1. /\ S \in SUBSET (1..m - 1)
            /\ S # {} => m \notin T /\ T \in SUBSET (1..m)
        BY <2>0, <3>2, Topmost
      <4>2. g[S] = f[S] /\ (S # {} => g[T] = f[T])
        BY <3>2, <4>1
      <4>3. f[S] = V(f, S)
        BY <2>1, <4>1 DEF Iterates
      <4>. HIDE DEF g
      <4>4. V(f, S) = V(g, S)
        BY <4>2 DEF Value
      <4>. QED
        BY <4>2, <4>3, <4>4
    <3>. QED
      BY <3>1, <3>2
  <2>3. It(g, m)
    <3>1. g = [S \in SUBSET (1..m) |-> g[S]]
      OBVIOUS
    <3>. HIDE DEF g
    <3>. QED
      BY <2>2, <3>1 DEF Iterates
  <2>. HIDE DEF It
  <2>. QED
    BY <2>0, <2>3
<1>3. n \in M
  <2>. HIDE DEF M
  <2>. QED
    BY <1>1, <1>2, Upwards
<1>. QED
  BY <1>3

\* Its values on the first k indices are the steps of the fold.
Steps(fold, c, base, s, run, n) ==
    run[0] = base /\ \A k \in 1..n : run[k] = StepOf(fold, c, run[k - 1], s[k])

LEMMA IterationRuns ==
    ASSUME NEW fold, NEW c, NEW base, NEW s, NEW n \in Nat, NEW it, Iterates(fold, c, base, s, it, n)
    PROVE  \E run : Steps(fold, c, base, s, run, n) /\ run[n] = it[1..n]
<1>. DEFINE V(S) == Value(fold, c, base, s, it, S)
            run == [k \in 0..n |-> it[1..k]]
<1>1. \A S \in SUBSET (1..n) : it[S] = V(S)
  BY DEF Iterates
<1>2. run[0] = base
  <2>1. 1..0 = {} /\ {} \in SUBSET (1..n) /\ run[0] = it[1..0]
    OBVIOUS
  <2>. QED
    BY <1>1, <2>1 DEF Value
<1>3. ASSUME NEW k \in 1..n PROVE run[k] = StepOf(fold, c, run[k - 1], s[k])
  <2>1. /\ 1..k # {} /\ Max(1..k) = k /\ (1..k) \ {k} = 1..k - 1
        /\ 1..k \in SUBSET (1..n)
    BY PrefixMax
  <2>2. it[1..k] = StepOf(fold, c, it[1..k - 1], s[k])
    BY <1>1, <2>1 DEF Value
  <2>3. run[k] = it[1..k] /\ run[k - 1] = it[1..k - 1]
    OBVIOUS
  <2>. HIDE DEF run
  <2>. QED
    BY <2>2, <2>3
<1>4. run[n] = it[1..n]
  OBVIOUS
<1>. HIDE DEF run
<1>. QED
  BY <1>2, <1>3, <1>4 DEF Steps

\* ClaudeContents adds one message at a time.
LEMMA ClaudeContentsRun ==
    ASSUME NEW entries, NEW messages, Len(messages) \in Nat, DOMAIN messages = 1..Len(messages), NEW claude
    PROVE  \E run : /\ run[0] = <<>>
                    /\ \A k \in 1..Len(messages) : run[k] = AddMessage(entries, run[k - 1], messages[k], claude)
                    /\ ClaudeContents(entries, messages, claude) = run[Len(messages)]
<1>. DEFINE n == Len(messages)
            base == <<>>
            c == <<entries, claude>>
            Op(a, b) == AddMessage(entries, a, b, claude)
            Chosen(f) == f = [S \in SUBSET (1..n) |->
                                IF S = {} THEN base ELSE Op(f[S \ {Max(S)}], messages[Max(S)])]
            it == CHOOSE f : Chosen(f)
<1>1. ClaudeContents(entries, messages, claude) = it[1..n]
  BY DEF ClaudeContents, AddMessage, FoldLeft, MapThenFoldSet
<1>2. n \in Nat /\ \A a, b : StepOf("claude_contents", c, a, b) = Op(a, b)
  BY DEF StepOf
<1>. HIDE DEF Op, c, base, n
<1>3. \A f : Iterates("claude_contents", c, base, messages, f, n) <=> Chosen(f)
  BY <1>2 DEF Iterates, Value
<1>. HIDE DEF Chosen
<1>4. Iterates("claude_contents", c, base, messages, it, n)
  BY <1>2, <1>3, IterationExists
<1>. HIDE DEF it
<1>5. \E run : Steps("claude_contents", c, base, messages, run, n) /\ run[n] = it[1..n]
  BY <1>2, <1>4, IterationRuns
<1>. QED
  BY <1>1, <1>2, <1>5 DEF Steps, Op, base, n

\* merge_tool_only_assistant_messages takes a step for each message.
LEMMA MergingRun ==
    ASSUME NEW entries, NEW messages, Len(messages) \in Nat, DOMAIN messages = 1..Len(messages)
    PROVE  \E run : /\ run[0] = [next |-> 1, messages |-> messages]
                    /\ \A k \in 1..Len(messages) : run[k] = MergeStep(entries, run[k - 1])
                    /\ Merging(entries, messages) = run[Len(messages)]
<1>. DEFINE n == Len(messages)
            base == [next |-> 1, messages |-> messages]
            c == <<entries>>
            Op(a, b) == MergeStep(entries, a)
            Chosen(f) == f = [S \in SUBSET (1..n) |->
                                IF S = {} THEN base ELSE Op(f[S \ {Max(S)}], messages[Max(S)])]
            it == CHOOSE f : Chosen(f)
<1>1. Merging(entries, messages) = it[1..n]
  BY DEF Merging, FoldLeft, MapThenFoldSet
<1>2. n \in Nat /\ \A a, b : StepOf("merging", c, a, b) = Op(a, b)
  BY DEF StepOf
<1>. HIDE DEF Op, c, base, n
<1>3. \A f : Iterates("merging", c, base, messages, f, n) <=> Chosen(f)
  BY <1>2 DEF Iterates, Value
<1>. HIDE DEF Chosen
<1>4. Iterates("merging", c, base, messages, it, n)
  BY <1>2, <1>3, IterationExists
<1>. HIDE DEF it
<1>5. \E run : Steps("merging", c, base, messages, run, n) /\ run[n] = it[1..n]
  BY <1>2, <1>4, IterationRuns
<1>. QED
  BY <1>1, <1>2, <1>5 DEF Steps, Op, base, n

\* TextAndImages takes one symbol at a time.
LEMMA TextAndImagesRun ==
    ASSUME NEW entries, NEW text, Len(text) \in Nat, DOMAIN text = 1..Len(text), NEW pro_image
    PROVE  \E run : /\ run[0] = <<>>
                    /\ \A k \in 1..Len(text) : run[k] = AddSymbol(entries, run[k - 1], text[k], pro_image)
                    /\ TextAndImages(entries, text, pro_image) = run[Len(text)]
<1>. DEFINE n == Len(text)
            base == <<>>
            c == <<entries, pro_image>>
            Op(a, b) == AddSymbol(entries, a, b, pro_image)
            Chosen(f) == f = [S \in SUBSET (1..n) |->
                                IF S = {} THEN base ELSE Op(f[S \ {Max(S)}], text[Max(S)])]
            it == CHOOSE f : Chosen(f)
<1>1. TextAndImages(entries, text, pro_image) = it[1..n]
  BY DEF TextAndImages, AddSymbol, FoldLeft, MapThenFoldSet
<1>2. n \in Nat /\ \A a, b : StepOf("text_and_images", c, a, b) = Op(a, b)
  BY DEF StepOf
<1>. HIDE DEF Op, c, base, n
<1>3. \A f : Iterates("text_and_images", c, base, text, f, n) <=> Chosen(f)
  BY <1>2 DEF Iterates, Value
<1>. HIDE DEF Chosen
<1>4. Iterates("text_and_images", c, base, text, it, n)
  BY <1>2, <1>3, IterationExists
<1>. HIDE DEF it
<1>5. \E run : Steps("text_and_images", c, base, text, run, n) /\ run[n] = it[1..n]
  BY <1>2, <1>4, IterationRuns
<1>. QED
  BY <1>1, <1>2, <1>5 DEF Steps, Op, base, n

\* ChatContents adds one message at a time.
LEMMA ChatContentsRun ==
    ASSUME NEW entries, NEW given, NEW family, NEW messages,
           messages = merge_tool_only_assistant_messages(entries, given), Len(messages) \in Nat, DOMAIN messages = 1..Len(messages)
    PROVE  \E run : /\ run[0] = <<>>
                    /\ \A k \in 1..Len(messages) : run[k] = MessageContents(entries, run[k - 1], messages[k], family)
                    /\ ChatContents(entries, given, family) = run[Len(messages)]
<1>. DEFINE n == Len(messages)
            base == <<>>
            c == <<entries, family>>
            Op(a, b) == MessageContents(entries, a, b, family)
            Chosen(f) == f = [S \in SUBSET (1..n) |->
                                IF S = {} THEN base ELSE Op(f[S \ {Max(S)}], messages[Max(S)])]
            it == CHOOSE f : Chosen(f)
<1>1. ChatContents(entries, given, family) = it[1..n]
  BY DEF ChatContents, FoldLeft, MapThenFoldSet
<1>2. n \in Nat /\ \A a, b : StepOf("chat_contents", c, a, b) = Op(a, b)
  BY DEF StepOf
<1>. HIDE DEF Op, c, base, n
<1>3. \A f : Iterates("chat_contents", c, base, messages, f, n) <=> Chosen(f)
  BY <1>2 DEF Iterates, Value
<1>. HIDE DEF Chosen
<1>4. Iterates("chat_contents", c, base, messages, it, n)
  BY <1>2, <1>3, IterationExists
<1>. HIDE DEF it
<1>5. \E run : Steps("chat_contents", c, base, messages, run, n) /\ run[n] = it[1..n]
  BY <1>2, <1>4, IterationRuns
<1>. QED
  BY <1>1, <1>2, <1>5 DEF Steps, Op, base, n

\* merge_parts takes one part at a time.
LEMMA MergePartsRun ==
    ASSUME NEW parts, Len(parts) \in Nat, DOMAIN parts = 1..Len(parts)
    PROVE  \E run : /\ run[0] = <<>>
                    /\ \A k \in 1..Len(parts) : run[k] = AddPart(run[k - 1], parts[k])
                    /\ merge_parts(parts) = run[Len(parts)]
<1>. DEFINE n == Len(parts)
            base == <<>>
            c == <<>>
            Op(a, b) == AddPart(a, b)
            Chosen(f) == f = [S \in SUBSET (1..n) |->
                                IF S = {} THEN base ELSE Op(f[S \ {Max(S)}], parts[Max(S)])]
            it == CHOOSE f : Chosen(f)
<1>1. merge_parts(parts) = it[1..n]
  BY DEF merge_parts, AddPart, Joining, MergedPart, FoldLeft, MapThenFoldSet
<1>2. n \in Nat /\ \A a, b : StepOf("merge_parts", c, a, b) = Op(a, b)
  BY DEF StepOf
<1>. HIDE DEF Op, c, base, n
<1>3. \A f : Iterates("merge_parts", c, base, parts, f, n) <=> Chosen(f)
  BY <1>2 DEF Iterates, Value
<1>. HIDE DEF Chosen
<1>4. Iterates("merge_parts", c, base, parts, it, n)
  BY <1>2, <1>3, IterationExists
<1>. HIDE DEF it
<1>5. \E run : Steps("merge_parts", c, base, parts, run, n) /\ run[n] = it[1..n]
  BY <1>2, <1>4, IterationRuns
<1>. QED
  BY <1>1, <1>2, <1>5 DEF Steps, Op, base, n

\* to_messages_response takes one part at a time.
LEMMA ReplyingRun ==
    ASSUME NEW parts, Len(parts) \in Nat, DOMAIN parts = 1..Len(parts), NEW claude
    PROVE  \E run : /\ run[0] = EmptyReply
                    /\ \A k \in 1..Len(parts) : run[k] = ReplyPart(run[k - 1], parts[k], claude)
                    /\ Replying(parts, claude) = run[Len(parts)]
<1>. DEFINE n == Len(parts)
            base == EmptyReply
            c == <<claude>>
            Op(a, b) == ReplyPart(a, b, claude)
            Chosen(f) == f = [S \in SUBSET (1..n) |->
                                IF S = {} THEN base ELSE Op(f[S \ {Max(S)}], parts[Max(S)])]
            it == CHOOSE f : Chosen(f)
<1>1. Replying(parts, claude) = it[1..n]
  BY DEF Replying, FoldLeft, MapThenFoldSet
<1>2. n \in Nat /\ \A a, b : StepOf("replying", c, a, b) = Op(a, b)
  BY DEF StepOf
<1>. HIDE DEF Op, c, base, n
<1>3. \A f : Iterates("replying", c, base, parts, f, n) <=> Chosen(f)
  BY <1>2 DEF Iterates, Value
<1>. HIDE DEF Chosen
<1>4. Iterates("replying", c, base, parts, it, n)
  BY <1>2, <1>3, IterationExists
<1>. HIDE DEF it
<1>5. \E run : Steps("replying", c, base, parts, run, n) /\ run[n] = it[1..n]
  BY <1>2, <1>4, IterationRuns
<1>. QED
  BY <1>1, <1>2, <1>5 DEF Steps, Op, base, n

\* The Claude writer takes one part at a time.
LEMMA ClaudeWritingRun ==
    ASSUME NEW parts, Len(parts) \in Nat, DOMAIN parts = 1..Len(parts), NEW signing
    PROVE  \E run : /\ run[0] = NewClaudeWriter(signing)
                    /\ \A k \in 1..Len(parts) : run[k] = ClaudePart(run[k - 1], parts[k])
                    /\ ClaudeWriting(parts, signing) = run[Len(parts)]
<1>. DEFINE n == Len(parts)
            base == NewClaudeWriter(signing)
            c == <<>>
            Op(a, b) == ClaudePart(a, b)
            Chosen(f) == f = [S \in SUBSET (1..n) |->
                                IF S = {} THEN base ELSE Op(f[S \ {Max(S)}], parts[Max(S)])]
            it == CHOOSE f : Chosen(f)
<1>1. ClaudeWriting(parts, signing) = it[1..n]
  BY DEF ClaudeWriting, FoldLeft, MapThenFoldSet
<1>2. n \in Nat /\ \A a, b : StepOf("claude_writing", c, a, b) = Op(a, b)
  BY DEF StepOf
<1>. HIDE DEF Op, c, base, n
<1>3. \A f : Iterates("claude_writing", c, base, parts, f, n) <=> Chosen(f)
  BY <1>2 DEF Iterates, Value
<1>. HIDE DEF Chosen
<1>4. Iterates("claude_writing", c, base, parts, it, n)
  BY <1>2, <1>3, IterationExists
<1>. HIDE DEF it
<1>5. \E run : Steps("claude_writing", c, base, parts, run, n) /\ run[n] = it[1..n]
  BY <1>2, <1>4, IterationRuns
<1>. QED
  BY <1>1, <1>2, <1>5 DEF Steps, Op, base, n

\* The OpenAI writer takes one part at a time.
LEMMA ChatWritingRun ==
    ASSUME NEW parts, Len(parts) \in Nat, DOMAIN parts = 1..Len(parts), NEW signing
    PROVE  \E run : /\ run[0] = NewChatWriter(signing)
                    /\ \A k \in 1..Len(parts) : run[k] = ChatPart(run[k - 1], parts[k])
                    /\ ChatWriting(parts, signing) = run[Len(parts)]
<1>. DEFINE n == Len(parts)
            base == NewChatWriter(signing)
            c == <<>>
            Op(a, b) == ChatPart(a, b)
            Chosen(f) == f = [S \in SUBSET (1..n) |->
                                IF S = {} THEN base ELSE Op(f[S \ {Max(S)}], parts[Max(S)])]
            it == CHOOSE f : Chosen(f)
<1>1. ChatWriting(parts, signing) = it[1..n]
  BY DEF ChatWriting, FoldLeft, MapThenFoldSet
<1>2. n \in Nat /\ \A a, b : StepOf("chat_writing", c, a, b) = Op(a, b)
  BY DEF StepOf
<1>. HIDE DEF Op, c, base, n
<1>3. \A f : Iterates("chat_writing", c, base, parts, f, n) <=> Chosen(f)
  BY <1>2 DEF Iterates, Value
<1>. HIDE DEF Chosen
<1>4. Iterates("chat_writing", c, base, parts, it, n)
  BY <1>2, <1>3, IterationExists
<1>. HIDE DEF it
<1>5. \E run : Steps("chat_writing", c, base, parts, run, n) /\ run[n] = it[1..n]
  BY <1>2, <1>4, IterationRuns
<1>. QED
  BY <1>1, <1>2, <1>5 DEF Steps, Op, base, n

-----------------------------------------------------------------------------
(* What messages, parts and cache entries look like.                        *)

Symbols == {"hello", "more", "look", "output", "missing_thought_text"}
           \cup {Text(n) : n \in 1..MaxParts} \cup Images \cup Calls \cup Sigs
Strings == Seq(Symbols)

\* Parts of an answer, blocks and messages of a Claude client.
GivenParts == [thought : BOOLEAN, text : Strings, image : Images \cup {None},
               call : Calls \cup {None}, sig : Sigs \cup {None}]
BlockTypes == {"text", "thinking", "redacted_thinking", "tool_use", "tool_result"}
Blocks == [type : BlockTypes, text : Strings, sig : Sigs \cup {None}, id : Calls \cup {None}]
ClaudeMessages == [role : {"user", "assistant"}, blocks : Seq(Blocks)]
ChatMessages == [role : {"user", "assistant", "tool"}, content : Strings, reasoning : Strings,
                 tool_calls : Seq(Calls), tool_call_id : Calls \cup {None}]

\* Parts and contents of a request.
SentParts == [thought : BOOLEAN, text : Strings, image : Images \cup {None},
              call : Calls \cup {None}, response : Calls \cup {None},
              name : Calls \cup {None}, sig : Sigs \cup {None, FALLBACK_SIGNATURE}]
SentContents == [role : {"user", "model"}, parts : Seq(SentParts)]

Entries == [sig : Sigs, reasoning : Strings, readable : BOOLEAN]
IsCache(c) == DOMAIN c \subseteq Calls \cup Images /\ \A id \in DOMAIN c : c[id] \in Entries

LEMMA SymbolTypes ==
    /\ MissingThought \in Strings /\ <<>> \in Strings
    /\ \A x \in Images \cup Calls \cup Sigs : <<x>> \in Strings
  BY DEF MissingThought, Strings, Symbols

\* No part, or one.
Single(p) == p \in Seq(SentParts) /\ Len(p) = 1

LEMMA PlainType == Plain \in SentParts
  BY SymbolTypes DEF Plain, SentParts

LEMMA PartForms ==
    /\ \A text \in Strings : text # <<>> =>
          Single(TextOf(text)) /\ TextOf(text)[1] = [Plain EXCEPT !.text = text]
    /\ \A text \in Strings : \A sig \in Sigs \cup {None} :
          Single(ThoughtOf(text, sig)) /\ ThoughtOf(text, sig)[1] = [Plain EXCEPT !.thought = TRUE, !.text = text, !.sig = sig]
    /\ \A id \in Calls \cup {None} : \A sig \in Sigs \cup {None, FALLBACK_SIGNATURE} :
          Single(CallOf(id, sig)) /\ CallOf(id, sig)[1] = [Plain EXCEPT !.call = id, !.sig = sig]
    /\ \A key \in Images : \A sig \in Sigs \cup {None, FALLBACK_SIGNATURE} :
          Single(ImageOf(key, sig)) /\ ImageOf(key, sig)[1] = [Plain EXCEPT !.image = key, !.sig = sig]
    /\ \A id, name \in Calls \cup {None} :
          Single(ResponseTo(id, name)) /\ ResponseTo(id, name)[1] = [Plain EXCEPT !.response = id, !.name = name]
<1>. DEFINE One(p) == Single(<<p>>) /\ <<p>>[1] = p
<1>1. \A p \in SentParts : One(p)
  BY DEF Single
<1>2. ASSUME NEW text \in Strings PROVE [Plain EXCEPT !.text = text] \in SentParts
  BY PlainType DEF SentParts
<1>3. ASSUME NEW text \in Strings, NEW sig \in Sigs \cup {None}
      PROVE [Plain EXCEPT !.thought = TRUE, !.text = text, !.sig = sig] \in SentParts
  BY PlainType DEF SentParts
<1>4. ASSUME NEW id \in Calls \cup {None}, NEW sig \in Sigs \cup {None, FALLBACK_SIGNATURE}
      PROVE [Plain EXCEPT !.call = id, !.sig = sig] \in SentParts
  BY PlainType DEF SentParts
<1>5. ASSUME NEW key \in Images, NEW sig \in Sigs \cup {None, FALLBACK_SIGNATURE}
      PROVE [Plain EXCEPT !.image = key, !.sig = sig] \in SentParts
  BY PlainType DEF SentParts
<1>6. ASSUME NEW id \in Calls \cup {None}, NEW name \in Calls \cup {None}
      PROVE [Plain EXCEPT !.response = id, !.name = name] \in SentParts
  BY PlainType DEF SentParts
<1>7. \A text \in Strings : text # <<>> =>
          Single(TextOf(text)) /\ TextOf(text)[1] = [Plain EXCEPT !.text = text]
  BY <1>1, <1>2 DEF TextOf
<1>8. \A text \in Strings : \A sig \in Sigs \cup {None} :
          Single(ThoughtOf(text, sig)) /\ ThoughtOf(text, sig)[1] = [Plain EXCEPT !.thought = TRUE, !.text = text, !.sig = sig]
  BY <1>1, <1>3 DEF ThoughtOf
<1>9. \A id \in Calls \cup {None} : \A sig \in Sigs \cup {None, FALLBACK_SIGNATURE} :
          Single(CallOf(id, sig)) /\ CallOf(id, sig)[1] = [Plain EXCEPT !.call = id, !.sig = sig]
  BY <1>1, <1>4 DEF CallOf
<1>10. \A key \in Images : \A sig \in Sigs \cup {None, FALLBACK_SIGNATURE} :
          Single(ImageOf(key, sig)) /\ ImageOf(key, sig)[1] = [Plain EXCEPT !.image = key, !.sig = sig]
  BY <1>1, <1>5 DEF ImageOf
<1>11. \A id, name \in Calls \cup {None} :
          Single(ResponseTo(id, name)) /\ ResponseTo(id, name)[1] = [Plain EXCEPT !.response = id, !.name = name]
  BY <1>1, <1>6 DEF ResponseTo
<1>. QED
  BY <1>7, <1>8, <1>9, <1>10, <1>11

\* What the cache gives.
LEMMA LookUps ==
    ASSUME NEW c, IsCache(c), NEW id
    PROVE  /\ lookup_strict(c, id).sig \in Sigs \cup {None}
           /\ lookup_strict(c, id).reasoning \in Strings
           /\ lookup(c, id) \in Sigs \cup {None, FALLBACK_SIGNATURE}
<1>1. id \in DOMAIN c => c[id] \in Entries
  BY DEF IsCache
<1>. QED
  BY <1>1, SymbolTypes DEF lookup_strict, lookup, Indexed, NoEntry, Entries

-----------------------------------------------------------------------------
(* Contents whose calls are those of M, each once, and whose responses      *)
(* answer those of R, each once and behind its call.                        *)

CallsOnce(C, M) ==
    /\ \A i \in DOMAIN C : \A j \in DOMAIN C[i].parts :
          /\ C[i].parts[j].call \in M \cup {None}
          /\ C[i].role = "user" => C[i].parts[j].call = None
          /\ \A k \in DOMAIN C : \A l \in DOMAIN C[k].parts :
                C[i].parts[j].call # None /\ C[k].parts[l].call = C[i].parts[j].call => i = k /\ j = l
    /\ \A id \in M : \E i \in DOMAIN C : \E j \in DOMAIN C[i].parts : C[i].parts[j].call = id

ResponsesOnce(C, R) ==
    /\ \A i \in DOMAIN C : \A j \in DOMAIN C[i].parts :
          /\ C[i].parts[j].response \in R \cup {None}
          /\ C[i].parts[j].name = C[i].parts[j].response
          /\ C[i].role = "model" => C[i].parts[j].response = None
          /\ \A k \in DOMAIN C : \A l \in DOMAIN C[k].parts :
                C[i].parts[j].response # None /\ C[k].parts[l].response = C[i].parts[j].response => i = k /\ j = l
    /\ \A id \in R : \E i \in DOMAIN C : \E j \in DOMAIN C[i].parts : C[i].parts[j].response = id

Behind(C) ==
    \A i, k \in DOMAIN C : \A j \in DOMAIN C[i].parts : \A l \in DOMAIN C[k].parts :
        C[i].parts[j].call # None /\ C[k].parts[l].response = C[i].parts[j].call => i < k

Paired(C, M, R) ==
    /\ C \in Seq(SentContents) /\ M \subseteq Calls /\ R \subseteq M
    /\ CallsOnce(C, M) /\ ResponsesOnce(C, R) /\ Behind(C)

LEMMA ContentTypes ==
    ASSUME NEW C \in Seq(SentContents)
    PROVE  /\ Len(C) \in Nat /\ DOMAIN C = 1..Len(C)
           /\ \A i \in DOMAIN C :
                /\ C[i] \in SentContents /\ C[i].role \in {"user", "model"}
                /\ C[i].parts \in Seq(SentParts) /\ Len(C[i].parts) \in Nat
                /\ DOMAIN C[i].parts = 1..Len(C[i].parts)
                /\ \A j \in DOMAIN C[i].parts : C[i].parts[j] \in SentParts
<1>1. Len(C) \in Nat /\ DOMAIN C = 1..Len(C) /\ \A i \in DOMAIN C : C[i] \in SentContents
  BY LenProperties, ElementOfSeq
<1>2. \A c \in SentContents :
        /\ c.role \in {"user", "model"}
        /\ c.parts \in Seq(SentParts) /\ Len(c.parts) \in Nat /\ DOMAIN c.parts = 1..Len(c.parts)
        /\ \A j \in DOMAIN c.parts : c.parts[j] \in SentParts
  BY LenProperties, ElementOfSeq DEF SentContents
<1>. QED
  BY <1>1, <1>2

LEMMA NothingPaired == Paired(<<>>, {}, {})
  BY DEF Paired, CallsOnce, ResponsesOnce, Behind

\* The new calls or responses of one content: each once, the responses named.
Fresh(parts, c, r) ==
    /\ \A j \in DOMAIN parts : /\ parts[j].call \in c \cup {None}
                               /\ parts[j].response \in r \cup {None}
                               /\ parts[j].name = parts[j].response
    /\ \A j, l \in DOMAIN parts : parts[j].call # None /\ parts[l].call = parts[j].call => j = l
    /\ \A j, l \in DOMAIN parts : parts[j].response # None /\ parts[l].response = parts[j].response => j = l
    /\ \A id \in c : \E j \in DOMAIN parts : parts[j].call = id
    /\ \A id \in r : \E j \in DOMAIN parts : parts[j].response = id

\* A content with new calls and no response, or new responses and no call.
LEMMA AppendPaired ==
    ASSUME NEW C, NEW M, NEW R, Paired(C, M, R), NEW role \in {"user", "model"}, NEW parts \in Seq(SentParts),
           NEW c, NEW r, c \subseteq Calls, c \cap M = {}, r \subseteq M, r \cap R = {}, Fresh(parts, c, r),
           role = "user" => c = {}, role = "model" => r = {}
    PROVE  Paired(Append(C, Content(role, parts)), M \cup c, R \cup r)
<1>. DEFINE new == Content(role, parts)
            D == Append(C, new)
            n == Len(C) + 1
<1>1. new \in SentContents /\ new.role = role /\ new.parts = parts
  BY DEF Content, SentContents
<1>2. C \in Seq(SentContents) /\ Len(C) \in Nat /\ DOMAIN C = 1..Len(C) /\ None \notin Calls
  BY ContentTypes, NoneAssumption DEF Paired
<1>. HIDE DEF new
<1>3. /\ D \in Seq(SentContents) /\ DOMAIN D = 1..n /\ D[n] = new /\ n \notin DOMAIN C
      /\ \A i \in DOMAIN C : D[i] = C[i] /\ i \in DOMAIN D /\ i < n
      /\ \A i \in DOMAIN D : i \in DOMAIN C \/ i = n
      /\ n \in DOMAIN D
  BY <1>1, <1>2, AppendProperties
<1>. HIDE DEF D, n
<1>4. CallsOnce(D, M \cup c)
  <2>1. CallsOnce(C, M) /\ M \subseteq Calls
    BY DEF Paired
  <2>2. ASSUME NEW i \in DOMAIN D, NEW j \in DOMAIN D[i].parts
        PROVE  /\ D[i].parts[j].call \in M \cup c \cup {None}
               /\ D[i].role = "user" => D[i].parts[j].call = None
               /\ i = n => D[i].parts[j].call \in c \cup {None}
               /\ i # n => D[i].parts[j].call \in M \cup {None}
    BY <1>1, <1>3, <2>1 DEF CallsOnce, Fresh
  <2>3. ASSUME NEW i \in DOMAIN D, NEW j \in DOMAIN D[i].parts, NEW k \in DOMAIN D, NEW l \in DOMAIN D[k].parts,
               D[i].parts[j].call # None, D[k].parts[l].call = D[i].parts[j].call
        PROVE  i = k /\ j = l
    <3>1. CASE i = n /\ k = n
      BY <1>1, <1>3, <2>3, <3>1 DEF Fresh
    <3>2. CASE i # n /\ k # n
      BY <1>3, <2>1, <2>3, <3>2 DEF CallsOnce
    <3>. QED
      BY <2>2, <2>3, <3>1, <3>2
  <2>4. ASSUME NEW id \in M \cup c
        PROVE  \E i \in DOMAIN D : \E j \in DOMAIN D[i].parts : D[i].parts[j].call = id
    <3>1. CASE id \in M
      BY <1>3, <2>1, <3>1 DEF CallsOnce
    <3>2. CASE id \in c
      BY <1>1, <1>3, <3>2 DEF Fresh
    <3>. QED
      BY <3>1, <3>2
  <2>. QED
    BY <2>2, <2>3, <2>4 DEF CallsOnce
<1>5. ResponsesOnce(D, R \cup r)
  <2>1. ResponsesOnce(C, R) /\ R \subseteq Calls
    BY DEF Paired
  <2>2. ASSUME NEW i \in DOMAIN D, NEW j \in DOMAIN D[i].parts
        PROVE  /\ D[i].parts[j].response \in R \cup r \cup {None}
               /\ D[i].parts[j].name = D[i].parts[j].response
               /\ D[i].role = "model" => D[i].parts[j].response = None
               /\ i = n => D[i].parts[j].response \in r \cup {None}
               /\ i # n => D[i].parts[j].response \in R \cup {None}
    BY <1>1, <1>3, <2>1 DEF ResponsesOnce, Fresh
  <2>3. ASSUME NEW i \in DOMAIN D, NEW j \in DOMAIN D[i].parts, NEW k \in DOMAIN D, NEW l \in DOMAIN D[k].parts,
               D[i].parts[j].response # None, D[k].parts[l].response = D[i].parts[j].response
        PROVE  i = k /\ j = l
    <3>1. CASE i = n /\ k = n
      BY <1>1, <1>3, <2>3, <3>1 DEF Fresh
    <3>2. CASE i # n /\ k # n
      BY <1>3, <2>1, <2>3, <3>2 DEF ResponsesOnce
    <3>. QED
      BY <2>2, <2>3, <3>1, <3>2
  <2>4. ASSUME NEW id \in R \cup r
        PROVE  \E i \in DOMAIN D : \E j \in DOMAIN D[i].parts : D[i].parts[j].response = id
    <3>1. CASE id \in R
      BY <1>3, <2>1, <3>1 DEF ResponsesOnce
    <3>2. CASE id \in r
      BY <1>1, <1>3, <3>2 DEF Fresh
    <3>. QED
      BY <3>1, <3>2
  <2>. QED
    BY <2>2, <2>3, <2>4 DEF ResponsesOnce
<1>6. Behind(D)
  <2>. SUFFICES ASSUME NEW i \in DOMAIN D, NEW k \in DOMAIN D, NEW j \in DOMAIN D[i].parts, NEW l \in DOMAIN D[k].parts,
                       D[i].parts[j].call # None, D[k].parts[l].response = D[i].parts[j].call
                PROVE  i < k
    BY DEF Behind
  <2>1. CASE i = n
    <3>1. D[i].parts[j].call \in c /\ D[k].parts[l].response \in R \cup r
      BY <1>1, <1>3, <1>5, <2>1 DEF Fresh, ResponsesOnce
    <3>. QED
      BY <3>1 DEF Paired
  <2>2. CASE i # n /\ k = n
    BY <1>3, <2>2
  <2>3. CASE i # n /\ k # n
    BY <1>3, <2>3 DEF Paired, Behind
  <2>. QED
    BY <2>1, <2>2, <2>3
<1>. QED
  BY <1>3, <1>4, <1>5, <1>6 DEF Paired, D, new

\* A call that was sent is found by its id.
LEMMA CallFound ==
    ASSUME NEW C, NEW M, NEW R, Paired(C, M, R), NEW id \in M
    PROVE  find_function_name(C, id) = id
  BY DEF Paired, CallsOnce, find_function_name

\* A response joins the last content when that is the user's.
LEMMA ResponsePaired ==
    ASSUME NEW C, NEW M, NEW R, Paired(C, M, R), NEW id \in M, id \notin R
    PROVE  Paired(append_function_response(C, ResponseTo(id, id)), M, R \cup {id})
<1>. DEFINE x == ResponseTo(id, id)
            n == Len(C)
            D == [C EXCEPT ![n].parts = @ \o x]
<1>0. M \subseteq Calls /\ id \in Calls /\ None \notin Calls /\ id # None
  BY NoneAssumption DEF Paired
<1>1. /\ x \in Seq(SentParts) /\ Len(x) = 1 /\ x[1] = [Plain EXCEPT !.response = id, !.name = id]
  BY <1>0, PartForms DEF Single
<1>2. x[1].call = None /\ x[1].response = id /\ x[1].name = id /\ DOMAIN x = {1}
  BY <1>1, PlainType DEF Plain, SentParts
<1>. HIDE DEF x
<1>3. CASE ~(C # <<>> /\ Last(C).role = "user")
  <2>1. Fresh(x, {}, {id})
    BY <1>0, <1>2 DEF Fresh
  <2>2. Paired(Append(C, Content("user", x)), M \cup {}, R \cup {id})
    <3>1. "user" \in {"user", "model"} /\ "user" # "model" /\ {id} \subseteq M /\ {id} \cap R = {} /\ {} \subseteq Calls
          /\ {} \cap M = {}
      OBVIOUS
    <3>2. "user" = "user" => {} = {}
      OBVIOUS
    <3>. DEFINE c == {}
                r == {id}
    <3>. HIDE DEF c, r
    <3>. QED
      BY <1>1, <2>1, <3>1, <3>2, AppendPaired DEF c, r
  <2>3. M \cup {} = M
    OBVIOUS
  <2>. QED
    BY <1>3, <2>2, <2>3 DEF append_function_response, x
<1>4. CASE C # <<>> /\ Last(C).role = "user"
  <2>1. /\ C \in Seq(SentContents) /\ n \in Nat /\ DOMAIN C = 1..n /\ n # 0 /\ n \in DOMAIN C
        /\ C[n].role = "user" /\ C[n] \in SentContents /\ C[n].parts \in Seq(SentParts)
        /\ Len(C[n].parts) \in Nat /\ DOMAIN C[n].parts = 1..Len(C[n].parts)
    BY <1>4, ContentTypes, EmptySeq DEF Paired, Last
  <2>. DEFINE p == C[n].parts
              m == Len(p) + 1
              q == p \o x
              d == [C[n] EXCEPT !.parts = q]
  <2>2. /\ q \in Seq(SentParts) /\ DOMAIN q = 1..m /\ q[m] = x[1] /\ m \notin DOMAIN p
        /\ \A j \in DOMAIN p : q[j] = p[j] /\ j \in DOMAIN q
        /\ \A j \in DOMAIN q : j \in DOMAIN p \/ j = m
        /\ m \in DOMAIN q
    <3>1. p \in Seq(SentParts) /\ Len(p) \in Nat /\ DOMAIN p = 1..Len(p)
      BY <2>1
    <3>. HIDE DEF p
    <3>2. /\ q \in Seq(SentParts) /\ DOMAIN q = 1..m /\ q[m] = x[1]
          /\ \A j \in 1..Len(p) : q[j] = p[j]
      BY <1>1, <3>1, ConcatOne
    <3>. HIDE DEF q
    <3>. QED
      BY <3>1, <3>2
  <2>3. d \in SentContents /\ d.role = "user" /\ d.parts = q
    BY <2>1, <2>2 DEF SentContents
  <2>4. D = [C EXCEPT ![n] = d]
    BY <2>1
  <2>5. /\ D \in Seq(SentContents) /\ DOMAIN D = DOMAIN C /\ D[n] = d
        /\ \A i \in DOMAIN C : i # n => D[i] = C[i]
    <3>. HIDE DEF d, D
    <3>. QED
      BY <2>1, <2>3, <2>4, ExceptSeq
  <2>6. /\ \A i \in DOMAIN D : D[i].role = C[i].role
        /\ \A i \in DOMAIN C : \A j \in DOMAIN C[i].parts :
              j \in DOMAIN D[i].parts /\ D[i].parts[j] = C[i].parts[j]
        /\ \A i \in DOMAIN D : \A j \in DOMAIN D[i].parts :
              \/ i = n /\ j = m /\ D[i].parts[j] = x[1]
              \/ i \in DOMAIN C /\ j \in DOMAIN C[i].parts /\ D[i].parts[j] = C[i].parts[j] /\ ~(i = n /\ j = m)
        /\ n \in DOMAIN D /\ m \in DOMAIN D[n].parts /\ D[n].parts[m] = x[1]
    <3>. HIDE DEF d, D, q, m
    <3>. QED
      BY <2>1, <2>2, <2>3, <2>5
  <2>. HIDE DEF d, D, q, m
  <2>7. CallsOnce(D, M)
    <3>1. CallsOnce(C, M)
      BY DEF Paired
    <3>2. ASSUME NEW i \in DOMAIN D, NEW j \in DOMAIN D[i].parts
          PROVE  /\ D[i].parts[j].call \in M \cup {None}
                 /\ D[i].role = "user" => D[i].parts[j].call = None
                 /\ D[i].parts[j].call # None =>
                       /\ i \in DOMAIN C /\ j \in DOMAIN C[i].parts
                       /\ C[i].parts[j].call = D[i].parts[j].call
      BY <1>2, <2>5, <2>6, <3>1 DEF CallsOnce
    <3>3. ASSUME NEW i \in DOMAIN D, NEW j \in DOMAIN D[i].parts, NEW k \in DOMAIN D, NEW l \in DOMAIN D[k].parts,
                 D[i].parts[j].call # None, D[k].parts[l].call = D[i].parts[j].call
          PROVE  i = k /\ j = l
      BY <3>1, <3>2, <3>3 DEF CallsOnce
    <3>4. ASSUME NEW r \in M
          PROVE  \E i \in DOMAIN D : \E j \in DOMAIN D[i].parts : D[i].parts[j].call = r
      BY <2>5, <2>6, <3>1 DEF CallsOnce
    <3>. QED
      BY <3>2, <3>3, <3>4 DEF CallsOnce
  <2>8. ResponsesOnce(D, R \cup {id})
    <3>1. ResponsesOnce(C, R)
      BY DEF Paired
    <3>2. ASSUME NEW i \in DOMAIN D, NEW j \in DOMAIN D[i].parts
          PROVE  /\ D[i].parts[j].response \in R \cup {id} \cup {None}
                 /\ D[i].parts[j].name = D[i].parts[j].response
                 /\ D[i].role = "model" => D[i].parts[j].response = None
                 /\ ~(i = n /\ j = m) => D[i].parts[j].response # id
      BY <1>0, <1>2, <2>1, <2>5, <2>6, <3>1 DEF ResponsesOnce
    <3>3. ASSUME NEW i \in DOMAIN D, NEW j \in DOMAIN D[i].parts, NEW k \in DOMAIN D, NEW l \in DOMAIN D[k].parts,
                 D[i].parts[j].response # None, D[k].parts[l].response = D[i].parts[j].response
          PROVE  i = k /\ j = l
      <4>1. CASE i = n /\ j = m
        BY <1>2, <2>6, <3>2, <3>3, <4>1
      <4>2. CASE k = n /\ l = m
        BY <1>2, <2>6, <3>2, <3>3, <4>2
      <4>3. CASE ~(i = n /\ j = m) /\ ~(k = n /\ l = m)
        <5>1. i \in DOMAIN C /\ j \in DOMAIN C[i].parts /\ D[i].parts[j] = C[i].parts[j]
              /\ k \in DOMAIN C /\ l \in DOMAIN C[k].parts /\ D[k].parts[l] = C[k].parts[l]
          BY <2>6, <4>3
        <5>. QED
          BY <3>1, <3>3, <5>1 DEF ResponsesOnce
      <4>. QED
        BY <4>1, <4>2, <4>3
    <3>4. ASSUME NEW r \in R \cup {id}
          PROVE  \E i \in DOMAIN D : \E j \in DOMAIN D[i].parts : D[i].parts[j].response = r
      <4>1. CASE r \in R
        BY <2>5, <2>6, <3>1, <4>1 DEF ResponsesOnce
      <4>2. CASE r = id
        BY <1>2, <2>6, <4>2
      <4>. QED
        BY <4>1, <4>2
    <3>. QED
      BY <3>2, <3>3, <3>4 DEF ResponsesOnce
  <2>9. Behind(D)
    <3>. SUFFICES ASSUME NEW i \in DOMAIN D, NEW k \in DOMAIN D, NEW j \in DOMAIN D[i].parts, NEW l \in DOMAIN D[k].parts,
                         D[i].parts[j].call # None, D[k].parts[l].response = D[i].parts[j].call
                  PROVE  i < k
      BY DEF Behind
    <3>1. i \in DOMAIN C /\ j \in DOMAIN C[i].parts /\ D[i].parts[j] = C[i].parts[j]
      BY <1>2, <2>6
    <3>2. CASE k = n /\ l = m
      <4>1. i # n
        BY <2>1, <3>1 DEF Paired, CallsOnce
      <4>. QED
        BY <2>1, <3>1, <3>2, <4>1
    <3>3. CASE ~(k = n /\ l = m)
      <4>1. k \in DOMAIN C /\ l \in DOMAIN C[k].parts /\ D[k].parts[l] = C[k].parts[l]
        BY <2>6, <3>3
      <4>. QED
        BY <3>1, <4>1 DEF Paired, Behind
    <3>. QED
      BY <3>2, <3>3
  <2>10. append_function_response(C, x) = D
    BY <1>4 DEF append_function_response, D
  <2>. QED
    BY <2>5, <2>7, <2>8, <2>9, <2>10 DEF Paired, x
<1>. QED
  BY <1>3, <1>4

\* Where the parts of sanitized contents come from: their order is kept and
\* none that says something is lost.
Placed(f, g, D, C) ==
    /\ \A k \in DOMAIN D : /\ f[k] \in DOMAIN C /\ D[k].role = C[f[k]].role
                           /\ \A l \in DOMAIN D[k].parts :
                                 /\ g[k][l] \in DOMAIN C[f[k]].parts
                                 /\ D[k].parts[l] = C[f[k]].parts[g[k][l]]
                           /\ \A l, m \in DOMAIN D[k].parts : g[k][l] = g[k][m] => l = m
    /\ \A k, m \in DOMAIN D : k < m => f[k] < f[m]
    /\ \A i \in DOMAIN C : \A j \in DOMAIN C[i].parts : Says(C[i].parts[j]) =>
          \E k \in DOMAIN D : \E l \in DOMAIN D[k].parts : f[k] = i /\ g[k][l] = j

LEMMA SanitizedPlaces ==
    ASSUME NEW C \in Seq(SentContents)
    PROVE  /\ sanitize_contents(C) \in Seq(SentContents)
           /\ \E f, g : Placed(f, g, sanitize_contents(C), C)
<1>. DEFINE D == sanitize_contents(C)
            J(i) == {j \in DOMAIN C[i].parts : Says(C[i].parts[j])}
            Parts_(i) == Sifted(C[i].parts, J(i), Len(C[i].parts))
            e == [i \in DOMAIN C |-> CHOOSE h : Picks(h, Parts_(i), C[i].parts, J(i))]
            kept == [i \in DOMAIN C |-> [C[i] EXCEPT !.parts = Parts_(i)]]
            I == {i \in DOMAIN C : kept[i].parts # <<>>}
<1>1. /\ Len(C) \in Nat /\ DOMAIN C = 1..Len(C)
      /\ \A i \in DOMAIN C : /\ C[i] \in SentContents /\ C[i].parts \in Seq(SentParts)
                            /\ DOMAIN C[i].parts = 1..Len(C[i].parts)
  BY ContentTypes
<1>2. ASSUME NEW i \in DOMAIN C
      PROVE  Parts_(i) \in Seq(SentParts) /\ Picks(e[i], Parts_(i), C[i].parts, J(i))
  <2>1. J(i) \subseteq DOMAIN C[i].parts
    OBVIOUS
  <2>. HIDE DEF J
  <2>2. Parts_(i) \in Seq(SentParts) /\ \E h : Picks(h, Parts_(i), C[i].parts, J(i))
    BY <1>1, <2>1, Picked
  <2>. HIDE DEF Parts_
  <2>. QED
    BY <2>2
<1>3. D = Sifted(kept, I, Len(kept))
  <2>1. ASSUME NEW i \in DOMAIN C PROVE Keep(C[i].parts, Says) = Parts_(i)
    <3>1. [j \in DOMAIN C[i].parts |-> IF Says(C[i].parts[j]) THEN <<C[i].parts[j]>> ELSE <<>>] =
          [j \in 1..Len(C[i].parts) |-> IF j \in J(i) THEN <<C[i].parts[j]>> ELSE <<>>]
      BY <1>1
    <3>. QED
      BY <3>1 DEF Keep, Sifted
  <2>. DEFINE Kept_(i) == Keep(C[i].parts, Says)
              all == [i \in DOMAIN C |-> [C[i] EXCEPT !.parts = Kept_(i)]]
  <2>2. D = Keep(all, LAMBDA c : c.parts # <<>>)
    BY DEF sanitize_contents
  <2>3. D = FlattenSeq([i \in DOMAIN all |-> IF all[i].parts # <<>> THEN <<all[i]>> ELSE <<>>])
    BY <2>2 DEF Keep
  <2>4. \A i \in DOMAIN C : Kept_(i) = Parts_(i)
    BY <2>1
  <2>. HIDE DEF Kept_, Parts_, D
  <2>5. all = kept
    BY <2>4
  <2>6. [i \in DOMAIN kept |-> IF kept[i].parts # <<>> THEN <<kept[i]>> ELSE <<>>] =
        [i \in 1..Len(kept) |-> IF i \in I THEN <<kept[i]>> ELSE <<>>]
    <3>1. DOMAIN kept = DOMAIN C /\ DOMAIN kept = 1..Len(kept)
      BY <1>1
    <3>. HIDE DEF kept
    <3>. QED
      BY <3>1
  <2>. HIDE DEF all, kept, I
  <2>. QED
    BY <2>3, <2>5, <2>6 DEF Sifted
<1>. HIDE DEF e, Parts_, D
<1>4. /\ kept \in Seq(SentContents) /\ DOMAIN kept = DOMAIN C
      /\ \A i \in DOMAIN C : /\ kept[i] \in SentContents /\ kept[i].role = C[i].role
                            /\ kept[i].parts = Parts_(i)
  <2>1. ASSUME NEW i \in DOMAIN C
        PROVE  kept[i] \in SentContents /\ kept[i].role = C[i].role /\ kept[i].parts = Parts_(i)
    BY <1>1, <1>2 DEF SentContents
  <2>2. kept \in [1..Len(C) -> SentContents]
    BY <1>1, <2>1
  <2>3. DOMAIN kept = DOMAIN C
    OBVIOUS
  <2>. HIDE DEF kept
  <2>. QED
    BY <1>1, <2>1, <2>2, <2>3
<1>5. I \subseteq DOMAIN kept
  OBVIOUS
<1>. HIDE DEF kept
<1>6. D \in Seq(SentContents) /\ \E f : Picks(f, D, kept, I)
  <2>. HIDE DEF I
  <2>. QED
    BY <1>3, <1>4, <1>5, Picked
<1>7. PICK f : Picks(f, D, kept, I)
  BY <1>6
<1>. DEFINE g == [k \in DOMAIN D |-> e[f[k]]]
<1>8. \A k \in DOMAIN D : g[k] = e[f[k]] /\ f[k] \in DOMAIN C /\ D[k] = kept[f[k]]
  BY <1>4, <1>7 DEF Picks
<1>. HIDE DEF g
<1>9. ASSUME NEW k \in DOMAIN D
      PROVE  /\ f[k] \in DOMAIN C /\ D[k].role = C[f[k]].role
             /\ \A l \in DOMAIN D[k].parts :
                   /\ g[k][l] \in DOMAIN C[f[k]].parts
                   /\ D[k].parts[l] = C[f[k]].parts[g[k][l]]
             /\ \A l, m \in DOMAIN D[k].parts : g[k][l] = g[k][m] => l = m
  <2>1. Picks(g[k], D[k].parts, C[f[k]].parts, J(f[k])) /\ D[k].role = C[f[k]].role /\ f[k] \in DOMAIN C
    BY <1>2, <1>4, <1>8
  <2>. QED
    BY <2>1 DEF Picks
<1>10. ASSUME NEW i \in DOMAIN C, NEW j \in DOMAIN C[i].parts, Says(C[i].parts[j])
      PROVE  \E k \in DOMAIN D : \E l \in DOMAIN D[k].parts : f[k] = i /\ g[k][l] = j
  <2>1. PICK l \in DOMAIN Parts_(i) : e[i][l] = j
    BY <1>2, <1>10 DEF Picks
  <2>2. i \in I
    <3>1. DOMAIN <<>> = {}
      OBVIOUS
    <3>. QED
      BY <1>4, <2>1, <3>1
  <2>3. PICK k \in DOMAIN D : f[k] = i
    BY <1>7, <2>2 DEF Picks
  <2>4. D[k].parts = Parts_(i) /\ g[k] = e[i]
    BY <1>4, <1>8, <2>3
  <2>. QED
    BY <2>1, <2>3, <2>4
<1>11. \A k, m \in DOMAIN D : k < m => f[k] < f[m]
  BY <1>7 DEF Picks
<1>12. Placed(f, g, D, C)
  BY <1>9, <1>10, <1>11 DEF Placed
<1>. QED
  BY <1>6, <1>12 DEF D

LEMMA SanitizedPaired ==
    ASSUME NEW C, NEW M, NEW R, Paired(C, M, R)
    PROVE  Paired(sanitize_contents(C), M, R)
<1>. DEFINE D == sanitize_contents(C)
<1>0. C \in Seq(SentContents) /\ M \subseteq Calls /\ R \subseteq M /\ None \notin Calls
  BY NoneAssumption DEF Paired
<1>1. D \in Seq(SentContents)
  BY <1>0, SanitizedPlaces
<1>2. PICK f, g : Placed(f, g, D, C)
  BY <1>0, SanitizedPlaces
<1>3. /\ \A k \in DOMAIN D : k \in Nat /\ f[k] \in Nat
      /\ \A k, m \in DOMAIN D : f[k] = f[m] => k = m
      /\ \A k, m \in DOMAIN D : f[k] < f[m] => k < m
  <2>1. \A k \in DOMAIN D : k \in Nat
    BY <1>1, ContentTypes
  <2>2. \A i \in DOMAIN C : i \in Nat
    BY <1>0, ContentTypes
  <2>. HIDE DEF D
  <2>. QED
    BY <1>2, <2>1, <2>2 DEF Placed
<1>. HIDE DEF D
<1>4. CallsOnce(D, M)
  <2>1. CallsOnce(C, M)
    BY DEF Paired
  <2>2. ASSUME NEW id \in M
        PROVE \E i \in DOMAIN D : \E j \in DOMAIN D[i].parts : D[i].parts[j].call = id
    <3>1. PICK i \in DOMAIN C : \E j \in DOMAIN C[i].parts : C[i].parts[j].call = id
      BY <2>1 DEF CallsOnce
    <3>2. PICK j \in DOMAIN C[i].parts : C[i].parts[j].call = id
      BY <3>1
    <3>3. Says(C[i].parts[j])
      BY <1>0, <3>2 DEF Says
    <3>. QED
      BY <1>2, <3>2, <3>3 DEF Placed
  <2>3. ASSUME NEW i \in DOMAIN D, NEW j \in DOMAIN D[i].parts
        PROVE  /\ D[i].parts[j].call \in M \cup {None}
               /\ D[i].role = "user" => D[i].parts[j].call = None
    BY <1>2, <2>1 DEF CallsOnce, Placed
  <2>4. ASSUME NEW i \in DOMAIN D, NEW j \in DOMAIN D[i].parts, NEW k \in DOMAIN D, NEW l \in DOMAIN D[k].parts,
               D[i].parts[j].call # None, D[k].parts[l].call = D[i].parts[j].call
        PROVE  i = k /\ j = l
    <3>1. f[i] = f[k] /\ g[i][j] = g[k][l]
      BY <1>2, <2>1, <2>4 DEF CallsOnce, Placed
    <3>. QED
      BY <1>2, <1>3, <3>1 DEF Placed
  <2>. QED
    BY <2>2, <2>3, <2>4 DEF CallsOnce
<1>5. ResponsesOnce(D, R)
  <2>1. ResponsesOnce(C, R)
    BY DEF Paired
  <2>2. ASSUME NEW id \in R
        PROVE \E i \in DOMAIN D : \E j \in DOMAIN D[i].parts : D[i].parts[j].response = id
    <3>1. PICK i \in DOMAIN C : \E j \in DOMAIN C[i].parts : C[i].parts[j].response = id
      BY <2>1 DEF ResponsesOnce
    <3>2. PICK j \in DOMAIN C[i].parts : C[i].parts[j].response = id
      BY <3>1
    <3>3. Says(C[i].parts[j])
      BY <1>0, <3>2 DEF Says
    <3>. QED
      BY <1>2, <3>2, <3>3 DEF Placed
  <2>3. ASSUME NEW i \in DOMAIN D, NEW j \in DOMAIN D[i].parts
        PROVE  /\ D[i].parts[j].response \in R \cup {None}
               /\ D[i].parts[j].name = D[i].parts[j].response
               /\ D[i].role = "model" => D[i].parts[j].response = None
    BY <1>2, <2>1 DEF ResponsesOnce, Placed
  <2>4. ASSUME NEW i \in DOMAIN D, NEW j \in DOMAIN D[i].parts, NEW k \in DOMAIN D, NEW l \in DOMAIN D[k].parts,
               D[i].parts[j].response # None, D[k].parts[l].response = D[i].parts[j].response
        PROVE  i = k /\ j = l
    <3>1. f[i] = f[k] /\ g[i][j] = g[k][l]
      BY <1>2, <2>1, <2>4 DEF ResponsesOnce, Placed
    <3>. QED
      BY <1>2, <1>3, <3>1 DEF Placed
  <2>. QED
    BY <2>2, <2>3, <2>4 DEF ResponsesOnce
<1>6. Behind(D)
  BY <1>2, <1>3, SMTT(30) DEF Paired, Behind, Placed
<1>. QED
  BY <1>0, <1>1, <1>4, <1>5, <1>6 DEF Paired, D

-----------------------------------------------------------------------------
(* The messages of a Claude client.                                         *)

\* The blocks of this type are about the calls of c, each once.
About(blocks, type, c) ==
    /\ \A j \in DOMAIN blocks : blocks[j].type = type => blocks[j].id \in c
    /\ \A j, l \in DOMAIN blocks :
          blocks[j].type = type /\ blocks[l].type = type /\ blocks[j].id = blocks[l].id => j = l
    /\ \A id \in c : \E j \in DOMAIN blocks : blocks[j].type = type /\ blocks[j].id = id

\* A message that makes the calls of c, or has the results of r.
ClaudeSays(m, c, r) ==
    /\ m \in ClaudeMessages /\ c \subseteq Calls /\ r \subseteq Calls
    /\ About(m.blocks, "tool_use", c) /\ About(m.blocks, "tool_result", r)
    /\ m.role = "assistant" => r = {}
    /\ m.role = "user" => c = {}

\* One part, with this call and this response under its name.
Gives(x, call, response) ==
    Single(x) /\ x[1].call = call /\ x[1].response = response /\ x[1].name = response

LEMMA TextGives ==
    ASSUME NEW text \in Strings, text # <<>>
    PROVE  Gives(TextOf(text), None, None)
<1>1. Single(TextOf(text)) /\ TextOf(text)[1] = [Plain EXCEPT !.text = text]
  BY PartForms
<1>. QED
  BY <1>1 DEF Gives, Plain

LEMMA ThoughtGives ==
    ASSUME NEW text \in Strings, NEW sig \in Sigs \cup {None}
    PROVE  Gives(ThoughtOf(text, sig), None, None)
<1>1. Single(ThoughtOf(text, sig)) /\ ThoughtOf(text, sig)[1] = [Plain EXCEPT !.thought = TRUE, !.text = text, !.sig = sig]
  BY PartForms
<1>. QED
  BY <1>1 DEF Gives, Plain

LEMMA CallGives ==
    ASSUME NEW id \in Calls \cup {None}, NEW sig \in Sigs \cup {None, FALLBACK_SIGNATURE}
    PROVE  Gives(CallOf(id, sig), id, None)
<1>1. Single(CallOf(id, sig)) /\ CallOf(id, sig)[1] = [Plain EXCEPT !.call = id, !.sig = sig]
  BY PartForms
<1>. QED
  BY <1>1 DEF Gives, Plain

LEMMA ImageGives ==
    ASSUME NEW key \in Images, NEW sig \in Sigs \cup {None, FALLBACK_SIGNATURE}
    PROVE  Gives(ImageOf(key, sig), None, None)
<1>1. Single(ImageOf(key, sig)) /\ ImageOf(key, sig)[1] = [Plain EXCEPT !.image = key, !.sig = sig]
  BY PartForms
<1>. QED
  BY <1>1 DEF Gives, Plain

LEMMA ResponseGives ==
    ASSUME NEW id \in Calls \cup {None}
    PROVE  Gives(ResponseTo(id, id), None, id)
<1>1. Single(ResponseTo(id, id)) /\ ResponseTo(id, id)[1] = [Plain EXCEPT !.response = id, !.name = id]
  BY PartForms
<1>. QED
  BY <1>1 DEF Gives, Plain

LEMMA SingleSays ==
    ASSUME NEW p, Single(p)
    PROVE  p # <<>> /\ p = <<p[1]>> /\ p[1] \in SentParts /\ p \in Seq(SentParts) /\ Len(p) = 1
<1>1. p \in Seq(SentParts) /\ Len(p) = 1
  BY DEF Single
<1>2. p[1] \in SentParts
  BY <1>1, ElementOfSeq
<1>. QED
  BY <1>1, <1>2, SMTT(30)

\* A block gives nothing, or one part about its own call.
LEMMA BlockGives ==
    ASSUME NEW entries, IsCache(entries), NEW blocks \in Seq(Blocks), NEW i \in DOMAIN blocks,
           NEW so_far, NEW claude,
           blocks[i].type = "tool_use" => blocks[i].id \in Calls,
           blocks[i].type = "tool_result" =>
               blocks[i].id \in Calls /\ find_function_name(so_far, blocks[i].id) = blocks[i].id
    PROVE  LET x == BlockParts(entries, blocks, i, so_far, claude) IN
           CASE blocks[i].type = "tool_use" -> Gives(x, blocks[i].id, None)
             [] blocks[i].type = "tool_result" -> Gives(x, None, blocks[i].id)
             [] OTHER -> x = <<>> \/ Gives(x, None, None)
<1>. DEFINE b == blocks[i]
            x == BlockParts(entries, blocks, i, so_far, claude)
<1>1. /\ b.type \in BlockTypes /\ b.text \in Strings
      /\ b.sig \in Sigs \cup {None} /\ b.id \in Calls \cup {None}
  <2>1. b \in Blocks
    BY LenProperties, ElementOfSeq
  <2>. HIDE DEF b
  <2>. QED
    BY <2>1 DEF Blocks
<1>2. None \notin Calls
  BY NoneAssumption
<1>3. CASE b.type = "text"
  <2>1. x = TextOf(b.text)
    BY <1>3 DEF BlockParts
  <2>2. x = <<>> \/ Gives(x, None, None)
    BY <1>1, <2>1, TextGives DEF TextOf
  <2>. QED
    BY <1>3, <2>2
<1>4. CASE b.type = "thinking"
  <2>1. x = ThinkingParts(entries, blocks, i, claude)
    BY <1>4 DEF BlockParts
  <2>. DEFINE sig == Recovered(entries, blocks, i)
              text == IF Trimmed(b.text) THEN MissingThought ELSE b.text
  <2>2. sig \in Sigs \cup {None}
    BY <1>1, LookUps DEF Recovered
  <2>3. text \in Strings
    BY <1>1, SymbolTypes
  <2>4. x = <<>> \/ x = ThoughtOf(b.text, None) \/ x = ThoughtOf(text, sig)
    BY <2>1 DEF ThinkingParts
  <2>. HIDE DEF sig, text, x
  <2>5. x = <<>> \/ Gives(x, None, None)
    BY <1>1, <2>2, <2>3, <2>4, ThoughtGives
  <2>. QED
    BY <1>4, <2>5 DEF x
<1>5. CASE b.type = "redacted_thinking"
  <2>1. x = <<>> \/ x = ThoughtOf(<<>>, None)
    BY <1>5 DEF BlockParts
  <2>. HIDE DEF x
  <2>2. x = <<>> \/ Gives(x, None, None)
    BY <2>1, SymbolTypes, ThoughtGives
  <2>. QED
    BY <1>5, <2>2 DEF x
<1>6. CASE b.type = "tool_use"
  <2>. DEFINE sig == IF claude THEN None ELSE lookup(entries, b.id)
  <2>1. x = CallOf(b.id, sig)
    BY <1>6 DEF BlockParts
  <2>2. sig \in Sigs \cup {None, FALLBACK_SIGNATURE}
    BY LookUps
  <2>. HIDE DEF x, sig
  <2>3. Gives(x, b.id, None)
    BY <1>1, <2>1, <2>2, CallGives
  <2>. QED
    BY <1>6, <2>3 DEF x
<1>7. CASE b.type = "tool_result"
  <2>1. b.id \in Calls /\ find_function_name(so_far, b.id) = b.id /\ b.id # None
    BY <1>2, <1>7
  <2>2. x = ResponseTo(b.id, b.id)
    BY <1>7, <2>1 DEF BlockParts
  <2>. HIDE DEF x
  <2>3. Gives(x, None, b.id)
    BY <2>1, <2>2, ResponseGives
  <2>. QED
    BY <1>7, <2>3 DEF x
<1>. QED
  BY <1>1, <1>3, <1>4, <1>5, <1>6, <1>7 DEF BlockTypes

\* The parts of a message: its calls or its results, each once.
LEMMA Extracted ==
    ASSUME NEW entries, IsCache(entries), NEW m, NEW c, NEW r, ClaudeSays(m, c, r), NEW so_far, NEW claude,
           \A id \in r : find_function_name(so_far, id) = id
    PROVE  LET parts == extract_content_parts(entries, m.blocks, so_far, claude)
           IN  parts \in Seq(SentParts) /\ Fresh(parts, c, r)
<1>. DEFINE blocks == m.blocks
            X(i) == BlockParts(entries, blocks, i, so_far, claude)
            n == Len(blocks)
            s == [i \in 1..n |-> X(i)]
            parts == extract_content_parts(entries, blocks, so_far, claude)
<1>1. /\ blocks \in Seq(Blocks) /\ n \in Nat /\ DOMAIN blocks = 1..n
      /\ c \subseteq Calls /\ r \subseteq Calls /\ None \notin Calls
  BY NoneAssumption, LenProperties DEF ClaudeSays, ClaudeMessages
<1>2. About(blocks, "tool_use", c) /\ About(blocks, "tool_result", r)
  BY DEF ClaudeSays
<1>. HIDE DEF blocks
<1>3. ASSUME NEW i \in 1..n
      PROVE  CASE blocks[i].type = "tool_use" -> Gives(X(i), blocks[i].id, None)
               [] blocks[i].type = "tool_result" -> Gives(X(i), None, blocks[i].id)
               [] OTHER -> X(i) = <<>> \/ Gives(X(i), None, None)
  <2>1. blocks[i].type = "tool_use" => blocks[i].id \in Calls
    BY <1>1, <1>2 DEF About
  <2>2. blocks[i].type = "tool_result" => blocks[i].id \in Calls /\ find_function_name(so_far, blocks[i].id) = blocks[i].id
    BY <1>1, <1>2 DEF About
  <2>. QED
    BY <1>1, <2>1, <2>2, BlockGives
<1>4. parts = FlattenSeq(s)
  BY <1>1 DEF extract_content_parts
<1>. HIDE DEF parts, X
<1>5. s = [i \in 1..n |-> s[i]] /\ DOMAIN s = 1..n /\ \A i \in 1..n : s[i] = X(i)
  OBVIOUS
<1>. HIDE DEF s, n
<1>6. \A i \in 1..n : s[i] \in Seq(SentParts) /\ (s[i] = <<>> \/ Len(s[i]) = 1)
  <2>1. \A i \in 1..n : X(i) = <<>> \/ Single(X(i))
    BY <1>3 DEF Gives
  <2>2. <<>> \in Seq(SentParts)
    OBVIOUS
  <2>. QED
    BY <1>5, <2>1, <2>2, SingleSays
<1>7. parts \in Seq(SentParts) /\ \E e : Gathers(e, parts, s)
  BY <1>1, <1>4, <1>5, <1>6, Gathered
<1>8. PICK e : Gathers(e, parts, s)
  BY <1>7
<1>9. ASSUME NEW k \in DOMAIN parts
      PROVE  /\ e[k] \in DOMAIN blocks
             /\ parts[k].call = IF blocks[e[k]].type = "tool_use" THEN blocks[e[k]].id ELSE None
             /\ parts[k].response = IF blocks[e[k]].type = "tool_result" THEN blocks[e[k]].id ELSE None
             /\ parts[k].name = parts[k].response
  <2>1. e[k] \in 1..n /\ X(e[k]) = <<parts[k]>>
    BY <1>5, <1>8 DEF Gathers
  <2>2. X(e[k]) # <<>> /\ X(e[k])[1] = parts[k]
    BY <2>1
  <2>. QED
    BY <1>1, <1>3, <2>1, <2>2 DEF Gives
<1>10. \A j, l \in DOMAIN parts : e[j] = e[l] => j = l
  BY <1>8 DEF Gathers
<1>11. ASSUME NEW j \in DOMAIN blocks, blocks[j].type \in {"tool_use", "tool_result"}
       PROVE  \E k \in DOMAIN parts : e[k] = j
  <2>1. X(j) # <<>> /\ j \in 1..n
    BY <1>1, <1>3, <1>11, SingleSays DEF Gives
  <2>. QED
    BY <1>5, <1>8, <2>1 DEF Gathers
<1>12. \A j \in DOMAIN parts : /\ parts[j].call \in c \cup {None}
                               /\ parts[j].response \in r \cup {None}
                               /\ parts[j].name = parts[j].response
  BY <1>2, <1>9 DEF About
<1>13. \A j, l \in DOMAIN parts : parts[j].call # None /\ parts[l].call = parts[j].call => j = l
  BY <1>2, <1>9, <1>10 DEF About
<1>14. \A j, l \in DOMAIN parts : parts[j].response # None /\ parts[l].response = parts[j].response => j = l
  BY <1>2, <1>9, <1>10 DEF About
<1>15. ASSUME NEW id \in c PROVE \E j \in DOMAIN parts : parts[j].call = id
  <2>1. PICK j \in DOMAIN blocks : blocks[j].type = "tool_use" /\ blocks[j].id = id
    BY <1>2 DEF About
  <2>. QED
    BY <1>9, <1>11, <2>1
<1>16. ASSUME NEW id \in r PROVE \E j \in DOMAIN parts : parts[j].response = id
  <2>1. PICK j \in DOMAIN blocks : blocks[j].type = "tool_result" /\ blocks[j].id = id
    BY <1>2 DEF About
  <2>. QED
    BY <1>9, <1>11, <2>1
<1>. QED
  BY <1>7, <1>12, <1>13, <1>14, <1>15, <1>16 DEF Fresh, parts, blocks

\* One message more.
LEMMA MessageAdded ==
    ASSUME NEW entries, IsCache(entries), NEW C, NEW M, NEW R, Paired(C, M, R), NEW m, NEW c, NEW r,
           ClaudeSays(m, c, r), NEW claude, c \cap M = {}, r \subseteq M, r \cap R = {}
    PROVE  Paired(AddMessage(entries, C, m, claude), M \cup c, R \cup r)
<1>. DEFINE parts == extract_content_parts(entries, m.blocks, C, claude)
            role == VertexRole(m.role)
<1>1. \A id \in r : find_function_name(C, id) = id
  BY CallFound
<1>2. parts \in Seq(SentParts) /\ Fresh(parts, c, r)
  BY <1>1, Extracted
<1>3. c \subseteq Calls /\ m.role \in {"user", "assistant"}
  BY DEF ClaudeSays, ClaudeMessages
<1>4. role \in {"user", "model"} /\ (role = "user" => c = {}) /\ (role = "model" => r = {})
  BY <1>3 DEF VertexRole, ClaudeSays
<1>5. AddMessage(entries, C, m, claude) = IF parts = <<>> THEN C ELSE Append(C, Content(role, parts))
  BY DEF AddMessage
<1>. HIDE DEF parts, role
<1>6. CASE parts = <<>>
  <2>1. c = {} /\ r = {}
    BY <1>2, <1>6 DEF Fresh
  <2>2. M \cup c = M /\ R \cup r = R
    BY <2>1
  <2>. QED
    BY <1>5, <1>6, <2>2
<1>7. CASE parts # <<>>
  <2>1. Paired(Append(C, Content(role, parts)), M \cup c, R \cup r)
    BY <1>2, <1>3, <1>4, AppendPaired
  <2>. QED
    BY <1>5, <1>7, <2>1
<1>. QED
  BY <1>6, <1>7

-----------------------------------------------------------------------------
(* The order of a conversation: message k makes the calls of c[k] and has   *)
(* the results of r[k].                                                     *)

Scheduled(c, r, n) ==
    /\ \A k \in 1..n : c[k] \subseteq Calls /\ r[k] \subseteq Before(c, k - 1)
    /\ \A j, k \in 1..n : j # k => c[j] \cap c[k] = {} /\ r[j] \cap r[k] = {}

LEMMA ScheduledNext ==
    ASSUME NEW c, NEW r, NEW n \in Nat, Scheduled(c, r, n), NEW k \in 1..n
    PROVE  /\ c[k] \cap Before(c, k - 1) = {} /\ r[k] \cap Before(r, k - 1) = {}
           /\ r[k] \subseteq Before(c, k - 1)
<1>1. \A j \in 1..k - 1 : j \in 1..n /\ j # k
  OBVIOUS
<1>2. \A j \in 1..k - 1 : c[j] \cap c[k] = {} /\ r[j] \cap r[k] = {}
  BY <1>1 DEF Scheduled
<1>3. r[k] \subseteq Before(c, k - 1)
  BY DEF Scheduled
<1>4. c[k] \cap Before(c, k - 1) = {}
  BY <1>2 DEF Before
<1>5. r[k] \cap Before(r, k - 1) = {}
  BY <1>2 DEF Before
<1>. QED
  BY <1>3, <1>4, <1>5

\* The contents for a scheduled conversation of a Claude client.
LEMMA ClaudePaired ==
    ASSUME NEW entries, IsCache(entries), NEW messages, NEW n \in Nat,
           Len(messages) = n, DOMAIN messages = 1..n,
           NEW c, NEW r, Scheduled(c, r, n),
           \A k \in 1..n : ClaudeSays(messages[k], c[k], r[k]), NEW claude
    PROVE  Paired(ClaudeContents(entries, messages, claude), Before(c, n), Before(r, n))
<1>1. PICK run :
        /\ run[0] = <<>>
        /\ \A k \in 1..n : run[k] = AddMessage(entries, run[k - 1], messages[k], claude)
        /\ ClaudeContents(entries, messages, claude) = run[n]
  BY ClaudeContentsRun
<1>. DEFINE Good(k) == Paired(run[k], Before(c, k), Before(r, k)) /\ Before(r, k) \subseteq Before(c, k)
            S == {k \in 0..n : Good(k)}
<1>2. 0 \in S
  <2>1. Before(c, 0) = {} /\ Before(r, 0) = {} /\ 0 \in 0..n
    BY BeforeNone
  <2>. QED
    BY <1>1, <2>1, NothingPaired
<1>3. ASSUME NEW k \in 1..n, k - 1 \in S PROVE k \in S
  <2>. DEFINE M == Before(c, k - 1)
              R == Before(r, k - 1)
              C == run[k - 1]
  <2>1. Paired(C, M, R) /\ R \subseteq M
    BY <1>3
  <2>2. Before(c, k) = M \cup c[k] /\ Before(r, k) = R \cup r[k]
    BY BeforeNext
  <2>3. c[k] \cap M = {} /\ r[k] \subseteq M /\ r[k] \cap R = {}
    BY ScheduledNext
  <2>4. run[k] = AddMessage(entries, C, messages[k], claude)
    BY <1>1
  <2>5. ClaudeSays(messages[k], c[k], r[k])
    OBVIOUS
  <2>. HIDE DEF M, R, C
  <2>6. Paired(run[k], M \cup c[k], R \cup r[k])
    BY <2>1, <2>3, <2>4, <2>5, MessageAdded
  <2>7. R \cup r[k] \subseteq M \cup c[k]
    BY <2>1, <2>3
  <2>8. Good(k) /\ k \in 0..n
    BY <2>2, <2>6, <2>7
  <2>. QED
    BY <2>8
<1>. HIDE DEF S
<1>4. n \in S
  BY <1>2, <1>3, Upwards, SMTT(30)
<1>. QED
  BY <1>1, <1>4 DEF S

-----------------------------------------------------------------------------
(* The messages of an OpenAI client: who makes the calls of M, each once,   *)
(* and who has the results of R, each once and behind its call.             *)

Talks(ms) ==
    /\ ms \in Seq(ChatMessages)
    /\ \A i \in DOMAIN ms : ms[i].role # "assistant" => ms[i].tool_calls = <<>>
    /\ \A i, k \in DOMAIN ms : \A j \in DOMAIN ms[i].tool_calls : \A l \in DOMAIN ms[k].tool_calls :
          ms[i].tool_calls[j] = ms[k].tool_calls[l] => i = k /\ j = l
    /\ \A i, k \in DOMAIN ms :
          ms[i].role = "tool" /\ ms[k].role = "tool" /\ ms[i].tool_call_id = ms[k].tool_call_id => i = k
    /\ \A k \in DOMAIN ms : ms[k].role = "tool" =>
          \E i \in DOMAIN ms : i < k /\ \E j \in DOMAIN ms[i].tool_calls : ms[i].tool_calls[j] = ms[k].tool_call_id

Makes(ms, M) ==
    /\ \A i \in DOMAIN ms : \A j \in DOMAIN ms[i].tool_calls : ms[i].tool_calls[j] \in M
    /\ \A id \in M : \E i \in DOMAIN ms : \E j \in DOMAIN ms[i].tool_calls : ms[i].tool_calls[j] = id
Receives(ms, R) ==
    /\ \A i \in DOMAIN ms : ms[i].role = "tool" => ms[i].tool_call_id \in R
    /\ \A id \in R : \E i \in DOMAIN ms : ms[i].role = "tool" /\ ms[i].tool_call_id = id

LEMMA ChatTypes ==
    ASSUME NEW ms \in Seq(ChatMessages)
    PROVE  /\ Len(ms) \in Nat /\ DOMAIN ms = 1..Len(ms)
           /\ \A i \in DOMAIN ms :
                /\ ms[i] \in ChatMessages /\ ms[i].role \in {"user", "assistant", "tool"}
                /\ ms[i].content \in Strings /\ ms[i].reasoning \in Strings
                /\ ms[i].tool_call_id \in Calls \cup {None}
                /\ ms[i].tool_calls \in Seq(Calls) /\ Len(ms[i].tool_calls) \in Nat
                /\ DOMAIN ms[i].tool_calls = 1..Len(ms[i].tool_calls)
                /\ \A j \in DOMAIN ms[i].tool_calls : ms[i].tool_calls[j] \in Calls
<1>1. Len(ms) \in Nat /\ DOMAIN ms = 1..Len(ms) /\ \A i \in DOMAIN ms : ms[i] \in ChatMessages
  BY LenProperties, ElementOfSeq
<1>2. \A m \in ChatMessages :
        /\ m.role \in {"user", "assistant", "tool"} /\ m.content \in Strings /\ m.reasoning \in Strings
        /\ m.tool_call_id \in Calls \cup {None} /\ m.tool_calls \in Seq(Calls)
  BY DEF ChatMessages
<1>3. \A s \in Seq(Calls) : Len(s) \in Nat /\ DOMAIN s = 1..Len(s) /\ \A j \in DOMAIN s : s[j] \in Calls
  BY LenProperties, ElementOfSeq
<1>. QED
  BY <1>1, <1>2, <1>3

\* The anchor of a message that needs one is an earlier assistant message.
LEMMA AnchorIsEarlier ==
    ASSUME NEW entries, NEW ms, NEW i \in Nat, Anchor(entries, ms, i) # 0
    PROVE  LET a == Anchor(entries, ms, i) IN
           /\ a \in 1..i - 1 /\ ms[a].role = "assistant"
           /\ has_signature_for_first_tool_call(entries, ms[a])
<1>. DEFINE I == {k \in 1..i - 1 : ms[k].role = "assistant" /\ has_signature_for_first_tool_call(entries, ms[k])}
<1>1. Anchor(entries, ms, i) = IF I # {} THEN Max(I) ELSE 0
  BY DEF Anchor, SelectLastInSubSeq
<1>2. I # {}
  BY <1>1
<1>3. I \subseteq 0..i
  OBVIOUS
<1>4. Max(I) \in I
  <2>. HIDE DEF I
  <2>. QED
    BY <1>2, <1>3, Greatest
<1>. QED
  BY <1>1, <1>4

\* A merge moves the calls of message i to message a.
LEMMA MergedAt ==
    ASSUME NEW ms, Talks(ms), NEW i \in DOMAIN ms, NEW a \in 1..i - 1,
           ms[i].role = "assistant", ms[a].role = "assistant"
    PROVE  LET ns == MergeAt(ms, i, a) IN
           /\ Talks(ns) /\ Len(ns) \in Nat
           /\ \A M : Makes(ms, M) => Makes(ns, M)
           /\ \A R : Receives(ms, R) => Receives(ns, R)
<1>. DEFINE n == Len(ms)
            q == ms[a].tool_calls \o ms[i].tool_calls
            more == [ms[a] EXCEPT !.tool_calls = q]
            es == [ms EXCEPT ![a] = more]
            ns == MergeAt(ms, i, a)
            old(k) == IF k < i THEN k ELSE k + 1
            new(k) == IF k < i THEN k ELSE k - 1
            d == Len(ms[a].tool_calls)
<1>1. ms \in Seq(ChatMessages) /\ n \in Nat /\ DOMAIN ms = 1..n /\ i \in 1..n /\ a \in 1..n /\ a < i
  BY ChatTypes DEF Talks
<1>2. /\ \A k \in 1..n : ms[k] \in ChatMessages /\ ms[k].tool_calls \in Seq(Calls)
                         /\ Len(ms[k].tool_calls) \in Nat
                         /\ DOMAIN ms[k].tool_calls = 1..Len(ms[k].tool_calls)
  BY <1>1, ChatTypes
<1>. HIDE DEF n
<1>3. /\ q \in Seq(Calls) /\ d \in Nat /\ DOMAIN q = 1..d + Len(ms[i].tool_calls)
      /\ \A l \in 1..d : q[l] = ms[a].tool_calls[l]
      /\ \A l \in 1..Len(ms[i].tool_calls) : q[d + l] = ms[i].tool_calls[l]
  <2>1. /\ ms[a].tool_calls \in Seq(Calls) /\ ms[i].tool_calls \in Seq(Calls)
        /\ d \in Nat /\ Len(ms[i].tool_calls) \in Nat
    BY <1>1, <1>2
  <2>. DEFINE mine == ms[a].tool_calls
              its == ms[i].tool_calls
  <2>2. mine \in Seq(Calls) /\ its \in Seq(Calls)
    BY <2>1
  <2>. HIDE DEF mine, its
  <2>3. /\ mine \o its \in Seq(Calls) /\ Len(mine) \in Nat
        /\ DOMAIN (mine \o its) = 1..Len(mine) + Len(its)
        /\ \A l \in 1..Len(mine) : (mine \o its)[l] = mine[l]
        /\ \A l \in 1..Len(its) : (mine \o its)[Len(mine) + l] = its[l]
    BY <2>2, ConcatItems
  <2>. QED
    BY <2>3 DEF mine, its
<1>4. /\ more \in ChatMessages /\ more.tool_calls = q
      /\ more.role = "assistant" /\ more.tool_call_id = ms[a].tool_call_id
  <2>1. ms[a] \in ChatMessages
    BY <1>1, <1>2
  <2>. HIDE DEF q
  <2>. QED
    BY <1>3, <2>1 DEF ChatMessages
<1>5. ns = RemoveAt(es, i)
  BY DEF MergeAt
<1>. HIDE DEF more, q, d
<1>6. /\ es \in Seq(ChatMessages) /\ Len(es) = n /\ DOMAIN es = 1..n /\ es[a] = more
      /\ \A k \in 1..n : k # a => es[k] = ms[k]
  <2>1. ms \in Seq(ChatMessages) /\ a \in 1..Len(ms) /\ more \in ChatMessages
    BY <1>1, <1>4 DEF n
  <2>2. es \in Seq(ChatMessages) /\ Len(es) = Len(ms)
    BY <2>1, ExceptSeq
  <2>3. DOMAIN es = 1..n /\ es[a] = more /\ \A k \in 1..n : k # a => es[k] = ms[k]
    BY <1>1
  <2>. QED
    BY <2>2, <2>3 DEF n
<1>. HIDE DEF es, ns
<1>7. /\ ns \in Seq(ChatMessages) /\ DOMAIN ns = 1..n - 1
      /\ \A k \in 1..n - 1 : ns[k] = es[old(k)]
  BY <1>1, <1>5, <1>6, Removed
<1>8. \A k \in 1..n - 1 : /\ old(k) \in 1..n /\ old(k) # i /\ new(old(k)) = k
                          /\ k = a <=> old(k) = a
                          /\ \A l \in 1..n - 1 : k < l <=> old(k) < old(l)
  BY <1>1
<1>9. \A k \in 1..n : k # i => new(k) \in 1..n - 1 /\ old(new(k)) = k
  BY <1>1
<1>10. a \in 1..n - 1 /\ old(a) = a /\ \A k \in 1..n - 1 : old(k) > i => a < k
  BY <1>1
<1>11. /\ ns[a] = more
       /\ \A k \in 1..n - 1 : k # a => ns[k] = ms[old(k)]
       /\ \A k \in 1..n - 1 : ns[k].role = ms[old(k)].role /\ ns[k].tool_call_id = ms[old(k)].tool_call_id
  BY <1>4, <1>6, <1>7, <1>8, <1>10
<1>. HIDE DEF old, new
\* Where the calls are from, and where they go.
<1>. DEFINE from(k, l) == IF k = a /\ l > d THEN <<i, l - d>> ELSE <<old(k), l>>
<1>12. ASSUME NEW k \in DOMAIN ns, NEW l \in DOMAIN ns[k].tool_calls
       PROVE  LET f == from(k, l) IN
              /\ f[1] \in DOMAIN ms /\ f[2] \in DOMAIN ms[f[1]].tool_calls
              /\ ns[k].tool_calls[l] = ms[f[1]].tool_calls[f[2]]
  <2>1. CASE k = a /\ l > d
    <3>1. l \in 1..d + Len(ms[i].tool_calls)
      BY <1>3, <1>4, <1>11, <2>1
    <3>2. l - d \in 1..Len(ms[i].tool_calls) /\ d + (l - d) = l
      BY <1>1, <1>2, <1>3, <2>1, <3>1
    <3>3. ns[k].tool_calls[l] = ms[i].tool_calls[l - d]
      BY <1>3, <1>4, <1>11, <2>1, <3>2
    <3>. QED
      BY <1>1, <1>2, <2>1, <3>2, <3>3
  <2>2. CASE k = a /\ ~(l > d)
    <3>1. l \in 1..d
      BY <1>1, <1>2, <1>3, <1>4, <1>11, <2>2
    <3>2. ns[k].tool_calls[l] = ms[a].tool_calls[l] /\ l \in DOMAIN ms[a].tool_calls
      BY <1>1, <1>2, <1>3, <1>4, <1>11, <2>2, <3>1 DEF d
    <3>. QED
      BY <1>1, <1>10, <2>2, <3>2
  <2>3. CASE k # a
    BY <1>1, <1>7, <1>8, <1>11, <2>3
  <2>. QED
    BY <2>1, <2>2, <2>3
<1>13. ASSUME NEW k \in DOMAIN ns, NEW l \in DOMAIN ns[k].tool_calls,
              NEW k1 \in DOMAIN ns, NEW l1 \in DOMAIN ns[k1].tool_calls, from(k, l) = from(k1, l1)
       PROVE  k = k1 /\ l = l1
  <2>1. /\ l \in Nat /\ l1 \in Nat
    <3>1. ns[k].tool_calls \in Seq(Calls) /\ ns[k1].tool_calls \in Seq(Calls)
      BY <1>7, ChatTypes
    <3>. QED
      BY <3>1, LenProperties
  <2>. QED
    BY <1>3, <1>7, <1>8, <1>13, <2>1
<1>14. ASSUME NEW k \in DOMAIN ms, NEW l \in DOMAIN ms[k].tool_calls
       PROVE  \E k1 \in DOMAIN ns : \E l1 \in DOMAIN ns[k1].tool_calls :
                 /\ ns[k1].tool_calls[l1] = ms[k].tool_calls[l]
                 /\ k1 = IF k = i THEN a ELSE new(k)
  <2>1. CASE k = i
    <3>1. l \in 1..Len(ms[i].tool_calls) /\ d + l \in 1..d + Len(ms[i].tool_calls)
      BY <1>1, <1>2, <1>3, <2>1
    <3>2. d + l \in DOMAIN ns[a].tool_calls /\ ns[a].tool_calls[d + l] = ms[i].tool_calls[l]
      BY <1>3, <1>4, <1>11, <3>1
    <3>. QED
      BY <1>7, <1>10, <2>1, <3>2
  <2>2. CASE k = a
    <3>0. l \in 1..d
      BY <1>1, <1>2, <2>2 DEF d
    <3>1. l \in 1..d /\ l \in 1..d + Len(ms[i].tool_calls)
      BY <1>1, <1>2, <1>3, <3>0
    <3>2. l \in DOMAIN ns[a].tool_calls /\ ns[a].tool_calls[l] = ms[a].tool_calls[l]
      BY <1>3, <1>4, <1>11, <3>1
    <3>3. a # i /\ new(a) = a
      BY <1>1, <1>8, <1>10
    <3>. QED
      BY <1>7, <1>10, <2>2, <3>2, <3>3
  <2>3. CASE k # i /\ k # a
    <3>1. new(k) \in 1..n - 1 /\ old(new(k)) = k /\ new(k) # a
      BY <1>1, <1>9, <1>10, <2>3
    <3>. QED
      BY <1>7, <1>11, <2>3, <3>1
  <2>. QED
    BY <2>1, <2>2, <2>3
<1>. HIDE DEF from
<1>15. ASSUME NEW k \in DOMAIN ms, ms[k].role # "assistant"
       PROVE  /\ new(k) \in DOMAIN ns /\ ns[new(k)].role = ms[k].role
              /\ ns[new(k)].tool_call_id = ms[k].tool_call_id
  BY <1>1, <1>7, <1>9, <1>11, <1>15
<1>16. Talks(ns)
  <2>1. ASSUME NEW k \in DOMAIN ns, ns[k].role # "assistant" PROVE ns[k].tool_calls = <<>>
    <3>1. ms[old(k)].role # "assistant" /\ old(k) \in DOMAIN ms /\ k # a
      BY <1>1, <1>4, <1>7, <1>8, <1>11, <2>1
    <3>. QED
      BY <1>7, <1>11, <3>1 DEF Talks
  <2>2. ASSUME NEW k \in DOMAIN ns, NEW k1 \in DOMAIN ns, NEW l \in DOMAIN ns[k].tool_calls,
               NEW l1 \in DOMAIN ns[k1].tool_calls, ns[k].tool_calls[l] = ns[k1].tool_calls[l1]
        PROVE  k = k1 /\ l = l1
    <3>. DEFINE f == from(k, l)
                f1 == from(k1, l1)
    <3>1. /\ f[1] \in DOMAIN ms /\ f[2] \in DOMAIN ms[f[1]].tool_calls
          /\ f1[1] \in DOMAIN ms /\ f1[2] \in DOMAIN ms[f1[1]].tool_calls
          /\ ms[f[1]].tool_calls[f[2]] = ms[f1[1]].tool_calls[f1[2]]
      BY <1>12, <2>2
    <3>2. f[1] = f1[1] /\ f[2] = f1[2]
      BY <3>1 DEF Talks
    <3>3. f = <<f[1], f[2]>> /\ f1 = <<f1[1], f1[2]>>
      BY DEF from
    <3>4. f = f1
      BY <3>2, <3>3
    <3>. QED
      BY <1>13, <3>4
  <2>3. ASSUME NEW k \in DOMAIN ns, NEW k1 \in DOMAIN ns, ns[k].role = "tool", ns[k1].role = "tool",
               ns[k].tool_call_id = ns[k1].tool_call_id
        PROVE  k = k1
    <3>0. /\ old(k) \in DOMAIN ms /\ ms[old(k)].role = "tool" /\ ms[old(k)].tool_call_id = ns[k].tool_call_id
          /\ old(k1) \in DOMAIN ms /\ ms[old(k1)].role = "tool" /\ ms[old(k1)].tool_call_id = ns[k1].tool_call_id
      BY <1>1, <1>7, <1>8, <1>11, <2>3
    <3>1. old(k) = old(k1)
      BY <2>3, <3>0 DEF Talks
    <3>. QED
      BY <1>7, <1>8, <3>1
  <2>4. ASSUME NEW k \in DOMAIN ns, ns[k].role = "tool"
        PROVE  \E k1 \in DOMAIN ns : k1 < k /\ \E l \in DOMAIN ns[k1].tool_calls : ns[k1].tool_calls[l] = ns[k].tool_call_id
    <3>1. old(k) \in DOMAIN ms /\ ms[old(k)].role = "tool" /\ ms[old(k)].tool_call_id = ns[k].tool_call_id
      BY <1>1, <1>7, <1>8, <1>11, <2>4
    <3>2. PICK j \in DOMAIN ms : j < old(k) /\ \E l \in DOMAIN ms[j].tool_calls : ms[j].tool_calls[l] = ns[k].tool_call_id
      BY <3>1 DEF Talks
    <3>3. PICK l \in DOMAIN ms[j].tool_calls : ms[j].tool_calls[l] = ns[k].tool_call_id
      BY <3>2
    <3>4. PICK k1 \in DOMAIN ns : \E l1 \in DOMAIN ns[k1].tool_calls :
              ns[k1].tool_calls[l1] = ms[j].tool_calls[l] /\ k1 = IF j = i THEN a ELSE new(j)
      BY <1>14
    <3>5. k1 < k
      <4>1. CASE j = i
        BY <1>1, <1>7, <1>10, <3>2, <3>4, <4>1
      <4>2. CASE j # i
        <5>1. new(j) \in 1..n - 1 /\ old(new(j)) = j
          BY <1>1, <1>9, <4>2
        <5>. QED
          BY <1>7, <1>8, <3>2, <3>4, <4>2, <5>1
      <4>. QED
        BY <4>1, <4>2
    <3>. QED
      BY <3>3, <3>4, <3>5
  <2>. QED
    BY <1>7, <2>1, <2>2, <2>3, <2>4 DEF Talks
<1>17. ASSUME NEW M, Makes(ms, M) PROVE Makes(ns, M)
  <2>1. \A k \in DOMAIN ns : \A l \in DOMAIN ns[k].tool_calls : ns[k].tool_calls[l] \in M
    BY <1>12, <1>17 DEF Makes
  <2>2. ASSUME NEW id \in M PROVE \E k \in DOMAIN ns : \E l \in DOMAIN ns[k].tool_calls : ns[k].tool_calls[l] = id
    <3>1. PICK k \in DOMAIN ms : \E l \in DOMAIN ms[k].tool_calls : ms[k].tool_calls[l] = id
      BY <1>17 DEF Makes
    <3>2. PICK l \in DOMAIN ms[k].tool_calls : ms[k].tool_calls[l] = id
      BY <3>1
    <3>. QED
      BY <1>14, <3>2
  <2>. QED
    BY <2>1, <2>2 DEF Makes
<1>18. ASSUME NEW R, Receives(ms, R) PROVE Receives(ns, R)
  <2>1. \A k \in DOMAIN ns : ns[k].role = "tool" => ns[k].tool_call_id \in R
    BY <1>1, <1>7, <1>8, <1>11, <1>18 DEF Receives
  <2>2. ASSUME NEW id \in R PROVE \E k \in DOMAIN ns : ns[k].role = "tool" /\ ns[k].tool_call_id = id
    <3>1. PICK k \in DOMAIN ms : ms[k].role = "tool" /\ ms[k].tool_call_id = id
      BY <1>18 DEF Receives
    <3>. QED
      BY <1>15, <3>1
  <2>. QED
    BY <2>1, <2>2 DEF Receives
<1>19. Len(ns) \in Nat
  BY <1>7, LenProperties
<1>. QED
  BY <1>16, <1>17, <1>18, <1>19 DEF ns

\* Merging moves calls to earlier messages and changes nothing else.
LEMMA MergedTalks ==
    ASSUME NEW entries, NEW ms, Talks(ms), NEW M, Makes(ms, M), NEW R, Receives(ms, R)
    PROVE  LET ns == merge_tool_only_assistant_messages(entries, ms) IN
           Talks(ns) /\ Makes(ns, M) /\ Receives(ns, R)
<1>. DEFINE n == Len(ms)
            Good(acc) == /\ acc \in [next : Nat \ {0}, messages : Seq(ChatMessages)]
                         /\ Talks(acc.messages) /\ Makes(acc.messages, M) /\ Receives(acc.messages, R)
<1>1. ms \in Seq(ChatMessages) /\ n \in Nat /\ DOMAIN ms = 1..n
  BY ChatTypes DEF Talks
<1>2. PICK run :
        /\ run[0] = [next |-> 1, messages |-> ms]
        /\ \A k \in 1..n : run[k] = MergeStep(entries, run[k - 1])
        /\ Merging(entries, ms) = run[n]
  BY <1>1, MergingRun
<1>3. merge_tool_only_assistant_messages(entries, ms) = Merging(entries, ms).messages
  BY DEF merge_tool_only_assistant_messages, Merging, MergeStep, FoldLeft, MapThenFoldSet
<1>. HIDE DEF n
<1>. DEFINE S == {k \in 0..n : Good(run[k])}
<1>4. 0 \in S
  BY <1>1, <1>2
<1>5. ASSUME NEW acc, Good(acc) PROVE Good(MergeStep(entries, acc))
  <2>. DEFINE ns == acc.messages
              i == acc.next
              a == Anchor(entries, ns, i)
  <2>1. /\ i \in Nat \ {0} /\ Talks(ns) /\ Makes(ns, M) /\ Receives(ns, R)
        /\ acc \in [next : Nat \ {0}, messages : Seq(ChatMessages)] /\ ns \in Seq(ChatMessages)
    BY <1>5
  <2>. HIDE DEF ns, i, a
  <2>2. CASE NeedsAnchor(entries, ns, i) /\ a # 0
    <3>1. /\ i \in DOMAIN ns /\ ns[i].role = "assistant"
      BY <2>1, <2>2, ChatTypes DEF NeedsAnchor, is_tool_only_assistant_message
    <3>2. a \in 1..i - 1 /\ ns[a].role = "assistant"
      BY <2>1, <2>2, AnchorIsEarlier DEF a
    <3>. DEFINE os == MergeAt(ns, i, a)
    <3>3. Talks(os) /\ Makes(os, M) /\ Receives(os, R)
      BY <2>1, <3>1, <3>2, MergedAt
    <3>4. os \in Seq(ChatMessages)
      BY <3>3 DEF Talks
    <3>5. MergeStep(entries, acc) = [acc EXCEPT !.messages = os]
      BY <2>2 DEF MergeStep, ns, i, a
    <3>. HIDE DEF os
    <3>. QED
      BY <2>1, <3>3, <3>4, <3>5
  <2>3. CASE ~(NeedsAnchor(entries, ns, i) /\ a # 0)
    <3>1. MergeStep(entries, acc) = [acc EXCEPT !.next = @ + 1]
      BY <2>3 DEF MergeStep, ns, i, a
    <3>2. [acc EXCEPT !.next = @ + 1] \in [next : Nat \ {0}, messages : Seq(ChatMessages)]
          /\ [acc EXCEPT !.next = @ + 1].messages = ns
      BY <2>1 DEF ns
    <3>. QED
      BY <2>1, <3>1, <3>2
  <2>. QED
    BY <2>2, <2>3
<1>6. ASSUME NEW k \in 1..n, k - 1 \in S PROVE k \in S
  <2>1. Good(run[k - 1]) /\ run[k] = MergeStep(entries, run[k - 1]) /\ k \in 0..n
    BY <1>2, <1>6
  <2>. HIDE DEF Good
  <2>. QED
    BY <1>5, <2>1
<1>. HIDE DEF S
<1>7. n \in S
  BY <1>1, <1>4, <1>6, Upwards
<1>. QED
  BY <1>2, <1>3, <1>7 DEF S

\* Parts without calls and responses come before those that have some.
LEMMA FreshBehind ==
    ASSUME NEW p \in Seq(SentParts), Fresh(p, {}, {}), NEW q \in Seq(SentParts), NEW c, NEW r, Fresh(q, c, r)
    PROVE  p \o q \in Seq(SentParts) /\ Fresh(p \o q, c, r)
<1>. DEFINE u == p \o q
            m == Len(p)
            n == Len(q)
<1>1. /\ u \in Seq(SentParts) /\ m \in Nat /\ n \in Nat /\ DOMAIN u = 1..m + n
      /\ \A j \in 1..m : u[j] = p[j]
      /\ \A j \in 1..n : u[m + j] = q[j]
      /\ DOMAIN p = 1..m /\ DOMAIN q = 1..n
  BY ConcatItems, LenProperties
<1>. HIDE DEF u, m, n
<1>2. \A j \in 1..m + n : j \in 1..m \/ (j - m \in 1..n /\ m + (j - m) = j /\ j \notin 1..m)
  BY <1>1
<1>3. ASSUME NEW j \in 1..m PROVE u[j].call = None /\ u[j].response = None /\ u[j].name = None
  <2>1. p[j].call \in {} \cup {None} /\ p[j].response \in {} \cup {None} /\ p[j].name = p[j].response
    BY <1>1 DEF Fresh
  <2>. QED
    BY <1>1, <2>1
<1>4. \A j \in 1..m + n : j \notin 1..m => j - m \in DOMAIN q /\ u[j] = q[j - m]
  BY <1>1, <1>2
<1>5. \A j \in DOMAIN q : m + j \in DOMAIN u /\ u[m + j] = q[j] /\ m + j \notin 1..m
  BY <1>1
<1>6. ASSUME NEW j \in DOMAIN u
      PROVE  /\ u[j].call \in c \cup {None} /\ u[j].response \in r \cup {None}
             /\ u[j].name = u[j].response
             /\ u[j].call # None \/ u[j].response # None => j - m \in DOMAIN q /\ u[j] = q[j - m]
  <2>1. CASE j \in 1..m
    BY <1>3, <2>1
  <2>2. CASE j \notin 1..m
    <3>1. j - m \in DOMAIN q /\ u[j] = q[j - m]
      BY <1>1, <1>4, <2>2
    <3>. QED
      BY <3>1 DEF Fresh
  <2>. QED
    BY <2>1, <2>2
<1>7. ASSUME NEW j \in DOMAIN u, NEW l \in DOMAIN u, j - m = l - m PROVE j = l
  BY <1>1, <1>7
<1>8. ASSUME NEW j \in DOMAIN u, NEW l \in DOMAIN u, u[j].call # None, u[l].call = u[j].call PROVE j = l
  <2>1. /\ j - m \in DOMAIN q /\ u[j] = q[j - m]
        /\ l - m \in DOMAIN q /\ u[l] = q[l - m]
    BY <1>6, <1>8
  <2>. QED
    BY <1>7, <1>8, <2>1 DEF Fresh
<1>9. ASSUME NEW j \in DOMAIN u, NEW l \in DOMAIN u, u[j].response # None, u[l].response = u[j].response PROVE j = l
  <2>1. /\ j - m \in DOMAIN q /\ u[j] = q[j - m]
        /\ l - m \in DOMAIN q /\ u[l] = q[l - m]
    BY <1>6, <1>9
  <2>. QED
    BY <1>7, <1>9, <2>1 DEF Fresh
<1>10. \A id \in c : \E j \in DOMAIN u : u[j].call = id
  BY <1>5 DEF Fresh
<1>11. \A id \in r : \E j \in DOMAIN u : u[j].response = id
  BY <1>5 DEF Fresh
<1>. QED
  BY <1>1, <1>6, <1>8, <1>9, <1>10, <1>11 DEF Fresh, u

LEMMA NothingFresh == <<>> \in Seq(SentParts) /\ Fresh(<<>>, {}, {})
  BY DEF Fresh

LEMMA GivesNothingFresh ==
    ASSUME NEW x, x = <<>> \/ Gives(x, None, None)
    PROVE  x \in Seq(SentParts) /\ Fresh(x, {}, {})
<1>1. CASE x = <<>>
  BY <1>1, NothingFresh
<1>2. CASE Gives(x, None, None)
  <2>1. x \in Seq(SentParts) /\ Len(x) = 1
    BY <1>2, SingleSays DEF Gives
  <2>2. DOMAIN x = {1}
    BY <2>1, LenProperties
  <2>. QED
    BY <1>2, <2>1, <2>2 DEF Fresh, Gives
<1>. QED
  BY <1>1, <1>2

\* A text and its images.
LEMMA BodyFresh ==
    ASSUME NEW entries, IsCache(entries), NEW text \in Strings, NEW pro_image
    PROVE  LET body == TextAndImages(entries, text, pro_image) IN
           body \in Seq(SentParts) /\ Fresh(body, {}, {})
<1>. DEFINE n == Len(text)
            Good(p) == p \in Seq(SentParts) /\ Fresh(p, {}, {})
<1>1. n \in Nat /\ DOMAIN text = 1..n /\ \A k \in 1..n : text[k] \in Symbols
  BY LenProperties, ElementOfSeq DEF Strings
<1>2. PICK run :
        /\ run[0] = <<>>
        /\ \A k \in 1..n : run[k] = AddSymbol(entries, run[k - 1], text[k], pro_image)
        /\ TextAndImages(entries, text, pro_image) = run[n]
  BY <1>1, TextAndImagesRun, SMTT(30)
<1>. HIDE DEF n
<1>. DEFINE S == {k \in 0..n : Good(run[k])}
<1>3. 0 \in S
  <2>1. Good(run[0]) /\ 0 \in 0..n
    BY <1>1, <1>2, NothingFresh
  <2>. QED
    BY <2>1
<1>4. ASSUME NEW p, Good(p), NEW symbol \in Symbols PROVE Good(AddSymbol(entries, p, symbol, pro_image))
  <2>0. p \in Seq(SentParts) /\ Fresh(p, {}, {})
    BY <1>4
  <2>1. CASE symbol \in Images
    <3>. DEFINE sig == ImageSignature(entries, symbol, pro_image)
                x == ImageOf(symbol, sig)
    <3>1. sig \in Sigs \cup {None, FALLBACK_SIGNATURE}
      BY LookUps DEF ImageSignature
    <3>. HIDE DEF sig
    <3>2. Gives(x, None, None)
      BY <2>1, <3>1, ImageGives
    <3>. HIDE DEF x
    <3>3. x \in Seq(SentParts) /\ Fresh(x, {}, {})
      BY <3>2, GivesNothingFresh
    <3>4. AddSymbol(entries, p, symbol, pro_image) = p \o x
      BY <2>1 DEF AddSymbol, x, sig
    <3>. QED
      BY <2>0, <3>3, <3>4, FreshBehind
  <2>2. CASE symbol \notin Images /\ p # <<>> /\ Last(p).image = None
    <3>. DEFINE k == Len(p)
                d == [p[k] EXCEPT !.text = Append(@, symbol)]
                q == [p EXCEPT ![k] = d]
    <3>1. k \in Nat /\ DOMAIN p = 1..k /\ k \in DOMAIN p /\ p[k] \in SentParts
      BY <2>0, <2>2, LenProperties, EmptySeq, ElementOfSeq
    <3>2. Append(p[k].text, symbol) \in Strings
      BY <3>1, AppendProperties DEF SentParts, Strings
    <3>3. d \in SentParts /\ d.call = p[k].call /\ d.response = p[k].response /\ d.name = p[k].name
      BY <3>1, <3>2 DEF SentParts
    <3>4. AddSymbol(entries, p, symbol, pro_image) = q
      BY <2>2 DEF AddSymbol
    <3>. HIDE DEF d
    <3>5. q \in Seq(SentParts) /\ DOMAIN q = DOMAIN p
      BY <2>0, <3>1, <3>3, ExceptSeq
    <3>6. \A j \in DOMAIN p : q[j].call = p[j].call /\ q[j].response = p[j].response /\ q[j].name = p[j].name
      BY <3>1, <3>3
    <3>. HIDE DEF q
    <3>7. Fresh(q, {}, {})
      BY <2>0, <3>5, <3>6 DEF Fresh
    <3>. QED
      BY <3>4, <3>5, <3>7
  <2>3. CASE symbol \notin Images /\ ~(p # <<>> /\ Last(p).image = None)
    <3>. DEFINE t == <<symbol>>
                x == TextOf(t)
    <3>1. t \in Strings /\ t # <<>>
      BY DEF Strings
    <3>. HIDE DEF t
    <3>2. x \in Seq(SentParts) /\ Fresh(x, {}, {})
      BY <3>1, TextGives, GivesNothingFresh
    <3>3. AddSymbol(entries, p, symbol, pro_image) = p \o x
      BY <2>3 DEF AddSymbol, t
    <3>. HIDE DEF x
    <3>. QED
      BY <2>0, <3>2, <3>3, FreshBehind
  <2>. QED
    BY <2>1, <2>2, <2>3
<1>5. ASSUME NEW k \in 1..n, k - 1 \in S PROVE k \in S
  <2>1. Good(run[k - 1]) /\ run[k] = AddSymbol(entries, run[k - 1], text[k], pro_image) /\ k \in 0..n /\ text[k] \in Symbols
    BY <1>1, <1>2, <1>5
  <2>. HIDE DEF Good
  <2>. QED
    BY <1>4, <2>1
<1>. HIDE DEF S
<1>6. n \in S
  BY <1>1, <1>3, <1>5, Upwards
<1>. QED
  BY <1>2, <1>6 DEF S

\* The thought of a message.
LEMMA ThoughtsFresh ==
    ASSUME NEW entries, IsCache(entries), NEW m \in ChatMessages, NEW claude_thinking
    PROVE  LET x == Thoughts(entries, m, claude_thinking) IN
           x \in Seq(SentParts) /\ Fresh(x, {}, {})
<1>. DEFINE first == IF m.tool_calls = <<>> THEN NoEntry ELSE lookup_strict(entries, Head(m.tool_calls))
            own == Trim(m.reasoning)
            text == IF own # <<>> THEN own ELSE Trim(first.reasoning)
            said == IF text = <<>> THEN MissingThought ELSE text
            x == Thoughts(entries, m, claude_thinking)
<1>1. first.sig \in Sigs \cup {None} /\ first.reasoning \in Strings
  BY LookUps, SymbolTypes DEF NoEntry
<1>2. \A t \in Strings : Trim(t) \in Strings
  BY SymbolTypes DEF Trim
<1>3. own \in Strings
  BY <1>2 DEF ChatMessages
<1>4. x = <<>> \/ x = ThoughtOf(own, None) \/ x = ThoughtOf(said, first.sig)
  BY DEF Thoughts
<1>. HIDE DEF first, own, x
<1>5. said \in Strings
  BY <1>1, <1>2, <1>3, SymbolTypes
<1>. HIDE DEF said
<1>6. x = <<>> \/ Gives(x, None, None)
  BY <1>1, <1>3, <1>4, <1>5, ThoughtGives
<1>. QED
  BY <1>6, GivesNothingFresh DEF x

\* The calls of a message, each once.
CallSet(m) == {m.tool_calls[j] : j \in DOMAIN m.tool_calls}

LEMMA CallPartsFresh ==
    ASSUME NEW entries, IsCache(entries), NEW m \in ChatMessages, NEW gemini,
           \A j, l \in DOMAIN m.tool_calls : m.tool_calls[j] = m.tool_calls[l] => j = l
    PROVE  LET x == CallParts(entries, m, gemini) IN
           x \in Seq(SentParts) /\ Fresh(x, CallSet(m), {})
<1>. DEFINE calls == m.tool_calls
            n == Len(calls)
            first == lookup_strict(entries, calls[1]).sig
            sig(i) == IF gemini /\ i = 1
                      THEN IF first = None THEN FALLBACK_SIGNATURE ELSE first
                      ELSE None
            s == [i \in 1..n |-> CallOf(calls[i], sig(i))]
            x == CallParts(entries, m, gemini)
<1>1. n \in Nat /\ DOMAIN calls = 1..n /\ \A i \in 1..n : calls[i] \in Calls
  BY LenProperties, ElementOfSeq DEF ChatMessages
<1>2. \A i \in 1..n : sig(i) \in Sigs \cup {None, FALLBACK_SIGNATURE}
  BY LookUps
<1>3. x = FlattenSeq(s)
  BY <1>1 DEF CallParts
<1>. HIDE DEF sig, x
<1>4. \A i \in 1..n : Gives(CallOf(calls[i], sig(i)), calls[i], None)
  BY <1>1, <1>2, CallGives
<1>5. s = [i \in 1..n |-> s[i]] /\ DOMAIN s = 1..n /\ \A i \in 1..n : Gives(s[i], calls[i], None)
  BY <1>4
<1>6. None \notin Calls
  BY NoneAssumption
<1>7. CallSet(m) = {calls[j] : j \in 1..n} /\ \A j, l \in 1..n : calls[j] = calls[l] => j = l
  BY <1>1 DEF CallSet
<1>. HIDE DEF s, calls, n
<1>8. \A i \in 1..n : s[i] \in Seq(SentParts) /\ Len(s[i]) = 1 /\ s[i] # <<>>
  BY <1>5, SingleSays DEF Gives
<1>9. x \in Seq(SentParts) /\ \E e : Gathers(e, x, s)
  BY <1>1, <1>3, <1>5, <1>8, Gathered
<1>10. PICK e : Gathers(e, x, s)
  BY <1>9
<1>11. ASSUME NEW k \in DOMAIN x
       PROVE  /\ e[k] \in 1..n /\ x[k].call = calls[e[k]] /\ x[k].response = None /\ x[k].name = None
  <2>1. e[k] \in 1..n /\ s[e[k]] = <<x[k]>>
    BY <1>5, <1>10 DEF Gathers
  <2>2. s[e[k]][1] = x[k]
    BY <2>1
  <2>. QED
    BY <1>5, <2>1, <2>2 DEF Gives
<1>12. \A j, l \in DOMAIN x : e[j] = e[l] => j = l
  BY <1>10 DEF Gathers
<1>13. \A i \in 1..n : \E k \in DOMAIN x : e[k] = i
  BY <1>5, <1>8, <1>10 DEF Gathers
<1>14. \A j \in DOMAIN x : /\ x[j].call \in CallSet(m) \cup {None}
                           /\ x[j].response \in {} \cup {None}
                           /\ x[j].name = x[j].response
  BY <1>7, <1>11
<1>15. \A j, l \in DOMAIN x : x[j].call # None /\ x[l].call = x[j].call => j = l
  BY <1>7, <1>11, <1>12
<1>16. \A id \in CallSet(m) : \E j \in DOMAIN x : x[j].call = id
  BY <1>7, <1>11, <1>13
<1>17. Fresh(x, CallSet(m), {})
  BY <1>11, <1>14, <1>15, <1>16 DEF Fresh
<1>. QED
  BY <1>9, <1>17 DEF x

\* One message more.
LEMMA ChatMessageAdded ==
    ASSUME NEW entries, IsCache(entries), NEW C, NEW M, NEW R, Paired(C, M, R), NEW m \in ChatMessages, NEW family,
           \A j, l \in DOMAIN m.tool_calls : m.tool_calls[j] = m.tool_calls[l] => j = l,
           CallSet(m) \cap M = {},
           m.role # "assistant" => m.tool_calls = <<>>,
           m.role = "tool" => m.tool_call_id \in M \ R
    PROVE  Paired(MessageContents(entries, C, m, family), M \cup CallSet(m),
                  R \cup (IF m.role = "tool" THEN {m.tool_call_id} ELSE {}))
<1>. DEFINE c == CallSet(m)
            D == MessageContents(entries, C, m, family)
            body == TextAndImages(entries, m.content, "pro_image" \in family)
            thoughts == Thoughts(entries, m, "claude_thinking" \in family)
            calls == CallParts(entries, m, "gemini" \in family)
            parts == thoughts \o body \o calls
<1>1. /\ m.role \in {"user", "assistant", "tool"} /\ m.content \in Strings /\ m.tool_calls \in Seq(Calls)
      /\ c \subseteq Calls /\ (m.tool_calls = <<>> => c = {})
  <2>1. m.role \in {"user", "assistant", "tool"} /\ m.content \in Strings /\ m.tool_calls \in Seq(Calls)
    BY DEF ChatMessages
  <2>2. \A j \in DOMAIN m.tool_calls : m.tool_calls[j] \in Calls
    BY <2>1, ElementOfSeq, LenProperties
  <2>3. DOMAIN <<>> = {}
    OBVIOUS
  <2>. QED
    BY <2>1, <2>2, <2>3 DEF CallSet
<1>2. body \in Seq(SentParts) /\ Fresh(body, {}, {})
  BY <1>1, BodyFresh
<1>3. thoughts \in Seq(SentParts) /\ Fresh(thoughts, {}, {})
  BY ThoughtsFresh
<1>4. calls \in Seq(SentParts) /\ Fresh(calls, c, {})
  BY CallPartsFresh
<1>5. CASE m.role = "user"
  <2>1. D = Append(C, Content("user", body))
    BY <1>5 DEF MessageContents
  <2>2. c = {} /\ m.role # "tool" /\ m.role # "assistant"
    BY <1>1, <1>5
  <2>3. \A e : e = {} => Paired(Append(C, Content("user", body)), M \cup e, R \cup e)
    <3>. SUFFICES ASSUME NEW e, e = {} PROVE Paired(Append(C, Content("user", body)), M \cup e, R \cup e)
      OBVIOUS
    <3>1. e \subseteq Calls /\ e \cap M = {} /\ e \subseteq M /\ e \cap R = {} /\ Fresh(body, e, e)
      BY <1>2
    <3>. HIDE DEF body
    <3>. QED
      BY <1>2, <3>1, AppendPaired
  <2>. HIDE DEF body, D, c
  <2>4. Paired(D, M \cup c, R \cup c)
    BY <2>1, <2>2, <2>3
  <2>. QED
    BY <2>2, <2>4 DEF c, D
<1>6. CASE m.role = "assistant"
  <2>1. D = IF parts = <<>> THEN C ELSE Append(C, Content("model", parts))
    BY <1>6 DEF MessageContents
  <2>. HIDE DEF body, thoughts, calls, D, c
  <2>2. parts \in Seq(SentParts) /\ Fresh(parts, c, {})
    <3>1. thoughts \o body \in Seq(SentParts) /\ Fresh(thoughts \o body, {}, {})
      BY <1>2, <1>3, FreshBehind
    <3>. DEFINE t == thoughts \o body
    <3>. HIDE DEF t
    <3>2. t \o calls \in Seq(SentParts) /\ Fresh(t \o calls, c, {})
      BY <1>4, <3>1, FreshBehind DEF t
    <3>. QED
      BY <3>2 DEF t
  <2>. HIDE DEF parts
  <2>3. CASE parts = <<>>
    <3>1. c = {}
      BY <2>2, <2>3 DEF Fresh
    <3>2. M \cup c = M /\ R \cup {} = R /\ D = C
      BY <2>1, <2>3, <3>1
    <3>. QED
      BY <1>6, <3>2 DEF D, c
  <2>4. CASE parts # <<>>
    <3>1. \A e : e = {} => Paired(Append(C, Content("model", parts)), M \cup c, R \cup e)
      <4>. SUFFICES ASSUME NEW e, e = {} PROVE Paired(Append(C, Content("model", parts)), M \cup c, R \cup e)
        OBVIOUS
      <4>1. e \subseteq M /\ e \cap R = {} /\ Fresh(parts, c, e) /\ c \cap M = {}
        BY <2>2 DEF c
      <4>. QED
        BY <1>1, <2>2, <4>1, AppendPaired
    <3>2. Paired(D, M \cup c, R \cup {})
      BY <2>1, <2>4, <3>1
    <3>. QED
      BY <1>6, <3>2 DEF D, c
  <2>. QED
    BY <2>3, <2>4
<1>7. CASE m.role = "tool"
  <2>. DEFINE id == m.tool_call_id
  <2>1. id \in M /\ id \notin R /\ c = {}
    BY <1>1, <1>7
  <2>2. find_function_name(C, id) = id
    BY <2>1, CallFound
  <2>3. D = append_function_response(C, ResponseTo(id, id))
    BY <1>7, <2>2 DEF MessageContents
  <2>. HIDE DEF id, D, c
  <2>4. Paired(D, M, R \cup {id})
    BY <2>1, <2>3, ResponsePaired
  <2>5. M \cup c = M
    BY <2>1
  <2>. QED
    BY <1>7, <2>4, <2>5 DEF D, c, id
<1>. QED
  BY <1>1, <1>5, <1>6, <1>7

\* The contents for the messages of an OpenAI client.
LEMMA ChatPaired ==
    ASSUME NEW entries, IsCache(entries), NEW ms, Talks(ms), NEW M, Makes(ms, M), NEW R, Receives(ms, R), NEW family
    PROVE  Paired(ChatContents(entries, ms, family), M, R)
<1>. DEFINE ns == merge_tool_only_assistant_messages(entries, ms)
            n == Len(ns)
            c == [k \in 1..n |-> CallSet(ns[k])]
            r == [k \in 1..n |-> IF ns[k].role = "tool" THEN {ns[k].tool_call_id} ELSE {}]
<1>1. Talks(ns) /\ Makes(ns, M) /\ Receives(ns, R)
  BY MergedTalks
<1>2. /\ n \in Nat /\ DOMAIN ns = 1..n
      /\ \A k \in 1..n : /\ ns[k] \in ChatMessages
                         /\ \A j \in DOMAIN ns[k].tool_calls : ns[k].tool_calls[j] \in Calls
  BY <1>1, ChatTypes DEF Talks
<1>3. PICK run :
        /\ run[0] = <<>>
        /\ \A k \in 1..n : run[k] = MessageContents(entries, run[k - 1], ns[k], family)
        /\ ChatContents(entries, ms, family) = run[n]
  BY <1>2, ChatContentsRun
<1>. HIDE DEF ns, n
<1>4. \A k \in 1..n : c[k] = CallSet(ns[k]) /\ r[k] = IF ns[k].role = "tool" THEN {ns[k].tool_call_id} ELSE {}
  OBVIOUS
<1>. HIDE DEF c, r
<1>c. ASSUME NEW k \in 1..n, NEW id
      PROVE  id \in c[k] <=> \E j \in DOMAIN ns[k].tool_calls : ns[k].tool_calls[j] = id
  <2>1. c[k] = CallSet(ns[k])
    BY <1>4
  <2>. QED
    BY <2>1 DEF CallSet
<1>r. ASSUME NEW k \in 1..n, NEW id
      PROVE  id \in r[k] <=> ns[k].role = "tool" /\ id = ns[k].tool_call_id
  <2>1. r[k] = IF ns[k].role = "tool" THEN {ns[k].tool_call_id} ELSE {}
    BY <1>4
  <2>. QED
    BY <2>1
<1>5. ASSUME NEW k \in 1..n
      PROVE  /\ c[k] \subseteq Calls /\ c[k] \cap Before(c, k - 1) = {}
             /\ ns[k].role = "tool" => ns[k].tool_call_id \in Before(c, k - 1) \ Before(r, k - 1)
  <2>1. c[k] \subseteq Calls
    BY <1>2, <1>c
  <2>2. \A j \in 1..k - 1 : j \in 1..n /\ j # k /\ j < k
    BY <1>2
  <2>3. ASSUME NEW id \in c[k], id \in Before(c, k - 1) PROVE FALSE
    <3>1. PICK j \in 1..k - 1 : id \in c[j]
      BY <2>3, BeforeHas
    <3>2. j \in 1..n /\ j # k
      BY <2>2
    <3>3. PICK i \in DOMAIN ns[k].tool_calls : ns[k].tool_calls[i] = id
      BY <1>c
    <3>4. PICK l \in DOMAIN ns[j].tool_calls : ns[j].tool_calls[l] = id
      BY <1>c, <3>1, <3>2
    <3>. QED
      BY <1>1, <1>2, <3>2, <3>3, <3>4 DEF Talks
  <2>4. c[k] \cap Before(c, k - 1) = {}
    BY <2>3
  <2>5. ASSUME ns[k].role = "tool" PROVE ns[k].tool_call_id \in Before(c, k - 1)
    <3>1. PICK i \in DOMAIN ns : i < k /\ \E j \in DOMAIN ns[i].tool_calls : ns[i].tool_calls[j] = ns[k].tool_call_id
      BY <1>1, <1>2, <2>5 DEF Talks
    <3>2. i \in 1..k - 1 /\ ns[k].tool_call_id \in c[i]
      BY <1>2, <1>c, <3>1
    <3>. QED
      BY <3>2, BeforeHas
  <2>6. ASSUME ns[k].role = "tool", ns[k].tool_call_id \in Before(r, k - 1) PROVE FALSE
    <3>1. PICK j \in 1..k - 1 : ns[k].tool_call_id \in r[j]
      BY <2>6, BeforeHas
    <3>2. j \in 1..n /\ j # k /\ ns[j].role = "tool" /\ ns[j].tool_call_id = ns[k].tool_call_id
      BY <1>r, <2>2, <3>1
    <3>. QED
      BY <1>1, <1>2, <2>6, <3>2 DEF Talks
  <2>. QED
    BY <2>1, <2>4, <2>5, <2>6
<1>. DEFINE Good(k) == Paired(run[k], Before(c, k), Before(r, k))
            S == {k \in 0..n : Good(k)}
<1>6. 0 \in S
  <2>1. Before(c, 0) = {} /\ Before(r, 0) = {} /\ 0 \in 0..n
    BY <1>2, BeforeNone
  <2>. QED
    BY <1>3, <2>1, NothingPaired
<1>7. ASSUME NEW k \in 1..n, k - 1 \in S PROVE k \in S
  <2>. DEFINE P == Before(c, k - 1)
              Q == Before(r, k - 1)
              C == run[k - 1]
              m == ns[k]
  <2>1. Paired(C, P, Q)
    BY <1>7
  <2>2. /\ m \in ChatMessages /\ run[k] = MessageContents(entries, C, m, family)
        /\ \A j, l \in DOMAIN m.tool_calls : m.tool_calls[j] = m.tool_calls[l] => j = l
        /\ m.role # "assistant" => m.tool_calls = <<>>
    <3>1. k \in DOMAIN ns
      BY <1>2
    <3>2. m \in ChatMessages /\ run[k] = MessageContents(entries, C, m, family)
      BY <1>2, <1>3
    <3>3. \A j, l \in DOMAIN ns[k].tool_calls : ns[k].tool_calls[j] = ns[k].tool_calls[l] => j = l
      BY <1>1, <3>1 DEF Talks
    <3>4. ns[k].role # "assistant" => ns[k].tool_calls = <<>>
      BY <1>1, <3>1 DEF Talks
    <3>. QED
      BY <3>2, <3>3, <3>4
  <2>3. c[k] = CallSet(m) /\ r[k] = IF m.role = "tool" THEN {m.tool_call_id} ELSE {}
    BY <1>4
  <2>4. CallSet(m) \cap P = {} /\ (m.role = "tool" => m.tool_call_id \in P \ Q)
    BY <1>5, <2>3
  <2>5. Before(c, k) = P \cup c[k] /\ Before(r, k) = Q \cup r[k]
    BY <1>2, BeforeNext
  <2>. HIDE DEF P, Q, C, m
  <2>6. Paired(run[k], P \cup c[k], Q \cup r[k])
    BY <2>1, <2>2, <2>3, <2>4, ChatMessageAdded
  <2>7. Good(k) /\ k \in 0..n
    BY <2>5, <2>6
  <2>. QED
    BY <2>7
<1>. HIDE DEF S
<1>8. n \in S
  BY <1>2, <1>6, <1>7, Upwards
<1>9. Before(c, n) = M
  <2>1. ASSUME NEW id \in Before(c, n) PROVE id \in M
    <3>1. PICK k \in 1..n : id \in c[k]
      BY BeforeHas
    <3>. QED
      BY <1>1, <1>2, <1>c, <3>1 DEF Makes
  <2>2. ASSUME NEW id \in M PROVE id \in Before(c, n)
    <3>1. PICK k \in DOMAIN ns : \E j \in DOMAIN ns[k].tool_calls : ns[k].tool_calls[j] = id
      BY <1>1 DEF Makes
    <3>2. k \in 1..n /\ id \in c[k]
      BY <1>2, <1>c, <3>1
    <3>. QED
      BY <3>2, BeforeHas
  <2>. QED
    BY <2>1, <2>2
<1>10. Before(r, n) = R
  <2>1. ASSUME NEW id \in Before(r, n) PROVE id \in R
    <3>1. PICK k \in 1..n : id \in r[k]
      BY BeforeHas
    <3>. QED
      BY <1>1, <1>2, <1>r, <3>1 DEF Receives
  <2>2. ASSUME NEW id \in R PROVE id \in Before(r, n)
    <3>1. PICK k \in DOMAIN ns : ns[k].role = "tool" /\ ns[k].tool_call_id = id
      BY <1>1 DEF Receives
    <3>2. k \in 1..n /\ id \in r[k]
      BY <1>2, <1>r, <3>1
    <3>. QED
      BY <3>2, BeforeHas
  <2>. QED
    BY <2>1, <2>2
<1>. QED
  BY <1>3, <1>8, <1>9, <1>10 DEF S

-----------------------------------------------------------------------------
(* The answer as the Claude writer tells it: its events are typed, and each *)
(* call of K has at most one block.                                         *)

Names == {"none", "thinking", "text", "tool_use", "thinking_delta", "text_delta",
          "signature_delta", "input_json_delta", "message_start", "message_delta",
          "message_stop", "content_block_start", "content_block_delta",
          "content_block_stop", "end_turn", "STOP", "role", "content",
          "reasoning", "tool_calls", "finish", "[DONE]"}
Events == [type : Names, index : Nat, kind : Names, text : Strings]
SignatureSaves == [key : Calls \cup Images, image : BOOLEAN, sig : Sigs, reasoning : Strings]
Pendings == [index : Nat, kind : Names, text : Strings]
OpenBlocks == [index : Nat, kind : {"none", "thinking", "text"}]
ClaudeWriters ==
    [started : BOOLEAN, next_index : Nat, block : OpenBlocks, sig : Sigs \cup {None},
     thought : Strings, emitted : BOOLEAN, signing : BOOLEAN,
     out : Seq(Events), saves : Seq(SignatureSaves), log : Seq(Events), pending : Pendings]

Starts_(e) == e.type = "content_block_start"
Uses(e) == Starts_(e) /\ e.kind = "tool_use"
Told(out, K) ==
    /\ \A i \in DOMAIN out :
          /\ Starts_(out[i]) => out[i].kind \in {"thinking", "text", "tool_use"}
          /\ Uses(out[i]) => Head(out[i].text) \in K
          /\ out[i].kind = "signature_delta" => out[i].text \in Seq(Sigs)
    /\ \A i, j \in DOMAIN out : Uses(out[i]) /\ Uses(out[j]) /\ Head(out[i].text) = Head(out[j].text) => i = j
Tells(w, K) == w \in ClaudeWriters /\ Told(w.out, K)

\* An event that starts no call.
Quiet(e) ==
    /\ e \in Events
    /\ Starts_(e) => e.kind \in {"thinking", "text"}
    /\ e.kind = "signature_delta" => e.text \in Seq(Sigs)

LEMMA WriterBasics ==
    /\ <<>> \in Strings /\ MissingThought \in Strings
    /\ \A s, t \in Strings : s \o t \in Strings
    /\ \A type, kind \in Names : \A i \in Nat : \A t \in Strings : Event(type, i, kind, t) \in Events
    /\ NoPending \in Pendings
<1>1. \A s, t \in Strings : s \o t \in Strings
  BY ConcatProperties DEF Strings
<1>. QED
  BY <1>1, SymbolTypes DEF Event, Events, NoPending, Pendings, Names

LEMMA ToldMore ==
    ASSUME NEW out \in Seq(Events), NEW K, Told(out, K), NEW L, K \subseteq L
    PROVE  Told(out, L)
  BY DEF Told

LEMMA ToldQuiet ==
    ASSUME NEW out \in Seq(Events), NEW K, Told(out, K), NEW e, Quiet(e)
    PROVE  Append(out, e) \in Seq(Events) /\ Told(Append(out, e), K)
<1>. DEFINE new == Append(out, e)
            n == Len(out) + 1
<1>1. e \in Events /\ ~Uses(e) /\ (Starts_(e) => e.kind \in {"thinking", "text", "tool_use"})
      /\ (e.kind = "signature_delta" => e.text \in Seq(Sigs))
  BY DEF Quiet, Uses
<1>2. /\ new \in Seq(Events) /\ DOMAIN new = 1..n /\ new[n] = e /\ DOMAIN out = 1..n - 1 /\ n \in Nat
      /\ \A i \in 1..n - 1 : new[i] = out[i]
  BY <1>1, AppendProperties, LenProperties
<1>. HIDE DEF new, n
<1>3. \A i \in DOMAIN new : i = n \/ i \in DOMAIN out
  BY <1>2
<1>. QED
  BY <1>1, <1>2, <1>3 DEF Told, new

LEMMA ToldUse ==
    ASSUME NEW out \in Seq(Events), NEW K, Told(out, K), NEW e \in Events, Uses(e), Head(e.text) \notin K
    PROVE  Append(out, e) \in Seq(Events) /\ Told(Append(out, e), K \cup {Head(e.text)})
<1>. DEFINE new == Append(out, e)
            n == Len(out) + 1
<1>1. e.kind = "tool_use" /\ e.kind # "signature_delta"
  BY DEF Uses
<1>2. /\ new \in Seq(Events) /\ DOMAIN new = 1..n /\ new[n] = e /\ DOMAIN out = 1..n - 1 /\ n \in Nat
      /\ \A i \in 1..n - 1 : new[i] = out[i]
  BY AppendProperties, LenProperties
<1>. HIDE DEF new, n
<1>3. \A i \in DOMAIN new : i = n \/ i \in DOMAIN out
  BY <1>2
<1>. QED
  BY <1>1, <1>2, <1>3 DEF Told, new

LEMMA EmitPlainTyped ==
    ASSUME NEW w \in ClaudeWriters, NEW e \in Events
    PROVE  EmitPlain(w, e) \in ClaudeWriters /\ EmitPlain(w, e).out = Append(w.out, e)
<1>. DEFINE v == FlushLog(w)
            own == Event("content_block_delta", w.pending.index, w.pending.kind, w.pending.text)
<1>1. v \in ClaudeWriters /\ v.out = w.out
  <2>1. own \in Events /\ NoPending \in Pendings
    BY WriterBasics DEF ClaudeWriters, Pendings, Event, Events, Names
  <2>2. Append(w.log, own) \in Seq(Events)
    BY <2>1, AppendProperties DEF ClaudeWriters
  <2>. QED
    BY <2>1, <2>2 DEF FlushLog, ClaudeWriters
<1>2. Append(v.out, e) \in Seq(Events) /\ Append(v.log, e) \in Seq(Events)
  BY <1>1, AppendProperties DEF ClaudeWriters
<1>3. EmitPlain(w, e) = [v EXCEPT !.out = Append(@, e), !.log = Append(@, e)]
  BY DEF EmitPlain
<1>. HIDE DEF v
<1>. QED
  BY <1>1, <1>2, <1>3 DEF ClaudeWriters

LEMMA PlainTells ==
    ASSUME NEW w, NEW K, Tells(w, K), NEW e, Quiet(e)
    PROVE  Tells(EmitPlain(w, e), K)
<1>1. e \in Events /\ w \in ClaudeWriters /\ w.out \in Seq(Events) /\ Told(w.out, K)
  BY DEF Quiet, Tells, ClaudeWriters
<1>. QED
  BY <1>1, EmitPlainTyped, ToldQuiet DEF Tells

LEMMA DeltaTells ==
    ASSUME NEW w, NEW K, Tells(w, K), NEW kind \in {"thinking_delta", "text_delta"}, NEW text \in Strings
    PROVE  Tells(EmitDelta(w, kind, text), K)
<1>. DEFINE v == CollectDelta(w, kind, w.block.index, text)
            e == Event("content_block_delta", w.block.index, kind, text)
<1>1. w \in ClaudeWriters /\ Told(w.out, K) /\ w.block.index \in Nat /\ w.pending \in Pendings
      /\ w.out \in Seq(Events)
  BY DEF Tells, ClaudeWriters, OpenBlocks
<1>2. Quiet(e)
  BY <1>1 DEF Quiet, Event, Events, Names, Starts_
<1>3. v \in ClaudeWriters /\ v.out = w.out
  <2>1. \A t \in Strings : [index |-> w.block.index, kind |-> kind, text |-> t] \in Pendings
    BY <1>1 DEF Pendings, Names
  <2>2. w.pending.text \o text \in Strings /\ <<>> \o text \in Strings
    BY <1>1, WriterBasics DEF Pendings
  <2>3. \A u \in ClaudeWriters, p \in Pendings : u.out = w.out =>
           [u EXCEPT !.pending = p] \in ClaudeWriters /\ [u EXCEPT !.pending = p].out = w.out
    BY DEF ClaudeWriters
  <2>4. FlushLog(w) \in ClaudeWriters /\ FlushLog(w).out = w.out
    <3>. DEFINE own == Event("content_block_delta", w.pending.index, w.pending.kind, w.pending.text)
    <3>1. own \in Events /\ NoPending \in Pendings
      BY <1>1, WriterBasics DEF ClaudeWriters, Pendings, Event, Events, Names
    <3>2. Append(w.log, own) \in Seq(Events)
      BY <1>1, <3>1, AppendProperties DEF ClaudeWriters
    <3>. QED
      BY <1>1, <3>1, <3>2 DEF FlushLog, ClaudeWriters
  <2>. QED
    BY <1>1, <2>1, <2>2, <2>3, <2>4 DEF CollectDelta
<1>4. EmitDelta(w, kind, text) = [v EXCEPT !.out = Append(@, e)]
  BY DEF EmitDelta
<1>. HIDE DEF v, e
<1>5. Append(w.out, e) \in Seq(Events) /\ Told(Append(w.out, e), K)
  BY <1>1, <1>2, ToldQuiet
<1>. QED
  BY <1>3, <1>4, <1>5 DEF Tells, ClaudeWriters

LEMMA CloseBlockTells ==
    ASSUME NEW w, NEW K, Tells(w, K)
    PROVE  Tells(CloseBlock(w), K)
<1>. DEFINE e == Event("content_block_stop", w.block.index, "none", <<>>)
            v == EmitPlain(w, e)
<1>1. Quiet(e)
  BY SymbolTypes DEF Tells, ClaudeWriters, OpenBlocks, Quiet, Event, Events, Names, Starts_
<1>2. Tells(v, K)
  BY <1>1, PlainTells
<1>3. CloseBlock(w) = w \/ CloseBlock(w) = [v EXCEPT !.block = NoBlock]
  BY DEF CloseBlock
<1>4. NoBlock \in OpenBlocks
  BY DEF NoBlock, OpenBlocks
<1>. HIDE DEF v
<1>. QED
  BY <1>2, <1>3, <1>4 DEF Tells, ClaudeWriters

LEMMA OpenBlockTells ==
    ASSUME NEW w, NEW K, Tells(w, K), NEW kind \in {"thinking", "text"}
    PROVE  Tells(OpenBlock(w, kind), K)
<1>. DEFINE e == Event("content_block_start", w.next_index, kind, <<>>)
            v == EmitPlain(w, e)
<1>1. Quiet(e) /\ w.next_index \in Nat
  BY SymbolTypes DEF Tells, ClaudeWriters, OpenBlocks, Quiet, Event, Events, Names, Starts_
<1>2. Tells(v, K)
  BY <1>1, PlainTells
<1>3. OpenBlock(w, kind) =
        [v EXCEPT !.next_index = @ + 1, !.block = [index |-> w.next_index, kind |-> kind],
                  !.thought = IF kind = "thinking" THEN <<>> ELSE @,
                  !.emitted = IF kind = "thinking" THEN FALSE ELSE @]
  BY DEF OpenBlock
<1>. HIDE DEF v
<1>. DEFINE b == [index |-> w.next_index, kind |-> kind]
            t == IF kind = "thinking" THEN <<>> ELSE v.thought
            d == IF kind = "thinking" THEN FALSE ELSE v.emitted
<1>4. OpenBlock(w, kind) = [v EXCEPT !.next_index = @ + 1, !.block = b, !.thought = t, !.emitted = d]
  BY <1>3
<1>5. b \in OpenBlocks /\ t \in Strings /\ d \in BOOLEAN /\ v.next_index + 1 \in Nat
  <2>1. v.thought \in Strings /\ v.next_index \in Nat
    BY <1>2 DEF Tells, ClaudeWriters
  <2>2. v.emitted \in BOOLEAN
    BY <1>2 DEF Tells, ClaudeWriters
  <2>3. d \in BOOLEAN
    BY <2>2, Zenon
  <2>4. b \in OpenBlocks
    BY <1>1 DEF OpenBlocks
  <2>5. t \in Strings
    BY <2>1, SymbolTypes
  <2>. HIDE DEF b, t, d
  <2>. QED
    BY <2>1, <2>3, <2>4, <2>5
<1>. HIDE DEF b, t, d
<1>. QED
  BY <1>2, <1>4, <1>5 DEF Tells, ClaudeWriters

LEMMA FlushSignatureTells ==
    ASSUME NEW w, NEW K, Tells(w, K)
    PROVE  Tells(FlushSignature(w), K)
<1>. DEFINE v == IF Trimmed(w.thought)
                 THEN [EmitThinkingDelta(w, MissingThought) EXCEPT !.thought = @ \o MissingThought]
                 ELSE w
            e == Event("content_block_delta", w.block.index, "signature_delta", <<w.sig>>)
<1>1. Tells(v, K)
  <2>. DEFINE u == EmitDelta(w, "thinking_delta", MissingThought)
  <2>1. Tells(u, K)
    BY SymbolTypes, DeltaTells
  <2>2. v = w \/ v = [u EXCEPT !.thought = @ \o MissingThought]
    BY DEF EmitThinkingDelta
  <2>. HIDE DEF u, v
  <2>. QED
    BY <2>1, <2>2, WriterBasics DEF Tells, ClaudeWriters
<1>. HIDE DEF v
<1>2. FlushSignature(w) = w \/ (w.sig # None /\ FlushSignature(w) = [EmitPlain(v, e) EXCEPT !.emitted = TRUE])
  BY DEF FlushSignature, v
<1>3. CASE w.sig # None
  <2>1. w.sig \in Sigs /\ w.block.index \in Nat
    BY <1>3 DEF Tells, ClaudeWriters, OpenBlocks
  <2>2. <<w.sig>> \in Strings /\ <<w.sig>> \in Seq(Sigs)
    BY <2>1, SymbolTypes
  <2>3. Quiet(e)
    BY <2>1, <2>2 DEF Quiet, Event, Events, Names, Starts_
  <2>. DEFINE u == EmitPlain(v, e)
  <2>4. Tells(u, K)
    BY <1>1, <2>3, PlainTells
  <2>5. FlushSignature(w) = w \/ FlushSignature(w) = [u EXCEPT !.emitted = TRUE]
    BY <1>2
  <2>. HIDE DEF u
  <2>. QED
    BY <2>4, <2>5 DEF Tells, ClaudeWriters
<1>. QED
  BY <1>2, <1>3

LEMMA SaveTyped ==
    ASSUME NEW w \in ClaudeWriters, NEW key \in Calls \cup Images, NEW image \in BOOLEAN, NEW sig \in Sigs
    PROVE  /\ SignatureSave(key, image, sig, Reasoning(w)) \in SignatureSaves
           /\ Append(w.saves, SignatureSave(key, image, sig, Reasoning(w))) \in Seq(SignatureSaves)
<1>1. Reasoning(w) \in Strings
  BY SymbolTypes DEF Reasoning, ClaudeWriters
<1>2. SignatureSave(key, image, sig, Reasoning(w)) \in SignatureSaves
  BY <1>1 DEF SignatureSave, SignatureSaves
<1>. QED
  BY <1>2, AppendProperties DEF ClaudeWriters

LEMMA EmitToolUseTells ==
    ASSUME NEW w, NEW K, Tells(w, K), NEW call \in Calls \ K, NEW sig \in Sigs \cup {None}
    PROVE  Tells(EmitToolUse(w, call, sig), K \cup {call})
<1>. DEFINE i == w.next_index
            L == K \cup {call}
            e1 == Event("content_block_start", i, "tool_use", <<call>>)
            e2 == Event("content_block_delta", i, "input_json_delta", <<call>>)
            e3 == Event("content_block_stop", i, "none", <<>>)
            u1 == EmitPlain(w, e1)
            u2 == EmitPlain(u1, e2)
            u3 == EmitPlain(u2, e3)
            bound == IF sig # None THEN sig ELSE IF w.signing THEN w.sig ELSE None
            save == SignatureSave(call, FALSE, bound, Reasoning(w))
            t == IF bound = None THEN u3.saves ELSE Append(u3.saves, save)
            g == IF sig = None /\ w.signing THEN None ELSE u3.sig
<1>1. w \in ClaudeWriters /\ Told(w.out, K) /\ i \in Nat /\ bound \in Sigs \cup {None} /\ w.out \in Seq(Events)
  BY DEF Tells, ClaudeWriters
<1>2. <<call>> \in Strings /\ <<>> \in Strings /\ Head(<<call>>) = call
  BY SymbolTypes
<1>3. /\ e1 \in Events /\ Uses(e1) /\ Head(e1.text) = call
      /\ Quiet(e2) /\ Quiet(e3)
  BY <1>1, <1>2 DEF Quiet, Event, Events, Names, Starts_, Uses
<1>4. EmitToolUse(w, call, sig) = [u3 EXCEPT !.next_index = i + 1, !.sig = g, !.saves = t]
  BY DEF EmitToolUse
<1>5. bound # None => save \in SignatureSaves
  BY <1>1, SaveTyped
<1>. HIDE DEF e1, e2, e3, save
<1>6. Tells(u1, L)
  BY <1>1, <1>3, EmitPlainTyped, ToldUse DEF Tells
<1>. HIDE DEF u1
<1>7. Tells(u2, L)
  BY <1>3, <1>6, PlainTells
<1>. HIDE DEF u2
<1>8. Tells(u3, L)
  BY <1>3, <1>7, PlainTells
<1>. HIDE DEF u3, bound
<1>9. t \in Seq(SignatureSaves) /\ g \in Sigs \cup {None} /\ i + 1 \in Nat
  BY <1>1, <1>5, <1>8, AppendProperties DEF Tells, ClaudeWriters
<1>. HIDE DEF t, g, i, L
<1>10. Tells(EmitToolUse(w, call, sig), L)
  BY <1>4, <1>8, <1>9 DEF Tells, ClaudeWriters
<1>. QED
  BY <1>10 DEF L

LEMMA IntoTextBlockTells ==
    ASSUME NEW w, NEW K, Tells(w, K)
    PROVE  Tells(IntoTextBlock(w), K)
  BY FlushSignatureTells, CloseBlockTells, OpenBlockTells DEF IntoTextBlock

LEMMA ThoughtPartTells ==
    ASSUME NEW w, NEW K, Tells(w, K), NEW p \in GivenParts
    PROVE  Tells(ThoughtPart(w, p), K)
<1>. DEFINE v == IF w.block.kind = "thinking" THEN w ELSE OpenBlock(CloseBlock(w), "thinking")
            u == EmitDelta(v, "thinking_delta", p.text)
<1>1. p.text \in Strings
  BY DEF GivenParts
<1>2. Tells(v, K)
  BY CloseBlockTells, OpenBlockTells
<1>3. ThoughtPart(w, p) = v \/ ThoughtPart(w, p) = [u EXCEPT !.thought = @ \o p.text]
  BY DEF ThoughtPart, EmitThinkingDelta
<1>. HIDE DEF v
<1>4. Tells(u, K)
  BY <1>1, <1>2, DeltaTells
<1>. HIDE DEF u
<1>. QED
  BY <1>1, <1>2, <1>3, <1>4, WriterBasics DEF Tells, ClaudeWriters

LEMMA ImagePartTells ==
    ASSUME NEW w, NEW K, Tells(w, K), NEW p \in GivenParts, p.image # None
    PROVE  Tells(ImagePart(w, p), K)
<1>. DEFINE x == IntoTextBlock(w)
            v == EmitDelta(x, "text_delta", <<p.image>>)
            save == SignatureSave(p.image, TRUE, p.sig, Reasoning(x))
<1>1. p.image \in Images /\ p.sig \in Sigs \cup {None} /\ <<p.image>> \in Strings
  BY SymbolTypes DEF GivenParts
<1>2. Tells(x, K)
  BY IntoTextBlockTells
<1>3. ImagePart(w, p) = IF p.sig = None THEN v ELSE [v EXCEPT !.saves = Append(@, save)]
  BY DEF ImagePart, EmitTextDelta
<1>4. p.sig # None => save \in SignatureSaves
  BY <1>1, <1>2, SaveTyped DEF Tells
<1>. HIDE DEF x, save
<1>5. Tells(v, K)
  BY <1>1, <1>2, DeltaTells
<1>. HIDE DEF v
<1>6. p.sig # None => Append(v.saves, save) \in Seq(SignatureSaves)
  BY <1>4, <1>5, AppendProperties DEF Tells, ClaudeWriters
<1>. QED
  BY <1>3, <1>5, <1>6 DEF Tells, ClaudeWriters

\* A part whose call, if it has one, was not told yet.
LEMMA ClaudePartTells ==
    ASSUME NEW w, NEW K, Tells(w, K), NEW p \in GivenParts, p.call \notin K
    PROVE  Tells(ClaudePart(w, p), K \cup ({p.call} \ {None}))
<1>. DEFINE L == K \cup ({p.call} \ {None})
            s == Start(w)
            v == HoldSignature(s, p)
<1>1. p.text \in Strings /\ p.call \in Calls \cup {None} /\ p.sig \in Sigs \cup {None}
  BY DEF GivenParts
<1>2. Tells(s, K)
  <2>. DEFINE e == Event("message_start", 0, "none", <<>>)
              u == EmitPlain(w, e)
  <2>1. Quiet(e)
    BY SymbolTypes DEF Quiet, Event, Events, Names, Starts_
  <2>2. Tells(u, K)
    BY <2>1, PlainTells
  <2>3. s = w \/ s = [u EXCEPT !.started = TRUE]
    BY DEF Start
  <2>. HIDE DEF u, s
  <2>. QED
    BY <2>2, <2>3 DEF Tells, ClaudeWriters
<1>3. Tells(v, K)
  <2>1. v = s \/ v = [s EXCEPT !.sig = p.sig, !.emitted = FALSE]
    BY DEF HoldSignature
  <2>. HIDE DEF v, s
  <2>. QED
    BY <1>1, <1>2, <2>1 DEF Tells, ClaudeWriters
<1>. HIDE DEF v, s
<1>4. \A u : Tells(u, K) => Tells(u, L)
  BY ToldMore DEF Tells, ClaudeWriters
<1>5. ClaudePart(w, p) =
        IF p.thought THEN ThoughtPart(v, p)
        ELSE IF p.text # <<>> THEN TextPart(v, p)
        ELSE IF p.image # None THEN ImagePart(v, p)
        ELSE IF p.call # None THEN ToolPart(v, p)
        ELSE v
  BY DEF ClaudePart, v, s
<1>6. Tells(ThoughtPart(v, p), L)
  BY <1>3, <1>4, ThoughtPartTells
<1>7. Tells(TextPart(v, p), L)
  <2>1. Tells(EmitDelta(IntoTextBlock(v), "text_delta", p.text), K)
    BY <1>1, <1>3, IntoTextBlockTells, DeltaTells
  <2>. QED
    BY <1>4, <2>1 DEF TextPart, EmitTextDelta
<1>8. p.image # None => Tells(ImagePart(v, p), L)
  BY <1>3, <1>4, ImagePartTells
<1>9. ASSUME p.call # None PROVE Tells(ToolPart(v, p), L)
  <2>1. p.call \in Calls \ K /\ L = K \cup {p.call}
    BY <1>1, <1>9
  <2>2. Tells(CloseBlock(v), K)
    BY <1>3, CloseBlockTells
  <2>. QED
    BY <1>1, <2>1, <2>2, EmitToolUseTells DEF ToolPart
<1>. QED
  BY <1>3, <1>4, <1>5, <1>6, <1>7, <1>8, <1>9

LEMMA ClaudeFinishTells ==
    ASSUME NEW w, NEW K, Tells(w, K), NEW stop_reason \in {"tool_use", "end_turn"}
    PROVE  Tells(ClaudeFinish(w, stop_reason), K)
<1>. DEFINE u == CloseBlock(FlushSignature(w))
            e1 == Event("message_delta", 0, stop_reason, <<>>)
            e2 == Event("message_stop", 0, "none", <<>>)
<1>1. Quiet(e1) /\ Quiet(e2)
  BY SymbolTypes DEF Quiet, Event, Events, Names, Starts_
<1>2. Tells(u, K)
  BY FlushSignatureTells, CloseBlockTells
<1>. HIDE DEF u, e1, e2
<1>3. Tells(EmitPlain(EmitPlain(u, e1), e2), K)
  BY <1>1, <1>2, PlainTells
<1>. QED
  BY <1>3 DEF ClaudeFinish, u, e1, e2

-----------------------------------------------------------------------------
(* The answer as the OpenAI writer tells it: the calls held back are in K,  *)
(* each once, and go out in one chunk.                                      *)

ChatWriters ==
    [sent_role : BOOLEAN, calls : Seq(Calls), sig : Sigs \cup {None}, thought : Strings,
     signing : BOOLEAN, out : Seq(Events), saves : Seq(SignatureSaves), log : Seq(Events),
     pending : Pendings]

\* Calls of K, each once.
Each(s, K) ==
    /\ s \in Seq(Calls) /\ \A i \in DOMAIN s : s[i] \in K
    /\ \A i, j \in DOMAIN s : s[i] = s[j] => i = j

Holds(w, K) ==
    /\ w \in ChatWriters /\ Each(w.calls, K)
    /\ \A i \in DOMAIN w.out : w.out[i].kind # "tool_calls"

\* At most one chunk names calls.
Flushed(out, K) ==
    /\ out \in Seq(Events)
    /\ \A i \in DOMAIN out : out[i].kind = "tool_calls" => Each(out[i].text, K)
    /\ \A i, j \in DOMAIN out : out[i].kind = "tool_calls" /\ out[j].kind = "tool_calls" => i = j

LEMMA EachMore ==
    ASSUME NEW s, NEW K, Each(s, K), NEW call \in Calls \ K
    PROVE  Each(Append(s, call), K \cup {call})
<1>. DEFINE new == Append(s, call)
            n == Len(s) + 1
<1>1. s \in Seq(Calls)
  BY DEF Each
<1>2. /\ new \in Seq(Calls) /\ DOMAIN new = 1..n /\ new[n] = call /\ DOMAIN s = 1..n - 1 /\ n \in Nat
      /\ \A i \in 1..n - 1 : new[i] = s[i]
  BY <1>1, AppendProperties, LenProperties
<1>. HIDE DEF new, n
<1>3. \A i \in DOMAIN new : i = n \/ i \in DOMAIN s
  BY <1>2
<1>. QED
  BY <1>2, <1>3 DEF Each, new

LEMMA ChunkTyped ==
    ASSUME NEW w \in ChatWriters, NEW e \in Events
    PROVE  LET v == WriteChunk(w, e) IN
           v \in ChatWriters /\ v.calls = w.calls /\ v.out = Append(w.out, e)
<1>. DEFINE v == CollectChunk(w, e)
            f == FlushChatLog(w)
            l == Append(w.log, ChatEvent(w.pending.kind, w.pending.text))
            Same(x) == x \in ChatWriters /\ x.calls = w.calls /\ x.out = w.out
<1>1. w.pending \in Pendings /\ w.log \in Seq(Events)
  BY DEF ChatWriters
<1>2. Same(f)
  <2>1. ChatEvent(w.pending.kind, w.pending.text) \in Events /\ NoPending \in Pendings
    BY <1>1, WriterBasics DEF ChatEvent, Pendings
  <2>2. l \in Seq(Events)
    BY <1>1, <2>1, AppendProperties
  <2>3. f = w \/ f = [w EXCEPT !.pending = NoPending, !.log = l]
    BY DEF FlushChatLog
  <2>. HIDE DEF f, l
  <2>. QED
    BY <2>1, <2>2, <2>3 DEF ChatWriters
<1>3. Same(v)
  <2>. HIDE DEF f
  <2>. DEFINE same == w.pending.kind = e.type
              u == IF same THEN w ELSE f
              t == (IF same THEN w.pending.text ELSE <<>>) \o e.text
              q == [index |-> 0, kind |-> e.type, text |-> t]
  <2>1. Same(u)
    BY <1>2
  <2>2. Append(f.log, e) \in Seq(Events)
    BY <1>2, AppendProperties DEF ChatWriters
  <2>3. t \in Strings /\ e.type \in Names
    BY <1>1, WriterBasics DEF Pendings, Events
  <2>4. v = IF e.type \in {"content", "reasoning"} THEN [u EXCEPT !.pending = q]
            ELSE [f EXCEPT !.log = Append(@, e)]
    BY DEF CollectChunk, f
  <2>. HIDE DEF u, t, v
  <2>5. q \in Pendings
    BY <2>3 DEF Pendings
  <2>. HIDE DEF q
  <2>6. Same([u EXCEPT !.pending = q])
    BY <2>1, <2>5 DEF ChatWriters
  <2>7. Same([f EXCEPT !.log = Append(@, e)])
    BY <1>2, <2>2 DEF ChatWriters
  <2>. QED
    BY <2>4, <2>6, <2>7
<1>4. Append(v.out, e) \in Seq(Events)
  BY <1>3, AppendProperties DEF ChatWriters
<1>. HIDE DEF v
<1>5. LET x == [v EXCEPT !.out = Append(@, e)]
      IN  x \in ChatWriters /\ x.calls = w.calls /\ x.out = Append(w.out, e)
  BY <1>3, <1>4 DEF ChatWriters
<1>. QED
  BY <1>5 DEF WriteChunk, v

\* Chunks that name no calls.
LEMMA ChunkHolds ==
    ASSUME NEW w, NEW K, Holds(w, K), NEW e \in Events, e.kind # "tool_calls"
    PROVE  Holds(WriteChunk(w, e), K)
<1>. DEFINE v == WriteChunk(w, e)
            n == Len(w.out) + 1
<1>1. w \in ChatWriters /\ w.out \in Seq(Events)
  BY DEF Holds, ChatWriters
<1>2. v \in ChatWriters /\ v.calls = w.calls /\ v.out = Append(w.out, e)
  BY <1>1, ChunkTyped
<1>. HIDE DEF v
<1>3. /\ DOMAIN v.out = 1..n /\ v.out[n] = e /\ DOMAIN w.out = 1..n - 1 /\ n \in Nat
      /\ \A i \in 1..n - 1 : v.out[i] = w.out[i]
  BY <1>1, <1>2, AppendProperties, LenProperties
<1>. HIDE DEF n
<1>4. \A i \in DOMAIN v.out : i = n \/ i \in DOMAIN w.out
  BY <1>3
<1>5. Holds(v, K)
  BY <1>2, <1>3, <1>4 DEF Holds
<1>. QED
  BY <1>5 DEF v

LEMMA WriteRoleHolds ==
    ASSUME NEW w, NEW K, Holds(w, K)
    PROVE  Holds(WriteRole(w), K)
<1>. DEFINE e == ChatEvent("role", <<>>)
            v == WriteChunk(w, e)
<1>1. e \in Events /\ e.kind # "tool_calls"
  BY SymbolTypes DEF ChatEvent, Event, Events, Names
<1>2. Holds(v, K)
  BY <1>1, ChunkHolds
<1>3. WriteRole(w) = w \/ WriteRole(w) = [v EXCEPT !.sent_role = TRUE]
  BY DEF WriteRole
<1>. HIDE DEF v
<1>. QED
  BY <1>2, <1>3 DEF Holds, ChatWriters

LEMMA WriteTextHolds ==
    ASSUME NEW w, NEW K, Holds(w, K), NEW type \in {"content", "reasoning"}, NEW text \in Strings
    PROVE  Holds(WriteText(w, type, text), K)
<1>1. ChatEvent(type, text) \in Events /\ ChatEvent(type, text).kind # "tool_calls"
  BY DEF ChatEvent, Event, Events, Names
<1>. QED
  BY <1>1, WriteRoleHolds, ChunkHolds DEF WriteText

LEMMA SaveAndTakeHolds ==
    ASSUME NEW w, NEW K, Holds(w, K), NEW key \in Calls \cup Images, NEW image \in BOOLEAN,
           NEW sig \in Sigs \cup {None}
    PROVE  Holds(SaveAndTakeReasoning(w, key, image, sig), K)
<1>. DEFINE save == SignatureSave(key, image, sig, w.thought)
            l == Append(w.saves, save)
<1>1. SaveAndTakeReasoning(w, key, image, sig) =
        IF sig = None THEN w ELSE [w EXCEPT !.saves = l, !.thought = <<>>]
  BY DEF SaveAndTakeReasoning
<1>2. sig # None => l \in Seq(SignatureSaves)
  <2>1. sig # None => save \in SignatureSaves
    BY DEF Holds, ChatWriters, SignatureSave, SignatureSaves
  <2>. HIDE DEF save
  <2>. QED
    BY <2>1, AppendProperties DEF Holds, ChatWriters
<1>. HIDE DEF l
<1>. QED
  BY <1>1, <1>2, SymbolTypes DEF Holds, ChatWriters

LEMMA ChatCallHolds ==
    ASSUME NEW w, NEW K, Holds(w, K), NEW p \in GivenParts, p.call \in Calls \ K
    PROVE  Holds(ChatCall(w, p), K \cup {p.call})
<1>. DEFINE pending == w.signing /\ w.sig # None
            sig == IF pending THEN w.sig ELSE p.sig
            v == SaveAndTakeReasoning(w, p.call, FALSE, sig)
            held == IF pending THEN None ELSE v.sig
            calls == Append(v.calls, p.call)
<1>1. sig \in Sigs \cup {None}
  BY DEF Holds, ChatWriters, GivenParts
<1>2. ChatCall(w, p) = [v EXCEPT !.sig = held, !.calls = calls]
  BY DEF ChatCall
<1>. HIDE DEF sig
<1>3. Holds(v, K)
  BY <1>1, SaveAndTakeHolds
<1>. HIDE DEF v, pending
<1>4. held \in Sigs \cup {None}
  BY <1>3 DEF Holds, ChatWriters
<1>5. Each(calls, K \cup {p.call}) /\ calls \in Seq(Calls)
  <2>1. Each(calls, K \cup {p.call})
    BY <1>3, EachMore DEF Holds
  <2>. QED
    BY <2>1 DEF Each
<1>. HIDE DEF held, calls
<1>. QED
  BY <1>2, <1>3, <1>4, <1>5 DEF Holds, ChatWriters

\* A part whose call, if it has one, was not told yet.
LEMMA ChatPartHolds ==
    ASSUME NEW w, NEW K, Holds(w, K), NEW p \in GivenParts, p.call \notin K
    PROVE  Holds(ChatPart(w, p), K \cup ({p.call} \ {None}))
<1>. DEFINE L == K \cup ({p.call} \ {None})
<1>1. p.text \in Strings /\ p.call \in Calls \cup {None} /\ p.sig \in Sigs \cup {None} /\ p.image \in Images \cup {None}
  BY DEF GivenParts
<1>2. \A u : Holds(u, K) => Holds(u, L)
  BY DEF Holds, Each
<1>3. Holds(ChatThought(w, p), K)
  <2>. DEFINE held == IF w.signing /\ p.sig # None THEN p.sig ELSE w.sig
              t == w.thought \o p.text
              v == [w EXCEPT !.sig = held, !.thought = t]
  <2>1. held \in Sigs \cup {None} /\ t \in Strings
    BY <1>1, WriterBasics DEF Holds, ChatWriters
  <2>2. ChatThought(w, p) = WriteText(v, "reasoning", p.text)
    BY DEF ChatThought
  <2>. HIDE DEF held, t
  <2>3. Holds(v, K)
    BY <2>1 DEF Holds, ChatWriters
  <2>. HIDE DEF v
  <2>. QED
    BY <1>1, <2>2, <2>3, WriteTextHolds
<1>4. Holds(WriteText(w, "content", p.text), K)
  BY <1>1, WriteTextHolds
<1>5. ASSUME p.image # None
      PROVE  Holds(WriteText(SaveAndTakeReasoning(w, p.image, TRUE, p.sig), "content", <<p.image>>), K)
  <2>1. p.image \in Images /\ <<p.image>> \in Strings
    BY <1>1, <1>5, SymbolTypes
  <2>2. Holds(SaveAndTakeReasoning(w, p.image, TRUE, p.sig), K)
    BY <1>1, <2>1, SaveAndTakeHolds
  <2>. QED
    BY <2>1, <2>2, WriteTextHolds
<1>6. ASSUME p.call # None PROVE Holds(ChatCall(w, p), L)
  <2>1. p.call \in Calls \ K /\ L = K \cup {p.call}
    BY <1>1, <1>6
  <2>. QED
    BY <2>1, ChatCallHolds
<1>. HIDE DEF L
<1>7. Holds(ChatPart(w, p), L)
  BY <1>2, <1>3, <1>4, <1>5, <1>6 DEF ChatPart
<1>. QED
  BY <1>7 DEF L

LEMMA FlushedMore ==
    ASSUME NEW out, NEW K, Flushed(out, K), NEW e \in Events, e.kind # "tool_calls"
    PROVE  Flushed(Append(out, e), K)
<1>. DEFINE new == Append(out, e)
            n == Len(out) + 1
<1>1. out \in Seq(Events)
  BY DEF Flushed
<1>2. /\ new \in Seq(Events) /\ DOMAIN new = 1..n /\ new[n] = e /\ DOMAIN out = 1..n - 1 /\ n \in Nat
      /\ \A i \in 1..n - 1 : new[i] = out[i]
  BY <1>1, AppendProperties, LenProperties
<1>. HIDE DEF new, n
<1>3. \A i \in DOMAIN new : i = n \/ i \in DOMAIN out
  BY <1>2
<1>. QED
  BY <1>2, <1>3 DEF Flushed, new

LEMMA CallsFlushed ==
    ASSUME NEW w, NEW K, Holds(w, K)
    PROVE  FlushToolCalls(w) \in ChatWriters /\ Flushed(FlushToolCalls(w).out, K)
<1>. DEFINE u == WriteRole(w)
            e == ChatEvent("tool_calls", w.calls)
            v == WriteChunk(u, e)
            n == Len(u.out) + 1
<1>1. w \in ChatWriters /\ w.out \in Seq(Events) /\ Each(w.calls, K) /\ Flushed(w.out, K)
  BY DEF Holds, ChatWriters, Flushed
<1>2. Holds(u, K) /\ u \in ChatWriters /\ u.out \in Seq(Events)
  <2>1. Holds(u, K)
    BY WriteRoleHolds
  <2>. HIDE DEF u
  <2>. QED
    BY <2>1 DEF Holds, ChatWriters
<1>3. e \in Events /\ e.text = w.calls
  <2>1. Calls \subseteq Symbols
    BY DEF Symbols
  <2>2. w.calls \in Seq(Calls) /\ DOMAIN w.calls = 1..Len(w.calls) /\ Len(w.calls) \in Nat
        /\ \A i \in DOMAIN w.calls : w.calls[i] \in Calls
    BY <1>1, LenProperties, ElementOfSeq DEF Each
  <2>3. w.calls \in Strings
    BY <2>1, <2>2, SeqDef DEF Strings
  <2>. QED
    BY <2>3 DEF ChatEvent, Event, Events, Names
<1>4. FlushToolCalls(w) = IF w.calls = <<>> THEN w ELSE [v EXCEPT !.calls = <<>>]
  BY DEF FlushToolCalls
<1>. HIDE DEF u, e
<1>5. v \in ChatWriters /\ v.out = Append(u.out, e)
  BY <1>2, <1>3, ChunkTyped
<1>. HIDE DEF v
<1>6. /\ v.out \in Seq(Events) /\ DOMAIN v.out = 1..n /\ v.out[n] = e /\ DOMAIN u.out = 1..n - 1 /\ n \in Nat
      /\ \A i \in 1..n - 1 : v.out[i] = u.out[i]
  BY <1>2, <1>3, <1>5, AppendProperties, LenProperties
<1>. HIDE DEF n
<1>7. \A i \in DOMAIN v.out : i = n \/ (i \in DOMAIN u.out /\ v.out[i].kind # "tool_calls")
  BY <1>2, <1>6 DEF Holds
<1>8. Flushed(v.out, K)
  BY <1>1, <1>3, <1>6, <1>7 DEF Flushed
<1>9. [v EXCEPT !.calls = <<>>] \in ChatWriters /\ [v EXCEPT !.calls = <<>>].out = v.out
  <2>1. v \in ChatWriters /\ <<>> \in Seq(Calls)
    BY <1>5
  <2>. QED
    BY <2>1 DEF ChatWriters
<1>. QED
  BY <1>1, <1>4, <1>8, <1>9

LEMMA ChatFinishFlushed ==
    ASSUME NEW w \in ChatWriters, NEW K, Flushed(w.out, K)
    PROVE  /\ Flushed(ChatFinish(w, "STOP").out, K)
           /\ ChatFinish(w, "STOP").saves \in Seq(SignatureSaves)
<1>. DEFINE e0 == ChatEvent("role", <<>>)
            e1 == Event("finish", 0, "STOP", <<>>)
            e2 == ChatEvent("[DONE]", <<>>)
            u == WriteRole(w)
            u0 == WriteChunk(w, e0)
            v == WriteChunk(u, e1)
<1>1. /\ e0 \in Events /\ e0.kind # "tool_calls" /\ e1 \in Events /\ e1.kind # "tool_calls"
      /\ e2 \in Events /\ e2.kind # "tool_calls"
  BY SymbolTypes DEF ChatEvent, Event, Events, Names
<1>2. u = w \/ u = [u0 EXCEPT !.sent_role = TRUE]
  BY DEF WriteRole
<1>3. ChatFinish(w, "STOP") = [v EXCEPT !.out = Append(@, e2)]
  BY DEF ChatFinish
<1>. HIDE DEF e0, e1, e2, u
<1>4. u0 \in ChatWriters /\ Flushed(u0.out, K)
  <2>1. u0 \in ChatWriters /\ u0.out = Append(w.out, e0)
    BY <1>1, ChunkTyped
  <2>. QED
    BY <1>1, <2>1, FlushedMore
<1>. HIDE DEF u0
<1>5. u \in ChatWriters /\ Flushed(u.out, K)
  BY <1>2, <1>4 DEF ChatWriters
<1>6. v \in ChatWriters /\ Flushed(v.out, K)
  <2>1. v \in ChatWriters /\ v.out = Append(u.out, e1)
    BY <1>1, <1>5, ChunkTyped
  <2>. QED
    BY <1>1, <1>5, <2>1, FlushedMore
<1>. HIDE DEF v
<1>7. Flushed(Append(v.out, e2), K) /\ v.saves \in Seq(SignatureSaves)
  BY <1>1, <1>6, FlushedMore DEF ChatWriters
<1>8. [v EXCEPT !.out = Append(@, e2)].out = Append(v.out, e2) /\ [v EXCEPT !.out = Append(@, e2)].saves = v.saves
  BY <1>6 DEF ChatWriters
<1>. QED
  BY <1>3, <1>7, <1>8

-----------------------------------------------------------------------------
(* A whole answer, whose parts name no call twice.                          *)

Distinct(parts) == \A j, l \in DOMAIN parts : parts[j].call # None /\ parts[j].call = parts[l].call => j = l
Named(parts, k) == {parts[j].call : j \in 1..k} \ {None}

LEMMA PartTypes ==
    ASSUME NEW parts \in Seq(GivenParts)
    PROVE  /\ Len(parts) \in Nat /\ DOMAIN parts = 1..Len(parts)
           /\ \A k \in 1..Len(parts) : parts[k] \in GivenParts /\ parts[k].call \in Calls \cup {None}
           /\ Named(parts, Len(parts)) \subseteq Calls
<1>1. /\ Len(parts) \in Nat /\ DOMAIN parts = 1..Len(parts)
      /\ \A k \in 1..Len(parts) : parts[k] \in GivenParts
  BY LenProperties, ElementOfSeq
<1>2. \A p \in GivenParts : p.call \in Calls \cup {None}
  BY DEF GivenParts
<1>3. \A k \in 1..Len(parts) : parts[k].call \in Calls \cup {None}
  BY <1>1, <1>2
<1>. QED
  BY <1>1, <1>3 DEF Named

LEMMA NamedNext ==
    ASSUME NEW parts \in Seq(GivenParts), Distinct(parts), NEW k \in 1..Len(parts)
    PROVE  /\ parts[k].call \notin Named(parts, k - 1)
           /\ Named(parts, k) = Named(parts, k - 1) \cup ({parts[k].call} \ {None})
<1>1. k \in Nat /\ Len(parts) \in Nat /\ DOMAIN parts = 1..Len(parts)
  BY PartTypes
<1>2. \A j \in 1..k - 1 : j \in DOMAIN parts /\ j # k
  BY <1>1
<1>3. \A j \in 1..k : j \in 1..k - 1 \/ j = k
  BY <1>1
<1>4. \A j \in 1..k - 1 : j \in 1..k
  BY <1>1
<1>5. k \in 1..k /\ k \in DOMAIN parts
  BY <1>1
<1>6. \A i, id : id \in Named(parts, i) <=> id # None /\ \E j \in 1..i : parts[j].call = id
  BY DEF Named
<1>7. parts[k].call \notin Named(parts, k - 1)
  BY <1>2, <1>5, <1>6 DEF Distinct
<1>8. ASSUME NEW id
      PROVE  id \in Named(parts, k) <=> id \in Named(parts, k - 1) \/ (id = parts[k].call /\ id # None)
  BY <1>3, <1>4, <1>5, <1>6
<1>. QED
  BY <1>7, <1>8

LEMMA NothingNamed == \A parts : Named(parts, 0) = {}
<1>1. 1..0 = {}
  OBVIOUS
<1>. QED
  BY <1>1 DEF Named

\* The Claude writer tells each call once.
LEMMA AnswerTold ==
    ASSUME NEW parts \in Seq(GivenParts), Distinct(parts), NEW signing \in BOOLEAN,
           NEW stop_reason \in {"tool_use", "end_turn"}
    PROVE  Tells(ClaudeFinish(ClaudeWriting(parts, signing), stop_reason), Named(parts, Len(parts)))
<1>. DEFINE n == Len(parts)
<1>1. n \in Nat /\ DOMAIN parts = 1..n /\ \A k \in 1..n : parts[k] \in GivenParts
  BY PartTypes
<1>2. PICK run : /\ run[0] = NewClaudeWriter(signing)
                 /\ \A k \in 1..n : run[k] = ClaudePart(run[k - 1], parts[k])
                 /\ ClaudeWriting(parts, signing) = run[n]
  BY <1>1, ClaudeWritingRun
<1>. HIDE DEF n
<1>. DEFINE Good(k) == Tells(run[k], Named(parts, k))
            S == {k \in 0..n : Good(k)}
<1>3. 0 \in S
  <2>1. NewClaudeWriter(signing) \in ClaudeWriters /\ NewClaudeWriter(signing).out = <<>>
    <3>1. NoBlock \in OpenBlocks /\ NoPending \in Pendings /\ <<>> \in Strings
          /\ <<>> \in Seq(Events) /\ <<>> \in Seq(SignatureSaves)
      BY WriterBasics DEF NoBlock, OpenBlocks
    <3>. QED
      BY <3>1 DEF NewClaudeWriter, ClaudeWriters
  <2>2. Told(<<>>, {})
    BY DEF Told
  <2>3. Tells(run[0], {})
    BY <1>2, <2>1, <2>2 DEF Tells
  <2>4. Good(0)
    BY <2>3, NothingNamed
  <2>5. 0 \in 0..n
    BY <1>1
  <2>. QED
    BY <2>4, <2>5
<1>4. ASSUME NEW k \in 1..n, k - 1 \in S PROVE k \in S
  <2>1. Tells(run[k - 1], Named(parts, k - 1)) /\ parts[k] \in GivenParts /\ run[k] = ClaudePart(run[k - 1], parts[k])
    BY <1>1, <1>2, <1>4
  <2>2. /\ parts[k].call \notin Named(parts, k - 1)
        /\ Named(parts, k) = Named(parts, k - 1) \cup ({parts[k].call} \ {None})
    BY NamedNext DEF n
  <2>3. Tells(run[k], Named(parts, k - 1) \cup ({parts[k].call} \ {None}))
    BY <2>1, <2>2, ClaudePartTells
  <2>4. Good(k) /\ k \in 0..n
    BY <1>1, <2>2, <2>3
  <2>. QED
    BY <2>4
<1>. HIDE DEF S
<1>5. n \in S
  BY <1>1, <1>3, <1>4, Upwards
<1>6. Tells(ClaudeWriting(parts, signing), Named(parts, n))
  BY <1>2, <1>5 DEF S
<1>. QED
  BY <1>6, ClaudeFinishTells DEF n

\* The OpenAI writer names each call once.
LEMMA AnswerHeld ==
    ASSUME NEW parts \in Seq(GivenParts), Distinct(parts), NEW signing \in BOOLEAN
    PROVE  LET w == FlushToolCalls(ChatWriting(parts, signing)) IN
           /\ w \in ChatWriters /\ Flushed(w.out, Named(parts, Len(parts)))
<1>. DEFINE n == Len(parts)
<1>1. n \in Nat /\ DOMAIN parts = 1..n /\ \A k \in 1..n : parts[k] \in GivenParts
  BY PartTypes
<1>2. PICK run : /\ run[0] = NewChatWriter(signing)
                 /\ \A k \in 1..n : run[k] = ChatPart(run[k - 1], parts[k])
                 /\ ChatWriting(parts, signing) = run[n]
  BY <1>1, ChatWritingRun
<1>. HIDE DEF n
<1>. DEFINE Good(k) == Holds(run[k], Named(parts, k))
            S == {k \in 0..n : Good(k)}
<1>3. 0 \in S
  <2>1. NewChatWriter(signing) \in ChatWriters /\ NewChatWriter(signing).out = <<>> /\ NewChatWriter(signing).calls = <<>>
    <3>1. NoPending \in Pendings /\ <<>> \in Strings /\ <<>> \in Seq(Calls)
          /\ <<>> \in Seq(Events) /\ <<>> \in Seq(SignatureSaves)
      BY WriterBasics
    <3>. QED
      BY <3>1 DEF NewChatWriter, ChatWriters
  <2>2. Each(<<>>, {})
    BY DEF Each
  <2>3. Holds(run[0], {})
    BY <1>2, <2>1, <2>2 DEF Holds
  <2>4. Good(0)
    BY <2>3, NothingNamed
  <2>5. 0 \in 0..n
    BY <1>1
  <2>. QED
    BY <2>4, <2>5
<1>4. ASSUME NEW k \in 1..n, k - 1 \in S PROVE k \in S
  <2>1. Holds(run[k - 1], Named(parts, k - 1)) /\ parts[k] \in GivenParts /\ run[k] = ChatPart(run[k - 1], parts[k])
    BY <1>1, <1>2, <1>4
  <2>2. /\ parts[k].call \notin Named(parts, k - 1)
        /\ Named(parts, k) = Named(parts, k - 1) \cup ({parts[k].call} \ {None})
    BY NamedNext DEF n
  <2>3. Holds(run[k], Named(parts, k - 1) \cup ({parts[k].call} \ {None}))
    BY <2>1, <2>2, ChatPartHolds
  <2>4. Good(k) /\ k \in 0..n
    BY <1>1, <2>2, <2>3
  <2>. QED
    BY <2>4
<1>. HIDE DEF S
<1>5. n \in S
  BY <1>1, <1>3, <1>4, Upwards
<1>6. Holds(ChatWriting(parts, signing), Named(parts, n))
  BY <1>2, <1>5 DEF S
<1>. QED
  BY <1>6, CallsFlushed DEF n

\* Merging parts loses no more than calls.
LEMMA PartAdded ==
    ASSUME NEW acc \in Seq(GivenParts), Distinct(acc), NEW K,
           \A i \in DOMAIN acc : acc[i].call \in K \cup {None},
           NEW p \in GivenParts, p.call \notin K
    PROVE  LET new == AddPart(acc, p) IN
           /\ new \in Seq(GivenParts) /\ Distinct(new)
           /\ \A i \in DOMAIN new : new[i].call \in K \cup ({p.call} \ {None}) \cup {None}
<1>. DEFINE n == Len(acc)
            L == K \cup ({p.call} \ {None})
            new == AddPart(acc, p)
<1>1. n \in Nat /\ DOMAIN acc = 1..n /\ \A i \in 1..n : acc[i] \in GivenParts
  BY PartTypes
<1>2. CASE Joining(acc, p)
  <2>. DEFINE t == acc[n].text \o p.text
              g == IF p.sig = None THEN acc[n].sig ELSE p.sig
              q == [acc[n] EXCEPT !.text = t, !.sig = g]
  <2>1. n \in 1..n
    BY <1>1, <1>2 DEF Joining
  <2>2. acc[n].text \in Strings /\ p.text \in Strings /\ g \in Sigs \cup {None} /\ acc[n] \in GivenParts
    <3>1. acc[n] \in GivenParts
      BY <1>1, <2>1
    <3>. HIDE DEF n
    <3>. QED
      BY <3>1 DEF GivenParts
  <2>3. t \in Strings
    BY <2>2, WriterBasics
  <2>4. new = [acc EXCEPT ![n] = q]
    <3>1. new = [acc EXCEPT ![n] = MergedPart(acc[n], p)]
      BY <1>2 DEF AddPart
    <3>2. q = MergedPart(acc[n], p)
      BY DEF MergedPart
    <3>. QED
      BY <3>1, <3>2
  <2>. HIDE DEF t, g
  <2>5. q \in GivenParts /\ q.call = acc[n].call
    BY <2>2, <2>3 DEF GivenParts
  <2>. HIDE DEF q, new
  <2>6. new \in Seq(GivenParts)
    BY <1>1, <2>1, <2>4, <2>5, ExceptSeq
  <2>7. DOMAIN new = DOMAIN acc /\ \A i \in DOMAIN acc : new[i].call = acc[i].call
    BY <1>1, <2>1, <2>4, <2>5
  <2>8. Distinct(new) /\ \A i \in DOMAIN new : new[i].call \in L \cup {None}
    BY <2>7 DEF Distinct
  <2>. QED
    BY <2>6, <2>8 DEF new
<1>3. CASE ~Joining(acc, p)
  <2>1. new = Append(acc, p)
    BY <1>3 DEF AddPart
  <2>. HIDE DEF new
  <2>2. /\ new \in Seq(GivenParts) /\ DOMAIN new = 1..n + 1 /\ new[n + 1] = p
        /\ \A i \in 1..n : new[i] = acc[i]
    BY <1>1, <2>1, AppendProperties, LenProperties
  <2>3. \A i \in 1..n + 1 : i = n + 1 \/ i \in DOMAIN acc
    BY <1>1
  <2>. HIDE DEF n
  <2>4. \A i \in DOMAIN new : new[i].call \in L \cup {None}
    BY <1>1, <2>2, <2>3
  <2>5. Distinct(new)
    BY <1>1, <2>2, <2>3 DEF Distinct
  <2>. QED
    BY <2>2, <2>4, <2>5 DEF new
<1>. QED
  BY <1>2, <1>3

LEMMA AnswerMerged ==
    ASSUME NEW parts \in Seq(GivenParts), Distinct(parts)
    PROVE  LET new == merge_parts(parts) IN
           /\ new \in Seq(GivenParts) /\ Distinct(new)
           /\ Named(new, Len(new)) \subseteq Named(parts, Len(parts))
<1>. DEFINE n == Len(parts)
            new == merge_parts(parts)
<1>1. n \in Nat /\ DOMAIN parts = 1..n /\ \A k \in 1..n : parts[k] \in GivenParts
  BY PartTypes
<1>2. PICK run : /\ run[0] = <<>>
                 /\ \A k \in 1..n : run[k] = AddPart(run[k - 1], parts[k])
                 /\ merge_parts(parts) = run[n]
  BY <1>1, MergePartsRun
<1>. HIDE DEF n
<1>. DEFINE Good(k) == /\ run[k] \in Seq(GivenParts) /\ Distinct(run[k])
                       /\ \A i \in DOMAIN run[k] : run[k][i].call \in Named(parts, k) \cup {None}
            S == {k \in 0..n : Good(k)}
<1>3. 0 \in S
  <2>1. Good(0)
    BY <1>2 DEF Distinct
  <2>2. 0 \in 0..n
    BY <1>1
  <2>. QED
    BY <2>1, <2>2
<1>4. ASSUME NEW k \in 1..n, k - 1 \in S PROVE k \in S
  <2>. DEFINE acc == run[k - 1]
              K == Named(parts, k - 1)
  <2>1. acc \in Seq(GivenParts) /\ Distinct(acc) /\ \A i \in DOMAIN acc : acc[i].call \in K \cup {None}
    BY <1>4
  <2>2. parts[k] \in GivenParts /\ run[k] = AddPart(acc, parts[k])
    BY <1>1, <1>2
  <2>3. parts[k].call \notin K /\ Named(parts, k) = K \cup ({parts[k].call} \ {None})
    BY NamedNext DEF n
  <2>. HIDE DEF acc, K
  <2>4. /\ run[k] \in Seq(GivenParts) /\ Distinct(run[k])
        /\ \A i \in DOMAIN run[k] : run[k][i].call \in K \cup ({parts[k].call} \ {None}) \cup {None}
    BY <2>1, <2>2, <2>3, PartAdded
  <2>5. Good(k) /\ k \in 0..n
    BY <1>1, <2>3, <2>4
  <2>. HIDE DEF Good
  <2>. QED
    BY <2>5
<1>. HIDE DEF S
<1>5. n \in S
  BY <1>1, <1>3, <1>4, Upwards
<1>6. Good(n)
  BY <1>5 DEF S
<1>7. /\ new \in Seq(GivenParts) /\ Distinct(new)
      /\ \A i \in DOMAIN new : new[i].call \in Named(parts, n) \cup {None}
  BY <1>2, <1>6
<1>. HIDE DEF new
<1>8. DOMAIN new = 1..Len(new)
  BY <1>7, PartTypes
<1>9. Named(new, Len(new)) \subseteq Named(parts, n)
  BY <1>7, <1>8 DEF Named
<1>. QED
  BY <1>7, <1>9 DEF new, n

-----------------------------------------------------------------------------
(* The whole answer, as to_messages_response puts it together.              *)

\* Blocks of an assistant: the calls of K at most, each once, and no results.
Answered(blocks, K) ==
    /\ blocks \in Seq(Blocks)
    /\ \A i \in DOMAIN blocks :
          /\ blocks[i].type # "tool_result"
          /\ blocks[i].type = "tool_use" => blocks[i].id \in K
    /\ \A i, j \in DOMAIN blocks :
          blocks[i].type = "tool_use" /\ blocks[j].type = "tool_use" /\ blocks[i].id = blocks[j].id => i = j

WholeSaves == [key : Calls \cup Images, sig : Sigs, reasoning : Strings]
Replies == [thinking : Strings, text : Strings, sig : Sigs \cup {None}, calls : Seq(Blocks),
            saves : Seq(WholeSaves)]
Saves(s) ==
    /\ Len(s) \in Nat /\ DOMAIN s = 1..Len(s)
    /\ \A i \in DOMAIN s : s[i].key \in Calls \cup Images /\ s[i].sig \in Sigs /\ s[i].reasoning \in Strings

LEMMA AnsweredBehind ==
    ASSUME NEW x, Answered(x, {}), NEW y, NEW K, Answered(y, K)
    PROVE  Answered(x \o y, K)
<1>. DEFINE z == x \o y
            m == Len(x)
            n == Len(y)
<1>1. /\ z \in Seq(Blocks) /\ m \in Nat /\ n \in Nat /\ DOMAIN z = 1..m + n
      /\ \A j \in 1..m : z[j] = x[j]
      /\ \A j \in 1..n : z[m + j] = y[j]
      /\ DOMAIN x = 1..m /\ DOMAIN y = 1..n
  BY ConcatItems, LenProperties DEF Answered
<1>. HIDE DEF z, m, n
<1>2. \A i \in DOMAIN z : i \in DOMAIN x \/ \E j \in DOMAIN y : i = m + j
  <2>. SUFFICES ASSUME NEW i \in 1..m + n, i \notin 1..m PROVE i - m \in 1..n /\ i = m + (i - m)
    BY <1>1
  <2>. QED
    BY <1>1
<1>3. \A i \in DOMAIN z :
         /\ i \in DOMAIN x => z[i].type # "tool_use" /\ z[i].type # "tool_result"
         /\ \A j \in DOMAIN y : i = m + j => z[i] = y[j]
  BY <1>1 DEF Answered
<1>4. \A i \in DOMAIN z : z[i].type # "tool_result" /\ (z[i].type = "tool_use" => z[i].id \in K)
  BY <1>2, <1>3 DEF Answered
<1>5. ASSUME NEW i \in DOMAIN z, NEW k \in DOMAIN z,
             z[i].type = "tool_use" /\ z[k].type = "tool_use" /\ z[i].id = z[k].id
      PROVE  i = k
  <2>1. PICK j \in DOMAIN y : i = m + j
    BY <1>2, <1>3, <1>5
  <2>2. PICK l \in DOMAIN y : k = m + l
    BY <1>2, <1>3, <1>5
  <2>3. j = l
    BY <1>3, <1>5, <2>1, <2>2 DEF Answered
  <2>. QED
    BY <2>1, <2>2, <2>3
<1>. QED
  BY <1>1, <1>4, <1>5 DEF Answered, z

LEMMA AnsweredFirst ==
    ASSUME NEW type \in {"text", "thinking"}, NEW text \in Strings, NEW sig \in Sigs \cup {None}
    PROVE  Answered(<<>>, {}) /\ Answered(<<Block(type, text, sig, None)>>, {})
<1>. DEFINE b == Block(type, text, sig, None)
<1>1. b \in Blocks /\ b.type = type
  BY DEF Block, Blocks, BlockTypes
<1>. HIDE DEF b
<1>2. <<b>> \in Seq(Blocks) /\ DOMAIN <<b>> = {1} /\ <<b>>[1] = b
  BY <1>1
<1>3. Answered(<<b>>, {})
  BY <1>1, <1>2 DEF Answered
<1>4. Answered(<<>>, {})
  BY DEF Answered
<1>. QED
  BY <1>3, <1>4 DEF b

LEMMA CallAdded ==
    ASSUME NEW s, NEW K, Answered(s, K), NEW call \in Calls \ K
    PROVE  Answered(Append(s, Block("tool_use", <<>>, None, call)), K \cup {call})
<1>. DEFINE b == Block("tool_use", <<>>, None, call)
            t == Append(s, b)
            n == Len(s) + 1
<1>1. b \in Blocks /\ b.type = "tool_use" /\ b.id = call
  BY SymbolTypes DEF Block, Blocks, BlockTypes
<1>. HIDE DEF b
<1>2. /\ t \in Seq(Blocks) /\ DOMAIN t = 1..n /\ t[n] = b /\ DOMAIN s = 1..n - 1 /\ n \in Nat
      /\ \A i \in 1..n - 1 : t[i] = s[i]
  BY <1>1, AppendProperties, LenProperties DEF Answered
<1>. HIDE DEF t, n
<1>3. \A i \in DOMAIN t : i = n \/ i \in DOMAIN s
  BY <1>2
<1>4. \A i \in DOMAIN t : /\ t[i].type # "tool_result"
                          /\ t[i].type = "tool_use" => t[i].id \in K \cup {call}
                          /\ i \in DOMAIN s /\ t[i].type = "tool_use" => t[i].id \in K
  BY <1>1, <1>2, <1>3 DEF Answered
<1>5. ASSUME NEW i \in DOMAIN t, NEW j \in DOMAIN t,
             t[i].type = "tool_use" /\ t[j].type = "tool_use" /\ t[i].id = t[j].id
      PROVE  i = j
  <2>1. CASE i \in DOMAIN s /\ j \in DOMAIN s
    BY <1>2, <1>5, <2>1 DEF Answered
  <2>2. CASE i = n /\ j \in DOMAIN s
    BY <1>1, <1>2, <1>4, <1>5, <2>2
  <2>3. CASE j = n /\ i \in DOMAIN s
    BY <1>1, <1>2, <1>4, <1>5, <2>3
  <2>. QED
    BY <1>3, <2>1, <2>2, <2>3
<1>. QED
  BY <1>2, <1>4, <1>5 DEF Answered, t, b

\* One part more.
LEMMA ReplyPartAnswered ==
    ASSUME NEW r \in Replies, NEW K, Answered(r.calls, K), NEW p \in GivenParts, p.call \notin K, NEW claude
    PROVE  LET new == ReplyPart(r, p, claude) IN
           new \in Replies /\ Answered(new.calls, K \cup ({p.call} \ {None}))
<1>. DEFINE v == IF claude /\ p.thought /\ p.sig # None THEN [r EXCEPT !.sig = p.sig] ELSE r
            L == K \cup ({p.call} \ {None})
<1>1. /\ p.sig \in Sigs \cup {None} /\ p.call \in Calls \cup {None} /\ p.text \in Strings
  BY DEF GivenParts
<1>2. v \in Replies /\ v.calls = r.calls
  BY <1>1 DEF Replies
<1>3. Answered(v.calls, L)
  BY <1>2 DEF Answered
<1>4. v.thinking \in Strings /\ v.text \in Strings /\ v.saves \in Seq(WholeSaves) /\ v.sig \in Sigs \cup {None}
  BY <1>2 DEF Replies
<1>. HIDE DEF v
<1>5. ReplyPart(r, p, claude) =
         IF p.thought THEN [v EXCEPT !.thinking = @ \o p.text]
         ELSE IF p.text # <<>> THEN [v EXCEPT !.text = @ \o p.text]
         ELSE IF p.call # None
              THEN [v EXCEPT !.calls = Append(@, Block("tool_use", <<>>, None, p.call)),
                             !.saves = @ \o ReplySave(v, p, claude)]
         ELSE v
  BY DEF ReplyPart, v
<1>6. /\ [v EXCEPT !.thinking = @ \o p.text] \in Replies /\ [v EXCEPT !.thinking = @ \o p.text].calls = v.calls
      /\ [v EXCEPT !.text = @ \o p.text] \in Replies /\ [v EXCEPT !.text = @ \o p.text].calls = v.calls
  <2>. DEFINE s == v.thinking \o p.text
              t == v.text \o p.text
  <2>1. s \in Strings /\ t \in Strings
    BY <1>1, <1>4, WriterBasics
  <2>2. [v EXCEPT !.thinking = @ \o p.text] = [v EXCEPT !.thinking = s] /\ [v EXCEPT !.text = @ \o p.text] = [v EXCEPT !.text = t]
    OBVIOUS
  <2>. HIDE DEF s, t
  <2>3. [v EXCEPT !.thinking = s] \in Replies /\ [v EXCEPT !.text = t] \in Replies
    BY <1>2, <2>1 DEF Replies
  <2>4. [v EXCEPT !.thinking = s].calls = v.calls /\ [v EXCEPT !.text = t].calls = v.calls
    BY <1>2 DEF Replies
  <2>. QED
    BY <2>2, <2>3, <2>4
<1>7. ASSUME p.call # None
      PROVE  LET w == [v EXCEPT !.calls = Append(@, Block("tool_use", <<>>, None, p.call)),
                                !.saves = @ \o ReplySave(v, p, claude)]
             IN  w \in Replies /\ Answered(w.calls, L)
  <2>. DEFINE c == Append(v.calls, Block("tool_use", <<>>, None, p.call))
              s == v.saves \o ReplySave(v, p, claude)
              w == [v EXCEPT !.calls = c, !.saves = s]
  <2>1. p.call \in Calls \ K /\ L = K \cup {p.call}
    BY <1>1, <1>7
  <2>2. Answered(c, L)
    BY <1>2, <2>1, CallAdded
  <2>3. ReplySave(v, p, claude) \in Seq(WholeSaves)
    <3>. DEFINE sig == IF p.sig = None /\ claude THEN v.sig ELSE p.sig
                reasoning == IF Trimmed(v.thinking) THEN MissingThought ELSE v.thinking
                save == [key |-> p.call, sig |-> sig, reasoning |-> reasoning]
    <3>1. sig \in Sigs \cup {None} /\ reasoning \in Strings
      BY <1>1, <1>4, WriterBasics
    <3>2. ReplySave(v, p, claude) = IF sig = None THEN <<>> ELSE <<save>>
      BY DEF ReplySave
    <3>. HIDE DEF sig, reasoning
    <3>3. sig # None => save \in WholeSaves
      BY <2>1, <3>1 DEF WholeSaves
    <3>. HIDE DEF save
    <3>. QED
      BY <3>2, <3>3
  <2>4. s \in Seq(WholeSaves)
    BY <1>4, <2>3, ConcatProperties
  <2>5. c \in Seq(Blocks)
    BY <2>2 DEF Answered
  <2>6. w = [v EXCEPT !.calls = Append(@, Block("tool_use", <<>>, None, p.call)),
                      !.saves = @ \o ReplySave(v, p, claude)]
    OBVIOUS
  <2>. HIDE DEF c, s
  <2>7. w \in Replies /\ w.calls = c
    BY <1>2, <2>4, <2>5 DEF Replies
  <2>. HIDE DEF w, L
  <2>. QED
    BY <2>2, <2>6, <2>7
<1>. HIDE DEF L
<1>. QED
  BY <1>2, <1>3, <1>5, <1>6, <1>7 DEF L

LEMMA WholeAnswered ==
    ASSUME NEW parts \in Seq(GivenParts), Distinct(parts), NEW claude
    PROVE  LET r == to_messages_response(parts, claude) IN
           Answered(r.blocks, Named(parts, Len(parts))) /\ Saves(r.saves)
<1>. DEFINE n == Len(parts)
            r == Replying(parts, claude)
<1>1. n \in Nat /\ DOMAIN parts = 1..n /\ \A k \in 1..n : parts[k] \in GivenParts
  BY PartTypes
<1>2. PICK run : /\ run[0] = EmptyReply
                 /\ \A k \in 1..n : run[k] = ReplyPart(run[k - 1], parts[k], claude)
                 /\ r = run[n]
  BY <1>1, ReplyingRun
<1>. HIDE DEF n, r
<1>. DEFINE Good(k) == run[k] \in Replies /\ Answered(run[k].calls, Named(parts, k))
            S == {k \in 0..n : Good(k)}
<1>3. 0 \in S
  <2>1. EmptyReply \in Replies /\ EmptyReply.calls = <<>>
    BY WriterBasics DEF EmptyReply, Replies
  <2>2. Answered(<<>>, {})
    BY DEF Answered
  <2>3. Good(0)
    BY <1>2, <2>1, <2>2, NothingNamed
  <2>4. 0 \in 0..n
    BY <1>1
  <2>. QED
    BY <2>3, <2>4
<1>4. ASSUME NEW k \in 1..n, k - 1 \in S PROVE k \in S
  <2>. DEFINE q == run[k - 1]
              K == Named(parts, k - 1)
  <2>1. q \in Replies /\ Answered(q.calls, K)
    BY <1>4
  <2>2. parts[k] \in GivenParts /\ run[k] = ReplyPart(q, parts[k], claude)
    BY <1>1, <1>2
  <2>3. parts[k].call \notin K /\ Named(parts, k) = K \cup ({parts[k].call} \ {None})
    BY NamedNext DEF n
  <2>. HIDE DEF q, K
  <2>4. run[k] \in Replies /\ Answered(run[k].calls, K \cup ({parts[k].call} \ {None}))
    BY <2>1, <2>2, <2>3, ReplyPartAnswered
  <2>5. Good(k) /\ k \in 0..n
    BY <1>1, <2>3, <2>4
  <2>. HIDE DEF Good
  <2>. QED
    BY <2>5
<1>. HIDE DEF S
<1>5. n \in S
  BY <1>1, <1>3, <1>4, Upwards
<1>6. r \in Replies /\ Answered(r.calls, Named(parts, n))
  BY <1>2, <1>5 DEF S
<1>. DEFINE thinking == IF r.sig # None /\ Trimmed(r.thinking) THEN MissingThought ELSE r.thinking
            first == IF thinking = <<>> THEN <<>> ELSE <<Block("thinking", thinking, r.sig, None)>>
            second == IF r.text = <<>> THEN <<>> ELSE <<TextBlock(r.text)>>
<1>7. r.thinking \in Strings /\ r.text \in Strings /\ r.sig \in Sigs \cup {None} /\ r.saves \in Seq(WholeSaves)
  BY <1>6 DEF Replies
<1>8. thinking \in Strings
  BY <1>7, WriterBasics
<1>9. to_messages_response(parts, claude) = [blocks |-> first \o second \o r.calls, saves |-> r.saves]
  BY DEF to_messages_response, r, Replying
<1>. HIDE DEF thinking
<1>10. Answered(first, {})
  BY <1>7, <1>8, AnsweredFirst
<1>11. Answered(second, {})
  BY <1>7, AnsweredFirst, NoneAssumption DEF TextBlock
<1>. HIDE DEF first, second
<1>12. Answered(first \o second, {})
  BY <1>10, <1>11, AnsweredBehind
<1>. DEFINE both == first \o second
<1>. HIDE DEF both
<1>13. Answered(both \o r.calls, Named(parts, n))
  BY <1>6, <1>12, AnsweredBehind DEF both
<1>14. Saves(r.saves)
  <2>1. Len(r.saves) \in Nat /\ DOMAIN r.saves = 1..Len(r.saves) /\ \A i \in DOMAIN r.saves : r.saves[i] \in WholeSaves
    BY <1>7, LenProperties, ElementOfSeq
  <2>. QED
    BY <2>1 DEF Saves, WholeSaves
<1>. QED
  BY <1>9, <1>13, <1>14 DEF both, n

-----------------------------------------------------------------------------
(* The answer as a client puts it together from the stream.                 *)

OfKind(events, kind) == {i \in DOMAIN events : events[i].kind = kind}

\* What is heard of one kind of event.
LEMMA HeardParts ==
    ASSUME NEW events \in Seq(Events), NEW kind
    PROVE  \E d, e : /\ d \in Seq(Events) /\ Picks(e, d, events, OfKind(events, kind))
                     /\ Heard(events, kind) = FlattenSeq([i \in DOMAIN d |-> d[i].text])
<1>. DEFINE I == OfKind(events, kind)
            d == FlattenSeq([i \in DOMAIN events |-> IF i \in I THEN <<events[i]>> ELSE <<>>])
            c == FlattenSeq([i \in DOMAIN events |-> IF events[i].kind = kind THEN <<events[i]>> ELSE <<>>])
            deltas == Keep(events, LAMBDA e : e.kind = kind)
<1>1. deltas = c
  BY DEF Keep
<1>2. c = d
  <2>1. [i \in DOMAIN events |-> IF events[i].kind = kind THEN <<events[i]>> ELSE <<>>] =
        [i \in DOMAIN events |-> IF i \in I THEN <<events[i]>> ELSE <<>>]
    BY DEF OfKind
  <2>. QED
    BY <2>1
<1>3. Heard(events, kind) = FlattenSeq([i \in DOMAIN deltas |-> deltas[i].text])
  BY DEF Heard
<1>4. I \subseteq DOMAIN events
  BY DEF OfKind
<1>. HIDE DEF I
<1>5. d \in Seq(Events) /\ \E e : Picks(e, d, events, I)
  BY <1>4, ItemsKept
<1>. HIDE DEF c, d, deltas
<1>6. Heard(events, kind) = FlattenSeq([i \in DOMAIN d |-> d[i].text])
  BY <1>1, <1>2, <1>3
<1>. QED
  BY <1>5, <1>6 DEF I

LEMMA HeardType ==
    ASSUME NEW events \in Seq(Events), NEW kind, NEW X,
           \A i \in DOMAIN events : events[i].kind = kind => events[i].text \in Seq(X)
    PROVE  Heard(events, kind) \in Seq(X)
<1>1. PICK d, e : /\ d \in Seq(Events) /\ Picks(e, d, events, OfKind(events, kind))
                  /\ Heard(events, kind) = FlattenSeq([i \in DOMAIN d |-> d[i].text])
  BY HeardParts
<1>2. Len(d) \in Nat /\ DOMAIN d = 1..Len(d)
  BY <1>1, LenProperties
<1>3. \A i \in DOMAIN d : d[i].text \in Seq(X)
  BY <1>1 DEF Picks, OfKind
<1>. DEFINE texts == [i \in DOMAIN d |-> d[i].text]
<1>4. texts \in Seq(Seq(X))
  BY <1>2, <1>3
<1>. HIDE DEF texts
<1>5. FlattenSeq(texts) \in Seq(X)
  BY <1>4, FlattenType
<1>. QED
  BY <1>1, <1>5 DEF texts

\* All events tell strings.
LEMMA HeardString ==
    ASSUME NEW events \in Seq(Events), NEW kind
    PROVE  Heard(events, kind) \in Strings
<1>1. \A i \in DOMAIN events : events[i] \in Events
  BY ElementOfSeq, LenProperties
<1>2. \A i \in DOMAIN events : events[i].text \in Seq(Symbols)
  BY <1>1 DEF Events, Strings
<1>3. Heard(events, kind) \in Seq(Symbols)
  BY <1>2, HeardType
<1>. QED
  BY <1>3 DEF Strings

\* The chunk with the calls gives the calls.
LEMMA CallsHeard ==
    ASSUME NEW out, NEW K, Flushed(out, K)
    PROVE  Each(Heard(out, "tool_calls"), K)
<1>1. PICK d, e : /\ d \in Seq(Events) /\ Picks(e, d, out, OfKind(out, "tool_calls"))
                  /\ Heard(out, "tool_calls") = FlattenSeq([i \in DOMAIN d |-> d[i].text])
  BY HeardParts DEF Flushed
<1>. DEFINE texts == [i \in DOMAIN d |-> d[i].text]
<1>2. Len(d) \in Nat /\ DOMAIN d = 1..Len(d)
  BY <1>1, LenProperties
<1>3. \A i, j \in DOMAIN d : i = j /\ Each(d[i].text, K)
  BY <1>1 DEF Picks, OfKind, Flushed
<1>4. DOMAIN d = {} \/ DOMAIN d = {1}
  <2>1. Len(d) = 0 \/ Len(d) = 1
    <3>. SUFFICES ASSUME Len(d) > 1 PROVE FALSE
      BY <1>2
    <3>1. 1 \in DOMAIN d /\ 2 \in DOMAIN d
      BY <1>2
    <3>. QED
      BY <1>3, <3>1
  <2>. QED
    BY <1>2, <2>1
<1>5. CASE DOMAIN d = {}
  <2>1. texts = <<>>
    BY <1>5
  <2>. HIDE DEF texts
  <2>2. FlattenSeq(texts) = <<>>
    BY <2>1, FlattenEmpty
  <2>3. Each(<<>>, K)
    BY DEF Each
  <2>. QED
    BY <1>1, <2>2, <2>3 DEF texts
<1>6. CASE DOMAIN d = {1}
  <2>. DEFINE t == d[1].text
  <2>1. Each(t, K)
    BY <1>3, <1>6
  <2>2. texts = <<t>>
    BY <1>6
  <2>3. <<t>> = Append(<<>>, t) /\ t \in Seq(Calls) /\ <<>> \in Seq(Seq(Calls))
    BY <2>1 DEF Each
  <2>. HIDE DEF texts, t
  <2>4. FlattenSeq(Append(<<>>, t)) = FlattenSeq(<<>>) \o t
    BY <2>3, FlattenAppend
  <2>5. FlattenSeq(<<>>) = <<>>
    BY FlattenEmpty
  <2>6. <<>> \o t = t
    BY <2>3, ConcatEmptySeq
  <2>. QED
    BY <1>1, <2>1, <2>2, <2>3, <2>4, <2>5, <2>6 DEF texts
<1>. QED
  BY <1>4, <1>5, <1>6

\* The message a client of the chat endpoint gets.
LEMMA MessageAnswered ==
    ASSUME NEW out, NEW K, Flushed(out, K)
    PROVE  /\ MessageHeard(out) \in ChatMessages /\ MessageHeard(out).role = "assistant"
           /\ Each(MessageHeard(out).tool_calls, K) /\ MessageHeard(out).tool_call_id = None
<1>1. Heard(out, "content") \in Strings /\ Heard(out, "reasoning") \in Strings
  BY HeardString DEF Flushed
<1>2. Each(Heard(out, "tool_calls"), K)
  BY CallsHeard
<1>3. Heard(out, "tool_calls") \in Seq(Calls)
  BY <1>2 DEF Each
<1>. QED
  BY <1>1, <1>2, <1>3 DEF MessageHeard, ChatMessage, ChatMessages

OfType(events, type) == {i \in DOMAIN events : events[i].type = type}
OfBlock(events, start) ==
    {i \in DOMAIN events : events[i].type = "content_block_delta" /\ events[i].index = start.index}

\* The block a start opens.
LEMMA BlockTold ==
    ASSUME NEW out \in Seq(Events), NEW K, K \subseteq Calls, Told(out, K), NEW s \in DOMAIN out, Starts_(out[s])
    PROVE  LET b == BlockHeard(out, out[s]) IN
           /\ b \in Blocks /\ b.type = out[s].kind
           /\ b.type # "tool_result"
           /\ b.type = "tool_use" => b.id = Head(out[s].text) /\ b.id \in K
<1>. DEFINE start == out[s]
            I == OfBlock(out, start)
            own == Keep(out, LAMBDA e : e.type = "content_block_delta" /\ e.index = start.index)
            c == FlattenSeq([i \in DOMAIN out |-> IF out[i].type = "content_block_delta" /\ out[i].index = start.index
                                                  THEN <<out[i]>> ELSE <<>>])
            d == FlattenSeq([i \in DOMAIN out |-> IF i \in I THEN <<out[i]>> ELSE <<>>])
            sigs == Heard(own, "signature_delta")
            text == Heard(own, "thinking_delta") \o Heard(own, "text_delta")
            sig == IF sigs = <<>> THEN None ELSE Head(sigs)
            call == Head(start.text)
<1>1. own = c
  BY DEF Keep
<1>2. c = d
  <2>1. [i \in DOMAIN out |-> IF out[i].type = "content_block_delta" /\ out[i].index = start.index
                              THEN <<out[i]>> ELSE <<>>] =
        [i \in DOMAIN out |-> IF i \in I THEN <<out[i]>> ELSE <<>>]
    BY DEF OfBlock
  <2>. QED
    BY <2>1
<1>3. I \subseteq DOMAIN out
  BY DEF OfBlock
<1>4. start.kind \in {"thinking", "text", "tool_use"} /\ (start.kind = "tool_use" => call \in K)
  BY DEF Told, Uses
<1>5. BlockHeard(out, start) =
         IF start.kind = "tool_use" THEN Block("tool_use", <<>>, None, call) ELSE Block(start.kind, text, sig, None)
  BY DEF BlockHeard
<1>. HIDE DEF start, call, c, I
<1>6. d \in Seq(Events) /\ \E e : Picks(e, d, out, I)
  BY <1>3, ItemsKept
<1>. HIDE DEF d, own
<1>7. own \in Seq(Events) /\ \E e : Picks(e, own, out, I)
  BY <1>1, <1>2, <1>6
<1>8. PICK e : Picks(e, own, out, I)
  BY <1>7
<1>9. \A i \in DOMAIN own : own[i].kind = "signature_delta" => own[i].text \in Seq(Sigs)
  BY <1>3, <1>8 DEF Picks, Told
<1>10. sigs \in Seq(Sigs)
  BY <1>7, <1>9, HeardType
<1>11. sig \in Sigs \cup {None}
  <2>1. \A q \in Seq(Sigs) : q = <<>> \/ Head(q) \in Sigs
    BY HeadTailProperties
  <2>. QED
    BY <1>10, <2>1
<1>12. text \in Strings
  <2>1. Heard(own, "thinking_delta") \in Strings /\ Heard(own, "text_delta") \in Strings
    BY <1>7, HeardString
  <2>. QED
    BY <2>1, WriterBasics
<1>. HIDE DEF sigs, sig, text
<1>13. CASE start.kind = "tool_use"
  <2>1. BlockHeard(out, start) = Block("tool_use", <<>>, None, call)
    BY <1>5, <1>13
  <2>2. call \in K /\ call \in Calls
    BY <1>4, <1>13
  <2>. QED
    BY <1>13, <2>1, <2>2, WriterBasics DEF Block, Blocks, BlockTypes, start, call
<1>14. CASE start.kind # "tool_use"
  <2>1. BlockHeard(out, start) = Block(start.kind, text, sig, None)
    BY <1>5, <1>14
  <2>2. start.kind \in {"thinking", "text"}
    BY <1>4, <1>14
  <2>3. Block(start.kind, text, sig, None) \in Blocks
    BY <1>11, <1>12, <2>2 DEF Block, Blocks, BlockTypes
  <2>4. Block(start.kind, text, sig, None).type = start.kind
    BY DEF Block
  <2>. QED
    BY <2>1, <2>2, <2>3, <2>4 DEF start
<1>. QED
  BY <1>13, <1>14

LEMMA StreamAnswered ==
    ASSUME NEW out \in Seq(Events), NEW K, K \subseteq Calls, Told(out, K)
    PROVE  Answered(BlocksHeard(out), K)
<1>. DEFINE I == OfType(out, "content_block_start")
            starts == Keep(out, LAMBDA e : e.type = "content_block_start")
            c == FlattenSeq([i \in DOMAIN out |-> IF out[i].type = "content_block_start" THEN <<out[i]>> ELSE <<>>])
            d == FlattenSeq([i \in DOMAIN out |-> IF i \in I THEN <<out[i]>> ELSE <<>>])
            blocks == BlocksHeard(out)
<1>1. starts = c
  BY DEF Keep
<1>2. c = d
  <2>1. [i \in DOMAIN out |-> IF out[i].type = "content_block_start" THEN <<out[i]>> ELSE <<>>] =
        [i \in DOMAIN out |-> IF i \in I THEN <<out[i]>> ELSE <<>>]
    BY DEF OfType
  <2>. QED
    BY <2>1
<1>3. blocks = [i \in DOMAIN starts |-> BlockHeard(out, starts[i])]
  BY DEF BlocksHeard
<1>4. I \subseteq DOMAIN out /\ \A i \in I : Starts_(out[i])
  BY DEF OfType, Starts_
<1>. HIDE DEF I
<1>5. d \in Seq(Events) /\ \E e : Picks(e, d, out, I)
  BY <1>4, ItemsKept
<1>. HIDE DEF c, d, starts, blocks
<1>6. starts \in Seq(Events) /\ \E e : Picks(e, starts, out, I)
  BY <1>1, <1>2, <1>5
<1>7. PICK e : Picks(e, starts, out, I)
  BY <1>6
<1>8. Len(starts) \in Nat /\ DOMAIN starts = 1..Len(starts)
  BY <1>6, LenProperties
<1>9. ASSUME NEW i \in DOMAIN starts
      PROVE  /\ e[i] \in DOMAIN out /\ starts[i] = out[e[i]] /\ Starts_(out[e[i]])
             /\ blocks[i] \in Blocks /\ blocks[i].type = starts[i].kind
             /\ blocks[i].type # "tool_result"
             /\ blocks[i].type = "tool_use" => blocks[i].id = Head(starts[i].text) /\ blocks[i].id \in K
  <2>1. e[i] \in DOMAIN out /\ starts[i] = out[e[i]] /\ Starts_(out[e[i]])
    BY <1>4, <1>7 DEF Picks
  <2>2. blocks[i] = BlockHeard(out, out[e[i]])
    BY <1>3, <2>1
  <2>. DEFINE s == e[i]
              b == BlockHeard(out, out[s])
  <2>. HIDE DEF s
  <2>3. s \in DOMAIN out /\ Starts_(out[s])
    BY <2>1 DEF s
  <2>4. b \in Blocks /\ b.type = out[s].kind /\ b.type # "tool_result"
        /\ (b.type = "tool_use" => b.id = Head(out[s].text) /\ b.id \in K)
    BY <2>3, BlockTold
  <2>. QED
    BY <2>1, <2>2, <2>4 DEF s
<1>10. blocks \in Seq(Blocks) /\ DOMAIN blocks = DOMAIN starts
  <2>1. DOMAIN blocks = 1..Len(starts)
    BY <1>3, <1>8
  <2>2. \A i \in 1..Len(starts) : blocks[i] \in Blocks
    BY <1>8, <1>9
  <2>3. blocks = [i \in 1..Len(starts) |-> blocks[i]]
    BY <1>3, <1>8
  <2>4. blocks \in [1..Len(starts) -> Blocks]
    BY <2>2, <2>3
  <2>. QED
    BY <1>8, <2>1, <2>4
<1>11. ASSUME NEW i \in DOMAIN blocks, NEW j \in DOMAIN blocks,
              blocks[i].type = "tool_use" /\ blocks[j].type = "tool_use" /\ blocks[i].id = blocks[j].id
       PROVE  i = j
  <2>1. i \in DOMAIN starts /\ j \in DOMAIN starts
    BY <1>10
  <2>2. /\ e[i] \in DOMAIN out /\ e[j] \in DOMAIN out /\ Uses(out[e[i]]) /\ Uses(out[e[j]])
        /\ Head(out[e[i]].text) = Head(out[e[j]].text)
    BY <1>9, <1>11, <2>1 DEF Uses
  <2>3. e[i] = e[j]
    BY <2>2 DEF Told
  <2>. QED
    BY <1>7, <2>1, <2>3 DEF Picks
<1>. QED
  BY <1>9, <1>10, <1>11 DEF Answered, blocks

-----------------------------------------------------------------------------
(* What a client is delivered, and what is saved.                           *)

LEMMA SavesTyped ==
    ASSUME NEW s \in Seq(SignatureSaves)
    PROVE  Saves(s)
<1>1. Len(s) \in Nat /\ DOMAIN s = 1..Len(s) /\ \A i \in DOMAIN s : s[i] \in SignatureSaves
  BY LenProperties, ElementOfSeq
<1>. QED
  BY <1>1 DEF Saves, SignatureSaves

\* The last save of an id counts.
LEMMA SavedCache ==
    ASSUME NEW c, IsCache(c), NEW s, Saves(s)
    PROVE  IsCache(Saved(c, s))
<1>. DEFINE of(id) == {i \in DOMAIN s : s[i].key = id}
            entry(x) == [sig |-> x.sig, reasoning |-> x.reasoning, readable |-> TRUE]
            new == Saved(c, s)
            ids == DOMAIN c \cup {s[i].key : i \in DOMAIN s}
<1>1. new = [id \in ids |-> IF of(id) = {} THEN c[id] ELSE entry(s[Max(of(id))])]
  BY DEF Saved
<1>2. \A i \in DOMAIN s : s[i].key \in Calls \cup Images /\ entry(s[i]) \in Entries
  BY DEF Saves, Entries
<1>3. ids \subseteq Calls \cup Images
  BY <1>2 DEF IsCache
<1>4. ASSUME NEW id PROVE of(id) # {} => Max(of(id)) \in DOMAIN s
  <2>. DEFINE S == of(id)
  <2>1. S \subseteq 0..Len(s) /\ Len(s) \in Nat /\ S \subseteq DOMAIN s
    BY DEF Saves
  <2>. HIDE DEF S
  <2>2. S # {} => Max(S) \in S
    BY <2>1, Greatest
  <2>. QED
    BY <2>1, <2>2 DEF S
<1>5. \A id \in DOMAIN c \cup {s[i].key : i \in DOMAIN s} : of(id) = {} => id \in DOMAIN c
  OBVIOUS
<1>. HIDE DEF of, entry, new
<1>6. ASSUME NEW id \in ids PROVE new[id] \in Entries
  <2>1. CASE of(id) = {}
    BY <1>1, <1>5, <2>1 DEF IsCache
  <2>2. CASE of(id) # {}
    BY <1>1, <1>2, <1>4, <2>2
  <2>. QED
    BY <2>1, <2>2
<1>7. DOMAIN new = ids
  BY <1>1
<1>. HIDE DEF ids
<1>8. IsCache(new)
  BY <1>3, <1>6, <1>7 DEF IsCache
<1>. QED
  BY <1>8 DEF new

\* The message of an answer that makes calls of K at most, each once.
Message(m, K) ==
    /\ m \in ChatMessages /\ m.role = "assistant" /\ m.tool_call_id = None
    /\ Each(m.tool_calls, K)
AnswersWith(r, K) == IF Claude THEN Answered(r.blocks, K) ELSE Message(r.message, K)

LEMMA ClaudeStreams ==
    ASSUME Claude, NEW parts \in Seq(GivenParts), Distinct(parts)
    PROVE  LET w == Streamed(parts) IN
           Answered(BlocksHeard(w.out), Named(parts, Len(parts))) /\ Saves(w.saves)
<1>. DEFINE signing == is_claude(session.model)
            called == \E i \in DOMAIN parts : parts[i].call # None
            stop_reason == IF called THEN "tool_use" ELSE "end_turn"
            w == ClaudeFinish(ClaudeWriting(parts, signing), stop_reason)
            K == Named(parts, Len(parts))
<1>1. Streamed(parts) = w
  BY DEF Streamed, ClaudeWriting
<1>2. signing \in BOOLEAN /\ stop_reason \in {"tool_use", "end_turn"}
  BY DEF is_claude
<1>3. K \subseteq Calls
  BY PartTypes
<1>. HIDE DEF signing, stop_reason
<1>4. Tells(w, K)
  BY <1>2, AnswerTold
<1>. HIDE DEF w, K
<1>5. w.out \in Seq(Events) /\ w.saves \in Seq(SignatureSaves) /\ Told(w.out, K)
  BY <1>4 DEF Tells, ClaudeWriters
<1>6. Answered(BlocksHeard(w.out), K)
  BY <1>3, <1>5, StreamAnswered
<1>7. Saves(w.saves)
  BY <1>5, SavesTyped
<1>. QED
  BY <1>1, <1>6, <1>7 DEF K

LEMMA ChatStreams ==
    ASSUME ~Claude, NEW parts \in Seq(GivenParts), Distinct(parts)
    PROVE  LET w == Streamed(parts) IN
           Message(MessageHeard(w.out), Named(parts, Len(parts))) /\ Saves(w.saves)
<1>. DEFINE signing == is_claude_thinking(session.model)
            v == FlushToolCalls(ChatWriting(parts, signing))
            w == ChatFinish(v, "STOP")
            K == Named(parts, Len(parts))
<1>1. Streamed(parts) = w
  BY DEF Streamed, ChatWriting
<1>2. signing \in BOOLEAN
  BY DEF is_claude_thinking
<1>. HIDE DEF signing
<1>3. v \in ChatWriters /\ Flushed(v.out, K)
  BY <1>2, AnswerHeld
<1>. HIDE DEF v, K
<1>4. Flushed(w.out, K) /\ w.saves \in Seq(SignatureSaves)
  BY <1>3, ChatFinishFlushed
<1>. HIDE DEF w
<1>5. Message(MessageHeard(w.out), K)
  BY <1>4, MessageAnswered DEF Message
<1>6. Saves(w.saves)
  BY <1>4, SavesTyped
<1>. QED
  BY <1>1, <1>5, <1>6 DEF K

LEMMA ChatCompletes ==
    ASSUME NEW parts \in Seq(GivenParts), Distinct(parts)
    PROVE  LET c == to_chat_completion(parts) IN
           Message(c.message, Named(parts, Len(parts))) /\ Saves(c.saves)
<1>. DEFINE signing == is_claude_thinking(session.model)
            v == FlushToolCalls(ChatWriting(parts, signing))
            K == Named(parts, Len(parts))
<1>1. to_chat_completion(parts) = [message |-> MessageHeard(v.out), saves |-> v.saves]
  BY DEF to_chat_completion, ChatWriting
<1>2. signing \in BOOLEAN
  BY DEF is_claude_thinking
<1>. HIDE DEF signing
<1>3. v \in ChatWriters /\ Flushed(v.out, K)
  BY <1>2, AnswerHeld
<1>. HIDE DEF v, K
<1>4. v.saves \in Seq(SignatureSaves)
  BY <1>3 DEF ChatWriters
<1>5. Message(MessageHeard(v.out), K)
  BY <1>3, MessageAnswered DEF Message
<1>6. Saves(v.saves)
  BY <1>4, SavesTyped
<1>. QED
  BY <1>1, <1>5, <1>6 DEF K

LEMMA FewerAnswered ==
    ASSUME NEW K, NEW L, K \subseteq L
    PROVE  /\ \A blocks : Answered(blocks, K) => Answered(blocks, L)
           /\ \A m : Message(m, K) => Message(m, L)
  BY DEF Answered, Message, Each

LEMMA DeliveredAnswers ==
    ASSUME NEW parts \in Seq(GivenParts), Distinct(parts)
    PROVE  LET d == Delivered(parts) IN
           AnswersWith(d.reply, Named(parts, Len(parts))) /\ Saves(d.saves)
<1>. DEFINE d == Delivered(parts)
            K == Named(parts, Len(parts))
            w == Streamed(parts)
            merged == merge_parts(parts)
            r == to_messages_response(merged, is_claude(session.model))
            c == to_chat_completion(merged)
<1>1. d = IF Claude
          THEN IF session.streams
               THEN [reply |-> [NoReply EXCEPT !.blocks = BlocksHeard(w.out)], saves |-> w.saves]
               ELSE [reply |-> [NoReply EXCEPT !.blocks = r.blocks], saves |-> r.saves]
          ELSE IF session.streams
               THEN [reply |-> [NoReply EXCEPT !.message = MessageHeard(w.out)], saves |-> w.saves]
               ELSE [reply |-> [NoReply EXCEPT !.message = c.message], saves |-> c.saves]
  BY DEF Delivered
<1>2. merged \in Seq(GivenParts) /\ Distinct(merged) /\ Named(merged, Len(merged)) \subseteq K
  BY AnswerMerged
<1>3. CASE Claude /\ session.streams
  <2>1. Answered(BlocksHeard(w.out), K) /\ Saves(w.saves)
    BY <1>3, ClaudeStreams
  <2>. HIDE DEF w, K, d
  <2>2. d.reply.blocks = BlocksHeard(w.out) /\ d.saves = w.saves
    BY <1>1, <1>3 DEF NoReply
  <2>. QED
    BY <1>3, <2>1, <2>2 DEF AnswersWith, d, K
<1>4. CASE Claude /\ ~session.streams
  <2>. HIDE DEF merged, K
  <2>1. Answered(r.blocks, Named(merged, Len(merged))) /\ Saves(r.saves)
    BY <1>2, WholeAnswered
  <2>. HIDE DEF r, d
  <2>2. Answered(r.blocks, K)
    BY <1>2, <2>1, FewerAnswered
  <2>3. d.reply.blocks = r.blocks /\ d.saves = r.saves
    BY <1>1, <1>4 DEF NoReply
  <2>. QED
    BY <1>4, <2>1, <2>2, <2>3 DEF AnswersWith, d, K
<1>5. CASE ~Claude /\ session.streams
  <2>1. Message(MessageHeard(w.out), K) /\ Saves(w.saves)
    BY <1>5, ChatStreams
  <2>. HIDE DEF w, K, d
  <2>2. d.reply.message = MessageHeard(w.out) /\ d.saves = w.saves
    BY <1>1, <1>5 DEF NoReply
  <2>. QED
    BY <1>5, <2>1, <2>2 DEF AnswersWith, d, K
<1>6. CASE ~Claude /\ ~session.streams
  <2>. HIDE DEF merged, K
  <2>1. Message(c.message, Named(merged, Len(merged))) /\ Saves(c.saves)
    BY <1>2, ChatCompletes
  <2>. HIDE DEF c, d
  <2>2. Message(c.message, K)
    BY <1>2, <2>1, FewerAnswered
  <2>3. d.reply.message = c.message /\ d.saves = c.saves
    BY <1>1, <1>6 DEF NoReply
  <2>. QED
    BY <1>6, <2>1, <2>2, <2>3 DEF AnswersWith, d, K
<1>. QED
  BY <1>3, <1>4, <1>5, <1>6

-----------------------------------------------------------------------------
(* A history: who makes which calls and has which results.                  *)

\* The ids of the blocks of one type.
IdsOf(blocks, type) == {blocks[j].id : j \in {j \in DOMAIN blocks : blocks[j].type = type}}

CallsMade(m, claude) == IF claude THEN IdsOf(m.blocks, "tool_use") ELSE CallSet(m)
ResultsHad(m, claude) ==
    IF claude THEN IdsOf(m.blocks, "tool_result")
    ELSE IF m.role = "tool" THEN {m.tool_call_id} ELSE {}

\* A message of a client, its calls and results named once.
ChatSays(m) ==
    /\ m \in ChatMessages
    /\ \A j, l \in DOMAIN m.tool_calls : m.tool_calls[j] = m.tool_calls[l] => j = l
    /\ m.role # "assistant" => m.tool_calls = <<>>
    /\ m.role = "tool" => m.tool_call_id \in Calls
ClientSays(m, claude) ==
    IF claude THEN ClaudeSays(m, CallsMade(m, claude), ResultsHad(m, claude)) ELSE ChatSays(m)

ClientMessages(claude) == IF claude THEN ClaudeMessages ELSE ChatMessages
CallsAsked(h, claude) == UNION {CallsMade(h[k], claude) : k \in DOMAIN h}
ResultsGiven(h, claude) == UNION {ResultsHad(h[k], claude) : k \in DOMAIN h}

\* No call is made and no result given twice, and no result before its call.
Consistent(h, claude) ==
    /\ h \in Seq(ClientMessages(claude))
    /\ \A k \in 1..Len(h) : ClientSays(h[k], claude)
    /\ Scheduled([k \in 1..Len(h) |-> CallsMade(h[k], claude)],
                 [k \in 1..Len(h) |-> ResultsHad(h[k], claude)], Len(h))

LEMMA IdsHave == \A blocks, type, id :
    id \in IdsOf(blocks, type) <=> \E j \in DOMAIN blocks : blocks[j].type = type /\ blocks[j].id = id
  BY DEF IdsOf

LEMMA MadeAndHad ==
    ASSUME NEW m, NEW claude, ClientSays(m, claude)
    PROVE  CallsMade(m, claude) \subseteq Calls /\ ResultsHad(m, claude) \subseteq Calls
<1>1. CASE claude
  BY <1>1 DEF ClientSays, ClaudeSays
<1>2. CASE ~claude
  <2>1. m.tool_calls \in Seq(Calls)
    BY <1>2 DEF ClientSays, ChatSays, ChatMessages
  <2>2. \A j \in DOMAIN m.tool_calls : m.tool_calls[j] \in Calls
    BY <2>1, LenProperties, ElementOfSeq
  <2>. QED
    BY <1>2, <2>2 DEF ClientSays, ChatSays, CallsMade, ResultsHad, CallSet
<1>. QED
  BY <1>1, <1>2

LEMMA AskedBefore ==
    ASSUME NEW h, NEW claude, Consistent(h, claude)
    PROVE  /\ Before([k \in 1..Len(h) |-> CallsMade(h[k], claude)], Len(h)) = CallsAsked(h, claude)
           /\ Before([k \in 1..Len(h) |-> ResultsHad(h[k], claude)], Len(h)) = ResultsGiven(h, claude)
           /\ CallsAsked(h, claude) \subseteq Calls /\ ResultsGiven(h, claude) \subseteq Calls
<1>. DEFINE n == Len(h)
            c == [k \in 1..n |-> CallsMade(h[k], claude)]
            r == [k \in 1..n |-> ResultsHad(h[k], claude)]
<1>1. DOMAIN h = 1..n /\ \A k \in 1..n : c[k] = CallsMade(h[k], claude) /\ r[k] = ResultsHad(h[k], claude)
  BY LenProperties DEF Consistent
<1>2. \A k \in 1..n : CallsMade(h[k], claude) \subseteq Calls /\ ResultsHad(h[k], claude) \subseteq Calls
  BY MadeAndHad DEF Consistent
<1>. HIDE DEF n, c, r
<1>3. Before(c, n) = CallsAsked(h, claude) /\ Before(r, n) = ResultsGiven(h, claude)
  BY <1>1 DEF Before, CallsAsked, ResultsGiven
<1>4. CallsAsked(h, claude) \subseteq Calls /\ ResultsGiven(h, claude) \subseteq Calls
  BY <1>1, <1>2 DEF CallsAsked, ResultsGiven
<1>. QED
  BY <1>3, <1>4 DEF n, c, r

\* One message more.
LEMMA Longer ==
    ASSUME NEW h, NEW claude, Consistent(h, claude), NEW m, ClientSays(m, claude),
           CallsMade(m, claude) \cap CallsAsked(h, claude) = {},
           ResultsHad(m, claude) \cap ResultsGiven(h, claude) = {},
           ResultsHad(m, claude) \subseteq CallsAsked(h, claude)
    PROVE  /\ Consistent(Append(h, m), claude)
           /\ CallsAsked(Append(h, m), claude) = CallsAsked(h, claude) \cup CallsMade(m, claude)
           /\ ResultsGiven(Append(h, m), claude) = ResultsGiven(h, claude) \cup ResultsHad(m, claude)
<1>. DEFINE n == Len(h)
            t == Append(h, m)
            cm == CallsMade(m, claude)
            rm == ResultsHad(m, claude)
            c == [k \in 1..n |-> CallsMade(h[k], claude)]
            r == [k \in 1..n |-> ResultsHad(h[k], claude)]
            d == [k \in 1..n + 1 |-> CallsMade(t[k], claude)]
            s == [k \in 1..n + 1 |-> ResultsHad(t[k], claude)]
<1>0. m \in ClientMessages(claude)
  BY DEF ClientSays, ClaudeSays, ChatSays, ClientMessages
<1>1. /\ n \in Nat /\ DOMAIN h = 1..n /\ Len(t) = n + 1 /\ DOMAIN t = 1..n + 1
      /\ t[n + 1] = m /\ \A k \in 1..n : t[k] = h[k]
      /\ t \in Seq(ClientMessages(claude))
  BY <1>0, AppendProperties, LenProperties DEF Consistent
<1>2. \A k \in 1..n + 1 : k \in 1..n \/ k = n + 1
  BY <1>1
<1>3. n + 1 \in 1..n + 1 /\ \A k \in 1..n : k \in 1..n + 1
  BY <1>1
<1>. HIDE DEF n, t
<1>4. /\ \A k \in 1..n : c[k] = CallsMade(h[k], claude) /\ r[k] = ResultsHad(h[k], claude)
      /\ \A k \in 1..n : d[k] = c[k] /\ s[k] = r[k]
      /\ d[n + 1] = cm /\ s[n + 1] = rm
  BY <1>1, <1>3
<1>5. Scheduled(c, r, n)
  BY DEF Consistent, n
<1>6. cm \subseteq Calls /\ rm \subseteq Calls
  BY MadeAndHad
<1>. HIDE DEF c, r, d, s, cm, rm
<1>7. CallsAsked(h, claude) = UNION {c[k] : k \in 1..n} /\ ResultsGiven(h, claude) = UNION {r[k] : k \in 1..n}
  BY <1>1, <1>4 DEF CallsAsked, ResultsGiven
<1>8. \A k \in 1..n : c[k] \subseteq CallsAsked(h, claude) /\ r[k] \subseteq ResultsGiven(h, claude)
  BY <1>7
<1>9. Scheduled(d, s, n + 1)
  <2>1. ASSUME NEW k \in 1..n + 1 PROVE d[k] \subseteq Calls /\ s[k] \subseteq Before(d, k - 1)
    <3>1. CASE k \in 1..n
      <4>1. c[k] \subseteq Calls /\ r[k] \subseteq Before(c, k - 1)
        BY <1>5, <3>1 DEF Scheduled
      <4>2. \A j \in 1..k - 1 : d[j] = c[j]
        BY <1>1, <1>4, <3>1
      <4>3. Before(c, k - 1) = Before(d, k - 1)
        BY <4>2 DEF Before
      <4>. QED
        BY <1>4, <3>1, <4>1, <4>3
    <3>2. CASE k = n + 1
      <4>1. rm \subseteq UNION {c[j] : j \in 1..n}
        BY <1>7 DEF rm
      <4>2. k - 1 = n
        BY <1>1, <3>2
      <4>3. UNION {c[j] : j \in 1..n} = Before(d, n)
        BY <1>4 DEF Before
      <4>4. s[k] = rm /\ d[k] = cm
        BY <1>4, <3>2
      <4>5. Before(d, k - 1) = Before(d, n)
        BY <4>2
      <4>. QED
        BY <1>6, <4>1, <4>3, <4>4, <4>5
    <3>. QED
      BY <1>2, <3>1, <3>2
  <2>2. ASSUME NEW j \in 1..n + 1, NEW k \in 1..n + 1, j # k PROVE d[j] \cap d[k] = {} /\ s[j] \cap s[k] = {}
    <3>1. \A i \in 1..n : c[i] \cap cm = {} /\ r[i] \cap rm = {}
      BY <1>8 DEF cm, rm
    <3>2. \A i, l \in 1..n : i # l => c[i] \cap c[l] = {} /\ r[i] \cap r[l] = {}
      BY <1>5 DEF Scheduled
    <3>3. CASE j \in 1..n /\ k \in 1..n
      BY <1>4, <2>2, <3>2, <3>3
    <3>4. CASE j \in 1..n /\ k = n + 1
      BY <1>4, <3>1, <3>4
    <3>5. CASE k \in 1..n /\ j = n + 1
      <4>1. d[k] = c[k] /\ s[k] = r[k] /\ d[j] = cm /\ s[j] = rm
        BY <1>4, <3>5
      <4>2. c[k] \cap cm = {} /\ r[k] \cap rm = {}
        BY <3>1, <3>5
      <4>. QED
        BY <4>1, <4>2
    <3>. QED
      BY <1>2, <2>2, <3>3, <3>4, <3>5
  <2>. QED
    BY <2>1, <2>2 DEF Scheduled
<1>10. \A k \in 1..n + 1 : ClientSays(t[k], claude)
  BY <1>1, <1>2 DEF Consistent, n
<1>11. Consistent(t, claude)
  BY <1>1, <1>9, <1>10 DEF Consistent, d, s
<1>12. CallsAsked(t, claude) = CallsAsked(h, claude) \cup cm
  <2>1. ASSUME NEW id
        PROVE  /\ id \in CallsAsked(t, claude) <=> \E k \in 1..n + 1 : id \in CallsMade(t[k], claude)
               /\ id \in CallsAsked(h, claude) <=> \E k \in 1..n : id \in CallsMade(h[k], claude)
    BY <1>1 DEF CallsAsked
  <2>2. ASSUME NEW id PROVE id \in CallsAsked(t, claude) <=> id \in CallsAsked(h, claude) \cup cm
    BY <1>1, <1>2, <1>3, <2>1 DEF cm
  <2>. QED
    BY <2>2
<1>13. ResultsGiven(t, claude) = ResultsGiven(h, claude) \cup rm
  <2>1. ASSUME NEW id
        PROVE  /\ id \in ResultsGiven(t, claude) <=> \E k \in 1..n + 1 : id \in ResultsHad(t[k], claude)
               /\ id \in ResultsGiven(h, claude) <=> \E k \in 1..n : id \in ResultsHad(h[k], claude)
    BY <1>1 DEF ResultsGiven
  <2>2. ASSUME NEW id PROVE id \in ResultsGiven(t, claude) <=> id \in ResultsGiven(h, claude) \cup rm
    BY <1>1, <1>2, <1>3, <2>1 DEF rm
  <2>. QED
    BY <2>2
<1>. QED
  BY <1>11, <1>12, <1>13 DEF t, cm, rm

\* Such a history of a chat talks as its conversion expects.
LEMMA ConsistentTalks ==
    ASSUME NEW h, Consistent(h, FALSE)
    PROVE  Talks(h) /\ Makes(h, CallsAsked(h, FALSE)) /\ Receives(h, ResultsGiven(h, FALSE))
<1>. DEFINE n == Len(h)
            c == [k \in 1..n |-> CallsMade(h[k], FALSE)]
            r == [k \in 1..n |-> ResultsHad(h[k], FALSE)]
<1>1. h \in Seq(ChatMessages) /\ n \in Nat /\ DOMAIN h = 1..n
  BY LenProperties DEF Consistent, ClientMessages
<1>2. Scheduled(c, r, n)
  BY DEF Consistent
<1>3. \A k \in 1..n : ChatSays(h[k])
  BY DEF Consistent, ClientSays
<1>4. \A k \in 1..n : c[k] = CallSet(h[k]) /\ r[k] = IF h[k].role = "tool" THEN {h[k].tool_call_id} ELSE {}
  BY DEF CallsMade, ResultsHad
<1>. HIDE DEF n, c, r
<1>5. \A k \in 1..n : \A j \in DOMAIN h[k].tool_calls : h[k].tool_calls[j] \in c[k]
  BY <1>4 DEF CallSet
<1>6. \A k \in 1..n : \A id \in c[k] : \E j \in DOMAIN h[k].tool_calls : h[k].tool_calls[j] = id
  <2>1. \A m : \A id \in CallSet(m) : \E j \in DOMAIN m.tool_calls : m.tool_calls[j] = id
    BY DEF CallSet
  <2>2. \A k \in 1..n : c[k] = CallSet(h[k])
    BY <1>4
  <2>. QED
    BY <2>1, <2>2
<1>7. \A k \in 1..n : h[k].role = "tool" => h[k].tool_call_id \in r[k]
  BY <1>4
<1>8. \A i, k \in 1..n : i # k => c[i] \cap c[k] = {} /\ r[i] \cap r[k] = {}
  BY <1>2 DEF Scheduled
<1>9. \A i \in 1..n : h[i].role # "assistant" => h[i].tool_calls = <<>>
  BY <1>3 DEF ChatSays
<1>10. ASSUME NEW i \in 1..n, NEW k \in 1..n, NEW j \in DOMAIN h[i].tool_calls, NEW l \in DOMAIN h[k].tool_calls,
              h[i].tool_calls[j] = h[k].tool_calls[l]
       PROVE  i = k /\ j = l
  <2>1. i = k
    BY <1>5, <1>8, <1>10
  <2>. QED
    BY <1>3, <1>10, <2>1 DEF ChatSays
<1>11. \A i, k \in 1..n : h[i].role = "tool" /\ h[k].role = "tool" /\ h[i].tool_call_id = h[k].tool_call_id => i = k
  BY <1>7, <1>8
<1>12. ASSUME NEW k \in 1..n, h[k].role = "tool"
       PROVE  \E i \in 1..n : i < k /\ \E j \in DOMAIN h[i].tool_calls : h[i].tool_calls[j] = h[k].tool_call_id
  <2>1. h[k].tool_call_id \in Before(c, k - 1)
    BY <1>2, <1>7, <1>12 DEF Scheduled
  <2>2. PICK i \in 1..k - 1 : h[k].tool_call_id \in c[i]
    BY <2>1, BeforeHas
  <2>3. i \in 1..n /\ i < k
    BY <1>1
  <2>. QED
    BY <1>6, <2>2, <2>3
<1>13. Talks(h)
  BY <1>1, <1>9, <1>10, <1>11, <1>12 DEF Talks
<1>14. CallsAsked(h, FALSE) = UNION {c[k] : k \in 1..n} /\ ResultsGiven(h, FALSE) = UNION {r[k] : k \in 1..n}
  BY <1>1 DEF CallsAsked, ResultsGiven, c, r
<1>a. ASSUME NEW id
      PROVE  /\ id \in CallsAsked(h, FALSE) <=> \E k \in 1..n : id \in c[k]
             /\ id \in ResultsGiven(h, FALSE) <=> \E k \in 1..n : id \in r[k]
  BY <1>14
<1>15. Makes(h, CallsAsked(h, FALSE))
  <2>. DEFINE M == CallsAsked(h, FALSE)
  <2>1. \A id : id \in M <=> \E k \in 1..n : id \in c[k]
    BY <1>a
  <2>. HIDE DEF M
  <2>2. \A k \in 1..n : \A j \in DOMAIN h[k].tool_calls : h[k].tool_calls[j] \in M
    BY <1>5, <2>1
  <2>3. \A id \in M : \E k \in 1..n : \E j \in DOMAIN h[k].tool_calls : h[k].tool_calls[j] = id
    BY <1>6, <2>1
  <2>. QED
    BY <1>1, <2>2, <2>3 DEF Makes, M
<1>16. Receives(h, ResultsGiven(h, FALSE))
  <2>. DEFINE R == ResultsGiven(h, FALSE)
  <2>1. \A id : id \in R <=> \E k \in 1..n : id \in r[k]
    BY <1>a
  <2>2. \A k \in 1..n : \A id \in r[k] : h[k].role = "tool" /\ h[k].tool_call_id = id
    BY <1>4
  <2>. HIDE DEF R
  <2>3. \A k \in 1..n : h[k].role = "tool" => h[k].tool_call_id \in R
    BY <1>7, <2>1
  <2>4. \A id \in R : \E k \in 1..n : h[k].role = "tool" /\ h[k].tool_call_id = id
    BY <2>1, <2>2
  <2>. QED
    BY <1>1, <2>3, <2>4 DEF Receives, R
<1>. QED
  BY <1>13, <1>15, <1>16

\* Both conversions send its calls and results in pairs.
LEMMA HistoryPaired ==
    ASSUME NEW entries, IsCache(entries), NEW h, NEW claude \in BOOLEAN, Consistent(h, claude), NEW x
    PROVE  /\ claude => Paired(ClaudeContents(entries, h, x), CallsAsked(h, claude), ResultsGiven(h, claude))
           /\ ~claude => Paired(ChatContents(entries, h, x), CallsAsked(h, claude), ResultsGiven(h, claude))
<1>1. CASE claude = TRUE
  <2>. DEFINE n == Len(h)
              c == [k \in 1..n |-> CallsMade(h[k], TRUE)]
              r == [k \in 1..n |-> ResultsHad(h[k], TRUE)]
  <2>1. n \in Nat /\ DOMAIN h = 1..n
    BY <1>1, LenProperties DEF Consistent
  <2>2. Scheduled(c, r, n)
    BY <1>1 DEF Consistent
  <2>3. \A k \in 1..n : ClaudeSays(h[k], c[k], r[k])
    BY <1>1 DEF Consistent, ClientSays
  <2>4. Before(c, n) = CallsAsked(h, TRUE) /\ Before(r, n) = ResultsGiven(h, TRUE)
    BY <1>1, AskedBefore
  <2>. HIDE DEF c, r
  <2>5. Paired(ClaudeContents(entries, h, x), Before(c, n), Before(r, n))
    BY <2>1, <2>2, <2>3, ClaudePaired
  <2>. QED
    BY <1>1, <2>4, <2>5
<1>2. CASE claude = FALSE
  <2>1. Talks(h) /\ Makes(h, CallsAsked(h, FALSE)) /\ Receives(h, ResultsGiven(h, FALSE))
    BY <1>2, ConsistentTalks
  <2>. DEFINE M == CallsAsked(h, FALSE)
              R == ResultsGiven(h, FALSE)
  <2>. HIDE DEF M, R
  <2>2. Talks(h) /\ Makes(h, M) /\ Receives(h, R)
    BY <2>1 DEF M, R
  <2>3. Paired(ChatContents(entries, h, x), M, R)
    BY <2>2, ChatPaired
  <2>. QED
    BY <1>2, <2>3 DEF M, R
<1>. QED
  BY <1>1, <1>2

-----------------------------------------------------------------------------
(* The client goes on: its message makes the calls of the answer at most,   *)
(* and its results are those of the calls.                                  *)

LEMMA AssistantSays ==
    ASSUME NEW blocks, NEW K, K \subseteq Calls, Answered(blocks, K)
    PROVE  LET m == [role |-> "assistant", blocks |-> blocks] IN
           /\ ClientSays(m, TRUE) /\ m.role = "assistant"
           /\ CallsMade(m, TRUE) \subseteq K /\ ResultsHad(m, TRUE) = {}
<1>. DEFINE m == [role |-> "assistant", blocks |-> blocks]
            c == IdsOf(blocks, "tool_use")
            r == IdsOf(blocks, "tool_result")
<1>1. blocks \in Seq(Blocks)
  BY DEF Answered
<1>2. m \in ClaudeMessages /\ m.role = "assistant" /\ m.blocks = blocks
  BY <1>1 DEF ClaudeMessages
<1>. HIDE DEF m
<1>3. CallsMade(m, TRUE) = c /\ ResultsHad(m, TRUE) = r
  BY <1>2 DEF CallsMade, ResultsHad
<1>4. c \subseteq K /\ r = {}
  BY DEF IdsOf, Answered
<1>5. About(blocks, "tool_use", c) /\ About(blocks, "tool_result", r)
  <2>1. \A id : /\ id \in c <=> \E j \in DOMAIN blocks : blocks[j].type = "tool_use" /\ blocks[j].id = id
                /\ id \in r <=> \E j \in DOMAIN blocks : blocks[j].type = "tool_result" /\ blocks[j].id = id
    BY IdsHave
  <2>. HIDE DEF c, r
  <2>2. About(blocks, "tool_use", c)
    BY <2>1 DEF About, Answered
  <2>3. About(blocks, "tool_result", r)
    BY <2>1 DEF About, Answered
  <2>. QED
    BY <2>2, <2>3
<1>. HIDE DEF c, r
<1>6. ClaudeSays(m, c, r)
  BY <1>2, <1>4, <1>5 DEF ClaudeSays
<1>7. ClientSays(m, TRUE)
  BY <1>3, <1>6 DEF ClientSays
<1>. QED
  BY <1>2, <1>3, <1>4, <1>7 DEF m

LEMMA KeptBlocks ==
    ASSUME NEW b \in Blocks
    PROVE  /\ KeptBlock(b) \in Blocks
           /\ KeptBlock(b).type \in {"tool_use", "tool_result"} => KeptBlock(b) = b
<1>1. CASE b.type # "thinking"
  BY <1>1 DEF KeptBlock
<1>2. CASE b.type = "thinking"
  <2>1. [b EXCEPT !.sig = None] \in Blocks /\ [b EXCEPT !.sig = None].type = "thinking"
    BY <1>2 DEF Blocks
  <2>2. /\ Block("redacted_thinking", <<>>, None, None) \in Blocks
        /\ Block("redacted_thinking", <<>>, None, None).type = "redacted_thinking"
    BY SymbolTypes DEF Block, Blocks, BlockTypes
  <2>. QED
    BY <1>2, <2>1, <2>2 DEF KeptBlock
<1>. QED
  BY <1>1, <1>2

\* What the client keeps of the blocks of an answer.
LEMMA EchoAnswered ==
    ASSUME Claude, NEW K, Answered(reply.blocks, K)
    PROVE  \E blocks : Echo = [role |-> "assistant", blocks |-> blocks] /\ Answered(blocks, K)
<1>. DEFINE given == reply.blocks
            I == {i \in DOMAIN given : Kept(given[i])}
            kept == Keep(given, Kept)
            d == FlattenSeq([i \in DOMAIN given |-> IF i \in I THEN <<given[i]>> ELSE <<>>])
            blocks == [i \in DOMAIN kept |-> KeptBlock(kept[i])]
<1>1. kept = FlattenSeq([i \in DOMAIN given |-> IF Kept(given[i]) THEN <<given[i]>> ELSE <<>>])
  BY DEF Keep
<1>2. [i \in DOMAIN given |-> IF Kept(given[i]) THEN <<given[i]>> ELSE <<>>] =
      [i \in DOMAIN given |-> IF i \in I THEN <<given[i]>> ELSE <<>>]
  OBVIOUS
<1>3. kept = d
  BY <1>1, <1>2
<1>4. Echo = [role |-> "assistant", blocks |-> blocks]
  BY DEF Echo
<1>5. I \subseteq DOMAIN given /\ given \in Seq(Blocks)
  BY DEF Answered
<1>. HIDE DEF I, kept
<1>6. d \in Seq(Blocks) /\ \E e : Picks(e, d, given, I)
  BY <1>5, ItemsKept
<1>. HIDE DEF d
<1>7. kept \in Seq(Blocks) /\ \E e : Picks(e, kept, given, I)
  BY <1>3, <1>6
<1>8. PICK e : Picks(e, kept, given, I)
  BY <1>7
<1>9. Len(kept) \in Nat /\ DOMAIN kept = 1..Len(kept) /\ \A i \in DOMAIN kept : kept[i] \in Blocks
  BY <1>7, LenProperties, ElementOfSeq
<1>10. \A i \in DOMAIN kept : /\ blocks[i] \in Blocks
                              /\ blocks[i].type \in {"tool_use", "tool_result"} => blocks[i] = kept[i]
  BY <1>9, KeptBlocks
<1>11. blocks \in Seq(Blocks) /\ DOMAIN blocks = DOMAIN kept
  <2>1. \A i \in 1..Len(kept) : KeptBlock(kept[i]) \in Blocks
    BY <1>9, KeptBlocks
  <2>. QED
    BY <1>9, <2>1
<1>. HIDE DEF blocks, given
<1>12. \A i \in DOMAIN kept : e[i] \in DOMAIN given /\ kept[i] = given[e[i]]
  BY <1>5, <1>8 DEF Picks
<1>13. \A i \in DOMAIN blocks : /\ blocks[i].type # "tool_result"
                                /\ blocks[i].type = "tool_use" => blocks[i].id \in K
  BY <1>10, <1>11, <1>12 DEF Answered, given
<1>14. ASSUME NEW i \in DOMAIN blocks, NEW j \in DOMAIN blocks,
              blocks[i].type = "tool_use" /\ blocks[j].type = "tool_use" /\ blocks[i].id = blocks[j].id
       PROVE  i = j
  <2>1. /\ e[i] \in DOMAIN given /\ e[j] \in DOMAIN given
        /\ given[e[i]].type = "tool_use" /\ given[e[j]].type = "tool_use" /\ given[e[i]].id = given[e[j]].id
    BY <1>10, <1>11, <1>12, <1>14
  <2>2. e[i] = e[j]
    BY <2>1 DEF Answered, given
  <2>. QED
    BY <1>8, <1>11, <2>2 DEF Picks
<1>15. Answered(blocks, K)
  BY <1>11, <1>13, <1>14 DEF Answered
<1>. QED
  BY <1>4, <1>15

LEMMA EchoSays ==
    ASSUME NEW K, K \subseteq Calls, AnswersWith(reply, K)
    PROVE  /\ ClientSays(Echo, Claude) /\ Echo.role = "assistant"
           /\ CallsMade(Echo, Claude) \subseteq K /\ ResultsHad(Echo, Claude) = {}
<1>1. CASE Claude
  <2>1. PICK blocks : Echo = [role |-> "assistant", blocks |-> blocks] /\ Answered(blocks, K)
    BY <1>1, EchoAnswered DEF AnswersWith
  <2>2. /\ ClientSays(Echo, TRUE) /\ Echo.role = "assistant"
        /\ CallsMade(Echo, TRUE) \subseteq K /\ ResultsHad(Echo, TRUE) = {}
    BY <2>1, AssistantSays
  <2>. QED
    BY <1>1, <2>2 DEF ClientSays, CallsMade, ResultsHad
<1>2. CASE ~Claude
  <2>. DEFINE m == reply.message
  <2>1. Message(m, K)
    BY <1>2 DEF AnswersWith
  <2>2. Echo = m \/ Echo = [m EXCEPT !.reasoning = <<>>]
    BY <1>2 DEF Echo
  <2>. HIDE DEF m
  <2>3. m \in ChatMessages /\ <<>> \in Strings
    BY <2>1, SymbolTypes DEF Message
  <2>4. /\ Echo \in ChatMessages /\ Echo.role = m.role /\ Echo.tool_calls = m.tool_calls
    BY <2>2, <2>3 DEF ChatMessages
  <2>5. ChatSays(Echo) /\ Echo.role = "assistant" /\ \A j \in DOMAIN Echo.tool_calls : Echo.tool_calls[j] \in K
    BY <2>1, <2>4 DEF ChatSays, Message, Each
  <2>6. CallsMade(Echo, Claude) = CallSet(Echo) /\ ResultsHad(Echo, Claude) = {}
    BY <1>2, <2>5 DEF CallsMade, ResultsHad
  <2>7. CallSet(Echo) \subseteq K
    BY <2>5 DEF CallSet
  <2>. QED
    BY <1>2, <2>5, <2>6, <2>7 DEF ClientSays
<1>. QED
  BY <1>1, <1>2

\* The calls of a message in their order.
LEMMA CallsListed ==
    ASSUME NEW m, ClientSays(m, Claude)
    PROVE  /\ Each(CallsOf(m), CallsMade(m, Claude))
           /\ \A id \in CallsMade(m, Claude) : \E i \in DOMAIN CallsOf(m) : CallsOf(m)[i] = id
<1>1. CASE Claude
  <2>. DEFINE blocks == m.blocks
              I == {i \in DOMAIN blocks : blocks[i].type = "tool_use"}
              used == Keep(blocks, LAMBDA b : b.type = "tool_use")
              c == FlattenSeq([i \in DOMAIN blocks |-> IF blocks[i].type = "tool_use" THEN <<blocks[i]>> ELSE <<>>])
              d == FlattenSeq([i \in DOMAIN blocks |-> IF i \in I THEN <<blocks[i]>> ELSE <<>>])
              s == [i \in DOMAIN used |-> used[i].id]
              K == IdsOf(blocks, "tool_use")
  <2>1. used = c
    BY DEF Keep
  <2>2. [i \in DOMAIN blocks |-> IF blocks[i].type = "tool_use" THEN <<blocks[i]>> ELSE <<>>] =
        [i \in DOMAIN blocks |-> IF i \in I THEN <<blocks[i]>> ELSE <<>>]
    OBVIOUS
  <2>3. c = d
    BY <2>2
  <2>4. CallsOf(m) = s
    BY <1>1 DEF CallsOf
  <2>5. K = CallsMade(m, Claude)
    BY <1>1 DEF CallsMade
  <2>6. ClaudeSays(m, CallsMade(m, Claude), ResultsHad(m, Claude))
    BY <1>1 DEF ClientSays
  <2>7. blocks \in Seq(Blocks) /\ About(blocks, "tool_use", K) /\ K \subseteq Calls
    BY <2>5, <2>6 DEF ClaudeSays, ClaudeMessages
  <2>8. I \subseteq DOMAIN blocks /\ \A i \in I : blocks[i].type = "tool_use"
    OBVIOUS
  <2>9. \A i \in DOMAIN blocks : blocks[i].type = "tool_use" => i \in I
    OBVIOUS
  <2>. HIDE DEF blocks, I, used, c, K
  <2>10. d \in Seq(Blocks) /\ \E e : Picks(e, d, blocks, I)
    BY <2>7, <2>8, ItemsKept
  <2>. HIDE DEF d
  <2>11. used \in Seq(Blocks) /\ \E e : Picks(e, used, blocks, I)
    BY <2>1, <2>3, <2>10
  <2>12. PICK e : Picks(e, used, blocks, I)
    BY <2>11
  <2>13. Len(used) \in Nat /\ DOMAIN used = 1..Len(used)
    BY <2>11, LenProperties
  <2>14. \A i \in DOMAIN used : e[i] \in DOMAIN blocks /\ used[i] = blocks[e[i]] /\ blocks[e[i]].type = "tool_use"
    BY <2>8, <2>12 DEF Picks
  <2>15. \A i \in DOMAIN used : used[i].id \in K
    BY <2>7, <2>14 DEF About
  <2>16. s \in Seq(Calls) /\ DOMAIN s = DOMAIN used /\ \A i \in DOMAIN s : s[i] = used[i].id
    BY <2>7, <2>13, <2>15
  <2>. HIDE DEF s
  <2>17. ASSUME NEW i \in DOMAIN s, NEW j \in DOMAIN s, s[i] = s[j] PROVE i = j
    <3>1. e[i] = e[j]
      BY <2>7, <2>14, <2>16, <2>17 DEF About
    <3>. QED
      BY <2>12, <2>16, <3>1 DEF Picks
  <2>18. Each(s, K)
    BY <2>15, <2>16, <2>17 DEF Each
  <2>19. ASSUME NEW id \in K PROVE \E i \in DOMAIN s : s[i] = id
    <3>1. PICK j \in DOMAIN blocks : blocks[j].type = "tool_use" /\ blocks[j].id = id
      BY <2>7 DEF About
    <3>2. PICK i \in DOMAIN used : e[i] = j
      BY <2>9, <2>12, <3>1 DEF Picks
    <3>. QED
      BY <2>14, <2>16, <3>1, <3>2
  <2>. QED
    BY <2>4, <2>5, <2>18, <2>19
<1>2. CASE ~Claude
  <2>1. CallsOf(m) = m.tool_calls /\ CallsMade(m, Claude) = CallSet(m)
    BY <1>2 DEF CallsOf, CallsMade
  <2>2. m.tool_calls \in Seq(Calls) /\ \A j, l \in DOMAIN m.tool_calls : m.tool_calls[j] = m.tool_calls[l] => j = l
    BY <1>2 DEF ClientSays, ChatSays, ChatMessages
  <2>3. \A id : id \in CallSet(m) <=> \E j \in DOMAIN m.tool_calls : m.tool_calls[j] = id
    BY DEF CallSet
  <2>. QED
    BY <2>1, <2>2, <2>3 DEF Each
<1>. QED
  BY <1>1, <1>2

LEMMA UserSaysNothing ==
    ASSUME NEW text \in Strings
    PROVE  /\ ClientSays(UserSays(text), Claude)
           /\ CallsMade(UserSays(text), Claude) = {} /\ ResultsHad(UserSays(text), Claude) = {}
<1>1. CASE Claude
  <2>. DEFINE b == TextBlock(text)
              m == [role |-> "user", blocks |-> <<b>>]
  <2>1. b \in Blocks /\ b.type = "text"
    BY DEF TextBlock, Block, Blocks, BlockTypes
  <2>. HIDE DEF b
  <2>2. m \in ClaudeMessages /\ m.role = "user" /\ m.blocks = <<b>> /\ DOMAIN m.blocks = {1} /\ m.blocks[1] = b
    BY <2>1 DEF ClaudeMessages
  <2>3. UserSays(text) = m
    BY <1>1 DEF UserSays, b
  <2>. HIDE DEF m
  <2>4. IdsOf(m.blocks, "tool_use") = {} /\ IdsOf(m.blocks, "tool_result") = {}
    BY <2>1, <2>2 DEF IdsOf
  <2>5. CallsMade(m, Claude) = {} /\ ResultsHad(m, Claude) = {}
    BY <1>1, <2>4 DEF CallsMade, ResultsHad
  <2>6. About(m.blocks, "tool_use", {}) /\ About(m.blocks, "tool_result", {})
    BY <2>1, <2>2 DEF About
  <2>7. ClaudeSays(m, {}, {})
    BY <2>2, <2>6 DEF ClaudeSays
  <2>. QED
    BY <1>1, <2>3, <2>5, <2>7 DEF ClientSays
<1>2. CASE ~Claude
  <2>1. UserSays(text) = ChatMessage("user", text, <<>>, <<>>, None)
    BY <1>2 DEF UserSays, UserMessage
  <2>2. <<>> \in Strings /\ <<>> \in Seq(Calls)
    BY SymbolTypes
  <2>3. ChatSays(ChatMessage("user", text, <<>>, <<>>, None))
    BY <2>2 DEF ChatSays, ChatMessage, ChatMessages
  <2>4. CallsMade(UserSays(text), Claude) = {} /\ ResultsHad(UserSays(text), Claude) = {}
    BY <1>2, <2>1 DEF CallsMade, ResultsHad, CallSet, ChatMessage
  <2>. QED
    BY <1>2, <2>1, <2>3, <2>4 DEF ClientSays
<1>. QED
  BY <1>1, <1>2

\* A Claude client sends all results in one message.
LEMMA ResultsTogether ==
    ASSUME NEW K, K \subseteq Calls, NEW s, Each(s, K), \A id \in K : \E i \in DOMAIN s : s[i] = id
    PROVE  LET m == [role |-> "user", blocks |-> [i \in DOMAIN s |-> Result(s[i])]] IN
           ClientSays(m, TRUE) /\ CallsMade(m, TRUE) = {} /\ ResultsHad(m, TRUE) = K
<1>. DEFINE blocks == [i \in DOMAIN s |-> Result(s[i])]
            m == [role |-> "user", blocks |-> blocks]
<1>1. Len(s) \in Nat /\ DOMAIN s = 1..Len(s) /\ \A i \in DOMAIN s : s[i] \in K /\ s[i] \in Calls
  BY LenProperties DEF Each
<1>2. \A id \in Calls : Result(id) \in Blocks /\ Result(id).type = "tool_result" /\ Result(id).id = id
  BY SymbolTypes DEF Result, Block, Blocks, BlockTypes
<1>3. blocks \in Seq(Blocks)
  BY <1>1, <1>2
<1>4. DOMAIN blocks = DOMAIN s /\ \A i \in DOMAIN s : blocks[i].type = "tool_result" /\ blocks[i].id = s[i]
  BY <1>1, <1>2
<1>. HIDE DEF blocks
<1>5. m \in ClaudeMessages /\ m.role = "user" /\ m.blocks = blocks
  BY <1>3 DEF ClaudeMessages
<1>. HIDE DEF m
<1>6. About(blocks, "tool_use", {})
  BY <1>4 DEF About
<1>7. About(blocks, "tool_result", K)
  BY <1>1, <1>4 DEF About, Each
<1>8. CallsMade(m, TRUE) = {} /\ ResultsHad(m, TRUE) = K
  <2>1. IdsOf(blocks, "tool_use") = {}
    BY <1>4 DEF IdsOf
  <2>2. \A id : id \in IdsOf(blocks, "tool_result") <=> id \in K
    BY <1>1, <1>4, IdsHave
  <2>. QED
    BY <1>5, <2>1, <2>2 DEF CallsMade, ResultsHad
<1>9. ClaudeSays(m, {}, K)
  BY <1>5, <1>6, <1>7 DEF ClaudeSays
<1>. QED
  BY <1>8, <1>9 DEF ClientSays, m, blocks

\* A client of the chat endpoint sends a message for each result.
LEMMA ResultsOneByOne ==
    ASSUME NEW h, Consistent(h, FALSE), NEW K, K \subseteq CallsAsked(h, FALSE), K \cap ResultsGiven(h, FALSE) = {},
           NEW s, Each(s, K), \A id \in K : \E i \in DOMAIN s : s[i] = id
    PROVE  LET t == h \o [i \in DOMAIN s |-> ToolMessage(s[i])] IN
           /\ Consistent(t, FALSE) /\ CallsAsked(t, FALSE) = CallsAsked(h, FALSE)
           /\ ResultsGiven(t, FALSE) = ResultsGiven(h, FALSE) \cup K
<1>. DEFINE n == Len(s)
            x == [i \in DOMAIN s |-> ToolMessage(s[i])]
            A == CallsAsked(h, FALSE)
            R == ResultsGiven(h, FALSE)
            Upto(k) == {s[j] : j \in 1..k}
            t(k) == h \o Firsts(x, k)
            Good(k) == /\ Consistent(t(k), FALSE) /\ CallsAsked(t(k), FALSE) = A
                       /\ ResultsGiven(t(k), FALSE) = R \cup Upto(k)
            S == {k \in 0..n : Good(k)}
<1>1. /\ n \in Nat /\ DOMAIN s = 1..n /\ \A i \in 1..n : s[i] \in K /\ s[i] \in Calls
      /\ \A i, j \in 1..n : s[i] = s[j] => i = j
      /\ h \in Seq(ChatMessages)
  BY LenProperties, ElementOfSeq DEF Each, Consistent, ClientMessages
<1>2. ASSUME NEW id \in Calls
      PROVE  LET m == ToolMessage(id) IN
             /\ m \in ChatMessages /\ ClientSays(m, FALSE)
             /\ CallsMade(m, FALSE) = {} /\ ResultsHad(m, FALSE) = {id}
  <2>1. ToolMessage(id) = [role |-> "tool", content |-> <<"output">>, reasoning |-> <<>>,
                           tool_calls |-> <<>>, tool_call_id |-> id]
    BY DEF ToolMessage, ChatMessage
  <2>2. <<"output">> \in Strings /\ <<>> \in Strings /\ <<>> \in Seq(Calls)
    BY DEF Strings, Symbols
  <2>3. ToolMessage(id) \in ChatMessages
    BY <2>1, <2>2 DEF ChatMessages
  <2>4. ChatSays(ToolMessage(id))
    BY <2>1, <2>3 DEF ChatSays
  <2>5. CallsMade(ToolMessage(id), FALSE) = {} /\ ResultsHad(ToolMessage(id), FALSE) = {id}
    BY <2>1 DEF CallsMade, ResultsHad, CallSet
  <2>. QED
    BY <2>3, <2>4, <2>5 DEF ClientSays
<1>3. x \in Seq(ChatMessages) /\ Len(x) = n /\ \A i \in 1..n : x[i] = ToolMessage(s[i])
  <2>1. \A i \in 1..n : ToolMessage(s[i]) \in ChatMessages
    BY <1>1, <1>2
  <2>. HIDE DEF n
  <2>2. x = [i \in 1..n |-> ToolMessage(s[i])]
    BY <1>1
  <2>. HIDE DEF x
  <2>. QED
    BY <1>1, <2>1, <2>2
<1>. HIDE DEF n, x, A, R
<1>4. 0 \in S
  <2>1. Firsts(x, 0) = <<>>
    BY <1>1, <1>3 DEF Firsts
  <2>2. h \o <<>> = h
    BY <1>1, ConcatEmptySeq
  <2>3. Upto(0) = {}
    <3>1. 1..0 = {}
      OBVIOUS
    <3>. QED
      BY <3>1
  <2>4. t(0) = h
    BY <2>1, <2>2
  <2>. HIDE DEF t, Upto
  <2>5. Good(0)
    BY <2>3, <2>4 DEF A, R
  <2>6. 0 \in 0..n
    BY <1>1
  <2>. QED
    BY <2>5, <2>6
<1>5. ASSUME NEW k \in 1..n, k - 1 \in S PROVE k \in S
  <2>. DEFINE g == t(k - 1)
              m == ToolMessage(s[k])
  <2>1. k - 1 \in Nat /\ k - 1 < n /\ k - 1 + 1 = k
    BY <1>1
  <2>2. Good(k - 1)
    BY <1>5
  <2>3. t(k) = Append(g, m)
    <3>1. Firsts(x, k - 1) \in Seq(ChatMessages) /\ Firsts(x, k) = Append(Firsts(x, k - 1), x[k])
      BY <1>3, <2>1, FirstsAppend
    <3>2. x[k] = m /\ m \in ChatMessages
      BY <1>1, <1>2, <1>3
    <3>. DEFINE f == Firsts(x, k - 1)
    <3>. HIDE DEF f, m
    <3>3. h \o Append(f, m) = Append(h \o f, m)
      <4>1. Append(f, m) = f \o <<m>> /\ Append(h \o f, m) = (h \o f) \o <<m>>
        <5>1. f \in Seq(ChatMessages) /\ h \o f \in Seq(ChatMessages)
          BY <1>1, <3>1, ConcatProperties DEF f
        <5>. QED
          BY <3>2, <5>1, AppendIsConcat
      <4>2. h \o (f \o <<m>>) = (h \o f) \o <<m>>
        <5>1. <<m>> \in Seq(ChatMessages) /\ f \in Seq(ChatMessages)
          BY <3>1, <3>2 DEF f
        <5>. QED
          BY <1>1, <5>1, ConcatAssociative
      <4>. QED
        BY <4>1, <4>2
    <3>. QED
      BY <3>1, <3>2, <3>3 DEF f
  <2>. HIDE DEF t, Upto
  <2>4. Consistent(g, FALSE) /\ CallsAsked(g, FALSE) = A /\ ResultsGiven(g, FALSE) = R \cup Upto(k - 1)
    BY <2>2
  <2>5. /\ ClientSays(m, FALSE) /\ CallsMade(m, FALSE) = {} /\ ResultsHad(m, FALSE) = {s[k]} /\ s[k] \in K
    BY <1>1, <1>2
  <2>6. s[k] \notin Upto(k - 1) /\ Upto(k) = Upto(k - 1) \cup {s[k]}
    <3>1. \A i \in 1..k : i = k \/ i \in 1..k - 1
      BY <1>1
    <3>2. \A i \in 1..k - 1 : i \in 1..n /\ i # k /\ i \in 1..k
      BY <1>1
    <3>3. k \in 1..k
      BY <1>1
    <3>4. \A i, id : id \in Upto(i) <=> \E j \in 1..i : id = s[j]
      BY DEF Upto
    <3>5. s[k] \notin Upto(k - 1)
      BY <1>1, <3>2, <3>4
    <3>6. ASSUME NEW id PROVE id \in Upto(k) <=> id \in Upto(k - 1) \/ id = s[k]
      BY <3>1, <3>2, <3>3, <3>4
    <3>. QED
      BY <3>5, <3>6
  <2>. HIDE DEF g, m
  <2>7. /\ CallsMade(m, FALSE) \cap CallsAsked(g, FALSE) = {}
        /\ ResultsHad(m, FALSE) \cap ResultsGiven(g, FALSE) = {}
        /\ ResultsHad(m, FALSE) \subseteq CallsAsked(g, FALSE)
    BY <2>4, <2>5, <2>6, ZenonT(60) DEF A, R
  <2>8. /\ Consistent(Append(g, m), FALSE)
        /\ CallsAsked(Append(g, m), FALSE) = CallsAsked(g, FALSE) \cup CallsMade(m, FALSE)
        /\ ResultsGiven(Append(g, m), FALSE) = ResultsGiven(g, FALSE) \cup ResultsHad(m, FALSE)
    BY <2>4, <2>5, <2>7, Longer
  <2>9. Good(k)
    BY <2>3, <2>4, <2>5, <2>6, <2>8
  <2>10. k \in 0..n
    BY <1>1
  <2>. HIDE DEF Good
  <2>. QED
    BY <2>9, <2>10
<1>. HIDE DEF S
<1>6. n \in S
  BY <1>1, <1>4, <1>5, Upwards
<1>7. Good(n)
  BY <1>6 DEF S
<1>8. t(n) = h \o x
  BY <1>3, FirstsAll DEF n
<1>9. Upto(n) = K
  BY <1>1
<1>. HIDE DEF t, Upto
<1>. QED
  BY <1>7, <1>8, <1>9 DEF A, R, x

\* The history after the client has gone on.
LEMMA GoesOn ==
    ASSUME NEW K, K \subseteq Calls, AnswersWith(reply, K), Consistent(history, Claude),
           CallsAsked(history, Claude) = ResultsGiven(history, Claude),
           K \cap CallsAsked(history, Claude) = {}, NEW text \in Strings, NEW next,
           CallsOf(Echo) = <<>> => next = history \o <<Echo>> \o <<UserSays(text)>>,
           CallsOf(Echo) # <<>> => next = history \o <<Echo>> \o ResultsOf(Echo)
    PROVE  /\ Consistent(next, Claude) /\ CallsAsked(next, Claude) = ResultsGiven(next, Claude)
           /\ CallsAsked(next, Claude) \subseteq CallsAsked(history, Claude) \cup K
<1>. DEFINE claude == Claude
            A == CallsAsked(history, claude)
            echo == Echo
            c == CallsMade(echo, claude)
            g == Append(history, echo)
            s == CallsOf(echo)
<1>1. ClientSays(echo, claude) /\ c \subseteq K /\ ResultsHad(echo, claude) = {}
  BY EchoSays
<1>2. Each(s, c) /\ \A id \in c : \E i \in DOMAIN s : s[i] = id
  BY <1>1, CallsListed
<1>3. claude \in BOOLEAN
  BY DEF Claude
<1>4. history \in Seq(ClientMessages(claude)) /\ echo \in ClientMessages(claude)
  BY <1>1 DEF Consistent, ClientSays, ClaudeSays, ChatSays, ClientMessages
<1>5. history \o <<echo>> = g
  <2>. DEFINE X == ClientMessages(claude)
  <2>. HIDE DEF X, echo
  <2>1. history \in Seq(X) /\ echo \in X
    BY <1>4 DEF X
  <2>. QED
    BY <2>1, AppendIsConcat
<1>6. next = g \o (IF s = <<>> THEN <<UserSays(text)>> ELSE ResultsOf(echo))
  BY <1>5
<1>7. Consistent(history, claude) /\ ResultsGiven(history, claude) = A /\ K \cap A = {}
  OBVIOUS
<1>. HIDE DEF claude, A, echo, c, g, s
<1>8. Consistent(g, claude) /\ CallsAsked(g, claude) = A \cup c /\ ResultsGiven(g, claude) = A
  <2>1. c \cap CallsAsked(history, claude) = {} /\ {} \cap ResultsGiven(history, claude) = {}
    BY <1>1, <1>7 DEF A
  <2>2. /\ CallsMade(echo, claude) \cap CallsAsked(history, claude) = {}
        /\ ResultsHad(echo, claude) \cap ResultsGiven(history, claude) = {}
        /\ ResultsHad(echo, claude) \subseteq CallsAsked(history, claude)
    BY <1>1, <2>1 DEF c
  <2>3. /\ Consistent(Append(history, echo), claude)
        /\ CallsAsked(Append(history, echo), claude) = CallsAsked(history, claude) \cup CallsMade(echo, claude)
        /\ ResultsGiven(Append(history, echo), claude) = ResultsGiven(history, claude) \cup ResultsHad(echo, claude)
    BY <1>1, <1>7, <2>2, Longer
  <2>. QED
    BY <1>1, <1>7, <2>3 DEF g, A, c
<1>9. g \in Seq(ClientMessages(claude))
  BY <1>8 DEF Consistent
<1>10. ASSUME NEW m, ClientSays(m, claude), CallsMade(m, claude) = {}, ResultsHad(m, claude) = c, next = g \o <<m>>
       PROVE  Consistent(next, claude) /\ CallsAsked(next, claude) = A \cup c /\ ResultsGiven(next, claude) = A \cup c
  <2>1. m \in ClientMessages(claude)
    BY <1>10 DEF ClientSays, ClaudeSays, ChatSays, ClientMessages
  <2>2. next = Append(g, m)
    <3>. DEFINE X == ClientMessages(claude)
    <3>. HIDE DEF X
    <3>1. g \in Seq(X) /\ m \in X
      BY <1>9, <2>1 DEF X
    <3>. QED
      BY <1>10, <3>1, AppendIsConcat
  <2>3. c \cap A = {}
    BY <1>1, <1>7
  <2>4. /\ CallsMade(m, claude) \cap CallsAsked(g, claude) = {}
        /\ ResultsHad(m, claude) \cap ResultsGiven(g, claude) = {}
        /\ ResultsHad(m, claude) \subseteq CallsAsked(g, claude)
    BY <1>8, <1>10, <2>3
  <2>5. /\ Consistent(Append(g, m), claude)
        /\ CallsAsked(Append(g, m), claude) = CallsAsked(g, claude) \cup CallsMade(m, claude)
        /\ ResultsGiven(Append(g, m), claude) = ResultsGiven(g, claude) \cup ResultsHad(m, claude)
    BY <1>8, <1>10, <2>4, Longer
  <2>. QED
    BY <1>8, <1>10, <2>2, <2>5
<1>11. CASE s = <<>>
  <2>1. c = {}
    BY <1>2, <1>11
  <2>2. /\ ClientSays(UserSays(text), claude)
        /\ CallsMade(UserSays(text), claude) = {} /\ ResultsHad(UserSays(text), claude) = {}
    BY UserSaysNothing DEF claude
  <2>3. Consistent(next, claude) /\ CallsAsked(next, claude) = A \cup c /\ ResultsGiven(next, claude) = A \cup c
    BY <1>6, <1>10, <1>11, <2>1, <2>2
  <2>. QED
    BY <1>1, <2>3 DEF claude, A
<1>12. CASE s # <<>> /\ claude
  <2>. DEFINE m == [role |-> "user", blocks |-> [i \in DOMAIN s |-> Result(s[i])]]
  <2>1. c \subseteq Calls
    BY <1>1
  <2>2. ClientSays(m, TRUE) /\ CallsMade(m, TRUE) = {} /\ ResultsHad(m, TRUE) = c
    BY <1>2, <2>1, ResultsTogether
  <2>3. ResultsOf(echo) = <<m>>
    BY <1>12 DEF ResultsOf, s, claude
  <2>. HIDE DEF m
  <2>4. claude = TRUE
    BY <1>3, <1>12
  <2>5. ClientSays(m, claude) /\ CallsMade(m, claude) = {} /\ ResultsHad(m, claude) = c /\ next = g \o <<m>>
    BY <1>6, <1>12, <2>2, <2>3, <2>4
  <2>6. Consistent(next, claude) /\ CallsAsked(next, claude) = A \cup c /\ ResultsGiven(next, claude) = A \cup c
    BY <1>10, <2>5
  <2>. QED
    BY <1>1, <2>6 DEF claude, A
<1>13. CASE s # <<>> /\ ~claude
  <2>1. claude = FALSE
    BY <1>3, <1>13
  <2>2. ResultsOf(echo) = [i \in DOMAIN s |-> ToolMessage(s[i])]
    BY <1>13 DEF ResultsOf, s, claude
  <2>3. Consistent(g, FALSE) /\ CallsAsked(g, FALSE) = A \cup c /\ ResultsGiven(g, FALSE) = A
    BY <1>8, <2>1
  <2>4. c \subseteq CallsAsked(g, FALSE) /\ c \cap ResultsGiven(g, FALSE) = {}
    BY <1>1, <1>7, <2>3
  <2>. DEFINE t == g \o [i \in DOMAIN s |-> ToolMessage(s[i])]
  <2>5. /\ Consistent(t, FALSE) /\ CallsAsked(t, FALSE) = CallsAsked(g, FALSE)
        /\ ResultsGiven(t, FALSE) = ResultsGiven(g, FALSE) \cup c
    BY <1>2, <2>3, <2>4, ResultsOneByOne, ZenonT(60)
  <2>6. next = t
    BY <1>6, <1>13, <2>2
  <2>. HIDE DEF t
  <2>7. Consistent(next, claude) /\ CallsAsked(next, claude) = A \cup c /\ ResultsGiven(next, claude) = A \cup c
    BY <2>1, <2>3, <2>5, <2>6
  <2>. QED
    BY <1>1, <2>7 DEF claude, A
<1>. QED
  BY <1>11, <1>12, <1>13

-----------------------------------------------------------------------------
(* The conversation.                                                        *)

\* The calls of the upstream so far, and those that reached the history.
Issued == {CallId(n) : n \in 1..Said}
Asked == CallsAsked(history, Claude)

\* Every call of the history has its result, the request pairs them, and an
\* answer that was delivered makes calls that are not in the history yet.
ConversationInv ==
    /\ IsCache(cache)
    /\ answers \in Seq(Seq(GivenParts)) /\ Said <= MaxParts
    /\ Consistent(history, Claude)
    /\ Asked = ResultsGiven(history, Claude) /\ Asked \subseteq Issued
    /\ vreq.contents \in Seq(SentContents)
    /\ phase \in {"sending", "sleeping"} => Paired(vreq.contents, Asked, Asked)
    /\ phase = "answered" => AnswersWith(reply, Issued \ Asked)

LEMMA SaidSoFar ==
    ASSUME NEW a \in Seq(Seq(GivenParts)), NEW parts \in Seq(GivenParts)
    PROVE  /\ Len(FlattenSeq(a)) \in Nat /\ Append(a, parts) \in Seq(Seq(GivenParts))
           /\ Len(FlattenSeq(Append(a, parts))) = Len(FlattenSeq(a)) + Len(parts)
<1>1. FlattenSeq(a) \in Seq(GivenParts)
  BY FlattenType
<1>2. FlattenSeq(Append(a, parts)) = FlattenSeq(a) \o parts
  BY FlattenAppend
<1>3. Append(a, parts) \in Seq(Seq(GivenParts))
  BY AppendProperties
<1>4. Len(FlattenSeq(a) \o parts) = Len(FlattenSeq(a)) + Len(parts)
  BY <1>1, ConcatProperties
<1>. QED
  BY <1>1, <1>2, <1>3, <1>4, LenProperties

LEMMA IssuedCalls ==
    ASSUME Said \in Nat, Said <= MaxParts
    PROVE  Issued \subseteq Calls
<1>1. \A n \in 1..Said : n \in 1..MaxParts
  BY UpstreamAssumption
<1>. QED
  BY <1>1, UpstreamAssumption DEF Issued

\* The parts of the next answer.
LEMMA PartsGiven ==
    ASSUME Said \in Nat, NEW n \in Nat, Said + n <= MaxParts, NEW X, NEW parts \in [1..n -> X],
           \A i \in 1..n : \E kind : parts[i] = UpstreamPart(kind, Said + i)
    PROVE  /\ parts \in Seq(GivenParts) /\ Len(parts) = n /\ Distinct(parts)
           /\ \A id \in Named(parts, n) : \E m \in Said + 1..Said + n : id = CallId(m)
<1>. DEFINE k == Said
<1>0. MaxParts \in Nat /\ k \in Nat /\ n \in Nat /\ k + n <= MaxParts
  BY UpstreamAssumption
<1>1. \A i \in 1..n : \E kind : parts[i] = UpstreamPart(kind, k + i)
  OBVIOUS
<1>. HIDE DEF k
<1>2. ASSUME NEW m \in 1..MaxParts, NEW kind
      PROVE  UpstreamPart(kind, m) \in GivenParts /\ UpstreamPart(kind, m).call \in {None, CallId(m)}
  <2>1. Sig(m) \in Sigs /\ CallId(m) \in Calls /\ Picture(m) \in Images
    BY UpstreamAssumption
  <2>2. <<Text(m)>> \in Strings /\ <<>> \in Strings
    <3>1. Text(m) \in Symbols
      BY DEF Symbols
    <3>. QED
      BY <3>1 DEF Strings
  <2>. DEFINE thought == kind \in {"think", "signed", "bare"}
              text == IF kind \in {"think", "signed", "text"} THEN <<Text(m)>> ELSE <<>>
              image == IF kind \in {"image", "ownimage"} THEN Picture(m) ELSE None
              call == IF kind \in {"call", "owncall"} THEN CallId(m) ELSE None
              sig == IF kind \in {"signed", "bare", "owncall", "ownimage"} THEN Sig(m) ELSE None
  <2>3. UpstreamPart(kind, m) = [thought |-> thought, text |-> text, image |-> image, call |-> call, sig |-> sig]
    BY DEF UpstreamPart
  <2>4. thought \in BOOLEAN
    OBVIOUS
  <2>5. text \in Strings /\ image \in Images \cup {None} /\ call \in Calls \cup {None} /\ sig \in Sigs \cup {None}
        /\ call \in {None, CallId(m)}
    BY <2>1, <2>2
  <2>. HIDE DEF thought, text, image, call, sig
  <2>6. [thought |-> thought, text |-> text, image |-> image, call |-> call, sig |-> sig] \in GivenParts
    BY <2>4, <2>5 DEF GivenParts
  <2>. QED
    BY <2>3, <2>5, <2>6
<1>3. \A i \in 1..n : k + i \in 1..MaxParts /\ k + i \in k + 1..k + n
  BY <1>0
<1>4. \A i \in 1..n : parts[i] \in GivenParts /\ parts[i].call \in {None, CallId(k + i)}
  BY <1>1, <1>2, <1>3
<1>5. parts \in Seq(GivenParts) /\ Len(parts) = n /\ DOMAIN parts = 1..n
  <2>1. parts \in [1..n -> GivenParts]
    BY <1>4
  <2>2. DOMAIN parts = 1..n
    OBVIOUS
  <2>. QED
    BY <1>0, <2>1, <2>2
<1>6. Distinct(parts)
  <2>. SUFFICES ASSUME NEW i \in 1..n, NEW j \in 1..n, parts[i].call # None, parts[i].call = parts[j].call
                PROVE  i = j
    BY <1>5 DEF Distinct
  <2>1. CallId(k + i) = CallId(k + j) /\ k + i \in 1..MaxParts /\ k + j \in 1..MaxParts
    BY <1>3, <1>4
  <2>2. k + i = k + j
    BY <2>1, UpstreamAssumption
  <2>. QED
    BY <1>0, <2>2
<1>7. ASSUME NEW id \in Named(parts, n) PROVE \E m \in k + 1..k + n : id = CallId(m)
  <2>1. PICK i \in 1..n : id = parts[i].call /\ id # None
    BY <1>7 DEF Named
  <2>2. k + i \in k + 1..k + n /\ id = CallId(k + i)
    BY <1>3, <1>4, <2>1
  <2>. QED
    BY <2>2
<1>. QED
  BY <1>5, <1>6, <1>7 DEF k

\* A cache that lost its entries, or the records behind them.
LEMMA CacheLost ==
    ASSUME NEW c, IsCache(c)
    PROVE  IsCache(<<>>) /\ IsCache([id \in DOMAIN c |-> [c[id] EXCEPT !.readable = FALSE]])
<1>1. IsCache(<<>>)
  BY DEF IsCache
<1>2. \A id \in DOMAIN c : [c[id] EXCEPT !.readable = FALSE] \in Entries
  BY DEF IsCache, Entries
<1>. QED
  BY <1>1, <1>2 DEF IsCache

LEMMA NothingAsked ==
    ASSUME NEW claude
    PROVE  Consistent(<<>>, claude) /\ CallsAsked(<<>>, claude) = {} /\ ResultsGiven(<<>>, claude) = {}
<1>1. Len(<<>>) = 0 /\ 1..0 = {} /\ DOMAIN <<>> = {}
  OBVIOUS
<1>2. Scheduled([k \in 1..0 |-> CallsMade(<<>>[k], claude)], [k \in 1..0 |-> ResultsHad(<<>>[k], claude)], 0)
  BY <1>1 DEF Scheduled
<1>3. <<>> \in Seq(ClientMessages(claude))
  OBVIOUS
<1>4. Consistent(<<>>, claude)
  BY <1>1, <1>2, <1>3 DEF Consistent
<1>. QED
  BY <1>1, <1>4 DEF CallsAsked, ResultsGiven

LEMMA InitConversation == Init => ConversationInv
<1>. SUFFICES ASSUME Init PROVE ConversationInv
  OBVIOUS
<1>. DEFINE m == UserSays(<<"hello">>)
            claude == Claude
<1>1. /\ history = <<m>> /\ cache = <<>> /\ vreq = NoRequest /\ phase = "client" /\ answers = <<>>
  BY DEF Init
<1>2. <<"hello">> \in Strings
  BY DEF Strings, Symbols
<1>3. ClientSays(m, claude) /\ CallsMade(m, claude) = {} /\ ResultsHad(m, claude) = {}
  BY <1>2, UserSaysNothing
<1>. HIDE DEF m, claude
<1>4. Consistent(<<>>, claude) /\ CallsAsked(<<>>, claude) = {} /\ ResultsGiven(<<>>, claude) = {}
  BY NothingAsked
<1>5. /\ Consistent(Append(<<>>, m), claude)
      /\ CallsAsked(Append(<<>>, m), claude) = CallsAsked(<<>>, claude) \cup CallsMade(m, claude)
      /\ ResultsGiven(Append(<<>>, m), claude) = ResultsGiven(<<>>, claude) \cup ResultsHad(m, claude)
  <2>. DEFINE h == <<>>
  <2>1. Consistent(h, claude)
    BY <1>4
  <2>2. CallsMade(m, claude) \cap CallsAsked(h, claude) = {}
    BY <1>4
  <2>3. /\ ResultsHad(m, claude) \cap ResultsGiven(h, claude) = {}
        /\ ResultsHad(m, claude) \subseteq CallsAsked(h, claude)
    BY <1>3, <1>4
  <2>. HIDE DEF h
  <2>4. /\ Consistent(Append(h, m), claude)
        /\ CallsAsked(Append(h, m), claude) = CallsAsked(h, claude) \cup CallsMade(m, claude)
        /\ ResultsGiven(Append(h, m), claude) = ResultsGiven(h, claude) \cup ResultsHad(m, claude)
    BY <1>3, <2>1, <2>2, <2>3, Longer
  <2>. QED
    BY <2>4 DEF h
<1>6. Append(<<>>, m) = history
  BY <1>1
<1>7. Consistent(history, claude) /\ CallsAsked(history, claude) = {} /\ ResultsGiven(history, claude) = {}
  BY <1>3, <1>4, <1>5, <1>6
<1>8. Said = 0
  <2>1. FlattenSeq(<<>>) = <<>>
    BY FlattenEmpty
  <2>. QED
    BY <1>1, <2>1 DEF Said
<1>9. IsCache(cache)
  BY <1>1 DEF IsCache
<1>10. vreq.contents \in Seq(SentContents) /\ answers \in Seq(Seq(GivenParts)) /\ 0 <= MaxParts
  <2>1. vreq.contents = <<>>
    BY <1>1 DEF NoRequest
  <2>2. \A X : <<>> \in Seq(X)
    OBVIOUS
  <2>3. vreq.contents \in Seq(SentContents)
    BY <2>1, <2>2
  <2>4. answers \in Seq(Seq(GivenParts))
    BY <1>1, <2>2
  <2>5. 0 <= MaxParts
    BY UpstreamAssumption
  <2>. QED
    BY <2>3, <2>4, <2>5
<1>. QED
  BY <1>1, <1>7, <1>8, <1>9, <1>10 DEF ConversationInv, Asked, claude

\* What the contents depend on.
LEMMA Contented ==
    ASSUME ConversationInv, NEW m
    PROVE  /\ Paired(to_vertex_request(m).contents, Asked, Asked)
           /\ to_vertex_request(m).contents \in Seq(SentContents)
<1>. DEFINE claude == Claude
            x == is_claude(m)
            y == Family(m)
            C == IF Claude THEN ClaudeContents(cache, history, x) ELSE ChatContents(cache, history, y)
            A == Asked
<1>1. to_vertex_request(m).contents = sanitize_contents(C)
  BY DEF to_vertex_request
<1>2. claude \in BOOLEAN
  BY DEF Claude
<1>3. IsCache(cache) /\ Consistent(history, claude) /\ CallsAsked(history, claude) = A /\ ResultsGiven(history, claude) = A
  BY DEF ConversationInv, Asked
<1>. HIDE DEF claude, x, y, A
<1>4. claude => Paired(ClaudeContents(cache, history, x), A, A)
  BY <1>2, <1>3, HistoryPaired
<1>5. ~claude => Paired(ChatContents(cache, history, y), A, A)
  BY <1>2, <1>3, HistoryPaired
<1>6. Paired(C, A, A)
  BY <1>4, <1>5 DEF claude
<1>. HIDE DEF C
<1>7. Paired(sanitize_contents(C), A, A)
  BY <1>6, SanitizedPaired
<1>. QED
  BY <1>1, <1>7 DEF Paired, A

\* Nothing the conversation depends on.
LEMMA Undisturbed ==
    ASSUME ConversationInv, UNCHANGED <<session, history, cache, vreq, answers, reply>>,
           phase' \in {"sending", "sleeping"} => phase \in {"sending", "sleeping"},
           phase' = "answered" => phase = "answered"
    PROVE  ConversationInv'
  BY DEF ConversationInv, Claude, Asked, Issued, Said, AnswersWith

LEMMA ConvertConversation ==
    ASSUME ConversationInv, Convert
    PROVE  ConversationInv'
<1>. DEFINE v == to_vertex_request(session.model)
<1>1. Paired(v.contents, Asked, Asked) /\ v.contents \in Seq(SentContents)
  BY Contented
<1>2. vreq' = v /\ phase' = "sending" /\ UNCHANGED <<session, history, cache, answers, reply>>
  BY DEF Convert
<1>. HIDE DEF v
<1>3. Asked' = Asked /\ Issued' = Issued /\ Said' = Said /\ Claude' = Claude
  BY <1>2 DEF Asked, Issued, Said, Claude
<1>. QED
  BY <1>1, <1>2, <1>3 DEF ConversationInv

LEMMA AnswerConversation ==
    ASSUME ConversationInv, NEW n \in 1..(MaxParts - Said), NEW kinds \in [1..n -> session.kinds], Answer(kinds)
    PROVE  ConversationInv'
<1>. DEFINE parts == [i \in DOMAIN kinds |-> UpstreamPart(kinds[i], Said + i)]
            d == Delivered(parts)
            a == answers
            more == {CallId(m) : m \in Said + 1..Said + n}
<1>1. /\ phase' = "answered" /\ answers' = Append(answers, parts) /\ reply' = d.reply
      /\ cache' = Saved(cache, d.saves) /\ UNCHANGED <<session, history, vreq>>
  BY DEF Answer
<1>2. a \in Seq(Seq(GivenParts)) /\ Said = Len(FlattenSeq(a)) /\ Said <= MaxParts
  BY DEF ConversationInv, Said
<1>3. Said \in Nat /\ MaxParts \in Nat /\ n \in Nat /\ Said + n <= MaxParts
  <2>1. FlattenSeq(a) \in Seq(GivenParts)
    BY <1>2, FlattenType
  <2>2. Len(FlattenSeq(a)) \in Nat
    BY <2>1, LenProperties
  <2>. HIDE DEF a
  <2>3. Said \in Nat
    BY <1>2, <2>2
  <2>. QED
    BY <2>3, UpstreamAssumption
<1>4. DOMAIN kinds = 1..n
  OBVIOUS
<1>5. /\ parts \in Seq(GivenParts) /\ Len(parts) = n /\ Distinct(parts)
      /\ \A id \in Named(parts, n) : \E m \in Said + 1..Said + n : id = CallId(m)
  <2>. DEFINE X == {UpstreamPart(kinds[i], Said + i) : i \in 1..n}
  <2>1. parts \in [1..n -> X] /\ \A i \in 1..n : \E kind : parts[i] = UpstreamPart(kind, Said + i)
    BY <1>4
  <2>. HIDE DEF parts, X
  <2>. QED
    BY <1>3, <2>1, PartsGiven
<1>. HIDE DEF parts
<1>6. AnswersWith(d.reply, Named(parts, n)) /\ Saves(d.saves)
  BY <1>5, DeliveredAnswers
<1>. HIDE DEF d
<1>7. IsCache(cache')
  BY <1>1, <1>6, SavedCache DEF ConversationInv
<1>8. answers' \in Seq(Seq(GivenParts)) /\ Said' = Said + n
  <2>1. Append(a, parts) \in Seq(Seq(GivenParts)) /\ Len(FlattenSeq(Append(a, parts))) = Len(FlattenSeq(a)) + n
    BY <1>2, <1>5, SaidSoFar
  <2>2. Said' = Len(FlattenSeq(answers'))
    BY DEF Said
  <2>. QED
    BY <1>1, <1>2, <2>1, <2>2
<1>9. Asked' = Asked /\ Claude' = Claude
  BY <1>1 DEF Asked, Claude
<1>10. Issued \subseteq Issued'
  <2>1. \A m \in 1..Said : m \in 1..Said + n
    BY <1>3
  <2>2. Issued' = {CallId(m) : m \in 1..Said + n}
    BY <1>8 DEF Issued
  <2>. QED
    BY <2>1, <2>2 DEF Issued
<1>11. ASSUME NEW id \in Named(parts, n) PROVE id \in Issued' \ Asked
  <2>1. PICK m \in Said + 1..Said + n : id = CallId(m)
    BY <1>5
  <2>2. m \in 1..Said + n /\ m \in 1..MaxParts /\ m \notin 1..Said
    BY <1>3
  <2>3. id \in Issued'
    BY <1>8, <2>1, <2>2 DEF Issued
  <2>4. id \notin Issued
    <3>. SUFFICES ASSUME id \in Issued PROVE FALSE
      OBVIOUS
    <3>1. PICK l \in 1..Said : id = CallId(l)
      BY DEF Issued
    <3>2. l \in 1..MaxParts
      BY <1>3
    <3>3. l = m
      BY <2>1, <2>2, <3>1, <3>2, UpstreamAssumption
    <3>. QED
      BY <2>2, <3>3
  <2>. QED
    BY <2>3, <2>4 DEF ConversationInv
<1>12. AnswersWith(d.reply, Issued' \ Asked)
  <2>1. Named(parts, n) \subseteq Issued' \ Asked
    BY <1>11
  <2>. DEFINE L == Issued' \ Asked
              K == Named(parts, n)
  <2>. HIDE DEF L, K
  <2>2. K \subseteq L
    BY <2>1 DEF L, K
  <2>3. /\ \A blocks : Answered(blocks, K) => Answered(blocks, L)
        /\ \A m : Message(m, K) => Message(m, L)
    BY <2>2, FewerAnswered
  <2>4. AnswersWith(d.reply, L)
    BY <1>6, <2>3 DEF AnswersWith, K
  <2>. QED
    BY <2>4 DEF L
<1>13. AnswersWith(reply, Issued \ Asked)'
  BY <1>1, <1>9, <1>12 DEF AnswersWith
<1>14. Said' <= MaxParts
  BY <1>3, <1>8
<1>. HIDE DEF a
<1>15. Consistent(history, Claude)' /\ (Asked = ResultsGiven(history, Claude))' /\ (vreq.contents \in Seq(SentContents))'
  BY <1>1, <1>9 DEF ConversationInv
<1>16. (Asked \subseteq Issued)'
  BY <1>9, <1>10 DEF ConversationInv
<1>. QED
  BY <1>1, <1>7, <1>8, <1>13, <1>14, <1>15, <1>16 DEF ConversationInv

LEMMA ClientConversation ==
    ASSUME ConversationInv, ClientContinues
    PROVE  ConversationInv'
<1>. DEFINE K == Issued \ Asked
            A == Asked
<1>1. phase = "answered" /\ phase' = "client" /\ UNCHANGED <<session, cache, vreq, answers>>
  BY DEF ClientContinues
<1>2. PICK text \in {<<"more">>} \cup {<<"look", i>> : i \in ImagesIn(Echo)} :
         history' = history \o <<Echo>> \o
                    (IF CallsOf(Echo) = <<>> THEN <<UserSays(text)>> ELSE ResultsOf(Echo))
  BY DEF ClientContinues
<1>3. text \in Strings
  <2>1. \A i \in ImagesIn(Echo) : i \in Symbols
    BY DEF ImagesIn, Symbols
  <2>2. "more" \in Symbols /\ "look" \in Symbols
    BY DEF Symbols
  <2>3. <<"more">> \in Strings /\ \A i \in Symbols : <<"look", i>> \in Strings
    BY <2>2 DEF Strings
  <2>. HIDE DEF Strings
  <2>. QED
    BY <2>1, <2>3
<1>4. Said \in Nat /\ Said <= MaxParts
  <2>1. FlattenSeq(answers) \in Seq(GivenParts)
    BY FlattenType DEF ConversationInv
  <2>. QED
    BY <2>1, LenProperties DEF ConversationInv, Said
<1>5. K \subseteq Calls
  BY <1>4, IssuedCalls
<1>6. AnswersWith(reply, K)
  BY <1>1 DEF ConversationInv
<1>7. Consistent(history, Claude) /\ CallsAsked(history, Claude) = A /\ ResultsGiven(history, Claude) = A
      /\ A \subseteq Issued
  BY DEF ConversationInv, Asked
<1>8. K \cap A = {}
  OBVIOUS
<1>9. K \cup A \subseteq Issued
  BY <1>7
<1>. HIDE DEF K, A
<1>10. /\ Consistent(history', Claude) /\ CallsAsked(history', Claude) = ResultsGiven(history', Claude)
       /\ CallsAsked(history', Claude) \subseteq A \cup K
  <2>. DEFINE next == history'
  <2>1. /\ CallsOf(Echo) = <<>> => next = history \o <<Echo>> \o <<UserSays(text)>>
        /\ CallsOf(Echo) # <<>> => next = history \o <<Echo>> \o ResultsOf(Echo)
    BY <1>2
  <2>. HIDE DEF next
  <2>2. CallsAsked(history, Claude) = ResultsGiven(history, Claude) /\ K \cap CallsAsked(history, Claude) = {}
    BY <1>7, <1>8
  <2>3. /\ Consistent(next, Claude) /\ CallsAsked(next, Claude) = ResultsGiven(next, Claude)
        /\ CallsAsked(next, Claude) \subseteq CallsAsked(history, Claude) \cup K
    BY <1>3, <1>5, <1>6, <1>7, <2>1, <2>2, GoesOn
  <2>. QED
    BY <1>7, <2>3 DEF next
<1>11. Claude' = Claude /\ Said' = Said /\ Issued' = Issued
  BY <1>1 DEF Claude, Said, Issued
<1>12. Consistent(history, Claude)' /\ (Asked = ResultsGiven(history, Claude))'
  BY <1>10, <1>11 DEF Asked
<1>13. (Asked \subseteq Issued)'
  BY <1>9, <1>10, <1>11 DEF Asked
<1>. QED
  BY <1>1, <1>11, <1>12, <1>13 DEF ConversationInv

LEMMA LoseConversation ==
    ASSUME ConversationInv, LoseSignatures
    PROVE  ConversationInv'
<1>1. /\ phase' = phase /\ phase = "client" /\ UNCHANGED <<session, history, vreq, answers, reply>>
      /\ cache' = <<>> \/ cache' = [id \in DOMAIN cache |-> [cache[id] EXCEPT !.readable = FALSE]]
  BY DEF LoseSignatures
<1>2. IsCache(cache')
  BY <1>1, CacheLost DEF ConversationInv
<1>3. Claude' = Claude /\ Said' = Said /\ Issued' = Issued /\ Asked' = Asked
  BY <1>1 DEF Claude, Said, Issued, Asked
<1>. QED
  BY <1>1, <1>2, <1>3 DEF ConversationInv

\* One step of each kind.
LEMMA ConversationGoesOn == ConversationInv /\ [Next]_vars => ConversationInv'
<1>. SUFFICES ASSUME ConversationInv, [Next]_vars PROVE ConversationInv'
  OBVIOUS
<1>1. CASE Convert
  BY <1>1, ConvertConversation
<1>2. CASE Wake
  <2>1. UNCHANGED <<session, history, cache, vreq, answers, reply>> /\ phase = "sleeping" /\ phase' = "sending"
    BY <1>2 DEF Wake
  <2>. QED
    BY <2>1, Undisturbed
<1>3. CASE UpstreamFails
  <2>1. PICK e : RetryInClient(e) \/ AttemptsFail(e)
    BY <1>3 DEF UpstreamFails
  <2>2. CASE RetryInClient(e)
    <3>1. UNCHANGED <<session, history, cache, vreq, answers, reply>> /\ phase = "sending" /\ phase' = "sleeping"
      BY <2>2 DEF RetryInClient
    <3>. QED
      BY <3>1, Undisturbed
  <2>3. CASE AttemptsFail(e)
    <3>1. UNCHANGED <<session, history, cache, vreq, answers, reply>> /\ phase = "sending" /\ phase' \in {"sending", "failed"}
      BY <2>3 DEF AttemptsFail
    <3>. QED
      BY <3>1, Undisturbed
  <2>. QED
    BY <2>1, <2>2, <2>3
<1>4. CASE UpstreamAnswers
  BY <1>4, AnswerConversation DEF UpstreamAnswers
<1>5. CASE ClientContinues
  BY <1>5, ClientConversation
<1>6. CASE LoseSignatures
  BY <1>6, LoseConversation
<1>7. CASE UNCHANGED vars
  <2>1. UNCHANGED <<session, history, cache, vreq, answers, reply>> /\ phase' = phase
    BY <1>7 DEF vars
  <2>. QED
    BY <2>1, Undisturbed
<1>. QED
  BY <1>1, <1>2, <1>3, <1>4, <1>5, <1>6, <1>7 DEF Next

THEOREM Conversation == Spec => []ConversationInv
  BY InitConversation, ConversationGoesOn, PTL DEF Spec

\* Every state is one of the model: signatures are real ones or the virtual
\* one, and the contents of every request have roles and parts the Vertex API
\* knows.
THEOREM TypeCorrect == Spec => []TypeOK
<1>1. ASSUME IInv, ConversationInv PROVE TypeOK
  <2>1. \A id \in DOMAIN cache : id \in Calls \cup Images /\ cache[id].sig \in Sigs
    BY <1>1 DEF ConversationInv, IsCache, Entries
  <2>2. /\ phase \in {"client", "sending", "sleeping", "answered", "failed"}
        /\ account \in 1..Accounts /\ attempt \in 0..retry_max_attempts - 1
    BY <1>1 DEF IInv, LoopInv, Phases
  <2>3. refused \subseteq 1..Accounts
    <3>1. account \in 1..Accounts /\ refused \subseteq 1..account /\ Accounts \in Nat
      BY <1>1, LoopsAssumption DEF IInv, LoopInv
    <3>2. \A i \in 1..account : i \in 1..Accounts
      BY <3>1
    <3>. QED
      BY <3>1, <3>2
  <2>. DEFINE C == vreq.contents
  <2>4. C \in Seq(SentContents)
    BY <1>1 DEF ConversationInv
  <2>. HIDE DEF C
  <2>5. ASSUME NEW i \in DOMAIN C
        PROVE  /\ C[i].role \in {"user", "model"}
               /\ \A j \in DOMAIN C[i].parts : C[i].parts[j] \in SentParts
    BY <2>4, ContentTypes
  <2>6. \A p \in SentParts : p.sig \in Sigs \cup {None, FALLBACK_SIGNATURE} /\ p.call \in Calls \cup {None}
    BY DEF SentParts
  <2>. QED
    BY <2>1, <2>2, <2>3, <2>5, <2>6 DEF TypeOK, Contents, Parts, C
<1>. QED
  BY <1>1, Invariance, Conversation, PTL

\* The calls of the assistant messages are those of all messages.
LEMMA MadeByAssistants ==
    ASSUME ConversationInv
    PROVE  Made = Asked
<1>1. ASSUME NEW k \in DOMAIN history
      PROVE  /\ ToSet(CallsOf(history[k])) = CallsMade(history[k], Claude)
             /\ history[k].role # "assistant" => CallsMade(history[k], Claude) = {}
  <2>. DEFINE m == history[k]
              s == CallsOf(m)
              K == CallsMade(m, Claude)
  <2>1. ClientSays(m, Claude)
    BY LenProperties DEF ConversationInv, Consistent
  <2>2. Each(s, K) /\ \A id \in K : \E i \in DOMAIN s : s[i] = id
    BY <2>1, CallsListed
  <2>3. m.role # "assistant" => K = {}
    <3>1. CASE Claude
      BY <2>1, <3>1 DEF ClientSays, ClaudeSays, ClaudeMessages
    <3>2. CASE ~Claude
      BY <2>1, <3>2 DEF ClientSays, ChatSays, CallsMade, CallSet
    <3>. QED
      BY <3>1, <3>2
  <2>. HIDE DEF m, s, K
  <2>4. \A i \in DOMAIN s : s[i] \in K
    BY <2>2 DEF Each
  <2>5. ToSet(s) = K
    BY <2>2, <2>4 DEF ToSet
  <2>. QED
    BY <2>3, <2>5 DEF m, s, K
<1>2. ASSUME NEW id \in Made PROVE id \in Asked
  <2>1. PICK k \in DOMAIN history : id \in ToSet(CallsOf(history[k]))
    BY <1>2 DEF Made
  <2>2. id \in CallsMade(history[k], Claude)
    BY <1>1, <2>1
  <2>. QED
    BY <2>2 DEF Asked, CallsAsked
<1>3. ASSUME NEW id \in Asked PROVE id \in Made
  <2>1. PICK k \in DOMAIN history : id \in CallsMade(history[k], Claude)
    BY <1>3 DEF Asked, CallsAsked
  <2>2. history[k].role = "assistant" /\ id \in ToSet(CallsOf(history[k]))
    BY <1>1, <2>1
  <2>. QED
    BY <2>2 DEF Made
<1>. QED
  BY <1>2, <1>3

\* In every request each call of the history stands once, and behind it, in a
\* later content, its only result under its name; nothing else is called or
\* answered, whatever the upstream made of its answers, whichever messages were
\* merged, dropped or cleaned, and whatever the cache has lost.
THEOREM CallsHaveResponses == Spec => []ResponsesFollowCalls
<1>1. ASSUME ConversationInv PROVE ResponsesFollowCalls
  <2>. DEFINE C == Contents
              places == UNION {{<<i, j>> : j \in DOMAIN Parts(i)} : i \in DOMAIN C}
              part(at) == Parts(at[1])[at[2]]
              once(at, Id(_)) == \A other \in places : Id(part(other)) = Id(part(at)) => other = at
              A == Made
  <2>. SUFFICES ASSUME phase = "sending"
                PROVE  /\ \A at \in places : {part(at).call, part(at).response} \subseteq A \cup {None}
                       /\ \A id \in A : \E call, response \in places :
                             /\ part(call).call = id /\ once(call, CallIn)
                             /\ part(response).response = id /\ once(response, ResponseIn)
                             /\ call[1] < response[1]
                             /\ part(response).name = id
    BY DEF ResponsesFollowCalls
  <2>1. Paired(C, A, A)
    BY <1>1, MadeByAssistants DEF ConversationInv, Contents
  <2>2. \A i : Parts(i) = C[i].parts
    BY DEF Parts
  <2>3. None \notin A
    BY <2>1, NoneAssumption DEF Paired
  <2>. HIDE DEF C, A
  <2>4. ASSUME NEW at \in places
        PROVE  \E i \in DOMAIN C : \E j \in DOMAIN C[i].parts : at = <<i, j>> /\ part(at) = C[i].parts[j]
    BY <2>2
  <2>5. ASSUME NEW i \in DOMAIN C, NEW j \in DOMAIN C[i].parts
        PROVE  <<i, j>> \in places /\ part(<<i, j>>) = C[i].parts[j]
    BY <2>2
  <2>. HIDE DEF places, part
  <2>6. ASSUME NEW at \in places PROVE {part(at).call, part(at).response} \subseteq A \cup {None}
    BY <2>1, <2>4 DEF Paired, CallsOnce, ResponsesOnce
  <2>7. ASSUME NEW id \in A
        PROVE  \E call, response \in places :
                  /\ part(call).call = id /\ once(call, CallIn)
                  /\ part(response).response = id /\ once(response, ResponseIn)
                  /\ call[1] < response[1]
                  /\ part(response).name = id
    <3>1. PICK i \in DOMAIN C : \E j \in DOMAIN C[i].parts : C[i].parts[j].call = id
      BY <2>1 DEF Paired, CallsOnce
    <3>2. PICK j \in DOMAIN C[i].parts : C[i].parts[j].call = id
      BY <3>1
    <3>3. PICK k \in DOMAIN C : \E l \in DOMAIN C[k].parts : C[k].parts[l].response = id
      BY <2>1 DEF Paired, ResponsesOnce
    <3>4. PICK l \in DOMAIN C[k].parts : C[k].parts[l].response = id
      BY <3>3
    <3>. DEFINE call == <<i, j>>
                response == <<k, l>>
    <3>5. call \in places /\ part(call) = C[i].parts[j] /\ response \in places /\ part(response) = C[k].parts[l]
      BY <2>5
    <3>6. call[1] < response[1]
      BY <2>1, <2>3, <3>2, <3>4 DEF Paired, Behind
    <3>7. ASSUME NEW other \in places, CallIn(part(other)) = CallIn(part(call)) PROVE other = call
      <4>1. PICK o \in DOMAIN C : \E p \in DOMAIN C[o].parts : other = <<o, p>> /\ part(other) = C[o].parts[p]
        BY <2>4
      <4>2. PICK p \in DOMAIN C[o].parts : other = <<o, p>> /\ part(other) = C[o].parts[p]
        BY <4>1
      <4>3. C[o].parts[p].call = C[i].parts[j].call /\ C[i].parts[j].call # None
        BY <2>3, <3>2, <3>5, <3>7, <4>2 DEF CallIn
      <4>4. i = o /\ j = p
        BY <2>1, <4>3 DEF Paired, CallsOnce
      <4>. QED
        BY <4>2, <4>4
    <3>8. ASSUME NEW other \in places, ResponseIn(part(other)) = ResponseIn(part(response)) PROVE other = response
      <4>1. PICK o \in DOMAIN C : \E p \in DOMAIN C[o].parts : other = <<o, p>> /\ part(other) = C[o].parts[p]
        BY <2>4
      <4>2. PICK p \in DOMAIN C[o].parts : other = <<o, p>> /\ part(other) = C[o].parts[p]
        BY <4>1
      <4>3. C[o].parts[p].response = C[k].parts[l].response /\ C[k].parts[l].response # None
        BY <2>3, <3>4, <3>5, <3>8, <4>2 DEF ResponseIn
      <4>4. k = o /\ l = p
        BY <2>1, <4>3 DEF Paired, ResponsesOnce
      <4>. QED
        BY <4>2, <4>4
    <3>9. part(response).name = id
      BY <2>1, <3>4, <3>5 DEF Paired, ResponsesOnce
    <3>10. part(call).call = id /\ part(response).response = id
      BY <3>2, <3>4, <3>5
    <3>11. once(call, CallIn) /\ once(response, ResponseIn)
      BY <3>7, <3>8
    <3>. HIDE DEF call, response
    <3>. QED
      BY <3>5, <3>6, <3>9, <3>10, <3>11
  <2>. QED
    BY <2>6, <2>7
<1>. QED
  BY <1>1, Conversation, PTL

-----------------------------------------------------------------------------
(* What the thinking of an answer may say, and under which signature: words *)
(* of the parts so far, signed by one of them.  strict: the client gets the *)
(* blocks one by one, and no call may lie behind the signature.             *)

Words(P, h) == {x \in Symbols : <<x>> = MissingThought \/ \E m \in 1..h : <<x>> = P[m].text}

Near(P, sig, h, strict) ==
    \E n \in 1..h : /\ P[n].sig = sig
                    /\ strict => \A l \in n..h : P[l].call = None

\* How much of the answer counts for call id.
Moment(P, id, h, strict) ==
    \E k \in 1..Len(P) : P[k].call = id /\ h = IF strict THEN k - 1 ELSE Len(P)

\* The signature is one for this text.
Theirs(P, text, sig, strict) ==
    \E h \in 0..Len(P) : Near(P, sig, h, strict) /\ text \in Seq(Words(P, h))

\* An answer in which only thoughts are signed.
Proper(P) ==
    /\ P \in Seq(GivenParts) /\ Distinct(P)
    /\ \A k \in DOMAIN P :
          /\ P[k].sig # None => P[k].thought
          /\ P[k].text = <<>> \/ \E x \in Symbols : P[k].text = <<x>>
          /\ P[k].call # None => ~P[k].thought /\ P[k].text = <<>> /\ P[k].image = None

LEMMA WordsMore ==
    ASSUME NEW P, NEW h \in Nat, NEW g \in 0..h
    PROVE  /\ Words(P, g) \subseteq Words(P, h) /\ Seq(Words(P, g)) \subseteq Seq(Words(P, h))
           /\ Words(P, h) \subseteq Symbols /\ Seq(Words(P, h)) \subseteq Strings
<1>1. \A m \in 1..g : m \in 1..h
  OBVIOUS
<1>2. Words(P, g) \subseteq Words(P, h) /\ Words(P, h) \subseteq Symbols
  BY <1>1 DEF Words
<1>3. Seq(Words(P, g)) \subseteq Seq(Words(P, h)) /\ Seq(Words(P, h)) \subseteq Strings
  BY <1>2, SeqSubset DEF Strings
<1>. QED
  BY <1>2, <1>3

LEMMA WordsSaid ==
    ASSUME NEW P, NEW h \in Nat
    PROVE  /\ MissingThought \in Seq(Words(P, h)) /\ <<>> \in Seq(Words(P, h))
           /\ \A s, t \in Seq(Words(P, h)) : s \o t \in Seq(Words(P, h))
<1>1. "missing_thought_text" \in Words(P, h)
  BY DEF Words, MissingThought, Symbols
<1>2. \A s, t \in Seq(Words(P, h)) : s \o t \in Seq(Words(P, h))
  BY ConcatProperties
<1>. HIDE DEF Words
<1>. QED
  BY <1>1, <1>2 DEF MissingThought

LEMMA PartWords ==
    ASSUME NEW P, Proper(P), NEW h \in Nat, h <= Len(P), NEW k \in 1..h
    PROVE  P[k].text \in Seq(Words(P, h))
<1>1. k \in DOMAIN P
  BY PartTypes DEF Proper
<1>2. CASE P[k].text = <<>>
  BY <1>2, WordsSaid
<1>3. CASE P[k].text # <<>>
  <2>1. PICK x \in Symbols : P[k].text = <<x>>
    BY <1>1, <1>3 DEF Proper
  <2>2. x \in Words(P, h)
    BY <2>1 DEF Words
  <2>. QED
    BY <2>1, <2>2
<1>. QED
  BY <1>2, <1>3

LEMMA NearLater ==
    ASSUME NEW P, NEW h \in Nat, NEW sig, NEW strict, Near(P, sig, h, strict), P[h + 1].call = None
    PROVE  Near(P, sig, h + 1, strict)
<1>1. PICK n \in 1..h : P[n].sig = sig /\ (strict => \A l \in n..h : P[l].call = None)
  BY DEF Near
<1>2. n \in 1..h + 1 /\ \A l \in n..h + 1 : l \in n..h \/ l = h + 1
  OBVIOUS
<1>. QED
  BY <1>1, <1>2 DEF Near

LEMMA NearNow ==
    ASSUME NEW P, NEW h \in Nat \ {0}, NEW strict, strict => P[h].call = None
    PROVE  Near(P, P[h].sig, h, strict)
<1>1. h \in 1..h /\ \A l \in h..h : l = h
  OBVIOUS
<1>. QED
  BY <1>1 DEF Near

\* Such a thought is signed by its answer.
LEMMA TheirsSigned ==
    ASSUME NEW P \in Seq(GivenParts), NEW p, p.sig # None,
           NEW strict, Claude /\ session.streams => strict, Theirs(P, p.text, p.sig, strict)
    PROVE  SignedBy(p, P)
<1>1. Len(P) \in Nat /\ DOMAIN P = 1..Len(P)
  BY LenProperties
<1>2. PICK h \in 0..Len(P) : Near(P, p.sig, h, strict) /\ p.text \in Seq(Words(P, h))
  BY DEF Theirs
<1>3. PICK n \in 1..h : P[n].sig = p.sig /\ (strict => \A l \in n..h : P[l].call = None)
  BY <1>2 DEF Near
<1>4. n \in DOMAIN P
  BY <1>1
<1>5. ASSUME NEW k \in DOMAIN p.text
      PROVE  <<p.text[k]>> = MissingThought \/
             \E m \in DOMAIN P :
                /\ <<p.text[k]>> = P[m].text
                /\ Claude /\ session.streams => \A l \in n..m : P[l].call = None
  <2>1. p.text[k] \in Words(P, h)
    BY <1>2, LenProperties, ElementOfSeq
  <2>2. CASE <<p.text[k]>> # MissingThought
    <3>1. PICK m \in 1..h : <<p.text[k]>> = P[m].text
      BY <2>1, <2>2 DEF Words
    <3>2. m \in DOMAIN P /\ \A l \in n..m : l \in n..h
      BY <1>1
    <3>. QED
      BY <1>3, <3>1, <3>2
  <2>. QED
    BY <2>2
<1>. QED
  BY <1>3, <1>4, <1>5 DEF SignedBy

-----------------------------------------------------------------------------
(* The thinking in a stream of events.                                      *)

Speaks(e, x) ==
    e.type = "content_block_delta" /\ e.index = x /\ e.kind \in {"thinking_delta", "text_delta"}
Signs(e, x) ==
    e.type = "content_block_delta" /\ e.index = x /\ e.kind = "signature_delta"
Thinks(e) == Starts_(e) /\ e.kind = "thinking"
Spoken(out, x, W) == \A i \in DOMAIN out : Speaks(out[i], x) => out[i].text \in Seq(W)

\* The thinking block that starts at s, of the first h parts: its signature
\* and the calls behind it come when it is finished.
Thought(out, s, block, P, h) ==
    LET x == out[s].index IN
    /\ Spoken(out, x, Words(P, h))
    /\ \A a \in DOMAIN out : Signs(out[a], x) =>
          \E sig \in Sigs : /\ out[a].text = <<sig>>
                            /\ \E g \in 0..h : Near(P, sig, g, TRUE) /\ Spoken(out, x, Words(P, g))
    /\ \A u \in DOMAIN out : s < u /\ Uses(out[u]) =>
          \E g \in 0..h : Moment(P, Head(out[u].text), g, TRUE) /\ Spoken(out, x, Words(P, g))
    /\ block.kind # "none" /\ block.index = x =>
          /\ block.kind = "thinking"
          /\ \A a \in DOMAIN out : ~Signs(out[a], x)
          /\ \A u \in DOMAIN out : s < u => ~Uses(out[u])

Line(out, block, next, P, h) ==
    /\ out \in Seq(Events) /\ block \in OpenBlocks /\ next \in Nat
    /\ block.kind # "none" => block.index < next
    /\ \A i \in DOMAIN out : Starts_(out[i]) \/ out[i].type = "content_block_delta" => out[i].index < next
    /\ \A s \in DOMAIN out : Thinks(out[s]) => Thought(out, s, block, P, h)

LEMMA Extended ==
    ASSUME NEW out \in Seq(Events), NEW e \in Events
    PROVE  LET new == Append(out, e)
               n == Len(out) + 1
           IN  /\ new \in Seq(Events) /\ n \in Nat /\ DOMAIN new = 1..n /\ new[n] = e
               /\ \A i \in DOMAIN new : i = n \/ (i \in DOMAIN out /\ i < n)
               /\ \A i \in DOMAIN out : i \in DOMAIN new /\ new[i] = out[i]
               /\ \A x, W : Spoken(new, x, W) <=> Spoken(out, x, W) /\ (Speaks(e, x) => e.text \in Seq(W))
<1>. DEFINE new == Append(out, e)
            n == Len(out) + 1
<1>1. /\ new \in Seq(Events) /\ n \in Nat \ {0} /\ DOMAIN new = 1..n /\ new[n] = e /\ DOMAIN out = 1..n - 1
      /\ \A i \in 1..n - 1 : new[i] = out[i]
  BY AppendProperties, LenProperties
<1>. HIDE DEF new, n
<1>2. /\ \A i \in 1..n : i = n \/ (i \in 1..n - 1 /\ i < n)
      /\ \A i \in 1..n - 1 : i \in 1..n
      /\ n \in 1..n
  BY <1>1
<1>3. ASSUME NEW x, NEW W
      PROVE  Spoken(new, x, W) <=> Spoken(out, x, W) /\ (Speaks(e, x) => e.text \in Seq(W))
  BY <1>1, <1>2 DEF Spoken
<1>. QED
  BY <1>1, <1>2, <1>3 DEF new, n

\* An event that is no delta of a thinking block and starts no block.
LEMMA LineOther ==
    ASSUME NEW P, NEW h \in Nat, NEW out, NEW block, NEW next, Line(out, block, next, P, h), NEW e \in Events,
           ~Starts_(e), e.type = "content_block_delta" => e.index < next,
           \A s \in DOMAIN out : Thinks(out[s]) => ~Speaks(e, out[s].index) /\ ~Signs(e, out[s].index)
    PROVE  Line(Append(out, e), block, next, P, h)
<1>. DEFINE new == Append(out, e)
            n == Len(out) + 1
<1>0. out \in Seq(Events)
  BY DEF Line
<1>1. /\ new \in Seq(Events) /\ n \in Nat /\ DOMAIN new = 1..n /\ new[n] = e
      /\ \A i \in DOMAIN new : i = n \/ (i \in DOMAIN out /\ i < n)
      /\ \A i \in DOMAIN out : i \in DOMAIN new /\ new[i] = out[i]
      /\ \A x, W : Spoken(new, x, W) <=> Spoken(out, x, W) /\ (Speaks(e, x) => e.text \in Seq(W))
  BY <1>0, Extended
<1>. HIDE DEF new, n
<1>2. ASSUME NEW s \in DOMAIN new, Thinks(new[s]) PROVE Thought(new, s, block, P, h)
  <2>1. s \in DOMAIN out /\ new[s] = out[s] /\ Thought(out, s, block, P, h)
    BY <1>1, <1>2 DEF Thinks, Line
  <2>2. ~Speaks(e, out[s].index) /\ ~Signs(e, out[s].index) /\ ~Uses(e)
    BY <1>2, <2>1 DEF Uses
  <2>3. \A W : Spoken(new, out[s].index, W) <=> Spoken(out, out[s].index, W)
    BY <1>1, <2>2
  <2>. QED
    BY <1>1, <2>1, <2>2, <2>3 DEF Thought
<1>3. \A i \in DOMAIN new : Starts_(new[i]) \/ new[i].type = "content_block_delta" => new[i].index < next
  BY <1>1 DEF Line
<1>. QED
  BY <1>1, <1>2, <1>3 DEF Line, new

LEMMA LineClosed ==
    ASSUME NEW P, NEW h, NEW out, NEW block, NEW next, Line(out, block, next, P, h)
    PROVE  Line(out, NoBlock, next, P, h)
<1>1. NoBlock \in OpenBlocks /\ NoBlock.kind = "none"
  BY DEF NoBlock, OpenBlocks
<1>. QED
  BY <1>1 DEF Line, Thought

LEMMA LineLater ==
    ASSUME NEW P, NEW h \in Nat, NEW out, NEW block, NEW next, Line(out, block, next, P, h)
    PROVE  Line(out, block, next, P, h + 1)
<1>1. Seq(Words(P, h)) \subseteq Seq(Words(P, h + 1)) /\ \A g \in 0..h : g \in 0..h + 1
  BY WordsMore
<1>2. ASSUME NEW x, Spoken(out, x, Words(P, h)) PROVE Spoken(out, x, Words(P, h + 1))
  BY <1>1, <1>2 DEF Spoken
<1>3. ASSUME NEW s \in DOMAIN out, Thought(out, s, block, P, h) PROVE Thought(out, s, block, P, h + 1)
  BY <1>1, <1>2, <1>3 DEF Thought
<1>. QED
  BY <1>3 DEF Line

\* A delta of an open text block says nothing in a thinking block.
LEMMA LineText ==
    ASSUME NEW P, NEW h \in Nat, NEW out, NEW block, NEW next, Line(out, block, next, P, h),
           block.kind = "text", NEW text \in Strings
    PROVE  Line(Append(out, Event("content_block_delta", block.index, "text_delta", text)), block, next, P, h)
<1>. DEFINE e == Event("content_block_delta", block.index, "text_delta", text)
<1>1. e \in Events /\ e.type = "content_block_delta" /\ e.index = block.index /\ e.kind = "text_delta" /\ block.index < next
  BY DEF Line, OpenBlocks, Event, Events, Names
<1>. HIDE DEF e
<1>2. ASSUME NEW s \in DOMAIN out, Thinks(out[s]) PROVE ~Speaks(e, out[s].index) /\ ~Signs(e, out[s].index)
  <2>1. Thought(out, s, block, P, h)
    BY <1>2 DEF Line
  <2>2. out[s].index # block.index
    BY <2>1 DEF Thought
  <2>. QED
    BY <1>1, <2>2 DEF Speaks, Signs
<1>3. ~Starts_(e)
  BY <1>1 DEF Starts_
<1>4. Line(Append(out, e), block, next, P, h)
  BY <1>1, <1>2, <1>3, LineOther
<1>. QED
  BY <1>4 DEF e

LEMMA LineThink ==
    ASSUME NEW P, NEW h \in Nat, NEW out, NEW block, NEW next, Line(out, block, next, P, h),
           block.kind = "thinking", NEW text \in Seq(Words(P, h))
    PROVE  Line(Append(out, Event("content_block_delta", block.index, "thinking_delta", text)), block, next, P, h)
<1>. DEFINE e == Event("content_block_delta", block.index, "thinking_delta", text)
            new == Append(out, e)
            n == Len(out) + 1
<1>0. out \in Seq(Events) /\ block.index < next /\ block.index \in Nat /\ text \in Strings
  BY WordsMore DEF Line, OpenBlocks
<1>1. e \in Events /\ e.type = "content_block_delta" /\ e.index = block.index /\ e.kind = "thinking_delta" /\ e.text = text
  BY <1>0 DEF Event, Events, Names
<1>. HIDE DEF e
<1>2. /\ new \in Seq(Events) /\ n \in Nat /\ DOMAIN new = 1..n /\ new[n] = e
      /\ \A i \in DOMAIN new : i = n \/ (i \in DOMAIN out /\ i < n)
      /\ \A i \in DOMAIN out : i \in DOMAIN new /\ new[i] = out[i]
      /\ \A x, W : Spoken(new, x, W) <=> Spoken(out, x, W) /\ (Speaks(e, x) => e.text \in Seq(W))
  BY <1>0, <1>1, Extended
<1>. HIDE DEF new, n
<1>3. ~Starts_(e) /\ ~Uses(e) /\ \A x : ~Signs(e, x)
  BY <1>1 DEF Starts_, Uses, Signs
<1>4. ASSUME NEW s \in DOMAIN new, Thinks(new[s]) PROVE Thought(new, s, block, P, h)
  <2>1. s \in DOMAIN out /\ new[s] = out[s] /\ Thought(out, s, block, P, h)
    BY <1>2, <1>3, <1>4 DEF Thinks, Line
  <2>. DEFINE x == out[s].index
  <2>2. Spoken(new, x, Words(P, h))
    BY <1>1, <1>2, <2>1 DEF Thought
  <2>3. CASE x = block.index
    <3>1. (\A a \in DOMAIN new : ~Signs(new[a], x)) /\ \A u \in DOMAIN new : s < u => ~Uses(new[u])
      BY <1>2, <1>3, <2>1, <2>3 DEF Thought
    <3>. QED
      BY <2>1, <2>2, <3>1 DEF Thought
  <2>4. CASE x # block.index
    <3>1. ~Speaks(e, x)
      BY <1>1, <2>4 DEF Speaks
    <3>2. \A W : Spoken(new, x, W) <=> Spoken(out, x, W)
      BY <1>2, <3>1
    <3>. QED
      BY <1>2, <1>3, <2>1, <2>4, <3>2 DEF Thought
  <2>. QED
    BY <2>3, <2>4
<1>5. \A i \in DOMAIN new : Starts_(new[i]) \/ new[i].type = "content_block_delta" => new[i].index < next
  BY <1>0, <1>1, <1>2 DEF Line
<1>6. Line(new, block, next, P, h)
  BY <1>2, <1>4, <1>5 DEF Line
<1>. QED
  BY <1>6 DEF new, e

\* A signature ends its block.
LEMMA LineSign ==
    ASSUME NEW P, NEW h \in Nat, NEW out, NEW block, NEW next, Line(out, block, next, P, h),
           block.kind = "thinking", NEW sig \in Sigs, Near(P, sig, h, TRUE)
    PROVE  Line(Append(out, Event("content_block_delta", block.index, "signature_delta", <<sig>>)),
                NoBlock, next, P, h)
<1>. DEFINE e == Event("content_block_delta", block.index, "signature_delta", <<sig>>)
            new == Append(out, e)
            n == Len(out) + 1
<1>0. out \in Seq(Events) /\ block.index < next /\ block.index \in Nat /\ <<sig>> \in Strings
  BY SymbolTypes DEF Line, OpenBlocks
<1>1. e \in Events /\ e.type = "content_block_delta" /\ e.index = block.index /\ e.kind = "signature_delta" /\ e.text = <<sig>>
  BY <1>0 DEF Event, Events, Names
<1>. HIDE DEF e
<1>2. /\ new \in Seq(Events) /\ n \in Nat /\ DOMAIN new = 1..n /\ new[n] = e
      /\ \A i \in DOMAIN new : i = n \/ (i \in DOMAIN out /\ i < n)
      /\ \A i \in DOMAIN out : i \in DOMAIN new /\ new[i] = out[i]
      /\ \A x, W : Spoken(new, x, W) <=> Spoken(out, x, W) /\ (Speaks(e, x) => e.text \in Seq(W))
  BY <1>0, <1>1, Extended
<1>. HIDE DEF new, n
<1>3. ~Starts_(e) /\ ~Uses(e) /\ \A x : ~Speaks(e, x)
  BY <1>1 DEF Starts_, Uses, Speaks
<1>4. NoBlock \in OpenBlocks /\ NoBlock.kind = "none"
  BY DEF NoBlock, OpenBlocks
<1>5. ASSUME NEW s \in DOMAIN new, Thinks(new[s]) PROVE Thought(new, s, NoBlock, P, h)
  <2>1. s \in DOMAIN out /\ new[s] = out[s] /\ Thought(out, s, block, P, h)
    BY <1>2, <1>3, <1>5 DEF Thinks, Line
  <2>. DEFINE x == out[s].index
  <2>2. \A W : Spoken(new, x, W) <=> Spoken(out, x, W)
    BY <1>2, <1>3
  <2>3. h \in 0..h /\ Spoken(out, x, Words(P, h))
    BY <2>1 DEF Thought
  <2>4. ASSUME NEW a \in DOMAIN new, Signs(new[a], x)
        PROVE  \E g \in Sigs : /\ new[a].text = <<g>>
                               /\ \E i \in 0..h : Near(P, g, i, TRUE) /\ Spoken(new, x, Words(P, i))
    <3>1. CASE a = n
      BY <1>1, <1>2, <2>2, <2>3, <3>1
    <3>2. CASE a \in DOMAIN out
      BY <1>2, <2>1, <2>2, <2>4, <3>2 DEF Thought
    <3>. QED
      BY <1>2, <3>1, <3>2
  <2>5. ASSUME NEW u \in DOMAIN new, s < u, Uses(new[u])
        PROVE  \E g \in 0..h : Moment(P, Head(new[u].text), g, TRUE) /\ Spoken(new, x, Words(P, g))
    BY <1>2, <1>3, <2>1, <2>2, <2>5 DEF Thought
  <2>. QED
    BY <1>4, <2>1, <2>2, <2>3, <2>4, <2>5 DEF Thought
<1>6. \A i \in DOMAIN new : Starts_(new[i]) \/ new[i].type = "content_block_delta" => new[i].index < next
  BY <1>0, <1>1, <1>2 DEF Line
<1>7. Line(new, NoBlock, next, P, h)
  BY <1>2, <1>4, <1>5, <1>6 DEF Line
<1>. QED
  BY <1>7 DEF new, e

\* A block that starts has said nothing yet.
LEMMA LineStart ==
    ASSUME NEW P, NEW h \in Nat, NEW out, NEW block, NEW next, Line(out, block, next, P, h),
           NEW kind \in {"thinking", "text"}
    PROVE  Line(Append(out, Event("content_block_start", next, kind, <<>>)),
                [index |-> next, kind |-> kind], next + 1, P, h)
<1>. DEFINE e == Event("content_block_start", next, kind, <<>>)
            b == [index |-> next, kind |-> kind]
            new == Append(out, e)
            n == Len(out) + 1
<1>0. out \in Seq(Events) /\ next \in Nat
  BY DEF Line
<1>1. /\ e \in Events /\ e.type = "content_block_start" /\ e.index = next /\ e.kind = kind
      /\ b \in OpenBlocks /\ b.index = next /\ b.kind = kind
  BY <1>0, SymbolTypes DEF Event, Events, Names, OpenBlocks
<1>. HIDE DEF e, b
<1>2. /\ new \in Seq(Events) /\ n \in Nat /\ DOMAIN new = 1..n /\ new[n] = e
      /\ \A i \in DOMAIN new : i = n \/ (i \in DOMAIN out /\ i < n)
      /\ \A i \in DOMAIN out : i \in DOMAIN new /\ new[i] = out[i]
      /\ \A x, W : Spoken(new, x, W) <=> Spoken(out, x, W) /\ (Speaks(e, x) => e.text \in Seq(W))
  BY <1>0, <1>1, Extended
<1>. HIDE DEF new, n
<1>3. ~Uses(e) /\ \A x : ~Speaks(e, x) /\ ~Signs(e, x)
  BY <1>1 DEF Uses, Speaks, Signs
<1>4. \A i \in DOMAIN out : out[i].index \in Nat
  <2>1. \A i \in DOMAIN out : out[i] \in Events
    BY <1>0, ElementOfSeq, LenProperties
  <2>. QED
    BY <2>1 DEF Events
<1>5. \A i \in DOMAIN out : Starts_(out[i]) \/ out[i].type = "content_block_delta" => out[i].index # next
  BY <1>0, <1>4 DEF Line
<1>6. ASSUME NEW s \in DOMAIN out, Thinks(out[s]) PROVE Thought(new, s, b, P, h)
  <2>1. new[s] = out[s] /\ Thought(out, s, block, P, h) /\ out[s].index # b.index
    BY <1>1, <1>2, <1>5, <1>6 DEF Thinks, Line
  <2>2. \A W : Spoken(new, out[s].index, W) <=> Spoken(out, out[s].index, W)
    BY <1>2, <1>3
  <2>3. \A a \in DOMAIN new : Signs(new[a], out[s].index) => a \in DOMAIN out /\ new[a] = out[a]
    BY <1>2, <1>3
  <2>4. \A a \in DOMAIN new : Uses(new[a]) => a \in DOMAIN out /\ new[a] = out[a]
    BY <1>2, <1>3
  <2>. QED
    BY <2>1, <2>2, <2>3, <2>4 DEF Thought
<1>7. ASSUME Thinks(e) PROVE Thought(new, n, b, P, h)
  <2>1. kind = "thinking"
    BY <1>1, <1>7 DEF Thinks
  <2>2. \A a \in DOMAIN new : ~Signs(new[a], next) /\ ~Speaks(new[a], next)
    BY <1>2, <1>3, <1>5 DEF Signs, Speaks
  <2>3. \A u \in DOMAIN new : n < u => ~Uses(new[u])
    BY <1>2
  <2>. QED
    BY <1>1, <1>2, <2>1, <2>2, <2>3 DEF Thought, Spoken
<1>8. \A s \in DOMAIN new : Thinks(new[s]) => Thought(new, s, b, P, h)
  BY <1>2, <1>6, <1>7
<1>9. \A i \in DOMAIN new : Starts_(new[i]) \/ new[i].type = "content_block_delta" => new[i].index < next + 1
  BY <1>0, <1>1, <1>2, <1>4 DEF Line
<1>10. b.index < next + 1 /\ next + 1 \in Nat
  BY <1>0, <1>1
<1>11. Line(new, b, next + 1, P, h)
  BY <1>1, <1>2, <1>8, <1>9, <1>10 DEF Line
<1>. QED
  BY <1>11 DEF new, e, b

\* A call comes behind all thinking of the parts before it.
LEMMA LineUse ==
    ASSUME NEW P, NEW h \in Nat, NEW out, NEW block, NEW next, Line(out, block, next, P, h),
           block.kind = "none", NEW call \in Calls, Moment(P, call, h, TRUE)
    PROVE  Line(Append(out, Event("content_block_start", next, "tool_use", <<call>>)), block, next + 1, P, h)
<1>. DEFINE e == Event("content_block_start", next, "tool_use", <<call>>)
            new == Append(out, e)
            n == Len(out) + 1
<1>0. out \in Seq(Events) /\ next \in Nat
  BY DEF Line
<1>1. /\ e \in Events /\ e.type = "content_block_start" /\ e.index = next /\ e.kind = "tool_use" /\ Head(e.text) = call
  <2>1. <<call>> \in Strings /\ Head(<<call>>) = call
    BY SymbolTypes
  <2>. QED
    BY <1>0, <2>1 DEF Event, Events, Names
<1>. HIDE DEF e
<1>2. /\ new \in Seq(Events) /\ n \in Nat /\ DOMAIN new = 1..n /\ new[n] = e
      /\ \A i \in DOMAIN new : i = n \/ (i \in DOMAIN out /\ i < n)
      /\ \A i \in DOMAIN out : i \in DOMAIN new /\ new[i] = out[i]
      /\ \A x, W : Spoken(new, x, W) <=> Spoken(out, x, W) /\ (Speaks(e, x) => e.text \in Seq(W))
  BY <1>0, <1>1, Extended
<1>. HIDE DEF new, n
<1>3. ~Thinks(e) /\ \A x : ~Speaks(e, x) /\ ~Signs(e, x)
  BY <1>1 DEF Thinks, Speaks, Signs
<1>4. ASSUME NEW s \in DOMAIN new, Thinks(new[s]) PROVE Thought(new, s, block, P, h)
  <2>1. s \in DOMAIN out /\ new[s] = out[s] /\ Thought(out, s, block, P, h)
    BY <1>2, <1>3, <1>4 DEF Thinks, Line
  <2>. DEFINE x == out[s].index
  <2>2. \A W : Spoken(new, x, W) <=> Spoken(out, x, W)
    BY <1>2, <1>3
  <2>3. h \in 0..h /\ Spoken(out, x, Words(P, h))
    BY <2>1 DEF Thought
  <2>4. \A a \in DOMAIN new : Signs(new[a], x) => a \in DOMAIN out /\ new[a] = out[a]
    BY <1>2, <1>3
  <2>5. ASSUME NEW u \in DOMAIN new, s < u, Uses(new[u])
        PROVE  \E g \in 0..h : Moment(P, Head(new[u].text), g, TRUE) /\ Spoken(new, x, Words(P, g))
    <3>1. CASE u = n
      BY <1>1, <1>2, <2>2, <2>3, <3>1
    <3>2. CASE u \in DOMAIN out
      BY <1>2, <2>1, <2>2, <2>5, <3>2 DEF Thought
    <3>. QED
      BY <1>2, <3>1, <3>2
  <2>. QED
    BY <2>1, <2>2, <2>3, <2>4, <2>5 DEF Thought
<1>5. \A i \in DOMAIN out : out[i].index \in Nat
  <2>1. \A i \in DOMAIN out : out[i] \in Events
    BY <1>0, ElementOfSeq, LenProperties
  <2>. QED
    BY <2>1 DEF Events
<1>6. \A i \in DOMAIN new : Starts_(new[i]) \/ new[i].type = "content_block_delta" => new[i].index < next + 1
  BY <1>0, <1>1, <1>2, <1>5 DEF Line
<1>7. Line(new, block, next + 1, P, h)
  BY <1>0, <1>2, <1>4, <1>6 DEF Line
<1>. QED
  BY <1>7 DEF new, e

-----------------------------------------------------------------------------
(* The Claude writer signs each thought, and each call, by what came before *)
(* it.                                                                      *)

Bound(P, s, strict) ==
    \E h \in 0..Len(P) : /\ Moment(P, s.key, h, strict) /\ Near(P, s.sig, h, strict)
                         /\ s.reasoning \in Seq(Words(P, h))

Recites(w, P, h) ==
    /\ w \in ClaudeWriters /\ w.signing = TRUE
    /\ w.thought \in Seq(Words(P, h))
    /\ w.sig # None => Near(P, w.sig, h, TRUE)
    /\ Line(w.out, w.block, w.next_index, P, h)
    /\ \A i \in DOMAIN w.saves : Bound(P, w.saves[i], TRUE)

\* v is w but for what it has sent and logged.
Sent(v, w) ==
    /\ v.next_index = w.next_index /\ v.block = w.block /\ v.sig = w.sig /\ v.thought = w.thought
    /\ v.emitted = w.emitted /\ v.signing = w.signing /\ v.saves = w.saves

LEMMA EmitPlainSent ==
    ASSUME NEW w \in ClaudeWriters, NEW e \in Events
    PROVE  LET v == EmitPlain(w, e) IN v \in ClaudeWriters /\ v.out = Append(w.out, e) /\ Sent(v, w)
<1>. DEFINE u == FlushLog(w)
            v == EmitPlain(w, e)
<1>1. v \in ClaudeWriters /\ v.out = Append(w.out, e)
  BY EmitPlainTyped
<1>2. Sent(u, w)
  BY DEF FlushLog, Sent, ClaudeWriters
<1>3. v = [u EXCEPT !.out = Append(@, e), !.log = Append(@, e)]
  BY DEF EmitPlain
<1>4. DOMAIN u = DOMAIN w
  BY DEF FlushLog, ClaudeWriters
<1>. HIDE DEF u
<1>5. Sent(v, u)
  BY <1>3, <1>4 DEF Sent, ClaudeWriters
<1>. HIDE DEF v
<1>6. Sent(v, w)
  BY <1>2, <1>5 DEF Sent
<1>. QED
  BY <1>1, <1>6 DEF v

LEMMA EmitDeltaSent ==
    ASSUME NEW w \in ClaudeWriters, NEW kind \in {"thinking_delta", "text_delta"}, NEW text \in Strings
    PROVE  LET v == EmitDelta(w, kind, text)
               e == Event("content_block_delta", w.block.index, kind, text)
           IN  v \in ClaudeWriters /\ v.out = Append(w.out, e) /\ Sent(v, w)
<1>. DEFINE c == CollectDelta(w, kind, w.block.index, text)
            e == Event("content_block_delta", w.block.index, kind, text)
            v == EmitDelta(w, kind, text)
<1>1. w.block.index \in Nat /\ w.pending \in Pendings /\ w.out \in Seq(Events)
  BY DEF ClaudeWriters, OpenBlocks
<1>2. e \in Events
  BY <1>1 DEF Event, Events, Names
<1>3. c \in ClaudeWriters /\ c.out = w.out /\ Sent(c, w)
  <2>1. \A t \in Strings : [index |-> w.block.index, kind |-> kind, text |-> t] \in Pendings
    BY <1>1 DEF Pendings, Names
  <2>2. w.pending.text \o text \in Strings /\ <<>> \o text \in Strings
    BY <1>1, WriterBasics DEF Pendings
  <2>4. FlushLog(w) \in ClaudeWriters /\ FlushLog(w).out = w.out /\ Sent(FlushLog(w), w)
    <3>. DEFINE own == Event("content_block_delta", w.pending.index, w.pending.kind, w.pending.text)
    <3>1. own \in Events /\ NoPending \in Pendings
      BY <1>1, WriterBasics DEF ClaudeWriters, Pendings, Event, Events, Names
    <3>2. Append(w.log, own) \in Seq(Events)
      BY <1>1, <3>1, AppendProperties DEF ClaudeWriters
    <3>. QED
      BY <1>1, <3>1, <3>2 DEF FlushLog, ClaudeWriters, Sent
  <2>5. Sent(w, w)
    BY DEF Sent
  <2>. DEFINE same == w.pending.kind = kind /\ w.pending.index = w.block.index
              u == IF same THEN w ELSE FlushLog(w)
              before == IF same THEN w.pending.text ELSE <<>>
              p == [index |-> w.block.index, kind |-> kind, text |-> before \o text]
  <2>6. u \in ClaudeWriters /\ u.out = w.out /\ Sent(u, w)
    BY <2>4, <2>5
  <2>7. p \in Pendings
    BY <2>1, <2>2
  <2>8. c = w \/ c = [u EXCEPT !.pending = p]
    BY DEF CollectDelta
  <2>. HIDE DEF u, p, c
  <2>9. [u EXCEPT !.pending = p] \in ClaudeWriters /\ [u EXCEPT !.pending = p].out = w.out
    BY <2>6, <2>7 DEF ClaudeWriters
  <2>10. Sent([u EXCEPT !.pending = p], w)
    BY <2>6 DEF ClaudeWriters, Sent
  <2>. QED
    BY <2>5, <2>8, <2>9, <2>10
<1>4. v = [c EXCEPT !.out = Append(@, e)]
  BY DEF EmitDelta
<1>5. Append(w.out, e) \in Seq(Events)
  BY <1>1, <1>2, AppendProperties
<1>. HIDE DEF c, e, v
<1>6. v \in ClaudeWriters /\ v.out = Append(w.out, e)
  BY <1>3, <1>4, <1>5 DEF ClaudeWriters
<1>7. Sent(v, w)
  BY <1>3, <1>4 DEF Sent, ClaudeWriters
<1>. QED
  BY <1>6, <1>7 DEF v, e

\* What counts is what was sent and what is held.
LEMMA RecitesSent ==
    ASSUME NEW w, NEW P, NEW h, Recites(w, P, h), NEW v \in ClaudeWriters, Sent(v, w),
           Line(v.out, w.block, w.next_index, P, h)
    PROVE  Recites(v, P, h)
  BY DEF Recites, Sent

LEMMA RecitesLater ==
    ASSUME NEW w, NEW P, NEW h \in Nat, Recites(w, P, h), w.sig = None \/ P[h + 1].call = None
    PROVE  Recites(w, P, h + 1)
<1>1. Line(w.out, w.block, w.next_index, P, h + 1)
  BY LineLater DEF Recites
<1>2. w.thought \in Seq(Words(P, h + 1))
  BY WordsMore DEF Recites
<1>3. w.sig # None => Near(P, w.sig, h + 1, TRUE)
  BY NearLater DEF Recites
<1>. QED
  BY <1>1, <1>2, <1>3 DEF Recites

\* Events about the message, and the end of a block.
LEMMA RecitesPlain ==
    ASSUME NEW w, NEW P, NEW h \in Nat, Recites(w, P, h), NEW e \in Events,
           ~Starts_(e), e.type # "content_block_delta"
    PROVE  Recites(EmitPlain(w, e), P, h) /\ Sent(EmitPlain(w, e), w)
<1>. DEFINE v == EmitPlain(w, e)
<1>1. w \in ClaudeWriters /\ Line(w.out, w.block, w.next_index, P, h)
  BY DEF Recites
<1>2. v \in ClaudeWriters /\ v.out = Append(w.out, e) /\ Sent(v, w)
  BY <1>1, EmitPlainSent
<1>. HIDE DEF v
<1>3. \A s \in DOMAIN w.out : Thinks(w.out[s]) => ~Speaks(e, w.out[s].index) /\ ~Signs(e, w.out[s].index)
  BY DEF Speaks, Signs
<1>4. Line(v.out, w.block, w.next_index, P, h)
  BY <1>1, <1>2, <1>3, LineOther
<1>5. Recites(v, P, h)
  BY <1>2, <1>4, RecitesSent
<1>. QED
  BY <1>2, <1>5 DEF v

LEMMA CloseRecites ==
    ASSUME NEW w, NEW P, NEW h \in Nat, Recites(w, P, h)
    PROVE  Recites(CloseBlock(w), P, h) /\ CloseBlock(w).block.kind = "none" /\ CloseBlock(w).sig = w.sig
<1>. DEFINE e == Event("content_block_stop", w.block.index, "none", <<>>)
            v == EmitPlain(w, e)
            u == [v EXCEPT !.block = NoBlock]
<1>1. e \in Events /\ ~Starts_(e) /\ e.type # "content_block_delta"
  BY SymbolTypes DEF Recites, ClaudeWriters, OpenBlocks, Event, Events, Names, Starts_
<1>2. Recites(v, P, h) /\ Sent(v, w)
  BY <1>1, RecitesPlain
<1>. HIDE DEF v
<1>3. NoBlock \in OpenBlocks /\ NoBlock.kind = "none"
  BY DEF NoBlock, OpenBlocks
<1>4. /\ u \in ClaudeWriters /\ u.block = NoBlock /\ u.out = v.out /\ u.next_index = v.next_index /\ u.sig = v.sig
      /\ u.thought = v.thought /\ u.signing = v.signing /\ u.saves = v.saves
  BY <1>2, <1>3 DEF Recites, ClaudeWriters
<1>. HIDE DEF u
<1>5. Line(u.out, u.block, u.next_index, P, h)
  BY <1>2, <1>4, LineClosed DEF Recites
<1>6. Recites(u, P, h)
  BY <1>2, <1>4, <1>5 DEF Recites
<1>7. CloseBlock(w) = IF w.block.kind = "none" THEN w ELSE u
  BY DEF CloseBlock, u, v
<1>. QED
  BY <1>2, <1>3, <1>4, <1>6, <1>7 DEF Sent

LEMMA OpenRecites ==
    ASSUME NEW w, NEW P, NEW h \in Nat, Recites(w, P, h), NEW kind \in {"thinking", "text"}
    PROVE  Recites(OpenBlock(w, kind), P, h) /\ OpenBlock(w, kind).block.kind = kind
<1>. DEFINE e == Event("content_block_start", w.next_index, kind, <<>>)
            v == EmitPlain(w, e)
            b == [index |-> w.next_index, kind |-> kind]
            t == IF kind = "thinking" THEN <<>> ELSE v.thought
            d == IF kind = "thinking" THEN FALSE ELSE v.emitted
            u == [v EXCEPT !.next_index = @ + 1, !.block = b, !.thought = t, !.emitted = d]
<1>1. w \in ClaudeWriters /\ Line(w.out, w.block, w.next_index, P, h) /\ w.next_index \in Nat
  BY DEF Recites, ClaudeWriters
<1>2. e \in Events
  BY <1>1, SymbolTypes DEF Event, Events, Names
<1>3. OpenBlock(w, kind) = u
  BY DEF OpenBlock
<1>4. Line(Append(w.out, e), b, w.next_index + 1, P, h)
  BY <1>1, LineStart
<1>. HIDE DEF e
<1>5. v \in ClaudeWriters /\ v.out = Append(w.out, e) /\ Sent(v, w)
  BY <1>1, <1>2, EmitPlainSent
<1>. HIDE DEF v
<1>6. t \in Seq(Words(P, h)) /\ t \in Strings
  <2>1. v.thought \in Seq(Words(P, h))
    BY <1>5 DEF Recites, Sent
  <2>2. t \in Seq(Words(P, h))
    BY <2>1, WordsSaid
  <2>. HIDE DEF t
  <2>. QED
    BY <2>2, WordsMore
<1>7. d \in BOOLEAN
  <2>1. v.emitted \in BOOLEAN
    BY <1>5 DEF ClaudeWriters
  <2>. QED
    BY <2>1, Zenon
<1>8. b \in OpenBlocks /\ b.kind = kind
  BY <1>1 DEF OpenBlocks
<1>. HIDE DEF b, t, d
<1>. DEFINE n == v.next_index + 1
<1>9. /\ u \in ClaudeWriters /\ u.block = b /\ u.out = v.out /\ u.next_index = w.next_index + 1 /\ u.sig = v.sig
      /\ u.thought = t /\ u.signing = v.signing /\ u.saves = v.saves
  <2>1. n \in Nat /\ n = w.next_index + 1
    BY <1>1, <1>5 DEF Sent
  <2>. HIDE DEF n
  <2>2. u = [v EXCEPT !.next_index = n, !.block = b, !.thought = t, !.emitted = d]
    BY DEF n
  <2>. HIDE DEF u
  <2>. QED
    BY <1>5, <1>6, <1>7, <1>8, <2>1, <2>2 DEF ClaudeWriters
<1>. HIDE DEF u
<1>10. Recites(u, P, h)
  BY <1>4, <1>5, <1>6, <1>9 DEF Recites, Sent
<1>. QED
  BY <1>3, <1>8, <1>9, <1>10

\* A pending signature is given to the open thinking block before it ends.
LEMMA FlushRecites ==
    ASSUME NEW w, NEW P, NEW h \in Nat, Recites(w, P, h)
    PROVE  LET u == CloseBlock(FlushSignature(w)) IN Recites(u, P, h) /\ u.block.kind = "none"
<1>. DEFINE v == IF Trimmed(w.thought)
                 THEN [EmitThinkingDelta(w, MissingThought) EXCEPT !.thought = @ \o MissingThought]
                 ELSE w
            e == Event("content_block_delta", w.block.index, "signature_delta", <<w.sig>>)
            f == [EmitPlain(v, e) EXCEPT !.emitted = TRUE]
<1>1. CASE w.block.kind = "thinking" /\ w.signing /\ w.sig # None /\ ~w.emitted
  <2>1. FlushSignature(w) = f
    BY <1>1 DEF FlushSignature
  <2>2. /\ Recites(v, P, h) /\ v.sig = w.sig /\ v.block = w.block
    <3>. DEFINE d == Event("content_block_delta", w.block.index, "thinking_delta", MissingThought)
                c == EmitDelta(w, "thinking_delta", MissingThought)
                t == c.thought \o MissingThought
                x == [c EXCEPT !.thought = t]
    <3>1. v = w \/ v = x
      BY DEF EmitThinkingDelta
    <3>2. c \in ClaudeWriters /\ c.out = Append(w.out, d) /\ Sent(c, w)
      BY EmitDeltaSent, SymbolTypes DEF Recites
    <3>3. Line(Append(w.out, d), w.block, w.next_index, P, h)
      BY <1>1, WordsSaid, LineThink DEF Recites
    <3>. HIDE DEF c, d
    <3>4. Recites(c, P, h)
      BY <3>2, <3>3, RecitesSent
    <3>5. t \in Seq(Words(P, h)) /\ t \in Strings
      <4>1. t \in Seq(Words(P, h))
        BY <3>4, WordsSaid DEF Recites
      <4>. HIDE DEF t
      <4>. QED
        BY <4>1, WordsMore
    <3>. HIDE DEF t
    <3>6. /\ x \in ClaudeWriters /\ x.block = c.block /\ x.out = c.out /\ x.next_index = c.next_index /\ x.sig = c.sig
          /\ x.thought = t /\ x.signing = c.signing /\ x.saves = c.saves
      BY <3>2, <3>5 DEF ClaudeWriters
    <3>. HIDE DEF x
    <3>7. Recites(x, P, h)
      BY <3>4, <3>5, <3>6 DEF Recites
    <3>. QED
      BY <3>1, <3>2, <3>6, <3>7 DEF Sent
  <2>. HIDE DEF v
  <2>3. v \in ClaudeWriters /\ Line(v.out, v.block, v.next_index, P, h) /\ v.block.index \in Nat
        /\ v.block.kind = "thinking" /\ v.sig \in Sigs /\ Near(P, v.sig, h, TRUE)
    BY <1>1, <2>2 DEF Recites, ClaudeWriters, OpenBlocks
  <2>4. e = Event("content_block_delta", v.block.index, "signature_delta", <<v.sig>>)
    BY <2>2
  <2>5. e \in Events
    <3>1. <<v.sig>> \in Strings
      BY <2>3, SymbolTypes
    <3>. QED
      BY <2>3, <2>4, <3>1 DEF Event, Events, Names
  <2>6. Line(Append(v.out, e), NoBlock, v.next_index, P, h)
    BY <2>3, <2>4, LineSign
  <2>. DEFINE g == EmitPlain(v, e)
              stop == Event("content_block_stop", f.block.index, "none", <<>>)
              z == EmitPlain(f, stop)
              u == [z EXCEPT !.block = NoBlock]
  <2>. HIDE DEF e
  <2>7. g \in ClaudeWriters /\ g.out = Append(v.out, e) /\ Sent(g, v)
    BY <2>3, <2>5, EmitPlainSent
  <2>. HIDE DEF g
  <2>8. f \in ClaudeWriters /\ f.out = g.out /\ f.next_index = g.next_index /\ f.block = g.block
        /\ f.sig = g.sig /\ f.thought = g.thought /\ f.signing = g.signing /\ f.saves = g.saves
    <3>1. f = [g EXCEPT !.emitted = TRUE]
      BY DEF g
    <3>. HIDE DEF f
    <3>. QED
      BY <2>7, <3>1 DEF ClaudeWriters
  <2>. HIDE DEF f
  <2>9. f.block.kind = "thinking" /\ f.block.index \in Nat
    BY <2>3, <2>7, <2>8 DEF Sent
  <2>10. stop \in Events /\ ~Starts_(stop) /\ stop.type # "content_block_delta"
    BY <2>9, SymbolTypes DEF Event, Events, Names, Starts_
  <2>11. CloseBlock(FlushSignature(w)) = u
    BY <2>1, <2>9 DEF CloseBlock
  <2>. HIDE DEF stop
  <2>12. z \in ClaudeWriters /\ z.out = Append(f.out, stop) /\ Sent(z, f)
    BY <2>8, <2>10, EmitPlainSent
  <2>. HIDE DEF z
  <2>13. Line(Append(f.out, stop), NoBlock, v.next_index, P, h)
    <3>1. \A s \in DOMAIN f.out : Thinks(f.out[s]) => ~Speaks(stop, f.out[s].index) /\ ~Signs(stop, f.out[s].index)
      BY <2>10 DEF Speaks, Signs
    <3>2. Line(f.out, NoBlock, v.next_index, P, h)
      BY <2>6, <2>7, <2>8
    <3>. QED
      BY <2>10, <3>1, <3>2, LineOther
  <2>14. NoBlock \in OpenBlocks /\ NoBlock.kind = "none"
    BY DEF NoBlock, OpenBlocks
  <2>15. /\ u \in ClaudeWriters /\ u.block = NoBlock /\ u.out = z.out /\ u.next_index = z.next_index /\ u.sig = z.sig
         /\ u.thought = z.thought /\ u.signing = z.signing /\ u.saves = z.saves
    BY <2>12, <2>14 DEF ClaudeWriters
  <2>. HIDE DEF u
  <2>16. Recites(u, P, h)
    BY <2>2, <2>7, <2>8, <2>12, <2>13, <2>15 DEF Recites, Sent
  <2>. QED
    BY <2>11, <2>14, <2>15, <2>16
<1>2. CASE ~(w.block.kind = "thinking" /\ w.signing /\ w.sig # None /\ ~w.emitted)
  <2>1. FlushSignature(w) = w
    BY <1>2 DEF FlushSignature
  <2>. QED
    BY <2>1, CloseRecites
<1>. QED
  BY <1>1, <1>2

-----------------------------------------------------------------------------
LEMMA DeltaRecites ==
    ASSUME NEW w, NEW P, NEW h \in Nat, Recites(w, P, h), NEW kind, NEW text \in Strings,
           \/ w.block.kind = "thinking" /\ kind = "thinking_delta" /\ text \in Seq(Words(P, h))
           \/ w.block.kind = "text" /\ kind = "text_delta"
    PROVE  Recites(EmitDelta(w, kind, text), P, h) /\ Sent(EmitDelta(w, kind, text), w)
<1>. DEFINE v == EmitDelta(w, kind, text)
            e == Event("content_block_delta", w.block.index, kind, text)
<1>1. v \in ClaudeWriters /\ v.out = Append(w.out, e) /\ Sent(v, w)
  <2>1. w \in ClaudeWriters /\ kind \in {"thinking_delta", "text_delta"}
    BY DEF Recites
  <2>. QED
    BY <2>1, EmitDeltaSent
<1>2. Line(Append(w.out, e), w.block, w.next_index, P, h)
  BY LineThink, LineText DEF Recites
<1>. HIDE DEF v, e
<1>3. Recites(v, P, h)
  BY <1>1, <1>2, RecitesSent
<1>. QED
  BY <1>1, <1>3 DEF v

LEMMA IntoTextRecites ==
    ASSUME NEW w, NEW P, NEW h \in Nat, Recites(w, P, h)
    PROVE  Recites(IntoTextBlock(w), P, h) /\ IntoTextBlock(w).block.kind = "text"
<1>1. CASE w.block.kind = "text"
  BY <1>1 DEF IntoTextBlock
<1>2. CASE w.block.kind # "text"
  <2>. DEFINE u == CloseBlock(FlushSignature(w))
  <2>1. Recites(u, P, h)
    BY FlushRecites
  <2>2. IntoTextBlock(w) = OpenBlock(u, "text")
    BY <1>2 DEF IntoTextBlock
  <2>. HIDE DEF u
  <2>. QED
    BY <2>1, <2>2, OpenRecites
<1>. QED
  BY <1>1, <1>2

LEMMA ThoughtRecites ==
    ASSUME NEW w, NEW P, NEW h \in Nat, Recites(w, P, h), NEW p, p.text \in Seq(Words(P, h))
    PROVE  Recites(ThoughtPart(w, p), P, h)
<1>. DEFINE v == IF w.block.kind = "thinking" THEN w ELSE OpenBlock(CloseBlock(w), "thinking")
            u == EmitDelta(v, "thinking_delta", p.text)
            t == u.thought \o p.text
            x == [u EXCEPT !.thought = t]
<1>1. p.text \in Strings
  BY WordsMore
<1>2. Recites(v, P, h) /\ v.block.kind = "thinking"
  BY CloseRecites, OpenRecites
<1>3. ThoughtPart(w, p) = v \/ ThoughtPart(w, p) = x
  BY DEF ThoughtPart, EmitThinkingDelta
<1>. HIDE DEF v
<1>4. Recites(u, P, h)
  BY <1>1, <1>2, DeltaRecites
<1>. HIDE DEF u
<1>5. t \in Seq(Words(P, h))
  BY <1>4, WordsSaid DEF Recites
<1>. HIDE DEF t
<1>6. t \in Strings
  BY <1>5, WordsMore
<1>7. /\ x \in ClaudeWriters /\ x.block = u.block /\ x.out = u.out /\ x.next_index = u.next_index /\ x.sig = u.sig
      /\ x.thought = t /\ x.signing = u.signing /\ x.saves = u.saves
  BY <1>4, <1>6 DEF Recites, ClaudeWriters
<1>. HIDE DEF x
<1>8. Recites(x, P, h)
  BY <1>4, <1>5, <1>7 DEF Recites
<1>. QED
  BY <1>2, <1>3, <1>8

\* A call goes out behind the thinking before it and takes its signature.
LEMMA UseRecites ==
    ASSUME NEW w, NEW P, Len(P) \in Nat, NEW h \in 0..Len(P), Recites(w, P, h), w.block.kind = "none",
           NEW call \in Calls, Moment(P, call, h, TRUE)
    PROVE  LET u == EmitToolUse(w, call, None) IN Recites(u, P, h) /\ u.sig = None
<1>. DEFINE i == w.next_index
            e1 == Event("content_block_start", i, "tool_use", <<call>>)
            e2 == Event("content_block_delta", i, "input_json_delta", <<call>>)
            e3 == Event("content_block_stop", i, "none", <<>>)
            u1 == EmitPlain(w, e1)
            u2 == EmitPlain(u1, e2)
            u3 == EmitPlain(u2, e3)
            save == SignatureSave(call, FALSE, w.sig, Reasoning(w))
            t == IF w.sig = None THEN u3.saves ELSE Append(u3.saves, save)
            n == i + 1
            u == [u3 EXCEPT !.next_index = n, !.sig = None, !.saves = t]
<1>1. w \in ClaudeWriters /\ i \in Nat /\ w.signing = TRUE /\ w.out \in Seq(Events) /\ h \in Nat
  BY DEF Recites, ClaudeWriters
<1>2. <<call>> \in Strings /\ <<>> \in Strings
  BY SymbolTypes
<1>3. /\ e1 \in Events /\ e2 \in Events /\ e3 \in Events
      /\ ~Starts_(e2) /\ ~Starts_(e3) /\ e3.type # "content_block_delta" /\ e2.index = i
      /\ \A x : ~Speaks(e2, x) /\ ~Signs(e2, x) /\ ~Speaks(e3, x) /\ ~Signs(e3, x)
  BY <1>1, <1>2 DEF Event, Events, Names, Starts_, Speaks, Signs
<1>4. EmitToolUse(w, call, None) = u
  BY <1>1 DEF EmitToolUse
<1>5. Line(Append(w.out, e1), w.block, n, P, h)
  BY <1>1, LineUse DEF Recites
<1>6. w.sig # None => save \in SignatureSaves /\ Bound(P, save, TRUE)
  <2>. SUFFICES ASSUME w.sig # None PROVE save \in SignatureSaves /\ Bound(P, save, TRUE)
    OBVIOUS
  <2>1. save \in SignatureSaves
    BY <1>1, SaveTyped DEF ClaudeWriters
  <2>2. Reasoning(w) \in Seq(Words(P, h))
    BY <1>1, WordsSaid DEF Reasoning, Recites
  <2>3. save.key = call /\ save.sig = w.sig /\ save.reasoning = Reasoning(w)
    BY DEF SignatureSave
  <2>4. Near(P, w.sig, h, TRUE)
    BY DEF Recites
  <2>. QED
    BY <2>1, <2>2, <2>3, <2>4 DEF Bound
<1>. HIDE DEF e1, e2, e3, save
<1>7. u1 \in ClaudeWriters /\ u1.out = Append(w.out, e1) /\ Sent(u1, w)
  BY <1>1, <1>3, EmitPlainSent
<1>. HIDE DEF u1
<1>8. u2 \in ClaudeWriters /\ u2.out = Append(u1.out, e2) /\ Sent(u2, u1)
  BY <1>3, <1>7, EmitPlainSent
<1>. HIDE DEF u2
<1>9. u3 \in ClaudeWriters /\ u3.out = Append(u2.out, e3) /\ Sent(u3, u2)
  BY <1>3, <1>8, EmitPlainSent
<1>. HIDE DEF u3
<1>10. Sent(u3, w)
  BY <1>7, <1>8, <1>9 DEF Sent
<1>11. n \in Nat /\ i < n
  BY <1>1
<1>. HIDE DEF n
<1>12. Line(u2.out, w.block, n, P, h)
  BY <1>1, <1>3, <1>5, <1>7, <1>8, <1>11, LineOther
<1>13. Line(u3.out, w.block, n, P, h)
  BY <1>1, <1>3, <1>9, <1>12, LineOther
<1>14. /\ t \in Seq(SignatureSaves)
       /\ \A j \in DOMAIN t : Bound(P, t[j], TRUE)
  <2>1. u3.saves \in Seq(SignatureSaves) /\ \A j \in DOMAIN u3.saves : Bound(P, u3.saves[j], TRUE)
    BY <1>9, <1>10 DEF ClaudeWriters, Sent, Recites
  <2>2. CASE w.sig = None
    BY <2>1, <2>2
  <2>3. CASE w.sig # None
    <3>. DEFINE old == u3.saves
                new == Append(old, save)
    <3>2. t = new
      BY <2>3
    <3>0. old \in Seq(SignatureSaves) /\ save \in SignatureSaves
      BY <1>6, <2>1, <2>3
    <3>. HIDE DEF old, t
    <3>1. /\ new \in Seq(SignatureSaves) /\ DOMAIN new = 1..Len(old) + 1 /\ new[Len(old) + 1] = save
          /\ Len(old) \in Nat /\ DOMAIN old = 1..Len(old)
          /\ \A j \in 1..Len(old) : new[j] = old[j]
      BY <3>0, AppendProperties, LenProperties
    <3>. HIDE DEF new
    <3>3. \A j \in 1..Len(old) + 1 : j \in 1..Len(old) \/ j = Len(old) + 1
      BY <3>1
    <3>4. \A j \in DOMAIN new : Bound(P, new[j], TRUE)
      BY <1>6, <2>1, <2>3, <3>1, <3>3 DEF old
    <3>. QED
      BY <3>1, <3>2, <3>4
  <2>. QED
    BY <2>2, <2>3
<1>. HIDE DEF t
<1>15. /\ u \in ClaudeWriters /\ u.block = u3.block /\ u.out = u3.out /\ u.next_index = n /\ u.sig = None
       /\ u.thought = u3.thought /\ u.signing = u3.signing /\ u.saves = t
  BY <1>9, <1>11, <1>14 DEF ClaudeWriters
<1>. HIDE DEF u
<1>16. Recites(u, P, h)
  BY <1>10, <1>13, <1>14, <1>15 DEF Recites, Sent
<1>. QED
  BY <1>4, <1>15, <1>16

LEMMA StartRecites ==
    ASSUME NEW w, NEW P, NEW h \in Nat, Recites(w, P, h)
    PROVE  Recites(Start(w), P, h) /\ Start(w).sig = w.sig
<1>. DEFINE e == Event("message_start", 0, "none", <<>>)
            v == EmitPlain(w, e)
            u == [v EXCEPT !.started = TRUE]
<1>1. e \in Events /\ ~Starts_(e) /\ e.type # "content_block_delta"
  BY SymbolTypes DEF Event, Events, Names, Starts_
<1>2. Start(w) = w \/ Start(w) = u
  BY DEF Start
<1>. HIDE DEF e
<1>3. Recites(v, P, h) /\ Sent(v, w)
  BY <1>1, RecitesPlain
<1>. HIDE DEF v
<1>4. /\ u \in ClaudeWriters /\ u.block = v.block /\ u.out = v.out /\ u.next_index = v.next_index /\ u.sig = v.sig
      /\ u.thought = v.thought /\ u.signing = v.signing /\ u.saves = v.saves
  BY <1>3 DEF Recites, ClaudeWriters
<1>. HIDE DEF u
<1>5. Recites(u, P, h)
  BY <1>3, <1>4 DEF Recites
<1>. QED
  BY <1>2, <1>3, <1>4, <1>5 DEF Sent

LEMMA PartRecites ==
    ASSUME NEW P, Proper(P), NEW h \in Nat, h < Len(P), NEW w, Recites(w, P, h)
    PROVE  Recites(ClaudePart(w, P[h + 1]), P, h + 1)
<1>. DEFINE p == P[h + 1]
            s == Start(w)
            v == HoldSignature(s, p)
<1>1. /\ Len(P) \in Nat /\ h + 1 \in 1..Len(P) /\ h + 1 \in DOMAIN P /\ h + 1 \in Nat \ {0} /\ h + 1 - 1 = h
      /\ h \in 0..Len(P) /\ h + 1 \in 1..h + 1
  BY PartTypes DEF Proper
<1>2. /\ p \in GivenParts
      /\ p.sig # None => p.thought
      /\ p.call # None => ~p.thought /\ p.text = <<>> /\ p.image = None
      /\ p.text \in Seq(Words(P, h + 1))
  <2>1. p \in GivenParts
    BY <1>1, PartTypes DEF Proper
  <2>2. p.text \in Seq(Words(P, h + 1))
    BY <1>1, PartWords
  <2>. QED
    BY <1>1, <2>1, <2>2 DEF Proper
<1>3. Recites(s, P, h)
  BY StartRecites
<1>4. ClaudePart(w, p) =
        IF p.thought THEN ThoughtPart(v, p)
        ELSE IF p.text # <<>> THEN TextPart(v, p)
        ELSE IF p.image # None THEN ImagePart(v, p)
        ELSE IF p.call # None THEN ToolPart(v, p)
        ELSE v
  BY DEF ClaudePart
<1>. HIDE DEF s
<1>5. CASE p.call = None
  <2>1. Recites(s, P, h + 1)
    BY <1>3, <1>5, RecitesLater
  <2>2. Recites(v, P, h + 1)
    <3>. DEFINE x == [s EXCEPT !.sig = p.sig, !.emitted = FALSE]
    <3>1. v = s \/ (v = x /\ p.sig # None)
      BY DEF HoldSignature
    <3>2. Near(P, p.sig, h + 1, TRUE)
      BY <1>1, <1>5, NearNow
    <3>3. p.sig \in Sigs \cup {None}
      BY <1>2 DEF GivenParts
    <3>. HIDE DEF p, v
    <3>4. /\ x \in ClaudeWriters /\ x.block = s.block /\ x.out = s.out /\ x.next_index = s.next_index /\ x.sig = p.sig
          /\ x.thought = s.thought /\ x.signing = s.signing /\ x.saves = s.saves
      BY <2>1, <3>3 DEF Recites, ClaudeWriters
    <3>. HIDE DEF x
    <3>5. Recites(x, P, h + 1)
      BY <2>1, <3>2, <3>4 DEF Recites
    <3>. QED
      BY <2>1, <3>1, <3>5
  <2>. HIDE DEF v, p
  <2>3. Recites(ThoughtPart(v, p), P, h + 1)
    BY <1>1, <1>2, <2>2, ThoughtRecites
  <2>4. Recites(IntoTextBlock(v), P, h + 1) /\ IntoTextBlock(v).block.kind = "text"
    BY <1>1, <2>2, IntoTextRecites
  <2>5. Recites(TextPart(v, p), P, h + 1)
    <3>1. p.text \in Strings
      BY <1>2 DEF GivenParts
    <3>. QED
      BY <1>1, <2>4, <3>1, DeltaRecites DEF TextPart, EmitTextDelta
  <2>6. ASSUME ~p.thought, p.image # None PROVE Recites(ImagePart(v, p), P, h + 1)
    <3>1. <<p.image>> \in Strings /\ p.sig = None
      BY <1>2, <2>6, SymbolTypes DEF GivenParts
    <3>. QED
      BY <1>1, <2>4, <3>1, DeltaRecites DEF ImagePart, EmitTextDelta
  <2>. QED
    BY <1>4, <1>5, <2>2, <2>3, <2>5, <2>6 DEF p
<1>6. CASE p.call # None
  <2>1. v = s /\ p.sig = None /\ p.call \in Calls
    BY <1>2, <1>6 DEF HoldSignature, GivenParts
  <2>2. ClaudePart(w, p) = EmitToolUse(CloseBlock(s), p.call, None)
    BY <1>2, <1>4, <1>6, <2>1 DEF ToolPart
  <2>3. Recites(CloseBlock(s), P, h) /\ CloseBlock(s).block.kind = "none"
    BY <1>3, CloseRecites
  <2>4. Moment(P, p.call, h, TRUE)
    BY <1>1 DEF Moment
  <2>. DEFINE c == CloseBlock(s)
              u == EmitToolUse(c, p.call, None)
  <2>. HIDE DEF c, p
  <2>5. Recites(u, P, h) /\ u.sig = None
    BY <1>1, <2>1, <2>3, <2>4, UseRecites DEF c
  <2>. HIDE DEF u
  <2>6. Recites(u, P, h + 1)
    BY <2>5, RecitesLater
  <2>. QED
    BY <2>2, <2>6 DEF u, c, p
<1>. QED
  BY <1>5, <1>6

\* The events of a whole answer.
LEMMA AnswerRecited ==
    ASSUME NEW P, Proper(P), NEW stop_reason \in {"tool_use", "end_turn"}
    PROVE  Recites(ClaudeFinish(ClaudeWriting(P, TRUE), stop_reason), P, Len(P))
<1>. DEFINE n == Len(P)
<1>1. n \in Nat /\ DOMAIN P = 1..n
  BY PartTypes DEF Proper
<1>2. PICK run : /\ run[0] = NewClaudeWriter(TRUE)
                 /\ \A k \in 1..n : run[k] = ClaudePart(run[k - 1], P[k])
                 /\ ClaudeWriting(P, TRUE) = run[n]
  BY <1>1, ClaudeWritingRun
<1>. HIDE DEF n
<1>. DEFINE Good(k) == Recites(run[k], P, k)
            S == {k \in 0..n : Good(k)}
<1>3. 0 \in S
  <2>. DEFINE w == NewClaudeWriter(TRUE)
  <2>1. NoBlock \in OpenBlocks /\ NoPending \in Pendings /\ <<>> \in Strings
        /\ <<>> \in Seq(Events) /\ <<>> \in Seq(SignatureSaves) /\ NoBlock.kind = "none"
    BY WriterBasics DEF NoBlock, OpenBlocks
  <2>2. /\ w \in ClaudeWriters /\ w.out = <<>> /\ w.signing = TRUE /\ w.thought = <<>> /\ w.sig = None
        /\ w.saves = <<>> /\ w.block = NoBlock /\ w.next_index \in Nat
    BY <2>1 DEF NewClaudeWriter, ClaudeWriters
  <2>. HIDE DEF w
  <2>3. DOMAIN <<>> = {}
    OBVIOUS
  <2>4. Line(w.out, w.block, w.next_index, P, 0)
    BY <2>1, <2>2, <2>3 DEF Line
  <2>5. w.thought \in Seq(Words(P, 0))
    BY <2>2, WordsSaid
  <2>6. Recites(w, P, 0)
    BY <2>2, <2>3, <2>4, <2>5 DEF Recites
  <2>7. 0 \in 0..n
    BY <1>1
  <2>. QED
    BY <1>2, <2>6, <2>7 DEF w
<1>4. ASSUME NEW k \in 1..n, k - 1 \in S PROVE k \in S
  <2>. DEFINE h == k - 1
  <2>1. Recites(run[h], P, h) /\ run[k] = ClaudePart(run[h], P[k]) /\ h \in Nat /\ h < Len(P) /\ h + 1 = k
    BY <1>1, <1>2, <1>4 DEF n
  <2>. HIDE DEF h
  <2>2. Recites(ClaudePart(run[h], P[h + 1]), P, h + 1)
    BY <2>1, PartRecites
  <2>3. k \in 0..n
    BY <1>1
  <2>. QED
    BY <2>1, <2>2, <2>3
<1>. HIDE DEF S
<1>5. n \in S
  BY <1>1, <1>3, <1>4, Upwards
<1>. DEFINE w == ClaudeWriting(P, TRUE)
            u == CloseBlock(FlushSignature(w))
            e1 == Event("message_delta", 0, stop_reason, <<>>)
            e2 == Event("message_stop", 0, "none", <<>>)
<1>6. Recites(w, P, n)
  BY <1>2, <1>5 DEF S
<1>7. /\ e1 \in Events /\ ~Starts_(e1) /\ e1.type # "content_block_delta"
      /\ e2 \in Events /\ ~Starts_(e2) /\ e2.type # "content_block_delta"
  BY SymbolTypes DEF Event, Events, Names, Starts_
<1>8. ClaudeFinish(w, stop_reason) = EmitPlain(EmitPlain(u, e1), e2)
  BY DEF ClaudeFinish
<1>. HIDE DEF w, e1, e2
<1>9. Recites(u, P, n)
  BY <1>1, <1>6, FlushRecites
<1>. HIDE DEF u
<1>10. Recites(EmitPlain(u, e1), P, n)
  BY <1>1, <1>7, <1>9, RecitesPlain
<1>11. Recites(EmitPlain(EmitPlain(u, e1), e2), P, n)
  BY <1>1, <1>7, <1>10, RecitesPlain
<1>. QED
  BY <1>8, <1>11 DEF w, n

-----------------------------------------------------------------------------
(* The thinking in the message of a client.                                 *)

\* Signed thinking has a signature for its text, and the next calls are ones
\* that know all of it.
Voiced(blocks, P, strict) ==
    /\ \A i \in DOMAIN blocks : blocks[i].type = "thinking" /\ blocks[i].sig # None =>
          Theirs(P, blocks[i].text, blocks[i].sig, strict)
    /\ \A i, j \in DOMAIN blocks : i < j /\ blocks[i].type = "thinking" /\ blocks[j].type = "tool_use" =>
          \E h \in 0..Len(P) : Moment(P, blocks[j].id, h, strict) /\ blocks[i].text \in Seq(Words(P, h))

\* Each block is heard behind its start.
LEMMA BlocksStart ==
    ASSUME NEW out \in Seq(Events)
    PROVE  \E e : /\ \A i \in DOMAIN BlocksHeard(out) :
                        /\ e[i] \in DOMAIN out /\ Starts_(out[e[i]])
                        /\ BlocksHeard(out)[i] = BlockHeard(out, out[e[i]])
                  /\ \A i, j \in DOMAIN BlocksHeard(out) : i < j => e[i] < e[j]
<1>. DEFINE I == OfType(out, "content_block_start")
            starts == Keep(out, LAMBDA e : e.type = "content_block_start")
            c == FlattenSeq([i \in DOMAIN out |-> IF out[i].type = "content_block_start" THEN <<out[i]>> ELSE <<>>])
            d == FlattenSeq([i \in DOMAIN out |-> IF i \in I THEN <<out[i]>> ELSE <<>>])
            blocks == BlocksHeard(out)
<1>1. starts = c
  BY DEF Keep
<1>2. c = d
  <2>1. [i \in DOMAIN out |-> IF out[i].type = "content_block_start" THEN <<out[i]>> ELSE <<>>] =
        [i \in DOMAIN out |-> IF i \in I THEN <<out[i]>> ELSE <<>>]
    BY DEF OfType
  <2>. QED
    BY <2>1
<1>3. blocks = [i \in DOMAIN starts |-> BlockHeard(out, starts[i])]
  BY DEF BlocksHeard
<1>4. I \subseteq DOMAIN out /\ \A i \in I : Starts_(out[i])
  BY DEF OfType, Starts_
<1>. HIDE DEF I
<1>5. d \in Seq(Events) /\ \E e : Picks(e, d, out, I)
  BY <1>4, ItemsKept
<1>. HIDE DEF c, d, starts
<1>6. PICK e : Picks(e, starts, out, I)
  BY <1>1, <1>2, <1>5
<1>7. \A i \in DOMAIN starts : e[i] \in DOMAIN out /\ Starts_(out[e[i]]) /\ starts[i] = out[e[i]]
  BY <1>4, <1>6 DEF Picks
<1>8. \A i, j \in DOMAIN starts : i < j => e[i] < e[j]
  BY <1>6 DEF Picks
<1>9. DOMAIN blocks = DOMAIN starts /\ \A i \in DOMAIN starts : blocks[i] = BlockHeard(out, starts[i])
  BY <1>3
<1>. HIDE DEF blocks
<1>10. \A i \in DOMAIN blocks : e[i] \in DOMAIN out /\ Starts_(out[e[i]]) /\ blocks[i] = BlockHeard(out, out[e[i]])
  BY <1>7, <1>9
<1>. QED
  BY <1>8, <1>9, <1>10 DEF blocks

\* A thinking block says what was spoken in it, under a signature of its own.
LEMMA BlockSpoken ==
    ASSUME NEW out \in Seq(Events), NEW s \in DOMAIN out, Thinks(out[s])
    PROVE  LET b == BlockHeard(out, out[s]) IN
           /\ \A X : Spoken(out, out[s].index, X) => b.text \in Seq(X)
           /\ \A G : b.sig # None /\ (\A a \in DOMAIN out : Signs(out[a], out[s].index) => out[a].text \in Seq(G)) => b.sig \in G
<1>. DEFINE start == out[s]
            I == OfBlock(out, start)
            own == Keep(out, LAMBDA e : e.type = "content_block_delta" /\ e.index = start.index)
            c == FlattenSeq([i \in DOMAIN out |-> IF out[i].type = "content_block_delta" /\ out[i].index = start.index
                                                  THEN <<out[i]>> ELSE <<>>])
            d == FlattenSeq([i \in DOMAIN out |-> IF i \in I THEN <<out[i]>> ELSE <<>>])
            sigs == Heard(own, "signature_delta")
            says == Heard(own, "thinking_delta")
            more == Heard(own, "text_delta")
            sig == IF sigs = <<>> THEN None ELSE Head(sigs)
            b == BlockHeard(out, start)
<1>1. own = c
  BY DEF Keep
<1>2. c = d
  <2>1. [i \in DOMAIN out |-> IF out[i].type = "content_block_delta" /\ out[i].index = start.index
                              THEN <<out[i]>> ELSE <<>>] =
        [i \in DOMAIN out |-> IF i \in I THEN <<out[i]>> ELSE <<>>]
    BY DEF OfBlock
  <2>. QED
    BY <2>1
<1>3. I \subseteq DOMAIN out /\ \A i \in I : out[i].type = "content_block_delta" /\ out[i].index = start.index
  BY DEF OfBlock
<1>4. b.text = says \o more /\ b.sig = sig
  BY DEF BlockHeard, Block, Thinks
<1>. HIDE DEF start, c, I, b
<1>5. d \in Seq(Events) /\ \E e : Picks(e, d, out, I)
  BY <1>3, ItemsKept
<1>. HIDE DEF d, own
<1>6. PICK e : own \in Seq(Events) /\ Picks(e, own, out, I)
  BY <1>1, <1>2, <1>5
<1>7. \A i \in DOMAIN own : /\ e[i] \in DOMAIN out /\ own[i] = out[e[i]]
                            /\ own[i].type = "content_block_delta" /\ own[i].index = start.index
  BY <1>3, <1>6 DEF Picks
<1>8. ASSUME NEW X, Spoken(out, start.index, X) PROVE b.text \in Seq(X)
  <2>1. \A i \in DOMAIN own : own[i].kind \in {"thinking_delta", "text_delta"} => own[i].text \in Seq(X)
    BY <1>7, <1>8 DEF Spoken, Speaks
  <2>2. says \in Seq(X)
    BY <1>6, <2>1, HeardType
  <2>3. more \in Seq(X)
    BY <1>6, <2>1, HeardType
  <2>. HIDE DEF says, more
  <2>. QED
    BY <1>4, <2>2, <2>3, ConcatProperties
<1>9. ASSUME NEW G, b.sig # None, \A a \in DOMAIN out : Signs(out[a], start.index) => out[a].text \in Seq(G)
      PROVE  b.sig \in G
  <2>1. \A i \in DOMAIN own : own[i].kind = "signature_delta" => own[i].text \in Seq(G)
    BY <1>7, <1>9 DEF Signs
  <2>2. sigs \in Seq(G)
    BY <1>6, <2>1, HeardType
  <2>. HIDE DEF sigs
  <2>3. sigs # <<>> /\ b.sig = Head(sigs)
    BY <1>4, <1>9
  <2>4. \A q \in Seq(G) : q = <<>> \/ Head(q) \in G
    BY HeadTailProperties
  <2>. QED
    BY <2>2, <2>3, <2>4
<1>. QED
  BY <1>8, <1>9 DEF start, b

LEMMA StreamVoiced ==
    ASSUME NEW P, Len(P) \in Nat, NEW out, NEW block, NEW next, Line(out, block, next, P, Len(P)),
           NEW K, K \subseteq Calls, Told(out, K)
    PROVE  Voiced(BlocksHeard(out), P, TRUE)
<1>. DEFINE blocks == BlocksHeard(out)
<1>1. out \in Seq(Events)
  BY DEF Line
<1>2. PICK e : /\ \A i \in DOMAIN blocks : /\ e[i] \in DOMAIN out /\ Starts_(out[e[i]])
                                           /\ blocks[i] = BlockHeard(out, out[e[i]])
               /\ \A i, j \in DOMAIN blocks : i < j => e[i] < e[j]
  BY <1>1, BlocksStart
<1>. HIDE DEF blocks
<1>3. ASSUME NEW i \in DOMAIN blocks
      PROVE  LET s == e[i] IN
             /\ s \in DOMAIN out /\ Starts_(out[s]) /\ blocks[i].type = out[s].kind
             /\ blocks[i].type = "tool_use" => Uses(out[s]) /\ blocks[i].id = Head(out[s].text)
             /\ blocks[i].type = "thinking" =>
                  /\ Thought(out, s, block, P, Len(P))
                  /\ \A X : Spoken(out, out[s].index, X) => blocks[i].text \in Seq(X)
                  /\ \A G : blocks[i].sig # None
                            /\ (\A a \in DOMAIN out : Signs(out[a], out[s].index) => out[a].text \in Seq(G))
                            => blocks[i].sig \in G
  <2>. DEFINE s == e[i]
              b == BlockHeard(out, out[s])
  <2>1. s \in DOMAIN out /\ Starts_(out[s]) /\ blocks[i] = b
    BY <1>2
  <2>. HIDE DEF s
  <2>2. b.type = out[s].kind /\ (b.type = "tool_use" => b.id = Head(out[s].text))
    BY <1>1, <2>1, BlockTold
  <2>3. b.type = "tool_use" => Uses(out[s])
    BY <2>1, <2>2 DEF Uses
  <2>4. b.type = "thinking" => Thinks(out[s])
    BY <2>1, <2>2 DEF Thinks
  <2>5. b.type = "thinking" => Thought(out, s, block, P, Len(P))
    BY <2>1, <2>4 DEF Line
  <2>6. b.type = "thinking" =>
          /\ \A X : Spoken(out, out[s].index, X) => b.text \in Seq(X)
          /\ \A G : b.sig # None /\ (\A a \in DOMAIN out : Signs(out[a], out[s].index) => out[a].text \in Seq(G)) => b.sig \in G
    BY <1>1, <2>1, <2>4, BlockSpoken
  <2>. HIDE DEF b
  <2>. QED
    BY <2>1, <2>2, <2>3, <2>5, <2>6 DEF s
<1>4. ASSUME NEW i \in DOMAIN blocks, blocks[i].type = "thinking", blocks[i].sig # None
      PROVE  Theirs(P, blocks[i].text, blocks[i].sig, TRUE)
  <2>. DEFINE x == out[e[i]].index
              G == {sig \in Sigs : \E g \in 0..Len(P) : Near(P, sig, g, TRUE) /\ Spoken(out, x, Words(P, g))}
  <2>1. Thought(out, e[i], block, P, Len(P))
    BY <1>3, <1>4
  <2>2. ASSUME NEW a \in DOMAIN out, Signs(out[a], x) PROVE out[a].text \in Seq(G)
    <3>1. \E sig \in Sigs : /\ out[a].text = <<sig>>
                            /\ \E g \in 0..Len(P) : Near(P, sig, g, TRUE) /\ Spoken(out, x, Words(P, g))
      BY <2>1, <2>2 DEF Thought
    <3>2. PICK sig \in G : out[a].text = <<sig>>
      BY <3>1
    <3>. HIDE DEF G
    <3>3. <<sig>> \in Seq(G)
      BY <3>2
    <3>. QED
      BY <3>2, <3>3
  <2>. HIDE DEF G
  <2>3. blocks[i].sig \in G
    BY <1>3, <1>4, <2>2
  <2>4. PICK g \in 0..Len(P) : Near(P, blocks[i].sig, g, TRUE) /\ Spoken(out, x, Words(P, g))
    BY <2>3 DEF G
  <2>5. blocks[i].text \in Seq(Words(P, g))
    BY <1>3, <1>4, <2>4
  <2>. QED
    BY <2>4, <2>5 DEF Theirs
<1>5. ASSUME NEW i \in DOMAIN blocks, NEW j \in DOMAIN blocks, i < j,
             blocks[i].type = "thinking", blocks[j].type = "tool_use"
      PROVE  \E h \in 0..Len(P) : Moment(P, blocks[j].id, h, TRUE) /\ blocks[i].text \in Seq(Words(P, h))
  <2>. DEFINE s == e[i]
              u == e[j]
  <2>1. s < u /\ u \in DOMAIN out /\ Uses(out[u]) /\ blocks[j].id = Head(out[u].text)
    BY <1>2, <1>3, <1>5
  <2>2. Thought(out, s, block, P, Len(P)) /\ \A X : Spoken(out, out[s].index, X) => blocks[i].text \in Seq(X)
    BY <1>3, <1>5
  <2>. HIDE DEF s, u
  <2>3. PICK g \in 0..Len(P) : Moment(P, Head(out[u].text), g, TRUE) /\ Spoken(out, out[s].index, Words(P, g))
    BY <2>1, <2>2 DEF Thought
  <2>. QED
    BY <2>1, <2>2, <2>3
<1>. QED
  BY <1>4, <1>5 DEF Voiced, blocks

-----------------------------------------------------------------------------
(* Where the whole answer counts, what is kept of it is in sets of its own. *)

GivenWords(P) == Words(P, Len(P))
GivenSigs(P) == {sig \in Sigs : Near(P, sig, Len(P), FALSE)}
GivenCalls(P) == {id \in Calls : Moment(P, id, Len(P), FALSE)}

OwnParts(P) ==
    {p \in GivenParts : /\ p.text \in Seq(GivenWords(P))
                        /\ p.sig \in GivenSigs(P) \cup {None} /\ (p.sig # None => p.thought)
                        /\ p.call \in GivenCalls(P) \cup {None}}
OwnSaves(P) == [key : GivenCalls(P), sig : GivenSigs(P), reasoning : Seq(GivenWords(P))]
OwnBlocks(P) ==
    {b \in Blocks : /\ b.type = "thinking" => /\ b.text \in Seq(GivenWords(P))
                                              /\ b.sig \in GivenSigs(P) \cup {None}
                    /\ b.type = "tool_use" => b.id \in GivenCalls(P)}
OwnReplies(P) ==
    [thinking : Seq(GivenWords(P)), text : Strings, sig : GivenSigs(P) \cup {None},
     calls : Seq(OwnBlocks(P)), saves : Seq(OwnSaves(P))]

LEMMA GivenBasics ==
    ASSUME NEW P, Len(P) \in Nat
    PROVE  /\ MissingThought \in Seq(GivenWords(P)) /\ <<>> \in Seq(GivenWords(P))
           /\ \A s, t \in Seq(GivenWords(P)) : s \o t \in Seq(GivenWords(P))
           /\ \A s \in Seq(GivenWords(P)) : s \in Strings
           /\ GivenSigs(P) \subseteq Sigs /\ GivenCalls(P) \subseteq Calls
<1>1. \A s \in Seq(GivenWords(P)) : s \in Strings
  BY WordsMore DEF GivenWords
<1>. QED
  BY <1>1, WordsSaid DEF GivenWords, GivenSigs, GivenCalls

LEMMA AnswerOwns ==
    ASSUME NEW P, Proper(P)
    PROVE  P \in Seq(OwnParts(P)) /\ Len(P) \in Nat
<1>1. /\ P \in Seq(GivenParts) /\ Len(P) \in Nat /\ DOMAIN P = 1..Len(P)
      /\ \A k \in 1..Len(P) : P[k] \in GivenParts
  BY PartTypes DEF Proper
<1>2. ASSUME NEW k \in 1..Len(P) PROVE P[k] \in OwnParts(P)
  <2>1. P[k].text \in Seq(GivenWords(P))
    BY <1>1, PartWords DEF GivenWords
  <2>2. P[k].sig \in Sigs \cup {None} /\ P[k].call \in Calls \cup {None}
    BY <1>1 DEF GivenParts
  <2>3. P[k].sig # None => P[k].sig \in GivenSigs(P) /\ P[k].thought
    BY <1>1, <2>2 DEF GivenSigs, Near, Proper
  <2>4. P[k].call # None => P[k].call \in GivenCalls(P)
    BY <1>1, <2>2 DEF GivenCalls, Moment
  <2>. QED
    BY <1>1, <2>1, <2>3, <2>4 DEF OwnParts
<1>. QED
  BY <1>1, <1>2, SeqDef

LEMMA PartJoined ==
    ASSUME NEW P, Len(P) \in Nat, NEW acc \in Seq(OwnParts(P)), NEW p \in OwnParts(P)
    PROVE  AddPart(acc, p) \in Seq(OwnParts(P))
<1>. DEFINE n == Len(acc)
            new == AddPart(acc, p)
<1>1. n \in Nat /\ DOMAIN acc = 1..n /\ \A i \in 1..n : acc[i] \in OwnParts(P)
  BY LenProperties, ElementOfSeq
<1>2. CASE Joining(acc, p)
  <2>. DEFINE o == acc[n]
              t == o.text \o p.text
              g == IF p.sig = None THEN o.sig ELSE p.sig
              q == [o EXCEPT !.text = t, !.sig = g]
  <2>1. n \in 1..n /\ o.thought = p.thought
    <3>1. Last(acc) = o
      BY DEF Last
    <3>. QED
      BY <1>1, <1>2, <3>1 DEF Joining
  <2>2. o \in OwnParts(P)
    BY <1>1, <2>1
  <2>3. new = [acc EXCEPT ![n] = q]
    <3>1. new = [acc EXCEPT ![n] = MergedPart(acc[n], p)]
      BY <1>2 DEF AddPart
    <3>2. q = MergedPart(acc[n], p)
      BY DEF MergedPart
    <3>. QED
      BY <3>1, <3>2
  <2>. HIDE DEF o
  <2>4. t \in Seq(GivenWords(P)) /\ t \in Strings
    BY <2>2, GivenBasics DEF OwnParts
  <2>5. g \in GivenSigs(P) \cup {None} /\ (g # None => o.thought) /\ g \in Sigs \cup {None}
    BY <2>1, <2>2, GivenBasics DEF OwnParts
  <2>. HIDE DEF t, g
  <2>6. q \in GivenParts /\ q.text = t /\ q.sig = g /\ q.call = o.call /\ q.thought = o.thought
    BY <2>2, <2>4, <2>5 DEF OwnParts, GivenParts
  <2>. HIDE DEF q
  <2>7. q \in OwnParts(P)
    BY <2>2, <2>4, <2>5, <2>6 DEF OwnParts
  <2>. HIDE DEF new, n
  <2>8. new \in Seq(OwnParts(P))
    BY <1>1, <2>1, <2>3, <2>7, ExceptSeq
  <2>. QED
    BY <2>8 DEF new
<1>3. CASE ~Joining(acc, p)
  BY <1>3, AppendProperties DEF AddPart
<1>. QED
  BY <1>2, <1>3

LEMMA MergedOwns ==
    ASSUME NEW P, Proper(P)
    PROVE  merge_parts(P) \in Seq(OwnParts(P))
<1>. DEFINE n == Len(P)
<1>1. n \in Nat /\ DOMAIN P = 1..n /\ \A k \in 1..n : P[k] \in OwnParts(P)
  BY AnswerOwns, LenProperties, ElementOfSeq
<1>2. PICK run : /\ run[0] = <<>>
                 /\ \A k \in 1..n : run[k] = AddPart(run[k - 1], P[k])
                 /\ merge_parts(P) = run[n]
  BY <1>1, MergePartsRun
<1>. HIDE DEF n
<1>. DEFINE S == {k \in 0..n : run[k] \in Seq(OwnParts(P))}
<1>3. 0 \in S
  <2>1. run[0] \in Seq(OwnParts(P))
    BY <1>2
  <2>2. 0 \in 0..n
    BY <1>1
  <2>. QED
    BY <2>1, <2>2
<1>4. ASSUME NEW k \in 1..n, k - 1 \in S PROVE k \in S
  <2>1. AddPart(run[k - 1], P[k]) \in Seq(OwnParts(P))
    BY <1>1, <1>4, PartJoined DEF n
  <2>2. run[k] = AddPart(run[k - 1], P[k])
    BY <1>2
  <2>3. k \in 0..n
    BY <1>1
  <2>. QED
    BY <2>1, <2>2, <2>3
<1>. HIDE DEF S
<1>5. n \in S
  BY <1>1, <1>3, <1>4, Upwards
<1>. QED
  BY <1>2, <1>5 DEF S

LEMMA ReplyPartOwns ==
    ASSUME NEW P, Len(P) \in Nat, NEW r \in OwnReplies(P), NEW p \in OwnParts(P)
    PROVE  ReplyPart(r, p, TRUE) \in OwnReplies(P)
<1>. DEFINE v == IF p.thought /\ p.sig # None THEN [r EXCEPT !.sig = p.sig] ELSE r
            think == v.thinking \o p.text
            text == v.text \o p.text
            b == Block("tool_use", <<>>, None, p.call)
            calls == Append(v.calls, b)
            saves == v.saves \o ReplySave(v, p, TRUE)
<1>1. /\ p.sig \in GivenSigs(P) \cup {None} /\ p.call \in GivenCalls(P) \cup {None}
      /\ p.text \in Seq(GivenWords(P)) /\ (p.sig # None => p.thought)
  BY DEF OwnParts
<1>2. v \in OwnReplies(P)
  BY <1>1 DEF OwnReplies
<1>3. ReplyPart(r, p, TRUE) =
         IF p.thought THEN [v EXCEPT !.thinking = think]
         ELSE IF p.text # <<>> THEN [v EXCEPT !.text = text]
         ELSE IF p.call # None THEN [v EXCEPT !.calls = calls, !.saves = saves]
         ELSE v
  BY DEF ReplyPart
<1>. HIDE DEF v
<1>4. think \in Seq(GivenWords(P)) /\ text \in Strings
  BY <1>1, <1>2, GivenBasics, WriterBasics DEF OwnReplies
<1>5. p.call # None => calls \in Seq(OwnBlocks(P))
  <2>1. p.call # None => b \in OwnBlocks(P)
    BY <1>1, GivenBasics, WriterBasics DEF Block, Blocks, BlockTypes, OwnBlocks
  <2>. HIDE DEF b
  <2>. QED
    BY <1>2, <2>1, AppendProperties DEF OwnReplies
<1>6. ASSUME p.call # None, ~p.thought PROVE saves \in Seq(OwnSaves(P))
  <2>. DEFINE reasoning == IF Trimmed(v.thinking) THEN MissingThought ELSE v.thinking
              save == [key |-> p.call, sig |-> v.sig, reasoning |-> reasoning]
  <2>1. reasoning \in Seq(GivenWords(P)) /\ v.sig \in GivenSigs(P) \cup {None} /\ p.call \in GivenCalls(P)
    BY <1>1, <1>2, <1>6, GivenBasics DEF OwnReplies
  <2>2. ReplySave(v, p, TRUE) = IF v.sig = None THEN <<>> ELSE <<save>>
    BY <1>1, <1>6 DEF ReplySave
  <2>. HIDE DEF reasoning
  <2>3. v.sig # None => save \in OwnSaves(P)
    BY <2>1 DEF OwnSaves
  <2>. HIDE DEF save
  <2>4. ReplySave(v, p, TRUE) \in Seq(OwnSaves(P))
    <3>1. v.sig # None => <<save>> \in Seq(OwnSaves(P))
      BY <2>3
    <3>2. <<>> \in Seq(OwnSaves(P))
      OBVIOUS
    <3>. DEFINE one == <<save>>
    <3>. HIDE DEF one
    <3>. QED
      BY <2>2, <3>1, <3>2 DEF one
  <2>. QED
    BY <1>2, <2>4, ConcatProperties DEF OwnReplies
<1>. HIDE DEF think, text, calls, saves
<1>. QED
  BY <1>2, <1>3, <1>4, <1>5, <1>6 DEF OwnReplies

LEMMA OwnVoiced ==
    ASSUME NEW P, Len(P) \in Nat, NEW blocks \in Seq(OwnBlocks(P))
    PROVE  Voiced(blocks, P, FALSE)
<1>1. \A i \in DOMAIN blocks : blocks[i] \in OwnBlocks(P)
  BY ElementOfSeq, LenProperties
<1>2. Len(P) \in 0..Len(P)
  OBVIOUS
<1>3. \A i \in DOMAIN blocks : blocks[i].type = "thinking" =>
          blocks[i].text \in Seq(Words(P, Len(P))) /\ (blocks[i].sig # None => Near(P, blocks[i].sig, Len(P), FALSE))
  BY <1>1 DEF OwnBlocks, GivenWords, GivenSigs
<1>4. \A i \in DOMAIN blocks : blocks[i].type = "tool_use" => Moment(P, blocks[i].id, Len(P), FALSE)
  BY <1>1 DEF OwnBlocks, GivenCalls
<1>. QED
  BY <1>2, <1>3, <1>4 DEF Voiced, Theirs

LEMMA OwnBound ==
    ASSUME NEW P, Len(P) \in Nat, NEW s, s.key \in GivenCalls(P), s.sig \in GivenSigs(P),
           s.reasoning \in Seq(GivenWords(P))
    PROVE  Bound(P, s, FALSE)
<1>1. Len(P) \in 0..Len(P)
  OBVIOUS
<1>. QED
  BY <1>1 DEF Bound, GivenCalls, GivenSigs, GivenWords

\* A whole answer, of a Claude model.
LEMMA WholeVoiced ==
    ASSUME NEW P, Proper(P)
    PROVE  LET r == to_messages_response(merge_parts(P), TRUE) IN
           /\ Voiced(r.blocks, P, FALSE)
           /\ \A i \in DOMAIN r.saves : Bound(P, r.saves[i], FALSE)
<1>. DEFINE parts == merge_parts(P)
            n == Len(parts)
            r == Replying(parts, TRUE)
<1>1. Len(P) \in Nat /\ n \in Nat /\ DOMAIN parts = 1..n /\ \A k \in 1..n : parts[k] \in OwnParts(P)
  BY AnswerOwns, MergedOwns, LenProperties, ElementOfSeq
<1>. HIDE DEF parts
<1>2. PICK run : /\ run[0] = EmptyReply
                 /\ \A k \in 1..n : run[k] = ReplyPart(run[k - 1], parts[k], TRUE)
                 /\ r = run[n]
  BY <1>1, ReplyingRun
<1>. HIDE DEF n, r
<1>. DEFINE S == {k \in 0..n : run[k] \in OwnReplies(P)}
<1>3. 0 \in S
  <2>1. EmptyReply \in OwnReplies(P)
    <3>1. <<>> \in Seq(GivenWords(P)) /\ <<>> \in Strings
      BY <1>1, GivenBasics, WriterBasics
    <3>. QED
      BY <3>1 DEF EmptyReply, OwnReplies
  <2>. QED
    BY <1>1, <1>2, <2>1
<1>4. ASSUME NEW k \in 1..n, k - 1 \in S PROVE k \in S
  <2>1. ReplyPart(run[k - 1], parts[k], TRUE) \in OwnReplies(P)
    BY <1>1, <1>4, ReplyPartOwns
  <2>2. run[k] = ReplyPart(run[k - 1], parts[k], TRUE)
    BY <1>2
  <2>3. k \in 0..n
    BY <1>1
  <2>. QED
    BY <2>1, <2>2, <2>3
<1>. HIDE DEF S
<1>5. n \in S
  BY <1>1, <1>3, <1>4, Upwards
<1>6. r \in OwnReplies(P)
  BY <1>2, <1>5 DEF S
<1>. DEFINE thinking == IF r.sig # None /\ Trimmed(r.thinking) THEN MissingThought ELSE r.thinking
            b == Block("thinking", thinking, r.sig, None)
            t == TextBlock(r.text)
            first == IF thinking = <<>> THEN <<>> ELSE <<b>>
            second == IF r.text = <<>> THEN <<>> ELSE <<t>>
<1>7. r.thinking \in Seq(GivenWords(P)) /\ r.text \in Strings /\ r.sig \in GivenSigs(P) \cup {None}
      /\ r.saves \in Seq(OwnSaves(P)) /\ r.calls \in Seq(OwnBlocks(P))
  BY <1>6 DEF OwnReplies
<1>8. thinking \in Seq(GivenWords(P))
  BY <1>1, <1>7, GivenBasics
<1>9. to_messages_response(parts, TRUE) = [blocks |-> first \o second \o r.calls, saves |-> r.saves]
  BY DEF to_messages_response, r, Replying
<1>. HIDE DEF thinking
<1>10. b \in OwnBlocks(P)
  BY <1>1, <1>7, <1>8, GivenBasics DEF OwnBlocks, Block, Blocks, BlockTypes
<1>11. t \in OwnBlocks(P)
  BY <1>7 DEF OwnBlocks, TextBlock, Block, Blocks, BlockTypes
<1>. HIDE DEF b, t
<1>12. first \in Seq(OwnBlocks(P)) /\ second \in Seq(OwnBlocks(P))
  BY <1>10, <1>11
<1>. HIDE DEF first, second
<1>13. first \o second \o r.calls \in Seq(OwnBlocks(P))
  BY <1>7, <1>12, ConcatProperties
<1>14. Voiced(first \o second \o r.calls, P, FALSE)
  BY <1>1, <1>13, OwnVoiced
<1>15. ASSUME NEW i \in DOMAIN r.saves PROVE Bound(P, r.saves[i], FALSE)
  <2>1. r.saves[i] \in OwnSaves(P)
    BY <1>7, ElementOfSeq, LenProperties
  <2>. DEFINE s == r.saves[i]
  <2>. HIDE DEF s
  <2>2. s.key \in GivenCalls(P) /\ s.sig \in GivenSigs(P) /\ s.reasoning \in Seq(GivenWords(P))
    BY <2>1 DEF OwnSaves, s
  <2>. QED
    BY <1>1, <2>2, OwnBound DEF s
<1>. DEFINE whole == first \o second \o r.calls
            q == to_messages_response(parts, TRUE)
            kept == r.saves
<1>16. q = [blocks |-> whole, saves |-> kept]
  BY <1>9
<1>. HIDE DEF q, r, whole, kept
<1>17. q.blocks = whole /\ q.saves = kept
  BY <1>16
<1>18. Voiced(q.blocks, P, FALSE) /\ \A i \in DOMAIN q.saves : Bound(P, q.saves[i], FALSE)
  BY <1>14, <1>15, <1>17 DEF whole, kept
<1>. QED
  BY <1>18 DEF parts, q

-----------------------------------------------------------------------------
(* The same of the OpenAI writer, for a thinking model of Claude.           *)

OwnEvents(P) ==
    {e \in Events : /\ e.kind = "reasoning" => e.text \in Seq(GivenWords(P))
                    /\ e.kind = "tool_calls" => e.text \in Seq(GivenCalls(P))}
OwnChatSaves(P) ==
    [key : GivenCalls(P), image : BOOLEAN, sig : GivenSigs(P), reasoning : Seq(GivenWords(P))]
OwnChatWriters(P) ==
    [sent_role : BOOLEAN, calls : Seq(GivenCalls(P)), sig : GivenSigs(P) \cup {None},
     thought : Seq(GivenWords(P)), signing : {TRUE}, out : Seq(OwnEvents(P)),
     saves : Seq(OwnChatSaves(P)), log : Seq(Events), pending : Pendings]
OwnMessage(m, P) == m.reasoning \in Seq(GivenWords(P)) /\ m.tool_calls \in Seq(GivenCalls(P))

LEMMA ChunkOwns ==
    ASSUME NEW P, NEW w \in OwnChatWriters(P), NEW e \in OwnEvents(P)
    PROVE  WriteChunk(w, e) \in OwnChatWriters(P)
<1>. DEFINE v == CollectChunk(w, e)
            f == FlushChatLog(w)
            l == Append(w.log, ChatEvent(w.pending.kind, w.pending.text))
<1>1. w.pending \in Pendings /\ w.log \in Seq(Events)
  BY DEF OwnChatWriters
<1>2. f \in OwnChatWriters(P)
  <2>1. ChatEvent(w.pending.kind, w.pending.text) \in Events /\ NoPending \in Pendings
    BY <1>1, WriterBasics DEF ChatEvent, Pendings
  <2>2. l \in Seq(Events)
    BY <1>1, <2>1, AppendProperties
  <2>3. f = w \/ f = [w EXCEPT !.pending = NoPending, !.log = l]
    BY DEF FlushChatLog
  <2>. HIDE DEF f, l
  <2>. QED
    BY <2>1, <2>2, <2>3 DEF OwnChatWriters
<1>3. v \in OwnChatWriters(P)
  <2>. HIDE DEF f
  <2>. DEFINE same == w.pending.kind = e.type
              u == IF same THEN w ELSE f
              t == (IF same THEN w.pending.text ELSE <<>>) \o e.text
              q == [index |-> 0, kind |-> e.type, text |-> t]
  <2>1. u \in OwnChatWriters(P)
    BY <1>2
  <2>0. e \in Events
    BY DEF OwnEvents
  <2>2. Append(f.log, e) \in Seq(Events)
    BY <1>2, <2>0, AppendProperties DEF OwnChatWriters
  <2>3. t \in Strings /\ e.type \in Names
    BY <1>1, <2>0, WriterBasics DEF Pendings, Events
  <2>4. v = IF e.type \in {"content", "reasoning"} THEN [u EXCEPT !.pending = q]
            ELSE [f EXCEPT !.log = Append(@, e)]
    BY DEF CollectChunk, f
  <2>. HIDE DEF u, t, v
  <2>5. q \in Pendings
    BY <2>3 DEF Pendings
  <2>. HIDE DEF q
  <2>6. [u EXCEPT !.pending = q] \in OwnChatWriters(P)
    BY <2>1, <2>5 DEF OwnChatWriters
  <2>7. [f EXCEPT !.log = Append(@, e)] \in OwnChatWriters(P)
    BY <1>2, <2>2 DEF OwnChatWriters
  <2>. QED
    BY <2>4, <2>6, <2>7
<1>4. Append(v.out, e) \in Seq(OwnEvents(P))
  BY <1>3, AppendProperties DEF OwnChatWriters
<1>. HIDE DEF v
<1>5. [v EXCEPT !.out = Append(@, e)] \in OwnChatWriters(P)
  BY <1>3, <1>4 DEF OwnChatWriters
<1>. QED
  BY <1>5 DEF WriteChunk, v

LEMMA RoleOwns ==
    ASSUME NEW P, NEW w \in OwnChatWriters(P)
    PROVE  WriteRole(w) \in OwnChatWriters(P)
<1>. DEFINE e == ChatEvent("role", <<>>)
            v == WriteChunk(w, e)
<1>1. e \in OwnEvents(P)
  BY SymbolTypes DEF ChatEvent, Event, Events, Names, OwnEvents
<1>2. v \in OwnChatWriters(P)
  BY <1>1, ChunkOwns
<1>3. WriteRole(w) = w \/ WriteRole(w) = [v EXCEPT !.sent_role = TRUE]
  BY DEF WriteRole
<1>. HIDE DEF v
<1>. QED
  BY <1>2, <1>3 DEF OwnChatWriters

LEMMA TextOwns ==
    ASSUME NEW P, NEW w \in OwnChatWriters(P), NEW type \in {"content", "reasoning"}, NEW text \in Strings,
           type = "reasoning" => text \in Seq(GivenWords(P))
    PROVE  WriteText(w, type, text) \in OwnChatWriters(P)
<1>1. ChatEvent(type, text) \in OwnEvents(P)
  BY DEF ChatEvent, Event, Events, Names, OwnEvents
<1>. QED
  BY <1>1, RoleOwns, ChunkOwns DEF WriteText

LEMMA ChatCallOwns ==
    ASSUME NEW P, Len(P) \in Nat, NEW w \in OwnChatWriters(P), NEW p \in OwnParts(P), p.call # None, ~p.thought
    PROVE  ChatCall(w, p) \in OwnChatWriters(P)
<1>. DEFINE v == SaveAndTakeReasoning(w, p.call, FALSE, w.sig)
            save == SignatureSave(p.call, FALSE, w.sig, w.thought)
            l == Append(w.saves, save)
            calls == Append(v.calls, p.call)
            u == [v EXCEPT !.sig = None, !.calls = calls]
<1>1. w.signing = TRUE /\ p.sig = None /\ p.call \in GivenCalls(P)
  BY DEF OwnChatWriters, OwnParts
<1>2. ChatCall(w, p) = u
  <2>1. w.sig = None => v.sig = None
    BY DEF SaveAndTakeReasoning
  <2>2. v \in OwnChatWriters(P) => [v EXCEPT !.sig = v.sig, !.calls = calls] = [v EXCEPT !.calls = calls]
    BY DEF OwnChatWriters
  <2>. HIDE DEF calls
  <2>3. ChatCall(w, p) = [v EXCEPT !.sig = IF w.sig # None THEN None ELSE v.sig, !.calls = calls]
    BY <1>1 DEF ChatCall, calls
  <2>. QED
    BY <2>1, <2>3
<1>3. v = IF w.sig = None THEN w ELSE [w EXCEPT !.saves = l, !.thought = <<>>]
  BY DEF SaveAndTakeReasoning
<1>4. w.sig # None => l \in Seq(OwnChatSaves(P))
  <2>1. w.sig # None => save \in OwnChatSaves(P)
    BY <1>1 DEF OwnChatWriters, OwnChatSaves, SignatureSave
  <2>. HIDE DEF save
  <2>. QED
    BY <2>1, AppendProperties DEF OwnChatWriters
<1>. HIDE DEF l, v
<1>5. v \in OwnChatWriters(P)
  BY <1>3, <1>4, GivenBasics DEF OwnChatWriters
<1>6. calls \in Seq(GivenCalls(P))
  BY <1>1, <1>5, AppendProperties DEF OwnChatWriters
<1>. HIDE DEF calls
<1>. QED
  BY <1>2, <1>5, <1>6 DEF OwnChatWriters

LEMMA ChatPartOwns ==
    ASSUME NEW P, Len(P) \in Nat, NEW w \in OwnChatWriters(P), NEW p \in OwnParts(P)
    PROVE  ChatPart(w, p) \in OwnChatWriters(P)
<1>1. /\ p.text \in Strings /\ p.text \in Seq(GivenWords(P)) /\ p.sig \in GivenSigs(P) \cup {None}
      /\ p.image \in Images \cup {None} /\ (p.sig # None => p.thought)
  BY DEF OwnParts, GivenParts
<1>2. ChatThought(w, p) \in OwnChatWriters(P)
  <2>. DEFINE held == IF w.signing /\ p.sig # None THEN p.sig ELSE w.sig
              t == w.thought \o p.text
              v == [w EXCEPT !.sig = held, !.thought = t]
  <2>1. held \in GivenSigs(P) \cup {None} /\ t \in Seq(GivenWords(P))
    BY <1>1, GivenBasics DEF OwnChatWriters
  <2>2. ChatThought(w, p) = WriteText(v, "reasoning", p.text)
    BY DEF ChatThought
  <2>. HIDE DEF held, t
  <2>3. v \in OwnChatWriters(P)
    BY <2>1 DEF OwnChatWriters
  <2>. HIDE DEF v
  <2>. QED
    BY <1>1, <2>2, <2>3, TextOwns
<1>3. WriteText(w, "content", p.text) \in OwnChatWriters(P)
  BY <1>1, TextOwns
<1>4. ASSUME p.image # None, ~p.thought
      PROVE  WriteText(SaveAndTakeReasoning(w, p.image, TRUE, p.sig), "content", <<p.image>>) \in OwnChatWriters(P)
  <2>1. <<p.image>> \in Strings /\ p.sig = None
    BY <1>1, <1>4, SymbolTypes
  <2>2. SaveAndTakeReasoning(w, p.image, TRUE, p.sig) = w
    BY <2>1 DEF SaveAndTakeReasoning
  <2>. QED
    BY <2>1, <2>2, TextOwns
<1>5. ASSUME p.call # None, ~p.thought PROVE ChatCall(w, p) \in OwnChatWriters(P)
  BY <1>5, ChatCallOwns
<1>. QED
  BY <1>2, <1>3, <1>4, <1>5 DEF ChatPart

LEMMA ChatOwns ==
    ASSUME NEW P, Len(P) \in Nat, NEW parts \in Seq(OwnParts(P))
    PROVE  FlushToolCalls(ChatWriting(parts, TRUE)) \in OwnChatWriters(P)
<1>. DEFINE n == Len(parts)
<1>1. n \in Nat /\ DOMAIN parts = 1..n /\ \A k \in 1..n : parts[k] \in OwnParts(P)
  BY LenProperties, ElementOfSeq
<1>2. PICK run : /\ run[0] = NewChatWriter(TRUE)
                 /\ \A k \in 1..n : run[k] = ChatPart(run[k - 1], parts[k])
                 /\ ChatWriting(parts, TRUE) = run[n]
  BY <1>1, ChatWritingRun
<1>. HIDE DEF n
<1>. DEFINE S == {k \in 0..n : run[k] \in OwnChatWriters(P)}
<1>3. 0 \in S
  <2>1. NewChatWriter(TRUE) \in OwnChatWriters(P)
    <3>1. NoPending \in Pendings /\ <<>> \in Seq(GivenWords(P)) /\ <<>> \in Seq(GivenCalls(P))
          /\ <<>> \in Seq(OwnEvents(P)) /\ <<>> \in Seq(Events) /\ <<>> \in Seq(OwnChatSaves(P))
      BY WriterBasics, GivenBasics
    <3>. QED
      BY <3>1 DEF NewChatWriter, OwnChatWriters
  <2>2. 0 \in 0..n
    BY <1>1
  <2>. QED
    BY <1>2, <2>1, <2>2
<1>4. ASSUME NEW k \in 1..n, k - 1 \in S PROVE k \in S
  <2>1. ChatPart(run[k - 1], parts[k]) \in OwnChatWriters(P)
    BY <1>1, <1>4, ChatPartOwns
  <2>2. run[k] = ChatPart(run[k - 1], parts[k])
    BY <1>2
  <2>3. k \in 0..n
    BY <1>1
  <2>. QED
    BY <2>1, <2>2, <2>3
<1>. HIDE DEF S
<1>5. n \in S
  BY <1>1, <1>3, <1>4, Upwards
<1>. DEFINE w == ChatWriting(parts, TRUE)
            u == WriteRole(w)
            e == ChatEvent("tool_calls", w.calls)
            v == WriteChunk(u, e)
<1>6. w \in OwnChatWriters(P)
  BY <1>2, <1>5 DEF S
<1>7. FlushToolCalls(w) = IF w.calls = <<>> THEN w ELSE [v EXCEPT !.calls = <<>>]
  BY DEF FlushToolCalls
<1>. HIDE DEF w
<1>8. e \in OwnEvents(P)
  <2>1. w.calls \in Seq(GivenCalls(P)) /\ GivenCalls(P) \subseteq Symbols
    BY <1>6, GivenBasics DEF OwnChatWriters, Symbols
  <2>2. w.calls \in Strings
    BY <2>1, SeqSubset DEF Strings
  <2>. QED
    BY <2>1, <2>2 DEF ChatEvent, Event, Events, Names, OwnEvents
<1>. HIDE DEF e
<1>9. v \in OwnChatWriters(P)
  BY <1>6, <1>8, RoleOwns, ChunkOwns
<1>. HIDE DEF v
<1>10. <<>> \in Seq(GivenCalls(P))
  OBVIOUS
<1>11. [v EXCEPT !.calls = <<>>] \in OwnChatWriters(P)
  BY <1>9, <1>10 DEF OwnChatWriters
<1>. QED
  BY <1>6, <1>7, <1>11 DEF w

LEMMA ChatFinishOwns ==
    ASSUME NEW P, NEW w \in OwnChatWriters(P)
    PROVE  ChatFinish(w, "STOP") \in OwnChatWriters(P)
<1>. DEFINE e1 == Event("finish", 0, "STOP", <<>>)
            e2 == ChatEvent("[DONE]", <<>>)
            v == WriteChunk(WriteRole(w), e1)
<1>1. e1 \in OwnEvents(P) /\ e2 \in OwnEvents(P)
  BY SymbolTypes DEF ChatEvent, Event, Events, Names, OwnEvents
<1>2. ChatFinish(w, "STOP") = [v EXCEPT !.out = Append(@, e2)]
  BY DEF ChatFinish
<1>. HIDE DEF e1, e2
<1>3. v \in OwnChatWriters(P)
  BY <1>1, RoleOwns, ChunkOwns
<1>. HIDE DEF v
<1>4. Append(v.out, e2) \in Seq(OwnEvents(P))
  BY <1>1, <1>3, AppendProperties DEF OwnChatWriters
<1>. QED
  BY <1>2, <1>3, <1>4 DEF OwnChatWriters

LEMMA MessageOwns ==
    ASSUME NEW P, Len(P) \in Nat, NEW w \in OwnChatWriters(P)
    PROVE  /\ OwnMessage(MessageHeard(w.out), P)
           /\ \A i \in DOMAIN w.saves : Bound(P, w.saves[i], FALSE)
<1>1. w.out \in Seq(OwnEvents(P)) /\ w.saves \in Seq(OwnChatSaves(P))
  BY DEF OwnChatWriters
<1>2. /\ \A i \in DOMAIN w.out : w.out[i] \in OwnEvents(P)
      /\ \A i \in DOMAIN w.saves : w.saves[i] \in OwnChatSaves(P)
  BY <1>1, LenProperties, ElementOfSeq
<1>. DEFINE out == w.out
<1>3. out \in Seq(Events)
  <2>1. OwnEvents(P) \subseteq Events
    BY DEF OwnEvents
  <2>. HIDE DEF OwnEvents
  <2>. QED
    BY <1>1, <2>1, SeqSubset
<1>4. /\ \A i \in DOMAIN out : out[i].kind = "reasoning" => out[i].text \in Seq(GivenWords(P))
      /\ \A i \in DOMAIN out : out[i].kind = "tool_calls" => out[i].text \in Seq(GivenCalls(P))
  BY <1>2 DEF OwnEvents
<1>. HIDE DEF out
<1>5. Heard(out, "reasoning") \in Seq(GivenWords(P))
  BY <1>3, <1>4, HeardType
<1>6. Heard(out, "tool_calls") \in Seq(GivenCalls(P))
  BY <1>3, <1>4, HeardType
<1>7. OwnMessage(MessageHeard(out), P)
  BY <1>5, <1>6 DEF OwnMessage, MessageHeard, ChatMessage
<1>8. ASSUME NEW i \in DOMAIN w.saves PROVE Bound(P, w.saves[i], FALSE)
  <2>. DEFINE s == w.saves[i]
  <2>1. s \in OwnChatSaves(P)
    BY <1>2
  <2>. HIDE DEF s
  <2>2. s.key \in GivenCalls(P) /\ s.sig \in GivenSigs(P) /\ s.reasoning \in Seq(GivenWords(P))
    BY <2>1 DEF OwnChatSaves
  <2>. QED
    BY <2>2, OwnBound DEF s
<1>. QED
  BY <1>7, <1>8 DEF out

-----------------------------------------------------------------------------
(* What is delivered and what is saved.                                     *)

Strict == Claude /\ session.streams
TellsOwn(r, P) == IF Claude THEN Voiced(r.blocks, P, Strict) ELSE OwnMessage(r.message, P)

LEMMA DeliveredOwns ==
    ASSUME NEW P, Proper(P), ThoughtsNeedSignatures, is_claude(session.model)
    PROVE  LET d == Delivered(P) IN
           TellsOwn(d.reply, P) /\ \A i \in DOMAIN d.saves : Bound(P, d.saves[i], Strict)
<1>. DEFINE d == Delivered(P)
            w == Streamed(P)
            merged == merge_parts(P)
            r == to_messages_response(merged, is_claude(session.model))
            c == to_chat_completion(merged)
            Fine(x) == TellsOwn(x.reply, P) /\ \A i \in DOMAIN x.saves : Bound(P, x.saves[i], Strict)
<1>1. d = IF Claude
          THEN IF session.streams
               THEN [reply |-> [NoReply EXCEPT !.blocks = BlocksHeard(w.out)], saves |-> w.saves]
               ELSE [reply |-> [NoReply EXCEPT !.blocks = r.blocks], saves |-> r.saves]
          ELSE IF session.streams
               THEN [reply |-> [NoReply EXCEPT !.message = MessageHeard(w.out)], saves |-> w.saves]
               ELSE [reply |-> [NoReply EXCEPT !.message = c.message], saves |-> c.saves]
  BY DEF Delivered
<1>2. /\ P \in Seq(GivenParts) /\ Distinct(P) /\ P \in Seq(OwnParts(P)) /\ Len(P) \in Nat
      /\ merged \in Seq(OwnParts(P))
  BY AnswerOwns, MergedOwns DEF Proper
<1>3. ~Claude => is_claude_thinking(session.model)
  BY DEF ThoughtsNeedSignatures
<1>4. \A blocks, message, saves :
        /\ [NoReply EXCEPT !.blocks = blocks].blocks = blocks
        /\ [NoReply EXCEPT !.message = message].message = message
  BY DEF NoReply
<1>5. CASE Claude /\ session.streams
  <2>. DEFINE called == \E i \in DOMAIN P : P[i].call # None
              stop_reason == IF called THEN "tool_use" ELSE "end_turn"
              u == ClaudeFinish(ClaudeWriting(P, TRUE), stop_reason)
              K == Named(P, Len(P))
  <2>1. w = u
    BY <1>5 DEF Streamed, ClaudeWriting
  <2>2. stop_reason \in {"tool_use", "end_turn"} /\ K \subseteq Calls
    BY <1>2, PartTypes
  <2>. HIDE DEF stop_reason, K
  <2>3. Recites(u, P, Len(P))
    BY <2>2, AnswerRecited
  <2>4. Tells(u, K)
    BY <1>2, <2>2, AnswerTold DEF K
  <2>. HIDE DEF u
  <2>5. Line(u.out, u.block, u.next_index, P, Len(P)) /\ Told(u.out, K)
        /\ \A i \in DOMAIN u.saves : Bound(P, u.saves[i], TRUE)
    BY <2>3, <2>4 DEF Recites, Tells
  <2>6. Voiced(BlocksHeard(u.out), P, TRUE)
    BY <1>2, <2>2, <2>5, StreamVoiced
  <2>7. d = [reply |-> [NoReply EXCEPT !.blocks = BlocksHeard(u.out)], saves |-> u.saves]
    BY <1>1, <1>5, <2>1
  <2>. HIDE DEF d
  <2>8. d.reply.blocks = BlocksHeard(u.out) /\ d.saves = u.saves
    BY <1>4, <2>7
  <2>9. Strict = TRUE
    BY <1>5 DEF Strict
  <2>. QED
    BY <1>5, <2>5, <2>6, <2>8, <2>9 DEF TellsOwn, d
<1>6. CASE Claude /\ ~session.streams
  <2>. HIDE DEF merged
  <2>1. r = to_messages_response(merged, TRUE)
    OBVIOUS
  <2>2. Voiced(r.blocks, P, FALSE) /\ \A i \in DOMAIN r.saves : Bound(P, r.saves[i], FALSE)
    BY <2>1, WholeVoiced DEF merged
  <2>. HIDE DEF r
  <2>3. d = [reply |-> [NoReply EXCEPT !.blocks = r.blocks], saves |-> r.saves]
    BY <1>1, <1>6
  <2>. HIDE DEF d
  <2>4. d.reply.blocks = r.blocks /\ d.saves = r.saves
    BY <1>4, <2>3
  <2>5. Strict = FALSE
    BY <1>6 DEF Strict
  <2>. QED
    BY <1>6, <2>2, <2>4, <2>5 DEF TellsOwn, d
<1>7. CASE ~Claude /\ session.streams
  <2>. DEFINE f == FlushToolCalls(ChatWriting(P, TRUE))
              u == ChatFinish(f, "STOP")
  <2>1. w = u
    BY <1>3, <1>7 DEF Streamed, ChatWriting
  <2>2. f \in OwnChatWriters(P)
    BY <1>2, ChatOwns
  <2>. HIDE DEF f
  <2>3. u \in OwnChatWriters(P)
    BY <2>2, ChatFinishOwns
  <2>. HIDE DEF u
  <2>4. OwnMessage(MessageHeard(u.out), P) /\ \A i \in DOMAIN u.saves : Bound(P, u.saves[i], FALSE)
    BY <1>2, <2>3, MessageOwns
  <2>5. d = [reply |-> [NoReply EXCEPT !.message = MessageHeard(u.out)], saves |-> u.saves]
    BY <1>1, <1>7, <2>1
  <2>. HIDE DEF d
  <2>6. d.reply.message = MessageHeard(u.out) /\ d.saves = u.saves
    BY <1>4, <2>5
  <2>7. Strict = FALSE
    BY <1>7 DEF Strict
  <2>. QED
    BY <1>7, <2>4, <2>6, <2>7 DEF TellsOwn, d
<1>8. CASE ~Claude /\ ~session.streams
  <2>. HIDE DEF merged
  <2>. DEFINE f == FlushToolCalls(ChatWriting(merged, TRUE))
  <2>1. c = [message |-> MessageHeard(f.out), saves |-> f.saves]
    BY <1>3, <1>8 DEF to_chat_completion, ChatWriting
  <2>2. f \in OwnChatWriters(P)
    BY <1>2, ChatOwns
  <2>. HIDE DEF f
  <2>3. OwnMessage(MessageHeard(f.out), P) /\ \A i \in DOMAIN f.saves : Bound(P, f.saves[i], FALSE)
    BY <1>2, <2>2, MessageOwns
  <2>. HIDE DEF c
  <2>4. c.message = MessageHeard(f.out) /\ c.saves = f.saves
    BY <2>1
  <2>5. d = [reply |-> [NoReply EXCEPT !.message = c.message], saves |-> c.saves]
    BY <1>1, <1>8
  <2>. HIDE DEF d
  <2>6. d.reply.message = c.message /\ d.saves = c.saves
    BY <1>4, <2>5
  <2>7. Strict = FALSE
    BY <1>8 DEF Strict
  <2>. QED
    BY <1>8, <2>3, <2>4, <2>6, <2>7 DEF TellsOwn, d
<1>. QED
  BY <1>5, <1>6, <1>7, <1>8

-----------------------------------------------------------------------------
(* The thoughts of a request, of a conversation in which the answers of G   *)
(* were given.                                                              *)

\* No call is in two answers.
Gave(G) ==
    /\ \A P \in G : Proper(P)
    /\ \A P, Q \in G : GivenCalls(P) \cap GivenCalls(Q) # {} => P = Q

\* What the cache remembers of a call is from its answer.
Keyed(entries, id) == [key |-> id, sig |-> entries[id].sig, reasoning |-> entries[id].reasoning]
Remembers(entries, G) == \A id \in DOMAIN entries : \E P \in G : Bound(P, Keyed(entries, id), Strict)

\* A message has no thoughts, or those of an answer.
Quotes(m, G) ==
    IF Claude
    THEN (\E P \in G : Voiced(m.blocks, P, Strict)) \/ (\A i \in DOMAIN m.blocks : m.blocks[i].type # "thinking")
    ELSE m.role = "assistant" /\ m.tool_calls # <<>> =>
            \E P \in G : Head(m.tool_calls) \in GivenCalls(P) /\ m.reasoning \in Seq(GivenWords(P))

MuteParts == {p \in SentParts : ~p.thought}
SignedParts(G) == {p \in SentParts : p.thought => \E P \in G : SignedBy(p, P)}
SignedContents(G) == [role : {"user", "model"}, parts : Seq(SignedParts(G))]

LEMMA MuteSigned ==
    ASSUME NEW G
    PROVE  /\ MuteParts \subseteq SignedParts(G) /\ Seq(MuteParts) \subseteq Seq(SignedParts(G))
           /\ SignedParts(G) \subseteq SentParts /\ Seq(SignedParts(G)) \subseteq Seq(SentParts)
           /\ SignedContents(G) \subseteq SentContents
<1>1. MuteParts \subseteq SignedParts(G) /\ SignedParts(G) \subseteq SentParts
  BY DEF MuteParts, SignedParts
<1>2. Seq(MuteParts) \subseteq Seq(SignedParts(G)) /\ Seq(SignedParts(G)) \subseteq Seq(SentParts)
  BY <1>1, SeqSubset
<1>3. SignedContents(G) \subseteq SentContents
  BY <1>2 DEF SignedContents, SentContents
<1>. QED
  BY <1>1, <1>2, <1>3

\* Two moments of a call are one.
LEMMA MomentsMeet ==
    ASSUME NEW G, Gave(G), NEW P \in G, NEW Q \in G, NEW id \in Calls, NEW h, NEW g, NEW strict \in BOOLEAN,
           Moment(P, id, h, strict), Moment(Q, id, g, strict)
    PROVE  P = Q /\ g = h
<1>0. Proper(P) /\ Proper(Q) /\ None \notin Calls
  BY NoneAssumption DEF Gave
<1>1. PICK k \in 1..Len(P) : P[k].call = id /\ h = IF strict THEN k - 1 ELSE Len(P)
  BY DEF Moment
<1>2. PICK l \in 1..Len(Q) : Q[l].call = id /\ g = IF strict THEN l - 1 ELSE Len(Q)
  BY DEF Moment
<1>3. id \in GivenCalls(P) /\ id \in GivenCalls(Q)
  BY <1>1, <1>2 DEF GivenCalls, Moment
<1>4. P = Q
  BY <1>3 DEF Gave
<1>5. DOMAIN P = 1..Len(P) /\ Distinct(P)
  BY <1>0, LenProperties DEF Proper
<1>6. k = l
  BY <1>0, <1>1, <1>2, <1>4, <1>5 DEF Distinct
<1>. QED
  BY <1>1, <1>2, <1>4, <1>6

LEMMA ThoughtSigned ==
    ASSUME NEW G, Gave(G), NEW P \in G, NEW text \in Strings, NEW sig \in Sigs, Theirs(P, text, sig, Strict)
    PROVE  ThoughtOf(text, sig) \in Seq(SignedParts(G))
<1>. DEFINE x == ThoughtOf(text, sig)
            p == [Plain EXCEPT !.thought = TRUE, !.text = text, !.sig = sig]
<1>1. Single(x) /\ x[1] = p
  BY PartForms
<1>2. p.text = text /\ p.sig = sig /\ p.sig # None
  BY NoneAssumption DEF Plain
<1>3. P \in Seq(GivenParts)
  BY DEF Gave, Proper
<1>. HIDE DEF x, p
<1>4. SignedBy(p, P)
  <2>1. Theirs(P, p.text, p.sig, Strict) /\ (Claude /\ session.streams => Strict)
    BY <1>2 DEF Strict
  <2>. QED
    BY <1>2, <1>3, <2>1, TheirsSigned
<1>5. x = <<p>> /\ p \in SentParts
  BY <1>1, SingleSays
<1>6. p \in SignedParts(G)
  BY <1>4, <1>5 DEF SignedParts
<1>. QED
  BY <1>5, <1>6 DEF x

\* What the cache has for a text that is before the call.
LEMMA RecoveredTheirs ==
    ASSUME NEW entries, IsCache(entries), NEW G, Gave(G), Remembers(entries, G), NEW P \in G,
           NEW id, NEW text, NEW h \in 0..Len(P), id \in Calls => Moment(P, id, h, Strict) /\ text \in Seq(Words(P, h)),
           id \in Calls \cup {None}, lookup_strict(entries, id).sig # None
    PROVE  Theirs(P, text, lookup_strict(entries, id).sig, Strict)
<1>1. id \in DOMAIN entries /\ lookup_strict(entries, id) = entries[id]
  BY DEF lookup_strict, Indexed, NoEntry
<1>2. id \in Calls
  BY <1>1, NoneAssumption DEF IsCache
<1>. DEFINE s == Keyed(entries, id)
<1>3. s.key = id /\ s.sig = entries[id].sig
  BY DEF Keyed
<1>. HIDE DEF s
<1>4. PICK Q \in G : Bound(Q, s, Strict)
  BY <1>1 DEF Remembers, s
<1>5. PICK g \in 0..Len(Q) : Moment(Q, s.key, g, Strict) /\ Near(Q, s.sig, g, Strict)
  BY <1>4 DEF Bound
<1>6. Strict \in BOOLEAN
  BY DEF Strict, Claude
<1>7. P = Q /\ g = h
  <2>1. Moment(P, id, h, Strict) /\ Moment(Q, id, g, Strict)
    BY <1>2, <1>3, <1>5
  <2>. DEFINE strict == Strict
  <2>2. strict \in BOOLEAN /\ Moment(P, id, h, strict) /\ Moment(Q, id, g, strict)
    BY <1>6, <2>1
  <2>. HIDE DEF strict
  <2>. QED
    BY <1>2, <2>2, MomentsMeet
<1>. QED
  BY <1>1, <1>2, <1>3, <1>5, <1>7 DEF Theirs

\* The call that is looked for is behind the block.
LEMMA LookedAhead ==
    ASSUME NEW blocks \in Seq(Blocks), NEW i \in DOMAIN blocks
    PROVE  LET id == lookahead_tool_use_id(blocks, i + 1) IN
           \/ id = None
           \/ \E j \in DOMAIN blocks : i < j /\ blocks[j].type = "tool_use" /\ blocks[j].id = id
<1>. DEFINE n == Len(blocks)
            I == {j \in i + 1..n : blocks[j].type = "tool_use"}
            later == SelectInSubSeq(blocks, i + 1, n, LAMBDA b : b.type = "tool_use")
<1>1. n \in Nat /\ DOMAIN blocks = 1..n /\ i \in 1..n
  BY LenProperties
<1>2. later = IF I # {} THEN Min(I) ELSE 0
  BY DEF SelectInSubSeq
<1>3. lookahead_tool_use_id(blocks, i + 1) = IF later = 0 THEN None ELSE blocks[later].id
  BY DEF lookahead_tool_use_id
<1>4. I \subseteq Nat /\ \A j \in I : j \in 1..n /\ i < j /\ blocks[j].type = "tool_use"
  BY <1>1
<1>. HIDE DEF I, later
<1>5. CASE I = {}
  BY <1>2, <1>3, <1>5
<1>6. CASE I # {}
  <2>1. PICK m \in I : \A k \in I : m <= k
    BY <1>4, <1>6, LeastNatural
  <2>2. Min(I) \in I
    BY <2>1 DEF Min
  <2>3. later \in I /\ later # 0
    BY <1>1, <1>2, <1>4, <1>6, <2>2
  <2>. QED
    BY <1>1, <1>3, <1>4, <2>3
<1>. QED
  BY <1>5, <1>6

\* A thinking block is sent under a signature of its own answer.
LEMMA ThinkingSigned ==
    ASSUME NEW entries, IsCache(entries), NEW G, Gave(G), Remembers(entries, G), NEW P \in G,
           NEW blocks \in Seq(Blocks), Voiced(blocks, P, Strict), NEW i \in DOMAIN blocks, blocks[i].type = "thinking"
    PROVE  ThinkingParts(entries, blocks, i, TRUE) \in Seq(SignedParts(G))
<1>. DEFINE b == blocks[i]
            sig == Recovered(entries, blocks, i)
            text == IF Trimmed(b.text) THEN MissingThought ELSE b.text
            x == ThinkingParts(entries, blocks, i, TRUE)
            id == lookahead_tool_use_id(blocks, i + 1)
<1>1. b.text \in Strings /\ b.sig \in Sigs \cup {None}
  <2>1. b \in Blocks
    BY LenProperties, ElementOfSeq
  <2>. HIDE DEF b
  <2>. QED
    BY <2>1 DEF Blocks
<1>2. x = IF sig = None THEN <<>> ELSE ThoughtOf(text, sig)
  BY DEF ThinkingParts
<1>3. sig \in Sigs \cup {None}
  BY <1>1, LookUps DEF Recovered
<1>4. text \in Strings
  BY <1>1, SymbolTypes
<1>5. Len(P) \in Nat
  BY LenProperties DEF Gave, Proper
<1>6. ASSUME b.sig # None PROVE Theirs(P, b.text, sig, Strict)
  BY <1>6 DEF Recovered, Voiced
<1>7. ASSUME b.sig = None, sig # None PROVE Theirs(P, b.text, sig, Strict)
  <2>1. sig = lookup_strict(entries, id).sig
    BY <1>7 DEF Recovered
  <2>2. CASE id = None
    <3>1. None \notin DOMAIN entries
      BY NoneAssumption DEF IsCache
    <3>. QED
      BY <1>7, <2>1, <2>2, <3>1 DEF lookup_strict, Indexed, NoEntry
  <2>3. CASE id # None
    <3>1. PICK j \in DOMAIN blocks : i < j /\ blocks[j].type = "tool_use" /\ blocks[j].id = id
      BY <2>3, LookedAhead
    <3>2. PICK h \in 0..Len(P) : Moment(P, id, h, Strict) /\ b.text \in Seq(Words(P, h))
      BY <3>1 DEF Voiced
    <3>3. id \in Calls \cup {None}
      <4>1. blocks[j] \in Blocks
        BY <3>1, LenProperties, ElementOfSeq
      <4>. DEFINE c == blocks[j]
      <4>. HIDE DEF c
      <4>2. c.id \in Calls \cup {None}
        BY <4>1 DEF Blocks, c
      <4>. QED
        BY <3>1, <4>2 DEF c
    <3>. DEFINE t == b.text
    <3>. HIDE DEF b, id, sig, t
    <3>4. /\ id \in Calls => Moment(P, id, h, Strict) /\ t \in Seq(Words(P, h))
          /\ lookup_strict(entries, id).sig # None
      BY <1>7, <2>1, <3>2 DEF t
    <3>5. Theirs(P, t, lookup_strict(entries, id).sig, Strict)
      BY <3>2, <3>3, <3>4, RecoveredTheirs
    <3>. QED
      BY <2>1, <3>5 DEF t
  <2>. QED
    BY <2>2, <2>3
<1>8. ASSUME sig # None PROVE Theirs(P, text, sig, Strict)
  <2>1. Theirs(P, b.text, sig, Strict)
    BY <1>6, <1>7, <1>8
  <2>2. PICK h \in 0..Len(P) : Near(P, sig, h, Strict) /\ b.text \in Seq(Words(P, h))
    BY <2>1 DEF Theirs
  <2>3. MissingThought \in Seq(Words(P, h))
    BY <1>5, <2>2, WordsSaid
  <2>4. text \in Seq(Words(P, h))
    BY <2>2, <2>3
  <2>. HIDE DEF text, sig
  <2>. QED
    BY <2>2, <2>4 DEF Theirs
<1>. HIDE DEF sig, text, x
<1>9. sig # None => ThoughtOf(text, sig) \in Seq(SignedParts(G))
  BY <1>3, <1>4, <1>8, ThoughtSigned
<1>10. <<>> \in Seq(SignedParts(G))
  OBVIOUS
<1>. QED
  BY <1>2, <1>9, <1>10 DEF x

\* No part, or one without a thought.
LEMMA OneMute ==
    ASSUME NEW x, x = <<>> \/ (Single(x) /\ ~x[1].thought)
    PROVE  x \in Seq(MuteParts)
<1>1. CASE x = <<>>
  BY <1>1
<1>2. CASE Single(x) /\ ~x[1].thought
  <2>1. x = <<x[1]>> /\ x[1] \in SentParts
    BY <1>2, SingleSays
  <2>. DEFINE p == x[1]
  <2>2. p \in MuteParts
    BY <1>2, <2>1 DEF MuteParts
  <2>. HIDE DEF p
  <2>3. <<p>> \in Seq(MuteParts)
    BY <2>2
  <2>. QED
    BY <2>1, <2>3 DEF p
<1>. QED
  BY <1>1, <1>2

LEMMA MuteForms ==
    /\ \A text \in Strings : TextOf(text) \in Seq(MuteParts)
    /\ \A id \in Calls \cup {None} : \A sig \in Sigs \cup {None, FALLBACK_SIGNATURE} : CallOf(id, sig) \in Seq(MuteParts)
    /\ \A key \in Images : \A sig \in Sigs \cup {None, FALLBACK_SIGNATURE} : ImageOf(key, sig) \in Seq(MuteParts)
    /\ \A id, name \in Calls \cup {None} : ResponseTo(id, name) \in Seq(MuteParts)
<1>1. ASSUME NEW text \in Strings PROVE TextOf(text) \in Seq(MuteParts)
  <2>1. text = <<>> => TextOf(text) = <<>>
    BY DEF TextOf
  <2>2. text # <<>> => Single(TextOf(text)) /\ TextOf(text)[1] = [Plain EXCEPT !.text = text]
    BY PartForms
  <2>3. ~[Plain EXCEPT !.text = text].thought
    BY DEF Plain
  <2>. QED
    BY <2>1, <2>2, <2>3, OneMute
<1>2. ASSUME NEW id \in Calls \cup {None}, NEW sig \in Sigs \cup {None, FALLBACK_SIGNATURE}
      PROVE  CallOf(id, sig) \in Seq(MuteParts)
  <2>1. Single(CallOf(id, sig)) /\ CallOf(id, sig)[1] = [Plain EXCEPT !.call = id, !.sig = sig]
    BY PartForms
  <2>2. ~[Plain EXCEPT !.call = id, !.sig = sig].thought
    BY DEF Plain
  <2>. QED
    BY <2>1, <2>2, OneMute
<1>3. ASSUME NEW key \in Images, NEW sig \in Sigs \cup {None, FALLBACK_SIGNATURE}
      PROVE  ImageOf(key, sig) \in Seq(MuteParts)
  <2>1. Single(ImageOf(key, sig)) /\ ImageOf(key, sig)[1] = [Plain EXCEPT !.image = key, !.sig = sig]
    BY PartForms
  <2>2. ~[Plain EXCEPT !.image = key, !.sig = sig].thought
    BY DEF Plain
  <2>. QED
    BY <2>1, <2>2, OneMute
<1>4. ASSUME NEW id \in Calls \cup {None}, NEW name \in Calls \cup {None}
      PROVE  ResponseTo(id, name) \in Seq(MuteParts)
  <2>1. Single(ResponseTo(id, name)) /\ ResponseTo(id, name)[1] = [Plain EXCEPT !.response = id, !.name = name]
    BY PartForms
  <2>2. ~[Plain EXCEPT !.response = id, !.name = name].thought
    BY DEF Plain
  <2>. QED
    BY <2>1, <2>2, OneMute
<1>. QED
  BY <1>1, <1>2, <1>3, <1>4

\* The parts of a block.
LEMMA BlockSigned ==
    ASSUME Claude, NEW entries, IsCache(entries), NEW G, Gave(G), Remembers(entries, G),
           NEW blocks \in Seq(Blocks), NEW i \in DOMAIN blocks, NEW so_far,
           blocks[i].type = "thinking" => \E P \in G : Voiced(blocks, P, Strict)
    PROVE  BlockParts(entries, blocks, i, so_far, TRUE) \in Seq(SignedParts(G))
<1>. DEFINE b == blocks[i]
            x == BlockParts(entries, blocks, i, so_far, TRUE)
<1>1. b.type \in BlockTypes /\ b.text \in Strings /\ b.id \in Calls \cup {None}
  <2>1. b \in Blocks
    BY LenProperties, ElementOfSeq
  <2>. HIDE DEF b
  <2>. QED
    BY <2>1 DEF Blocks
<1>2. \A y : y \in Seq(MuteParts) => y \in Seq(SignedParts(G))
  BY MuteSigned
<1>3. <<>> \in Seq(SignedParts(G))
  OBVIOUS
<1>4. CASE b.type = "text"
  <2>1. x = TextOf(b.text)
    BY <1>4 DEF BlockParts
  <2>. QED
    BY <1>1, <1>2, <2>1, MuteForms
<1>5. CASE b.type = "thinking"
  <2>1. x = ThinkingParts(entries, blocks, i, TRUE)
    BY <1>5 DEF BlockParts
  <2>2. PICK P \in G : Voiced(blocks, P, Strict)
    BY <1>5
  <2>. QED
    BY <1>5, <2>1, <2>2, ThinkingSigned
<1>6. CASE b.type = "redacted_thinking"
  BY <1>3, <1>6 DEF BlockParts
<1>7. CASE b.type = "tool_use"
  <2>1. x = CallOf(b.id, None)
    BY <1>7 DEF BlockParts
  <2>. QED
    BY <1>1, <1>2, <2>1, MuteForms
<1>8. CASE b.type = "tool_result"
  <2>. DEFINE name == find_function_name(so_far, b.id)
  <2>1. x = <<>> \/ x = ResponseTo(b.id, name)
    BY <1>8 DEF BlockParts
  <2>2. name \in {b.id, None}
    BY DEF find_function_name
  <2>. HIDE DEF x, name
  <2>. QED
    BY <1>1, <1>2, <1>3, <2>1, <2>2, MuteForms DEF x
<1>. QED
  BY <1>1, <1>4, <1>5, <1>6, <1>7, <1>8 DEF BlockTypes

\* The contents for the messages of a Claude client.
LEMMA ClaudeSigned ==
    ASSUME Claude, NEW entries, IsCache(entries), NEW G, Gave(G), Remembers(entries, G),
           NEW messages \in Seq(ClaudeMessages), \A k \in DOMAIN messages : Quotes(messages[k], G)
    PROVE  ClaudeContents(entries, messages, TRUE) \in Seq(SignedContents(G))
<1>. DEFINE n == Len(messages)
<1>1. n \in Nat /\ DOMAIN messages = 1..n /\ \A k \in 1..n : messages[k] \in ClaudeMessages
  BY LenProperties, ElementOfSeq
<1>2. PICK run :
        /\ run[0] = <<>>
        /\ \A k \in 1..n : run[k] = AddMessage(entries, run[k - 1], messages[k], TRUE)
        /\ ClaudeContents(entries, messages, TRUE) = run[n]
  <2>. DEFINE claude == TRUE
  <2>. HIDE DEF claude
  <2>0. Len(messages) \in Nat /\ DOMAIN messages = 1..Len(messages)
    BY <1>1
  <2>1. \E run : /\ run[0] = <<>>
                 /\ \A k \in 1..Len(messages) : run[k] = AddMessage(entries, run[k - 1], messages[k], claude)
                 /\ ClaudeContents(entries, messages, claude) = run[Len(messages)]
    BY <2>0, ClaudeContentsRun
  <2>. QED
    BY <2>1 DEF claude
<1>3. ASSUME NEW C \in Seq(SignedContents(G)), NEW m \in ClaudeMessages, Quotes(m, G)
      PROVE  AddMessage(entries, C, m, TRUE) \in Seq(SignedContents(G))
  <2>. DEFINE blocks == m.blocks
              parts == extract_content_parts(entries, blocks, C, TRUE)
              s == [i \in DOMAIN blocks |-> BlockParts(entries, blocks, i, C, TRUE)]
              role == VertexRole(m.role)
              D == Append(C, Content(role, parts))
  <2>1. blocks \in Seq(Blocks)
    BY DEF ClaudeMessages
  <2>2. \A i \in DOMAIN blocks : blocks[i].type = "thinking" => \E P \in G : Voiced(blocks, P, Strict)
    BY <1>3 DEF Quotes
  <2>3. AddMessage(entries, C, m, TRUE) = IF parts = <<>> THEN C ELSE D
    BY DEF AddMessage
  <2>. HIDE DEF blocks
  <2>4. \A i \in DOMAIN blocks : BlockParts(entries, blocks, i, C, TRUE) \in Seq(SignedParts(G))
    BY <2>1, <2>2, BlockSigned
  <2>5. DOMAIN blocks = 1..Len(blocks) /\ Len(blocks) \in Nat
    BY <2>1, LenProperties
  <2>6. s \in Seq(Seq(SignedParts(G)))
    <3>. DEFINE X(i) == BlockParts(entries, blocks, i, C, TRUE)
                W == Seq(SignedParts(G))
    <3>. HIDE DEF X, W
    <3>1. \A i \in 1..Len(blocks) : X(i) \in W
      BY <2>4, <2>5 DEF X, W
    <3>2. [i \in 1..Len(blocks) |-> X(i)] \in Seq(W)
      BY <2>5, <3>1
    <3>3. s = [i \in 1..Len(blocks) |-> X(i)]
      BY <2>5 DEF X
    <3>. QED
      BY <3>2, <3>3 DEF W
  <2>7. parts = FlattenSeq(s)
    BY DEF extract_content_parts
  <2>. HIDE DEF s, parts
  <2>8. parts \in Seq(SignedParts(G))
    BY <2>6, <2>7, FlattenType
  <2>9. role \in {"user", "model"}
    BY DEF VertexRole
  <2>. HIDE DEF role
  <2>10. Content(role, parts) \in SignedContents(G)
    BY <2>8, <2>9 DEF Content, SignedContents
  <2>11. D \in Seq(SignedContents(G))
    <3>. DEFINE c == Content(role, parts)
    <3>. HIDE DEF c
    <3>1. Append(C, c) \in Seq(SignedContents(G))
      BY <2>10, AppendProperties DEF c
    <3>. QED
      BY <3>1 DEF c
  <2>. QED
    BY <2>3, <2>11
<1>. HIDE DEF n
<1>. DEFINE S == {k \in 0..n : run[k] \in Seq(SignedContents(G))}
<1>4. 0 \in S
  <2>1. <<>> \in Seq(SignedContents(G)) /\ 0 \in 0..n
    BY <1>1
  <2>. QED
    BY <1>2, <2>1
<1>5. ASSUME NEW k \in 1..n, k - 1 \in S PROVE k \in S
  <2>1. run[k - 1] \in Seq(SignedContents(G)) /\ k \in 0..n /\ k \in DOMAIN messages
    BY <1>1, <1>5
  <2>2. run[k] = AddMessage(entries, run[k - 1], messages[k], TRUE)
    BY <1>2
  <2>3. messages[k] \in ClaudeMessages /\ Quotes(messages[k], G)
    BY <1>1, <2>1
  <2>4. run[k] \in Seq(SignedContents(G))
    BY <1>3, <2>1, <2>2, <2>3
  <2>. QED
    BY <2>1, <2>4
<1>. HIDE DEF S
<1>6. n \in S
  BY <1>1, <1>4, <1>5, Upwards, SMTT(30)
<1>. QED
  BY <1>2, <1>6 DEF S

-----------------------------------------------------------------------------
(* The same of an OpenAI client.                                            *)

QuotingMessages(G) == {m \in ChatMessages : Quotes(m, G)}

\* A text and its images have no thoughts.
LEMMA BodyMute ==
    ASSUME NEW entries, IsCache(entries), NEW text \in Strings, NEW pro_image
    PROVE  TextAndImages(entries, text, pro_image) \in Seq(MuteParts)
<1>. DEFINE n == Len(text)
<1>1. n \in Nat /\ DOMAIN text = 1..n /\ \A k \in 1..n : text[k] \in Symbols
  BY LenProperties, ElementOfSeq DEF Strings
<1>2. PICK run :
        /\ run[0] = <<>>
        /\ \A k \in 1..n : run[k] = AddSymbol(entries, run[k - 1], text[k], pro_image)
        /\ TextAndImages(entries, text, pro_image) = run[n]
  BY <1>1, TextAndImagesRun, SMTT(30)
<1>. HIDE DEF n
<1>. DEFINE S == {k \in 0..n : run[k] \in Seq(MuteParts)}
<1>3. 0 \in S
  <2>1. <<>> \in Seq(MuteParts) /\ 0 \in 0..n
    BY <1>1
  <2>. QED
    BY <1>2, <2>1
<1>4. ASSUME NEW p \in Seq(MuteParts), NEW symbol \in Symbols
      PROVE  AddSymbol(entries, p, symbol, pro_image) \in Seq(MuteParts)
  <2>0. \A x \in Seq(MuteParts) : p \o x \in Seq(MuteParts)
    BY ConcatProperties
  <2>1. CASE symbol \in Images
    <3>. DEFINE sig == ImageSignature(entries, symbol, pro_image)
                x == ImageOf(symbol, sig)
    <3>1. sig \in Sigs \cup {None, FALLBACK_SIGNATURE}
      BY LookUps DEF ImageSignature
    <3>2. AddSymbol(entries, p, symbol, pro_image) = p \o x
      BY <2>1 DEF AddSymbol
    <3>. HIDE DEF sig
    <3>3. x \in Seq(MuteParts)
      BY <2>1, <3>1, MuteForms
    <3>. HIDE DEF x
    <3>. QED
      BY <2>0, <3>2, <3>3
  <2>2. CASE symbol \notin Images /\ p # <<>> /\ Last(p).image = None
    <3>. DEFINE k == Len(p)
                d == [p[k] EXCEPT !.text = Append(@, symbol)]
                q == [p EXCEPT ![k] = d]
    <3>1. k \in Nat /\ DOMAIN p = 1..k /\ k \in DOMAIN p /\ p[k] \in MuteParts
      BY <2>2, LenProperties, EmptySeq, ElementOfSeq
    <3>2. p[k] \in SentParts /\ ~p[k].thought
      BY <3>1 DEF MuteParts
    <3>3. Append(p[k].text, symbol) \in Strings
      BY <3>2, AppendProperties DEF SentParts, Strings
    <3>4. d \in SentParts /\ d.thought = p[k].thought
      BY <3>2, <3>3 DEF SentParts
    <3>5. AddSymbol(entries, p, symbol, pro_image) = q
      BY <2>2 DEF AddSymbol
    <3>. HIDE DEF d
    <3>6. d \in MuteParts
      BY <3>2, <3>4 DEF MuteParts
    <3>7. q \in Seq(MuteParts)
      BY <3>1, <3>6, ExceptSeq
    <3>. QED
      BY <3>5, <3>7
  <2>3. CASE symbol \notin Images /\ ~(p # <<>> /\ Last(p).image = None)
    <3>. DEFINE t == <<symbol>>
                x == TextOf(t)
    <3>1. t \in Strings
      BY DEF Strings
    <3>2. AddSymbol(entries, p, symbol, pro_image) = p \o x
      BY <2>3 DEF AddSymbol
    <3>. HIDE DEF t
    <3>3. x \in Seq(MuteParts)
      BY <3>1, MuteForms
    <3>. HIDE DEF x
    <3>. QED
      BY <2>0, <3>2, <3>3
  <2>. QED
    BY <2>1, <2>2, <2>3
<1>5. ASSUME NEW k \in 1..n, k - 1 \in S PROVE k \in S
  <2>1. run[k - 1] \in Seq(MuteParts) /\ run[k] = AddSymbol(entries, run[k - 1], text[k], pro_image)
        /\ k \in 0..n /\ text[k] \in Symbols
    BY <1>1, <1>2, <1>5
  <2>2. run[k] \in Seq(MuteParts)
    BY <1>4, <2>1
  <2>. QED
    BY <2>1, <2>2
<1>. HIDE DEF S
<1>6. n \in S
  BY <1>1, <1>3, <1>5, Upwards
<1>. QED
  BY <1>2, <1>6 DEF S

\* The calls of a message are no thoughts.
LEMMA CallsMute ==
    ASSUME NEW entries, IsCache(entries), NEW m \in ChatMessages, NEW gemini
    PROVE  CallParts(entries, m, gemini) \in Seq(MuteParts)
<1>. DEFINE calls == m.tool_calls
            n == Len(calls)
            first == lookup_strict(entries, calls[1]).sig
            sig(i) == IF gemini /\ i = 1
                      THEN IF first = None THEN FALLBACK_SIGNATURE ELSE first
                      ELSE None
            X(i) == CallOf(calls[i], sig(i))
            W == Seq(MuteParts)
            s == [i \in 1..n |-> X(i)]
<1>1. n \in Nat /\ DOMAIN calls = 1..n /\ \A i \in 1..n : calls[i] \in Calls
  BY LenProperties, ElementOfSeq DEF ChatMessages
<1>2. \A i \in 1..n : sig(i) \in Sigs \cup {None, FALLBACK_SIGNATURE}
  BY LookUps
<1>3. CallParts(entries, m, gemini) = FlattenSeq(s)
  BY <1>1 DEF CallParts
<1>. HIDE DEF sig
<1>4. \A i \in 1..n : X(i) \in W
  BY <1>1, <1>2, MuteForms
<1>. HIDE DEF X, W
<1>5. s \in Seq(W)
  BY <1>1, <1>4
<1>. HIDE DEF s
<1>6. FlattenSeq(s) \in Seq(MuteParts)
  BY <1>5, FlattenType DEF W
<1>. QED
  BY <1>3, <1>6

\* The thought of a message is sent under the signature of its first call.
LEMMA ThoughtsSigned ==
    ASSUME ~Claude, NEW entries, IsCache(entries), NEW G, Gave(G), Remembers(entries, G),
           NEW m \in QuotingMessages(G), m.role = "assistant"
    PROVE  Thoughts(entries, m, TRUE) \in Seq(SignedParts(G))
<1>. DEFINE id == Head(m.tool_calls)
            first == IF m.tool_calls = <<>> THEN NoEntry ELSE lookup_strict(entries, id)
            own == Trim(m.reasoning)
            text == IF own # <<>> THEN own ELSE Trim(first.reasoning)
            said == IF text = <<>> THEN MissingThought ELSE text
            x == Thoughts(entries, m, TRUE)
<1>1. x = IF first.sig = None THEN <<>> ELSE ThoughtOf(said, first.sig)
  BY DEF Thoughts
<1>2. <<>> \in Seq(SignedParts(G))
  OBVIOUS
<1>3. m \in ChatMessages /\ Quotes(m, G)
  BY DEF QuotingMessages
<1>4. ASSUME first.sig # None PROVE ThoughtOf(said, first.sig) \in Seq(SignedParts(G))
  <2>1. /\ m.tool_calls # <<>> /\ first = lookup_strict(entries, id)
        /\ first = entries[id] /\ id \in DOMAIN entries
    BY <1>4 DEF NoEntry, lookup_strict, Indexed
  <2>2. PICK P \in G : id \in GivenCalls(P) /\ m.reasoning \in Seq(GivenWords(P))
    BY <1>3, <2>1 DEF Quotes
  <2>3. P \in G /\ Len(P) \in Nat /\ id \in Calls /\ Strict = FALSE
    BY <2>2, LenProperties DEF Gave, Proper, GivenCalls, Strict
  <2>. DEFINE s == Keyed(entries, id)
  <2>4. s.key = id /\ s.sig = first.sig /\ s.reasoning = first.reasoning
    BY <2>1 DEF Keyed
  <2>. HIDE DEF s
  <2>5. PICK Q \in G : Bound(Q, s, FALSE)
    BY <2>1, <2>3 DEF Remembers, s
  <2>6. PICK g \in 0..Len(Q) : /\ Moment(Q, s.key, g, FALSE) /\ Near(Q, s.sig, g, FALSE)
                               /\ s.reasoning \in Seq(Words(Q, g))
    BY <2>5 DEF Bound
  <2>7. Moment(P, id, Len(P), FALSE)
    BY <2>2 DEF GivenCalls
  <2>. DEFINE strict == FALSE
  <2>8. strict \in BOOLEAN /\ Moment(P, id, Len(P), strict) /\ Moment(Q, id, g, strict)
    BY <2>4, <2>6, <2>7
  <2>. HIDE DEF strict, id, first
  <2>9. P = Q /\ g = Len(P)
    BY <2>3, <2>8, MomentsMeet
  <2>10. Near(P, first.sig, Len(P), FALSE) /\ first.reasoning \in Seq(GivenWords(P))
    BY <2>4, <2>6, <2>9 DEF GivenWords
  <2>11. MissingThought \in Seq(GivenWords(P)) /\ <<>> \in Seq(GivenWords(P))
         /\ \A t \in Seq(GivenWords(P)) : t \in Strings
    BY <2>3, GivenBasics
  <2>12. \A t \in Seq(GivenWords(P)) : Trim(t) \in Seq(GivenWords(P))
    BY <2>11 DEF Trim
  <2>13. own \in Seq(GivenWords(P)) /\ Trim(first.reasoning) \in Seq(GivenWords(P))
    BY <2>2, <2>10, <2>12
  <2>. HIDE DEF own
  <2>14. said \in Seq(GivenWords(P))
    BY <2>11, <2>13
  <2>. HIDE DEF said
  <2>15. Theirs(P, said, first.sig, FALSE)
    <3>. DEFINE h == Len(P)
    <3>1. h \in 0..Len(P)
      BY <2>3
    <3>2. Near(P, first.sig, h, FALSE)
      BY <2>10
    <3>3. said \in Seq(Words(P, h))
      BY <2>14 DEF GivenWords
    <3>. HIDE DEF h
    <3>. QED
      BY <3>1, <3>2, <3>3 DEF Theirs
  <2>16. first.sig \in Sigs
    <3>1. entries[id] \in Entries
      BY <2>1 DEF IsCache
    <3>. QED
      BY <2>1, <3>1 DEF Entries
  <2>17. Theirs(P, said, first.sig, Strict) /\ said \in Strings
    BY <2>3, <2>11, <2>14, <2>15
  <2>. DEFINE sig == first.sig
  <2>18. sig \in Sigs /\ Theirs(P, said, sig, Strict)
    BY <2>16, <2>17
  <2>. HIDE DEF sig
  <2>19. ThoughtOf(said, sig) \in Seq(SignedParts(G))
    BY <2>3, <2>17, <2>18, ThoughtSigned
  <2>. QED
    BY <2>19 DEF sig
<1>. HIDE DEF first, said, x
<1>. QED
  BY <1>1, <1>2, <1>4 DEF x

\* A merge leaves the anchor its first call and its thought.
LEMMA MergeQuotes ==
    ASSUME ~Claude, NEW G, NEW ms \in Seq(QuotingMessages(G)), NEW i \in DOMAIN ms, NEW a \in 1..i - 1,
           ms[a].tool_calls # <<>>
    PROVE  MergeAt(ms, i, a) \in Seq(QuotingMessages(G))
<1>. DEFINE mine == ms[a].tool_calls
            its == ms[i].tool_calls
            q == mine \o its
            more == [ms[a] EXCEPT !.tool_calls = q]
            es == [ms EXCEPT ![a] = more]
            n == Len(ms)
<1>1. /\ n \in Nat /\ DOMAIN ms = 1..n /\ i \in 1..n /\ a \in 1..n /\ a < i
      /\ \A k \in 1..n : ms[k] \in QuotingMessages(G)
  BY LenProperties, ElementOfSeq
<1>2. \A k \in 1..n : ms[k] \in ChatMessages /\ Quotes(ms[k], G)
  BY <1>1 DEF QuotingMessages
<1>3. mine \in Seq(Calls) /\ its \in Seq(Calls) /\ mine # <<>>
  BY <1>1, <1>2 DEF ChatMessages
<1>4. q \in Seq(Calls) /\ q # <<>> /\ Head(q) = Head(mine)
  <2>. HIDE DEF mine, its
  <2>1. /\ q \in Seq(Calls) /\ Len(q) = Len(mine) + Len(its) /\ Len(mine) \in Nat /\ Len(its) \in Nat
        /\ \A l \in 1..Len(mine) : q[l] = mine[l]
    BY <1>3, ConcatItems
  <2>2. Len(mine) # 0
    BY <1>3, EmptySeq
  <2>. HIDE DEF q
  <2>3. Len(q) # 0 /\ 1 \in 1..Len(mine)
    BY <2>1, <2>2
  <2>. QED
    BY <1>3, <2>1, <2>3
<1>5. /\ more \in ChatMessages /\ more.tool_calls = q
      /\ more.role = ms[a].role /\ more.reasoning = ms[a].reasoning
  <2>1. ms[a] \in ChatMessages
    BY <1>1, <1>2
  <2>. HIDE DEF q
  <2>. QED
    BY <1>4, <2>1 DEF ChatMessages
<1>6. more \in QuotingMessages(G)
  <2>1. Quotes(ms[a], G)
    BY <1>1, <1>2
  <2>. HIDE DEF more, q
  <2>2. Quotes(more, G)
    BY <1>3, <1>4, <1>5, <2>1 DEF Quotes
  <2>. QED
    BY <1>5, <2>2 DEF QuotingMessages
<1>7. MergeAt(ms, i, a) = RemoveAt(es, i)
  BY DEF MergeAt
<1>. HIDE DEF more
<1>8. es \in Seq(QuotingMessages(G)) /\ Len(es) = n
  BY <1>1, <1>6, ExceptSeq
<1>. HIDE DEF es
<1>9. RemoveAt(es, i) \in Seq(QuotingMessages(G))
  BY <1>1, <1>8, Removed
<1>. QED
  BY <1>7, <1>9

LEMMA MergedQuotes ==
    ASSUME ~Claude, NEW entries, NEW G, NEW ms \in Seq(QuotingMessages(G))
    PROVE  merge_tool_only_assistant_messages(entries, ms) \in Seq(QuotingMessages(G))
<1>. DEFINE n == Len(ms)
            X == QuotingMessages(G)
            Accs == [next : Nat \ {0}, messages : Seq(X)]
<1>1. n \in Nat /\ DOMAIN ms = 1..n
  BY LenProperties
<1>2. PICK run :
        /\ run[0] = [next |-> 1, messages |-> ms]
        /\ \A k \in 1..n : run[k] = MergeStep(entries, run[k - 1])
        /\ Merging(entries, ms) = run[n]
  BY <1>1, MergingRun
<1>3. merge_tool_only_assistant_messages(entries, ms) = Merging(entries, ms).messages
  BY DEF merge_tool_only_assistant_messages, Merging, MergeStep, FoldLeft, MapThenFoldSet
<1>. HIDE DEF n, X
<1>. DEFINE S == {k \in 0..n : run[k] \in Accs}
<1>4. 0 \in S
  <2>1. run[0] \in Accs /\ 0 \in 0..n
    BY <1>1, <1>2 DEF X
  <2>. QED
    BY <2>1
<1>5. ASSUME NEW acc \in Accs PROVE MergeStep(entries, acc) \in Accs
  <2>. DEFINE ns == acc.messages
              i == acc.next
              a == Anchor(entries, ns, i)
  <2>1. i \in Nat \ {0} /\ ns \in Seq(X)
    OBVIOUS
  <2>. HIDE DEF ns, i, a
  <2>2. CASE NeedsAnchor(entries, ns, i) /\ a # 0
    <3>0. Len(ns) \in Nat /\ DOMAIN ns = 1..Len(ns)
      BY <2>1, LenProperties
    <3>1. i \in DOMAIN ns
      BY <2>1, <2>2, <3>0 DEF NeedsAnchor
    <3>2. a \in 1..i - 1 /\ has_signature_for_first_tool_call(entries, ns[a])
      BY <2>1, <2>2, AnchorIsEarlier DEF a
    <3>. DEFINE os == MergeAt(ns, i, a)
    <3>3. ns[a].tool_calls # <<>>
      BY <3>2 DEF has_signature_for_first_tool_call
    <3>4. os \in Seq(X)
      BY <2>1, <3>1, <3>2, <3>3, MergeQuotes DEF X
    <3>5. MergeStep(entries, acc) = [acc EXCEPT !.messages = os]
      BY <2>2 DEF MergeStep, ns, i, a
    <3>. HIDE DEF os
    <3>. QED
      BY <3>4, <3>5
  <2>3. CASE ~(NeedsAnchor(entries, ns, i) /\ a # 0)
    <3>1. MergeStep(entries, acc) = [acc EXCEPT !.next = @ + 1]
      BY <2>3 DEF MergeStep, ns, i, a
    <3>. QED
      BY <3>1
  <2>. QED
    BY <2>2, <2>3
<1>6. ASSUME NEW k \in 1..n, k - 1 \in S PROVE k \in S
  <2>1. run[k - 1] \in Accs /\ run[k] = MergeStep(entries, run[k - 1]) /\ k \in 0..n
    BY <1>2, <1>6
  <2>. HIDE DEF Accs
  <2>2. run[k] \in Accs
    BY <1>5, <2>1
  <2>. QED
    BY <2>1, <2>2
<1>. HIDE DEF S
<1>7. n \in S
  BY <1>1, <1>4, <1>6, Upwards
<1>8. run[n].messages \in Seq(X)
  BY <1>7 DEF S
<1>. QED
  BY <1>2, <1>3, <1>8 DEF X

\* The contents of a message more.
LEMMA ChatMessageSigned ==
    ASSUME ~Claude, NEW entries, IsCache(entries), NEW G, Gave(G), Remembers(entries, G),
           NEW m \in QuotingMessages(G), NEW C \in Seq(SignedContents(G)), NEW family, "claude_thinking" \in family
    PROVE  MessageContents(entries, C, m, family) \in Seq(SignedContents(G))
<1>. DEFINE body == TextAndImages(entries, m.content, "pro_image" \in family)
            thoughts == Thoughts(entries, m, "claude_thinking" \in family)
            calls == CallParts(entries, m, "gemini" \in family)
            parts == thoughts \o body \o calls
            name == find_function_name(C, m.tool_call_id)
            result == ResponseTo(m.tool_call_id, name)
            D == MessageContents(entries, C, m, family)
            X == SignedParts(G)
            Y == SignedContents(G)
<1>1. m \in ChatMessages /\ m.content \in Strings /\ m.role \in {"user", "assistant", "tool"}
      /\ m.tool_call_id \in Calls \cup {None}
  BY DEF QuotingMessages, ChatMessages
<1>2. Seq(MuteParts) \subseteq Seq(X)
  BY MuteSigned
<1>3. body \in Seq(X)
  BY <1>1, <1>2, BodyMute
<1>4. calls \in Seq(X)
  BY <1>1, <1>2, CallsMute
<1>5. m.role = "assistant" => thoughts \in Seq(X)
  <2>1. thoughts = Thoughts(entries, m, TRUE)
    OBVIOUS
  <2>. QED
    BY <2>1, ThoughtsSigned
<1>6. result \in Seq(X)
  <2>1. name \in {m.tool_call_id, None}
    BY DEF find_function_name
  <2>. HIDE DEF name
  <2>. QED
    BY <1>1, <1>2, <2>1, MuteForms
<1>7. D = CASE m.role = "user" -> Append(C, Content("user", body))
            [] m.role = "assistant" -> IF parts = <<>> THEN C ELSE Append(C, Content("model", parts))
            [] m.role = "tool" -> append_function_response(C, result)
            [] OTHER -> C
  BY DEF MessageContents
<1>. HIDE DEF body, thoughts, calls, result, D
<1>8. \A p \in Seq(X), q \in Seq(X) : p \o q \in Seq(X)
  BY ConcatProperties
<1>9. m.role = "assistant" => parts \in Seq(X)
  BY <1>3, <1>4, <1>5, <1>8
<1>10. ASSUME NEW role \in {"user", "model"}, NEW p \in Seq(X) PROVE Append(C, Content(role, p)) \in Seq(Y)
  <2>. DEFINE c == Content(role, p)
  <2>1. c \in Y
    BY DEF Content, SignedContents
  <2>. HIDE DEF c, Y
  <2>2. Append(C, c) \in Seq(Y)
    BY <2>1, AppendProperties DEF Y
  <2>. QED
    BY <2>2 DEF c
<1>11. append_function_response(C, result) \in Seq(Y)
  <2>1. CASE C # <<>> /\ Last(C).role = "user"
    <3>. DEFINE n == Len(C)
                old == C[n]
                ps == old.parts \o result
                c == [old EXCEPT !.parts = ps]
    <3>1. n \in 1..Len(C) /\ old \in Y
      BY <2>1, LenProperties, EmptySeq, ElementOfSeq
    <3>2. append_function_response(C, result) = [C EXCEPT ![n] = c]
      BY <2>1 DEF append_function_response
    <3>. HIDE DEF n, old
    <3>3. old.parts \in Seq(X)
      BY <3>1 DEF SignedContents
    <3>4. ps \in Seq(X)
      BY <1>6, <1>8, <3>3
    <3>. HIDE DEF ps, X
    <3>5. c \in Y
      BY <3>1, <3>4 DEF SignedContents, X
    <3>. HIDE DEF c, Y
    <3>6. [C EXCEPT ![n] = c] \in Seq(Y)
      BY <3>1, <3>5, ExceptSeq DEF Y
    <3>. QED
      BY <3>2, <3>6
  <2>2. CASE ~(C # <<>> /\ Last(C).role = "user")
    BY <1>6, <1>10, <2>2 DEF append_function_response
  <2>. QED
    BY <2>1, <2>2
<1>. HIDE DEF parts, X
<1>12. D \in Seq(Y)
  BY <1>1, <1>3, <1>7, <1>9, <1>10, <1>11
<1>. QED
  BY <1>12 DEF D

\* The contents for the messages of an OpenAI client.
LEMMA ChatSigned ==
    ASSUME ~Claude, NEW entries, IsCache(entries), NEW G, Gave(G), Remembers(entries, G),
           NEW ms \in Seq(QuotingMessages(G)), NEW family, "claude_thinking" \in family
    PROVE  ChatContents(entries, ms, family) \in Seq(SignedContents(G))
<1>. DEFINE ns == merge_tool_only_assistant_messages(entries, ms)
            n == Len(ns)
            Y == SignedContents(G)
<1>1. ns \in Seq(QuotingMessages(G))
  BY MergedQuotes
<1>2. n \in Nat /\ DOMAIN ns = 1..n /\ \A k \in 1..n : ns[k] \in QuotingMessages(G)
  <2>. HIDE DEF ns
  <2>. QED
    BY <1>1, LenProperties, ElementOfSeq
<1>3. PICK run :
        /\ run[0] = <<>>
        /\ \A k \in 1..n : run[k] = MessageContents(entries, run[k - 1], ns[k], family)
        /\ ChatContents(entries, ms, family) = run[n]
  BY <1>2, ChatContentsRun
<1>. HIDE DEF ns, n, Y
<1>. DEFINE S == {k \in 0..n : run[k] \in Seq(Y)}
<1>4. 0 \in S
  <2>1. <<>> \in Seq(Y) /\ 0 \in 0..n
    BY <1>2
  <2>. QED
    BY <1>3, <2>1
<1>5. ASSUME NEW k \in 1..n, k - 1 \in S PROVE k \in S
  <2>1. run[k - 1] \in Seq(Y) /\ run[k] = MessageContents(entries, run[k - 1], ns[k], family)
        /\ k \in 0..n /\ ns[k] \in QuotingMessages(G)
    BY <1>2, <1>3, <1>5
  <2>2. run[k] \in Seq(Y)
    BY <2>1, ChatMessageSigned DEF Y
  <2>. QED
    BY <2>1, <2>2
<1>. HIDE DEF S
<1>6. n \in S
  <2>1. n \in Nat
    BY <1>2
  <2>. QED
    BY <1>4, <1>5, <2>1, Upwards, SMTT(30)
<1>7. run[n] \in Seq(Y)
  BY <1>6 DEF S
<1>. QED
  BY <1>3, <1>7 DEF Y

\* Every thought is signed by an answer of G.
AllSigned(contents, G) ==
    \A i \in DOMAIN contents : \A j \in DOMAIN contents[i].parts :
        contents[i].parts[j].thought => \E P \in G : SignedBy(contents[i].parts[j], P)

LEMMA SanitizedSigned ==
    ASSUME NEW G, NEW C \in Seq(SignedContents(G))
    PROVE  AllSigned(sanitize_contents(C), G)
<1>. DEFINE D == sanitize_contents(C)
<1>1. C \in Seq(SentContents)
  BY MuteSigned, SeqSubset
<1>2. PICK f, g : Placed(f, g, D, C)
  BY <1>1, SanitizedPlaces
<1>3. ASSUME NEW i \in DOMAIN C, NEW j \in DOMAIN C[i].parts
      PROVE  C[i].parts[j] \in SignedParts(G)
  <2>1. C[i] \in SignedContents(G)
    BY LenProperties, ElementOfSeq
  <2>. DEFINE p == C[i].parts
  <2>2. p \in Seq(SignedParts(G))
    BY <2>1 DEF SignedContents
  <2>3. j \in DOMAIN p
    OBVIOUS
  <2>. HIDE DEF p
  <2>4. p[j] \in SignedParts(G)
    BY <2>2, <2>3, LenProperties, ElementOfSeq
  <2>. QED
    BY <2>4 DEF p
<1>. HIDE DEF D
<1>4. ASSUME NEW i \in DOMAIN D, NEW j \in DOMAIN D[i].parts, D[i].parts[j].thought
      PROVE  \E P \in G : SignedBy(D[i].parts[j], P)
  <2>1. /\ f[i] \in DOMAIN C /\ g[i][j] \in DOMAIN C[f[i]].parts
        /\ D[i].parts[j] = C[f[i]].parts[g[i][j]]
    BY <1>2 DEF Placed
  <2>2. D[i].parts[j] \in SignedParts(G)
    BY <1>3, <2>1
  <2>. DEFINE p == D[i].parts[j]
  <2>. HIDE DEF p
  <2>3. p \in SignedParts(G) /\ p.thought
    BY <1>4, <2>2 DEF p
  <2>4. \E P \in G : SignedBy(p, P)
    BY <2>3 DEF SignedParts
  <2>. QED
    BY <2>4 DEF p
<1>. QED
  BY <1>4 DEF AllSigned, D

-----------------------------------------------------------------------------
(* What the client sends back quotes the answers.                           *)

LEMMA ThinkingModels ==
    ASSUME ThoughtsNeedSignatures
    PROVE  is_claude(session.model) /\ (~Claude => "claude_thinking" \in Family(session.model))
  BY DEF ThoughtsNeedSignatures, is_claude, is_claude_thinking, ClaudeModels, Sonnet45, Opus45, Family

LEMMA QuotesMore ==
    ASSUME NEW G, NEW H, G \subseteq H
    PROVE  /\ \A m : Quotes(m, G) => Quotes(m, H)
           /\ \A entries : Remembers(entries, G) => Remembers(entries, H)
<1>1. ASSUME NEW m, Quotes(m, G) PROVE Quotes(m, H)
  BY <1>1 DEF Quotes
<1>2. ASSUME NEW entries, Remembers(entries, G) PROVE Remembers(entries, H)
  BY <1>2 DEF Remembers
<1>. QED
  BY <1>1, <1>2

LEMMA UserQuotes ==
    ASSUME NEW text, NEW G
    PROVE  Quotes(UserSays(text), G)
<1>1. CASE Claude
  <2>. DEFINE blocks == <<TextBlock(text)>>
  <2>1. UserSays(text) = [role |-> "user", blocks |-> blocks]
    BY <1>1 DEF UserSays
  <2>2. \A i \in DOMAIN blocks : blocks[i] = TextBlock(text)
    OBVIOUS
  <2>3. TextBlock(text).type = "text"
    BY DEF TextBlock, Block
  <2>. HIDE DEF blocks
  <2>4. UserSays(text).blocks = blocks
    BY <2>1
  <2>. QED
    BY <1>1, <2>2, <2>3, <2>4 DEF Quotes
<1>2. CASE ~Claude
  <2>1. UserSays(text).role = "user"
    BY <1>2 DEF UserSays, UserMessage, ChatMessage
  <2>. QED
    BY <1>2, <2>1 DEF Quotes
<1>. QED
  BY <1>1, <1>2

LEMMA ResultsQuote ==
    ASSUME NEW m, NEW G, NEW i \in DOMAIN ResultsOf(m)
    PROVE  Quotes(ResultsOf(m)[i], G)
<1>. DEFINE s == CallsOf(m)
<1>1. CASE Claude
  <2>. DEFINE blocks == [j \in DOMAIN s |-> Result(s[j])]
              r == [role |-> "user", blocks |-> blocks]
  <2>1. ResultsOf(m) = <<r>>
    BY <1>1 DEF ResultsOf
  <2>2. ResultsOf(m)[i] = r
    <3>. HIDE DEF r
    <3>. QED
      BY <2>1
  <2>3. \A j \in DOMAIN blocks : blocks[j] = Result(s[j])
    OBVIOUS
  <2>4. \A id : Result(id).type = "tool_result"
    BY DEF Result, Block
  <2>. HIDE DEF blocks, s
  <2>5. r.blocks = blocks
    OBVIOUS
  <2>. HIDE DEF r
  <2>. QED
    BY <1>1, <2>2, <2>3, <2>4, <2>5 DEF Quotes
<1>2. CASE ~Claude
  <2>1. ResultsOf(m) = [j \in DOMAIN s |-> ToolMessage(s[j])]
    BY <1>2 DEF ResultsOf
  <2>2. ResultsOf(m)[i] = ToolMessage(s[i])
    <3>. HIDE DEF s
    <3>. QED
      BY <2>1
  <2>3. ToolMessage(s[i]).role = "tool"
    BY DEF ToolMessage, ChatMessage
  <2>. QED
    BY <1>2, <2>2, <2>3 DEF Quotes
<1>. QED
  BY <1>1, <1>2

\* Whatever the client keeps of the blocks of an answer.
LEMMA EchoVoiced ==
    ASSUME Claude, NEW P, reply.blocks \in Seq(Blocks), Voiced(reply.blocks, P, Strict)
    PROVE  Voiced(Echo.blocks, P, Strict)
<1>. DEFINE given == reply.blocks
            I == {i \in DOMAIN given : Kept(given[i])}
            kept == Keep(given, Kept)
            d == FlattenSeq([i \in DOMAIN given |-> IF i \in I THEN <<given[i]>> ELSE <<>>])
            blocks == [i \in DOMAIN kept |-> KeptBlock(kept[i])]
<1>1. kept = FlattenSeq([i \in DOMAIN given |-> IF Kept(given[i]) THEN <<given[i]>> ELSE <<>>])
  BY DEF Keep
<1>2. [i \in DOMAIN given |-> IF Kept(given[i]) THEN <<given[i]>> ELSE <<>>] =
      [i \in DOMAIN given |-> IF i \in I THEN <<given[i]>> ELSE <<>>]
  OBVIOUS
<1>3. kept = d
  BY <1>1, <1>2
<1>4. Echo.blocks = blocks
  BY DEF Echo
<1>5. I \subseteq DOMAIN given /\ given \in Seq(Blocks)
  OBVIOUS
<1>. HIDE DEF I, kept
<1>6. d \in Seq(Blocks) /\ \E e : Picks(e, d, given, I)
  BY <1>5, ItemsKept
<1>. HIDE DEF d
<1>7. PICK e : Picks(e, kept, given, I)
  BY <1>3, <1>6
<1>8. DOMAIN kept = 1..Len(kept) /\ Len(kept) \in Nat
  BY <1>3, <1>6, LenProperties
<1>9. DOMAIN blocks = DOMAIN kept /\ \A i \in DOMAIN kept : blocks[i] = KeptBlock(kept[i])
  OBVIOUS
<1>. HIDE DEF blocks, given
<1>10. \A i \in DOMAIN kept : e[i] \in DOMAIN given /\ kept[i] = given[e[i]] /\ kept[i] \in Blocks
  BY <1>5, <1>7, LenProperties, ElementOfSeq DEF Picks
<1>11. ASSUME NEW b \in Blocks
       PROVE  /\ KeptBlock(b).type = "thinking" =>
                    b.type = "thinking" /\ KeptBlock(b).text = b.text /\ KeptBlock(b).sig \in {None, b.sig}
              /\ KeptBlock(b).type = "tool_use" => KeptBlock(b) = b
  <2>1. CASE b.type # "thinking"
    BY <2>1 DEF KeptBlock
  <2>2. CASE b.type = "thinking"
    <3>1. /\ [b EXCEPT !.sig = None].type = b.type /\ [b EXCEPT !.sig = None].text = b.text
          /\ [b EXCEPT !.sig = None].sig = None
      BY DEF Blocks
    <3>2. Block("redacted_thinking", <<>>, None, None).type = "redacted_thinking"
      BY DEF Block
    <3>. QED
      BY <2>2, <3>1, <3>2 DEF KeptBlock
  <2>. QED
    BY <2>1, <2>2
<1>12. ASSUME NEW i \in DOMAIN blocks, blocks[i].type = "thinking"
       PROVE  /\ e[i] \in DOMAIN given /\ given[e[i]].type = "thinking" /\ blocks[i].text = given[e[i]].text
              /\ blocks[i].sig # None => blocks[i].sig = given[e[i]].sig
  <2>1. e[i] \in DOMAIN given /\ kept[i] = given[e[i]] /\ kept[i] \in Blocks /\ blocks[i] = KeptBlock(kept[i])
    BY <1>9, <1>10
  <2>. QED
    BY <1>11, <1>12, <2>1
<1>13. ASSUME NEW j \in DOMAIN blocks, blocks[j].type = "tool_use"
       PROVE  e[j] \in DOMAIN given /\ given[e[j]] = blocks[j]
  <2>1. e[j] \in DOMAIN given /\ kept[j] = given[e[j]] /\ kept[j] \in Blocks /\ blocks[j] = KeptBlock(kept[j])
    BY <1>9, <1>10
  <2>. QED
    BY <1>11, <1>13, <2>1
<1>14. ASSUME NEW i \in DOMAIN blocks, blocks[i].type = "thinking" /\ blocks[i].sig # None
       PROVE  Theirs(P, blocks[i].text, blocks[i].sig, Strict)
  BY <1>12, <1>14 DEF Voiced, given
<1>15. ASSUME NEW i \in DOMAIN blocks, NEW j \in DOMAIN blocks,
              i < j /\ blocks[i].type = "thinking" /\ blocks[j].type = "tool_use"
       PROVE  \E h \in 0..Len(P) : Moment(P, blocks[j].id, h, Strict) /\ blocks[i].text \in Seq(Words(P, h))
  <2>1. e[i] \in DOMAIN given /\ given[e[i]].type = "thinking" /\ blocks[i].text = given[e[i]].text
    BY <1>12, <1>15
  <2>2. e[j] \in DOMAIN given /\ given[e[j]] = blocks[j]
    BY <1>13, <1>15
  <2>3. e[i] < e[j]
    BY <1>7, <1>9, <1>15 DEF Picks
  <2>. QED
    BY <1>15, <2>1, <2>2, <2>3 DEF Voiced, given
<1>16. Voiced(blocks, P, Strict)
  BY <1>14, <1>15 DEF Voiced
<1>. QED
  BY <1>4, <1>16

LEMMA EchoQuotes ==
    ASSUME NEW K, AnswersWith(reply, K), NEW G, NEW P \in G, TellsOwn(reply, P)
    PROVE  Quotes(Echo, G)
<1>1. CASE Claude
  <2>1. reply.blocks \in Seq(Blocks) /\ Voiced(reply.blocks, P, Strict)
    BY <1>1 DEF AnswersWith, Answered, TellsOwn
  <2>2. Voiced(Echo.blocks, P, Strict)
    BY <1>1, <2>1, EchoVoiced
  <2>. QED
    BY <1>1, <2>2 DEF Quotes
<1>2. CASE ~Claude
  <2>. DEFINE m == reply.message
  <2>1. m \in ChatMessages /\ m.reasoning \in Seq(GivenWords(P)) /\ m.tool_calls \in Seq(GivenCalls(P))
    BY <1>2 DEF AnswersWith, Message, TellsOwn, OwnMessage
  <2>2. Echo = m \/ Echo = [m EXCEPT !.reasoning = <<>>]
    BY <1>2 DEF Echo
  <2>. HIDE DEF m
  <2>3. Echo.tool_calls = m.tool_calls /\ Echo.reasoning \in {m.reasoning, <<>>}
    BY <2>1, <2>2 DEF ChatMessages
  <2>4. Echo.tool_calls # <<>> => Head(Echo.tool_calls) \in GivenCalls(P)
    <3>. DEFINE s == Echo.tool_calls
                X == GivenCalls(P)
    <3>1. s \in Seq(X)
      BY <2>1, <2>3
    <3>. HIDE DEF s, X
    <3>2. s # <<>> => Head(s) \in X
      BY <3>1, HeadTailProperties
    <3>. QED
      BY <3>2 DEF s, X
  <2>5. Echo.reasoning \in Seq(GivenWords(P))
    <3>1. <<>> \in Seq(GivenWords(P))
      OBVIOUS
    <3>. QED
      BY <2>1, <2>3, <3>1
  <2>. QED
    BY <1>2, <2>4, <2>5 DEF Quotes
<1>. QED
  BY <1>1, <1>2

\* A history that grew by messages that quote the answers.
LEMMA LongerQuotes ==
    ASSUME NEW X, NEW h \in Seq(X), NEW s \in Seq(X), NEW G,
           \A k \in DOMAIN h : Quotes(h[k], G), \A k \in DOMAIN s : Quotes(s[k], G)
    PROVE  h \o s \in Seq(X) /\ \A k \in DOMAIN (h \o s) : Quotes((h \o s)[k], G)
<1>. DEFINE m == Len(h)
            n == Len(s)
            t == h \o s
<1>1. /\ t \in Seq(X) /\ m \in Nat /\ n \in Nat /\ DOMAIN t = 1..m + n
      /\ \A j \in 1..m : t[j] = h[j]
      /\ \A j \in 1..n : t[m + j] = s[j]
  BY ConcatItems
<1>2. DOMAIN h = 1..m /\ DOMAIN s = 1..n
  BY LenProperties
<1>. HIDE DEF m, n, t
<1>3. ASSUME NEW k \in DOMAIN t PROVE Quotes(t[k], G)
  <2>1. CASE k \in 1..m
    BY <1>1, <1>2, <2>1
  <2>2. CASE k \notin 1..m
    <3>1. k - m \in 1..n /\ m + (k - m) = k
      BY <1>1, <2>2
    <3>2. t[k] = s[k - m]
      BY <1>1, <3>1
    <3>. QED
      BY <1>2, <3>1, <3>2
  <2>. QED
    BY <2>1, <2>2
<1>. QED
  BY <1>1, <1>3 DEF t

LEMMA OneQuotes ==
    ASSUME NEW m, NEW G, Quotes(m, G)
    PROVE  \A k \in DOMAIN <<m>> : Quotes(<<m>>[k], G)
<1>1. \A k \in DOMAIN <<m>> : <<m>>[k] = m
  OBVIOUS
<1>. QED
  BY <1>1

\* Whatever the client says next.
LEMMA GoesOnQuoting ==
    ASSUME NEW G, \A k \in DOMAIN history : Quotes(history[k], G), NEW X, history \in Seq(X),
           Quotes(Echo, G), Each(CallsOf(Echo), CallsMade(Echo, Claude)), NEW text, NEW next,
           next = history \o <<Echo>> \o (IF CallsOf(Echo) = <<>> THEN <<UserSays(text)>> ELSE ResultsOf(Echo))
    PROVE  \A k \in DOMAIN next : Quotes(next[k], G)
<1>. DEFINE echo == Echo
            user == UserSays(text)
            s == ResultsOf(echo)
            last == IF CallsOf(echo) = <<>> THEN <<user>> ELSE s
            Y == X \cup {echo, user} \cup {s[i] : i \in DOMAIN s}
            h == history
<1>1. \A i \in DOMAIN s : Quotes(s[i], G)
  BY ResultsQuote
<1>2. Quotes(user, G)
  BY UserQuotes
<1>3. s \in Seq({s[i] : i \in DOMAIN s})
  <2>. DEFINE c == CallsOf(echo)
              n == Len(c)
              Z == {s[i] : i \in DOMAIN s}
  <2>1. n \in Nat /\ DOMAIN c = 1..n
    BY LenProperties DEF Each
  <2>2. s = IF Claude THEN <<[role |-> "user", blocks |-> [i \in DOMAIN c |-> Result(c[i])]]>>
            ELSE [i \in DOMAIN c |-> ToolMessage(c[i])]
    BY DEF ResultsOf
  <2>3. CASE Claude
    <3>. DEFINE r == [role |-> "user", blocks |-> [i \in DOMAIN c |-> Result(c[i])]]
    <3>1. s = <<r>>
      BY <2>2, <2>3
    <3>. HIDE DEF r, s
    <3>2. s[1] \in Z /\ r = s[1]
      BY <3>1
    <3>. HIDE DEF Z
    <3>. QED
      BY <3>1, <3>2 DEF Z
  <2>4. CASE ~Claude
    <3>1. s = [i \in DOMAIN c |-> ToolMessage(c[i])]
      BY <2>2, <2>4
    <3>. HIDE DEF c, s, n
    <3>2. s = [i \in 1..n |-> ToolMessage(c[i])]
      BY <2>1, <3>1
    <3>3. DOMAIN s = 1..n /\ \A i \in 1..n : s[i] = ToolMessage(c[i])
      BY <3>2
    <3>4. \A i \in 1..n : ToolMessage(c[i]) \in Z
      BY <3>3
    <3>. HIDE DEF Z
    <3>5. s \in Seq(Z)
      BY <2>1, <3>2, <3>4
    <3>. QED
      BY <3>5 DEF Z
  <2>. QED
    BY <2>3, <2>4
<1>4. next = (h \o <<echo>>) \o last
  OBVIOUS
<1>5. X \subseteq Y /\ echo \in Y /\ user \in Y /\ \A i \in DOMAIN s : s[i] \in Y
  OBVIOUS
<1>6. h \in Seq(X) /\ Quotes(echo, G) /\ \A k \in DOMAIN h : Quotes(h[k], G)
  OBVIOUS
<1>. HIDE DEF echo, user, s, Y, h
<1>7. h \in Seq(Y)
  BY <1>5, <1>6, SeqSubset
<1>8. s \in Seq(Y)
  <2>. DEFINE Z == {s[i] : i \in DOMAIN s}
  <2>1. Z \subseteq Y
    BY <1>5
  <2>2. s \in Seq(Z)
    BY <1>3
  <2>. HIDE DEF Z
  <2>. QED
    BY <2>1, <2>2, SeqSubset
<1>9. last \in Seq(Y) /\ <<echo>> \in Seq(Y)
  BY <1>5, <1>8
<1>10. \A k \in DOMAIN last : Quotes(last[k], G)
  <2>1. \A k \in DOMAIN <<user>> : Quotes(<<user>>[k], G)
    BY <1>2, OneQuotes
  <2>2. last = <<user>> \/ last = s
    OBVIOUS
  <2>. HIDE DEF last
  <2>. QED
    BY <1>1, <2>1, <2>2
<1>. HIDE DEF last
<1>11. \A k \in DOMAIN <<echo>> : Quotes(<<echo>>[k], G)
  BY <1>6, OneQuotes
<1>. DEFINE e == <<echo>>
<1>12. e \in Seq(Y) /\ \A k \in DOMAIN e : Quotes(e[k], G)
  BY <1>9, <1>11
<1>. HIDE DEF e
<1>13. h \o e \in Seq(Y) /\ \A k \in DOMAIN (h \o e) : Quotes((h \o e)[k], G)
  BY <1>6, <1>7, <1>12, LongerQuotes
<1>. DEFINE g == h \o e
<1>14. next = g \o last
  BY <1>4 DEF e
<1>15. g \in Seq(Y) /\ \A k \in DOMAIN g : Quotes(g[k], G)
  BY <1>13
<1>. HIDE DEF g
<1>16. \A k \in DOMAIN (g \o last) : Quotes((g \o last)[k], G)
  BY <1>9, <1>10, <1>15, LongerQuotes
<1>. QED
  BY <1>14, <1>16

-----------------------------------------------------------------------------
(* The inductive invariant of the thoughts.                                 *)

\* The answers so far.
Given == {answers[a] : a \in DOMAIN answers}

\* All that is kept of the answers is from one of them: a call with its
\* signature and its words in the cache, a message in the history, the thoughts
\* of a request, and the answer the client has not gone on with yet.
VoiceInv ==
    ThoughtsNeedSignatures =>
        /\ Gave(Given) /\ \A P \in Given : GivenCalls(P) \subseteq Issued
        /\ Remembers(cache, Given)
        /\ \A k \in DOMAIN history : Quotes(history[k], Given)
        /\ phase = "answered" => \E P \in Given : TellsOwn(reply, P)
        /\ phase \in {"sending", "sleeping"} => AllSigned(Contents, Given)

\* The client stays the same.
LEMMA VoiceNext ==
    ASSUME session' = session,
           ThoughtsNeedSignatures =>
              /\ Gave(Given') /\ \A P \in Given' : GivenCalls(P) \subseteq Issued'
              /\ Remembers(cache', Given')
              /\ \A k \in DOMAIN history' : Quotes(history'[k], Given')
              /\ phase' = "answered" => \E P \in Given' : TellsOwn(reply', P)
              /\ phase' \in {"sending", "sleeping"} => AllSigned(Contents', Given')
    PROVE  VoiceInv'
<1>1. Claude' = Claude /\ Strict' = Strict /\ ThoughtsNeedSignatures' = ThoughtsNeedSignatures
  BY DEF Claude, Strict, ThoughtsNeedSignatures
<1>2. ThoughtsNeedSignatures => Gave(Given)' /\ (\A P \in Given : GivenCalls(P) \subseteq Issued)'
  OBVIOUS
<1>3. ThoughtsNeedSignatures => Remembers(cache, Given)'
  BY <1>1 DEF Remembers
<1>4. ThoughtsNeedSignatures => (\A k \in DOMAIN history : Quotes(history[k], Given))'
  BY <1>1 DEF Quotes
<1>5. ThoughtsNeedSignatures => (phase = "answered" => \E P \in Given : TellsOwn(reply, P))'
  BY <1>1 DEF TellsOwn
<1>6. ThoughtsNeedSignatures => (phase \in {"sending", "sleeping"} => AllSigned(Contents, Given))'
  <2>. SUFFICES ASSUME ThoughtsNeedSignatures, phase' \in {"sending", "sleeping"} PROVE AllSigned(Contents, Given)'
    OBVIOUS
  <2>1. AllSigned(Contents', Given')
    OBVIOUS
  <2>2. (Claude /\ session.streams)' = (Claude /\ session.streams)
    BY <1>1
  <2>. SUFFICES ASSUME NEW i \in DOMAIN Contents', NEW j \in DOMAIN Contents'[i].parts, Contents'[i].parts[j].thought
                PROVE  (\E P \in Given : SignedBy(Contents[i].parts[j], P))'
    BY DEF AllSigned
  <2>3. PICK P \in Given' : SignedBy(Contents'[i].parts[j], P)
    BY <2>1 DEF AllSigned
  <2>4. SignedBy(Contents[i].parts[j], P)'
    BY <2>2, <2>3 DEF SignedBy, MissingThought
  <2>. QED
    BY <2>4
<1>. QED
  BY <1>1, <1>2, <1>3, <1>4, <1>5, <1>6 DEF VoiceInv

LEMMA InitVoice == Init => VoiceInv
<1>. SUFFICES ASSUME Init PROVE VoiceInv
  OBVIOUS
<1>1. /\ history = <<UserSays(<<"hello">>)>> /\ cache = <<>> /\ phase = "client" /\ answers = <<>>
  BY DEF Init
<1>2. Given = {}
  BY <1>1 DEF Given
<1>3. Gave(Given) /\ Remembers(cache, Given)
  BY <1>1, <1>2 DEF Gave, Remembers
<1>4. \A k \in DOMAIN history : Quotes(history[k], Given)
  BY <1>1, UserQuotes, OneQuotes
<1>. QED
  BY <1>1, <1>2, <1>3, <1>4 DEF VoiceInv

\* Nothing the thoughts depend on.
LEMMA VoiceStays ==
    ASSUME VoiceInv, UNCHANGED <<session, history, cache, vreq, answers, reply>>,
           phase' \in {"sending", "sleeping"} => phase \in {"sending", "sleeping"},
           phase' = "answered" => phase = "answered"
    PROVE  VoiceInv'
<1>1. Given' = Given /\ Issued' = Issued /\ Contents' = Contents
  BY DEF Given, Issued, Said, Contents
<1>. QED
  BY <1>1, VoiceNext DEF VoiceInv

LEMMA ConvertVoice ==
    ASSUME ConversationInv, VoiceInv, Convert
    PROVE  VoiceInv'
<1>. DEFINE v == to_vertex_request(session.model)
            G == Given
<1>1. vreq' = v /\ phase' = "sending" /\ UNCHANGED <<session, history, cache, answers, reply>>
  BY DEF Convert
<1>2. Given' = Given /\ Issued' = Issued /\ Contents' = v.contents
  BY <1>1 DEF Given, Issued, Said, Contents
<1>3. ASSUME ThoughtsNeedSignatures PROVE AllSigned(v.contents, G)
  <2>. DEFINE family == Family(session.model)
              h == history
              C == IF Claude THEN ClaudeContents(cache, h, is_claude(session.model)) ELSE ChatContents(cache, h, family)
  <2>1. v.contents = sanitize_contents(C)
    BY DEF to_vertex_request
  <2>2. is_claude(session.model) = TRUE /\ (~Claude => "claude_thinking" \in family)
    BY <1>3, ThinkingModels DEF is_claude
  <2>3. IsCache(cache) /\ Gave(G) /\ Remembers(cache, G) /\ \A k \in DOMAIN h : Quotes(h[k], G)
    BY <1>3 DEF ConversationInv, VoiceInv
  <2>4. h \in Seq(ClientMessages(Claude))
    BY DEF ConversationInv, Consistent
  <2>. HIDE DEF family, G, v, h
  <2>5. CASE Claude
    <3>1. h \in Seq(ClaudeMessages)
      BY <2>4, <2>5 DEF ClientMessages
    <3>2. ClaudeContents(cache, h, TRUE) \in Seq(SignedContents(G))
      BY <2>3, <2>5, <3>1, ClaudeSigned
    <3>3. C = ClaudeContents(cache, h, TRUE)
      BY <2>2, <2>5
    <3>. HIDE DEF C
    <3>4. C \in Seq(SignedContents(G))
      BY <3>2, <3>3
    <3>. QED
      BY <2>1, <3>4, SanitizedSigned
  <2>6. CASE ~Claude
    <3>1. h \in Seq(ChatMessages)
      BY <2>4, <2>6 DEF ClientMessages
    <3>2. h \in Seq(QuotingMessages(G))
      <4>1. Len(h) \in Nat /\ DOMAIN h = 1..Len(h) /\ \A k \in 1..Len(h) : h[k] \in ChatMessages
        BY <3>1, LenProperties, ElementOfSeq
      <4>2. \A k \in 1..Len(h) : h[k] \in QuotingMessages(G)
        BY <2>3, <4>1 DEF QuotingMessages
      <4>. QED
        BY <3>1, <4>1, <4>2, SeqDef
    <3>3. ChatContents(cache, h, family) \in Seq(SignedContents(G))
      BY <2>2, <2>3, <2>6, <3>2, ChatSigned
    <3>4. C = ChatContents(cache, h, family)
      BY <2>6
    <3>. HIDE DEF C
    <3>5. C \in Seq(SignedContents(G))
      BY <3>3, <3>4
    <3>. QED
      BY <2>1, <3>5, SanitizedSigned
  <2>. QED
    BY <2>5, <2>6
<1>. HIDE DEF v
<1>. QED
  BY <1>1, <1>2, <1>3, VoiceNext DEF VoiceInv

\* The last save of an id counts, and it is bound to its answer.
LEMMA SavedRemembers ==
    ASSUME NEW c, NEW s, Saves(s), NEW G, Remembers(c, G), NEW P \in G,
           \A i \in DOMAIN s : Bound(P, s[i], Strict)
    PROVE  Remembers(Saved(c, s), G)
<1>. DEFINE of(id) == {i \in DOMAIN s : s[i].key = id}
            entry(x) == [sig |-> x.sig, reasoning |-> x.reasoning, readable |-> TRUE]
            new == Saved(c, s)
            ids == DOMAIN c \cup {s[i].key : i \in DOMAIN s}
<1>1. new = [id \in ids |-> IF of(id) = {} THEN c[id] ELSE entry(s[Max(of(id))])]
  BY DEF Saved
<1>2. ASSUME NEW id PROVE of(id) # {} => Max(of(id)) \in DOMAIN s /\ s[Max(of(id))].key = id
  <2>. DEFINE S == of(id)
  <2>1. S \subseteq 0..Len(s) /\ Len(s) \in Nat /\ S \subseteq DOMAIN s
    BY DEF Saves
  <2>2. \A i \in S : s[i].key = id
    OBVIOUS
  <2>. HIDE DEF S
  <2>3. S # {} => Max(S) \in S
    BY <2>1, Greatest
  <2>. QED
    BY <2>1, <2>2, <2>3 DEF S
<1>3. \A id \in ids : of(id) = {} => id \in DOMAIN c
  OBVIOUS
<1>. HIDE DEF of, new
<1>4. ASSUME NEW id \in DOMAIN new PROVE \E Q \in G : Bound(Q, Keyed(new, id), Strict)
  <2>0. id \in ids
    BY <1>1
  <2>1. CASE of(id) = {}
    <3>1. new[id] = c[id] /\ id \in DOMAIN c
      BY <1>1, <1>3, <2>0, <2>1
    <3>2. Keyed(new, id) = Keyed(c, id)
      BY <3>1 DEF Keyed
    <3>. QED
      BY <3>1, <3>2 DEF Remembers
  <2>2. CASE of(id) # {}
    <3>. DEFINE i == Max(of(id))
                k == Keyed(new, id)
    <3>1. i \in DOMAIN s /\ s[i].key = id /\ new[id] = entry(s[i])
      BY <1>1, <1>2, <2>0, <2>2
    <3>2. new[id].sig = s[i].sig /\ new[id].reasoning = s[i].reasoning
      <4>. HIDE DEF i
      <4>. QED
        BY <3>1
    <3>3. k.key = s[i].key /\ k.sig = s[i].sig /\ k.reasoning = s[i].reasoning
      <4>. HIDE DEF i
      <4>. QED
        BY <3>1, <3>2 DEF Keyed
    <3>4. Bound(P, s[i], Strict)
      BY <3>1
    <3>. HIDE DEF i, k
    <3>5. Bound(P, k, Strict)
      BY <3>3, <3>4 DEF Bound
    <3>. QED
      BY <3>5 DEF k
  <2>. QED
    BY <2>1, <2>2
<1>. QED
  BY <1>4 DEF Remembers, new

\* The parts of an answer of the upstream.
LEMMA AnswerProper ==
    ASSUME ConversationInv, NEW n \in 1..(MaxParts - Said), NEW kinds \in [1..n -> session.kinds],
           session \in Sessions, is_claude(session.model)
    PROVE  LET parts == [i \in DOMAIN kinds |-> UpstreamPart(kinds[i], Said + i)] IN
           /\ Proper(parts) /\ \A id \in GivenCalls(parts) : \E m \in Said + 1..Said + n : id = CallId(m)
<1>. DEFINE parts == [i \in DOMAIN kinds |-> UpstreamPart(kinds[i], Said + i)]
<1>1. Said \in Nat /\ MaxParts \in Nat /\ n \in Nat /\ Said + n <= MaxParts
  <2>1. FlattenSeq(answers) \in Seq(GivenParts) /\ Said <= MaxParts
    BY FlattenType DEF ConversationInv
  <2>2. Said \in Nat
    BY <2>1, LenProperties DEF Said
  <2>. QED
    BY <2>1, <2>2, UpstreamAssumption
<1>2. DOMAIN kinds = 1..n /\ \A i \in 1..n : kinds[i] \in session.kinds
  OBVIOUS
<1>3. \A i \in 1..n : parts[i] = UpstreamPart(kinds[i], Said + i)
  BY <1>2
<1>4. /\ parts \in Seq(GivenParts) /\ Len(parts) = n /\ Distinct(parts)
      /\ \A id \in Named(parts, n) : \E m \in Said + 1..Said + n : id = CallId(m)
  <2>. DEFINE X == {UpstreamPart(kinds[i], Said + i) : i \in 1..n}
  <2>1. parts \in [1..n -> X] /\ \A i \in 1..n : \E kind : parts[i] = UpstreamPart(kind, Said + i)
    BY <1>2
  <2>. HIDE DEF parts, X
  <2>. QED
    BY <1>1, <2>1, PartsGiven
<1>5. session.kinds \cap {"owncall", "ownimage"} = {}
  BY SessionsAssumption
<1>6. DOMAIN parts = 1..n
  BY <1>2
<1>. HIDE DEF parts
<1>7. ASSUME NEW kind, kind \notin {"owncall", "ownimage"}, NEW m \in 1..MaxParts
      PROVE  LET p == UpstreamPart(kind, m) IN
             /\ p.sig # None => p.thought
             /\ p.text = <<>> \/ \E x \in Symbols : p.text = <<x>>
             /\ p.call # None => ~p.thought /\ p.text = <<>> /\ p.image = None
  <2>. DEFINE p == UpstreamPart(kind, m)
  <2>1. Text(m) \in Symbols
    BY DEF Symbols
  <2>2. /\ p.thought = (kind \in {"think", "signed", "bare"})
        /\ p.text = IF kind \in {"think", "signed", "text"} THEN <<Text(m)>> ELSE <<>>
        /\ p.image = IF kind \in {"image", "ownimage"} THEN Picture(m) ELSE None
        /\ p.call = IF kind \in {"call", "owncall"} THEN CallId(m) ELSE None
        /\ p.sig = IF kind \in {"signed", "bare", "owncall", "ownimage"} THEN Sig(m) ELSE None
    BY DEF UpstreamPart
  <2>. HIDE DEF p
  <2>3. p.sig # None => p.thought
    BY <1>7, <2>2
  <2>4. p.text = <<>> \/ p.text = <<Text(m)>>
    BY <2>2
  <2>5. p.call # None => ~p.thought /\ p.text = <<>> /\ p.image = None
    BY <1>7, <2>2
  <2>. QED
    BY <2>1, <2>3, <2>4, <2>5 DEF p
<1>8. ASSUME NEW k \in DOMAIN parts
      PROVE  /\ parts[k].sig # None => parts[k].thought
             /\ parts[k].text = <<>> \/ \E x \in Symbols : parts[k].text = <<x>>
             /\ parts[k].call # None => ~parts[k].thought /\ parts[k].text = <<>> /\ parts[k].image = None
  <2>. DEFINE kind == kinds[k]
              m == Said + k
  <2>1. parts[k] = UpstreamPart(kind, m) /\ kind \notin {"owncall", "ownimage"}
    BY <1>2, <1>3, <1>5, <1>6
  <2>2. m \in 1..MaxParts
    BY <1>1, <1>6
  <2>. HIDE DEF kind, m
  <2>. DEFINE p == UpstreamPart(kind, m)
  <2>3. /\ p.sig # None => p.thought
        /\ p.text = <<>> \/ \E x \in Symbols : p.text = <<x>>
        /\ p.call # None => ~p.thought /\ p.text = <<>> /\ p.image = None
    BY <1>7, <2>1, <2>2
  <2>. HIDE DEF p
  <2>4. parts[k] = p
    BY <2>1 DEF p
  <2>. QED
    BY <2>3, <2>4
<1>9. Proper(parts)
  BY <1>4, <1>8 DEF Proper
<1>10. GivenCalls(parts) \subseteq Named(parts, n)
  BY <1>4, NoneAssumption DEF GivenCalls, Moment, Named
<1>. QED
  BY <1>4, <1>9, <1>10 DEF parts

LEMMA AnswerVoice ==
    ASSUME ConversationInv, VoiceInv, session \in Sessions,
           NEW n \in 1..(MaxParts - Said), NEW kinds \in [1..n -> session.kinds], Answer(kinds)
    PROVE  VoiceInv'
<1>. DEFINE parts == [i \in DOMAIN kinds |-> UpstreamPart(kinds[i], Said + i)]
            d == Delivered(parts)
            a == answers
<1>1. /\ phase' = "answered" /\ answers' = Append(a, parts) /\ reply' = d.reply
      /\ cache' = Saved(cache, d.saves) /\ UNCHANGED <<session, history, vreq>>
  BY DEF Answer
<1>. SUFFICES ASSUME ThoughtsNeedSignatures
              PROVE  /\ Gave(Given') /\ \A P \in Given' : GivenCalls(P) \subseteq Issued'
                     /\ Remembers(cache', Given')
                     /\ \A k \in DOMAIN history' : Quotes(history'[k], Given')
                     /\ \E P \in Given' : TellsOwn(reply', P)
  BY <1>1, VoiceNext
<1>2. is_claude(session.model)
  BY ThinkingModels
<1>3. Proper(parts) /\ \A id \in GivenCalls(parts) : \E m \in Said + 1..Said + n : id = CallId(m)
  BY <1>2, AnswerProper
<1>4. a \in Seq(Seq(GivenParts)) /\ Said = Len(FlattenSeq(a)) /\ Said <= MaxParts
  BY DEF ConversationInv, Said
<1>5. Len(parts) = n
  <2>1. parts \in [1..n -> {parts[i] : i \in 1..n}] /\ n \in Nat
    BY <1>4, UpstreamAssumption
  <2>. QED
    BY <2>1
<1>. HIDE DEF parts, d
<1>6. TellsOwn(d.reply, parts) /\ \A i \in DOMAIN d.saves : Bound(parts, d.saves[i], Strict)
  BY <1>2, <1>3, DeliveredOwns DEF d
<1>7. Saves(d.saves)
  BY <1>3, DeliveredAnswers DEF Proper, d
<1>8. Said \in Nat /\ Said' = Said + n
  <2>1. parts \in Seq(GivenParts)
    BY <1>3 DEF Proper
  <2>. HIDE DEF a
  <2>2. Len(FlattenSeq(a)) \in Nat /\ Len(FlattenSeq(Append(a, parts))) = Len(FlattenSeq(a)) + Len(parts)
    BY <1>4, <2>1, SaidSoFar
  <2>. QED
    BY <1>1, <1>4, <1>5, <2>2 DEF Said
<1>9. Given' = Given \cup {parts}
  <2>. DEFINE b == Append(a, parts)
              S == Seq(GivenParts)
  <2>1. a \in Seq(S) /\ parts \in S
    BY <1>3, <1>4 DEF Proper
  <2>. HIDE DEF a, S
  <2>2. DOMAIN a = 1..Len(a) /\ Len(a) \in Nat /\ DOMAIN b = 1..Len(a) + 1 /\ b[Len(a) + 1] = parts
        /\ \A i \in 1..Len(a) : b[i] = a[i]
    BY <2>1, LenProperties, AppendProperties
  <2>. HIDE DEF b
  <2>3. \A i \in DOMAIN b : i = Len(a) + 1 \/ i \in DOMAIN a
    BY <2>2
  <2>4. Len(a) + 1 \in DOMAIN b /\ \A i \in DOMAIN a : i \in DOMAIN b
    BY <2>2
  <2>5. {b[i] : i \in DOMAIN b} = {a[i] : i \in DOMAIN a} \cup {parts}
    BY <2>2, <2>3, <2>4
  <2>. QED
    BY <1>1, <2>5 DEF Given, a, b
<1>10. Issued \subseteq Issued'
  <2>1. \A m \in 1..Said : m \in 1..Said + n
    BY <1>8
  <2>2. Issued' = {CallId(m) : m \in 1..Said + n}
    BY <1>8 DEF Issued
  <2>. QED
    BY <2>1, <2>2 DEF Issued
<1>11. ASSUME NEW id \in GivenCalls(parts) PROVE id \in Issued' /\ id \notin Issued
  <2>1. PICK m \in Said + 1..Said + n : id = CallId(m)
    BY <1>3
  <2>2. m \in 1..Said + n /\ m \in 1..MaxParts /\ m \notin 1..Said
    BY <1>8, UpstreamAssumption
  <2>3. id \in Issued'
    BY <1>8, <2>1, <2>2 DEF Issued
  <2>4. ASSUME id \in Issued PROVE FALSE
    <3>1. PICK l \in 1..Said : id = CallId(l)
      BY <2>4 DEF Issued
    <3>2. l \in 1..MaxParts
      BY <1>4, <1>8, UpstreamAssumption
    <3>3. l = m
      BY <2>1, <2>2, <3>1, <3>2, UpstreamAssumption
    <3>. QED
      BY <2>2, <3>3
  <2>. QED
    BY <2>3, <2>4
<1>. DEFINE G == Given
            H == Given \cup {parts}
            old == Issued
<1>12. /\ Gave(G) /\ (\A P \in G : GivenCalls(P) \subseteq old) /\ Remembers(cache, G)
       /\ \A k \in DOMAIN history : Quotes(history[k], G)
  BY DEF VoiceInv
<1>13. G \subseteq H /\ parts \in H
  OBVIOUS
<1>14. Gave(H)
  <2>1. \A P \in H : P \in G \/ P = parts
    OBVIOUS
  <2>2. \A id \in GivenCalls(parts) : id \notin old
    BY <1>11
  <2>. HIDE DEF G, H, old
  <2>. QED
    BY <1>3, <1>12, <2>1, <2>2 DEF Gave
<1>15. \A P \in H : GivenCalls(P) \subseteq Issued'
  BY <1>10, <1>11, <1>12
<1>16. Remembers(cache', H)
  <2>. HIDE DEF H, G
  <2>1. Remembers(cache, H)
    BY <1>12, <1>13, QuotesMore
  <2>2. Remembers(Saved(cache, d.saves), H)
    BY <1>6, <1>7, <1>13, <2>1, SavedRemembers
  <2>. QED
    BY <1>1, <2>2
<1>17. \A k \in DOMAIN history' : Quotes(history'[k], H)
  <2>. HIDE DEF H, G
  <2>. QED
    BY <1>1, <1>12, <1>13, QuotesMore
<1>18. TellsOwn(reply', parts)
  BY <1>1, <1>6
<1>. QED
  BY <1>9, <1>13, <1>14, <1>15, <1>16, <1>17, <1>18

LEMMA ClientVoice ==
    ASSUME ConversationInv, VoiceInv, ClientContinues
    PROVE  VoiceInv'
<1>. DEFINE G == Given
<1>1. phase = "answered" /\ phase' = "client" /\ UNCHANGED <<session, cache, vreq, answers>>
  BY DEF ClientContinues
<1>2. PICK text : history' = history \o <<Echo>> \o
                             (IF CallsOf(Echo) = <<>> THEN <<UserSays(text)>> ELSE ResultsOf(Echo))
  BY DEF ClientContinues
<1>3. Given' = G /\ Issued' = Issued
  BY <1>1 DEF Given, Issued, Said
<1>. SUFFICES ASSUME ThoughtsNeedSignatures
              PROVE  \A k \in DOMAIN history' : Quotes(history'[k], G)
  BY <1>1, <1>3, VoiceNext DEF VoiceInv
<1>4. PICK P \in G : TellsOwn(reply, P)
  BY <1>1 DEF VoiceInv
<1>. DEFINE K == Issued \ Asked
<1>5. AnswersWith(reply, K) /\ K \subseteq Calls
  <2>1. FlattenSeq(answers) \in Seq(GivenParts)
    BY FlattenType DEF ConversationInv
  <2>2. Said \in Nat /\ Said <= MaxParts
    BY <2>1, LenProperties DEF ConversationInv, Said
  <2>3. Issued \subseteq Calls
    BY <2>2, IssuedCalls
  <2>. QED
    BY <1>1, <2>3 DEF ConversationInv
<1>. HIDE DEF K
<1>6. \A k \in DOMAIN history : Quotes(history[k], G)
  BY DEF VoiceInv
<1>. HIDE DEF G
<1>7. Quotes(Echo, G)
  BY <1>4, <1>5, EchoQuotes
<1>8. ClientSays(Echo, Claude)
  BY <1>5, EchoSays
<1>9. Each(CallsOf(Echo), CallsMade(Echo, Claude))
  BY <1>8, CallsListed
<1>10. history \in Seq(ClientMessages(Claude))
  BY DEF ConversationInv, Consistent
<1>. DEFINE next == history'
<1>11. next = history \o <<Echo>> \o (IF CallsOf(Echo) = <<>> THEN <<UserSays(text)>> ELSE ResultsOf(Echo))
  BY <1>2
<1>. HIDE DEF next
<1>12. \A k \in DOMAIN next : Quotes(next[k], G)
  BY <1>6, <1>7, <1>9, <1>10, <1>11, GoesOnQuoting
<1>. QED
  BY <1>12 DEF next

LEMMA LoseVoice ==
    ASSUME ConversationInv, VoiceInv, LoseSignatures
    PROVE  VoiceInv'
<1>. DEFINE c == cache
            less == [id \in DOMAIN c |-> [c[id] EXCEPT !.readable = FALSE]]
            G == Given
<1>1. /\ phase' = phase /\ UNCHANGED <<session, history, vreq, answers, reply>>
      /\ cache' = <<>> \/ cache' = less
  BY DEF LoseSignatures
<1>2. Given' = G /\ Issued' = Issued /\ Contents' = Contents
  BY <1>1 DEF Given, Issued, Said, Contents
<1>3. ASSUME ThoughtsNeedSignatures PROVE Remembers(cache', G)
  <2>1. Remembers(<<>>, G)
    BY DEF Remembers
  <2>2. \A id \in DOMAIN c : c[id] \in Entries
    BY DEF ConversationInv, IsCache
  <2>3. Remembers(c, G)
    BY <1>3 DEF VoiceInv
  <2>. HIDE DEF c, G
  <2>4. ASSUME NEW id \in DOMAIN less PROVE id \in DOMAIN c /\ Keyed(less, id) = Keyed(c, id)
    <3>1. id \in DOMAIN c /\ less[id] = [c[id] EXCEPT !.readable = FALSE]
      OBVIOUS
    <3>2. less[id].sig = c[id].sig /\ less[id].reasoning = c[id].reasoning
      BY <2>2, <3>1 DEF Entries
    <3>. HIDE DEF less
    <3>. QED
      BY <3>1, <3>2 DEF Keyed
  <2>. HIDE DEF less
  <2>5. Remembers(less, G)
    BY <2>3, <2>4 DEF Remembers
  <2>. QED
    BY <1>1, <2>1, <2>5
<1>. HIDE DEF less
<1>. QED
  BY <1>1, <1>2, <1>3, VoiceNext DEF VoiceInv

LEMMA VoiceGoesOn == IInv /\ ConversationInv /\ VoiceInv /\ [Next]_vars => VoiceInv'
<1>. SUFFICES ASSUME IInv, ConversationInv, VoiceInv, [Next]_vars PROVE VoiceInv'
  OBVIOUS
<1>1. CASE Convert
  BY <1>1, ConvertVoice
<1>2. CASE Wake
  <2>1. UNCHANGED <<session, history, cache, vreq, answers, reply>> /\ phase = "sleeping" /\ phase' = "sending"
    BY <1>2 DEF Wake
  <2>. QED
    BY <2>1, VoiceStays
<1>3. CASE UpstreamFails
  <2>1. PICK e : RetryInClient(e) \/ AttemptsFail(e)
    BY <1>3 DEF UpstreamFails
  <2>2. CASE RetryInClient(e)
    <3>1. UNCHANGED <<session, history, cache, vreq, answers, reply>> /\ phase = "sending" /\ phase' = "sleeping"
      BY <2>2 DEF RetryInClient
    <3>. QED
      BY <3>1, VoiceStays
  <2>3. CASE AttemptsFail(e)
    <3>1. UNCHANGED <<session, history, cache, vreq, answers, reply>> /\ phase = "sending" /\ phase' \in {"sending", "failed"}
      BY <2>3 DEF AttemptsFail
    <3>. QED
      BY <3>1, VoiceStays
  <2>. QED
    BY <2>1, <2>2, <2>3
<1>4. CASE UpstreamAnswers
  <2>1. session \in Sessions
    BY DEF IInv, LoopInv
  <2>. QED
    BY <1>4, <2>1, AnswerVoice DEF UpstreamAnswers
<1>5. CASE ClientContinues
  BY <1>5, ClientVoice
<1>6. CASE LoseSignatures
  BY <1>6, LoseVoice
<1>7. CASE UNCHANGED vars
  <2>1. UNCHANGED <<session, history, cache, vreq, answers, reply>> /\ phase' = phase
    BY <1>7 DEF vars
  <2>. QED
    BY <2>1, VoiceStays
<1>. QED
  BY <1>1, <1>2, <1>3, <1>4, <1>5, <1>6, <1>7 DEF Next

\* Every thought a Claude model is sent is signed, and by a signature of the
\* answer its text is from, whichever thinking the client kept, whatever was
\* recovered from the cache, merged or cleaned, and whatever the cache lost.
THEOREM ThoughtsAreSigned == Spec => []ThoughtsSignedByTheirs
<1>1. IInv /\ ConversationInv /\ VoiceInv /\ [Next]_vars => VoiceInv'
  BY VoiceGoesOn
<1>2. VoiceInv => ThoughtsSignedByTheirs
  <2>. SUFFICES ASSUME VoiceInv, phase = "sending", ThoughtsNeedSignatures,
                       NEW i \in DOMAIN Contents, NEW j \in DOMAIN Parts(i), Parts(i)[j].thought
                PROVE  \E a \in DOMAIN answers : SignedBy(Parts(i)[j], answers[a])
    BY DEF ThoughtsSignedByTheirs
  <2>1. AllSigned(Contents, Given)
    BY DEF VoiceInv
  <2>2. PICK P \in Given : SignedBy(Parts(i)[j], P)
    BY <2>1 DEF AllSigned, Parts
  <2>. QED
    BY <2>2 DEF Given
<1>. QED
  BY <1>1, <1>2, InitVoice, Invariance, Conversation, PTL DEF Spec
=============================================================================
