------------------------------ MODULE ModelTable ------------------------------
(***************************************************************************)
(* util/model.rs and the generation config of both endpoints: which family *)
(* a model name belongs to, the thinking it is asked for and how thinking  *)
(* and output budgets are made to fit.  Prefix tests on names become sets  *)
(* of names; budgets are i32 and wrap.                                     *)
(***************************************************************************)
EXTENDS Integers

CONSTANT MaxInt   \* i32::MAX (scaled)

ASSUME MaxIntAssumption == MaxInt \in Nat /\ MaxInt > 65535 + 4096

I32 == -MaxInt - 1..MaxInt

CLAUDE_MAX_OUTPUT_TOKENS == 64000
GEMINI_MAX_OUTPUT_TOKENS == 65535
DEFAULT_CLAUDE_THINKING_BUDGET_TOKENS == 32000
THINKING_BUDGET_HEADROOM_TOKENS == 1024
THINKING_BUDGET_MIN_TOKENS == 1024
THINKING_MAX_OUTPUT_TOKENS_OVERHEAD_TOKENS == 4096

Sonnet45 == {"claude-sonnet-4-5", "claude-sonnet-4-5-thinking"}
Opus45 == {"claude-opus-4-5", "claude-opus-4-5-thinking"}
Gemini3Flash == {"gemini-3-flash", "gemini-3-flash-thinking"}
ProImage == {"gemini-3-pro-image", "gemini-3-pro-image-1k", "gemini-3-pro-image-2k",
             "gemini-3-pro-image-4k"}
ClaudeModels == Sonnet45 \cup Opus45 \cup {"claude-3-7", "claude-3-7-thinking"}
Gemini3 == Gemini3Flash \cup ProImage \cup {"gemini-3-pro"}
Gemini25 == {"gemini-2.5-pro", "gemini-2.5-image"}
GeminiModels == Gemini3 \cup Gemini25 \cup {"gemini-pro"}
Models == ClaudeModels \cup GeminiModels \cup {"gpt-oss"}

is_claude(m) == m \in ClaudeModels
is_gemini(m) == m \in GeminiModels
is_gemini3(m) == m \in Gemini3
is_gemini25(m) == m \in Gemini25
is_gemini3_flash(m) == m \in Gemini3Flash
is_gemini_pro_image(m) == m \in ProImage
is_image_model(m) == m \in ProImage \cup {"gemini-2.5-image"}
is_claude_thinking(m) ==
    m \in {"claude-sonnet-4-5-thinking", "claude-opus-4-5-thinking", "claude-3-7-thinking"}

\* Virtual names stand for a model the upstream knows.
backend_model_id(m) ==
    CASE m = "gemini-3-flash-thinking" -> "gemini-3-flash"
      [] m = "claude-opus-4-5" -> "claude-opus-4-5-thinking"
      [] m \in ProImage -> "gemini-3-pro-image"
      [] OTHER -> m

\* The model list: the upstream's names and the virtual ones they imply.
sorted_model_ids(names) ==
    names \cup
    (IF "gemini-3-flash" \in names THEN {"gemini-3-flash-thinking"} ELSE {}) \cup
    (IF "gemini-3-pro-image" \in names THEN ProImage ELSE {}) \cup
    (IF "claude-opus-4-5-thinking" \in names THEN {"claude-opus-4-5"} ELSE {})

-----------------------------------------------------------------------------
(* What thinking a model is asked for.  level "" and budget 0 are not sent. *)

NoThinking == [include_thoughts |-> FALSE, level |-> "", budget |-> 0]
Thinking(level, budget) == [include_thoughts |-> TRUE, level |-> level, budget |-> budget]
Budget(n) == Thinking("", n)

\* The name alone decides.
Forced(m) == m \in Gemini3Flash \cup Sonnet45 \cup Opus45
forced_thinking_config(m) ==
    IF ~Forced(m) THEN NoThinking
    ELSE IF m = "gemini-3-flash-thinking" THEN Thinking("high", 0)
    ELSE IF is_claude_thinking(m) THEN Budget(DEFAULT_CLAUDE_THINKING_BUDGET_TOKENS)
    ELSE Budget(0)

\* An effort is a word ("" for none) or a number.
EffortBudget(word) ==
    CASE word \in {"minimal", "low"} -> 1024
      [] word = "medium" -> 4096
      [] OTHER -> DEFAULT_CLAUDE_THINKING_BUDGET_TOKENS

thinking_config_from_openai(m, effort) ==
    IF Forced(m) THEN forced_thinking_config(m)
    ELSE IF effort.word = "" /\ is_claude_thinking(m)
         THEN Budget(DEFAULT_CLAUDE_THINKING_BUDGET_TOKENS)
    ELSE IF is_gemini3(m) THEN Thinking("high", 0)
    ELSE IF effort.word = "" THEN NoThinking
    ELSE IF is_claude_thinking(m) \/ is_gemini25(m)
         THEN Budget(IF effort.number > 0 THEN effort.number
                     ELSE IF is_claude_thinking(m) THEN EffortBudget(effort.word) ELSE 1024)
    ELSE Thinking(effort.word, 0)

Positive(n) == IF n > 0 THEN n ELSE 0

\* asked: a thinking object of type "enabled" with two names for its budget.
thinking_config_from_claude(m, asked) ==
    LET b == IF asked.budget > 0 THEN asked.budget ELSE Positive(asked.budget_tokens)
    IN  IF Forced(m) THEN forced_thinking_config(m)
        ELSE IF ~asked.enabled THEN NoThinking
        ELSE IF is_claude(m) /\ b = 0 THEN Budget(DEFAULT_CLAUDE_THINKING_BUDGET_TOKENS)
        ELSE IF is_gemini3(m) THEN Thinking("high", 0)
        ELSE Budget(b)

-----------------------------------------------------------------------------
(* build_generation_config of both endpoints. *)

Wrap(n) == IF n > MaxInt THEN n - 2 * MaxInt - 2 ELSE n

MaxOutput(endpoint, m, max_tokens) ==
    IF is_claude(m) THEN CLAUDE_MAX_OUTPUT_TOKENS
    ELSE IF is_gemini(m) THEN GEMINI_MAX_OUTPUT_TOKENS
    ELSE IF max_tokens > 0 THEN max_tokens
    ELSE IF endpoint = "claude" THEN 8192 ELSE 0

MaxBudget(output) ==
    IF output - THINKING_BUDGET_HEADROOM_TOKENS < THINKING_BUDGET_MIN_TOKENS
    THEN THINKING_BUDGET_MIN_TOKENS
    ELSE output - THINKING_BUDGET_HEADROOM_TOKENS

\* A budget cut to the whole output.
FitBudget_NoHeadroom(m, tc, output) ==
    LET grown == Wrap(tc.budget + THINKING_MAX_OUTPUT_TOKENS_OVERHEAD_TOKENS)
        room == IF output <= 0 THEN grown ELSE output
    IN  IF tc.budget = 0 THEN <<tc, output>>
        ELSE IF is_claude(m) \/ is_gemini(m)
             THEN <<[tc EXCEPT !.budget = IF @ > room THEN room ELSE @], room>>
        ELSE <<tc, IF room <= tc.budget THEN grown ELSE room>>

\* Thinking uses up output: Claude and Gemini get a smaller budget, any other
\* model a larger output.
FitBudget(m, tc, output) ==
    LET grown == Wrap(tc.budget + THINKING_MAX_OUTPUT_TOKENS_OVERHEAD_TOKENS)
        room == IF output <= 0 THEN grown ELSE output
        over == IF is_claude(m) THEN tc.budget > MaxBudget(room) ELSE tc.budget >= room
    IN  IF tc.budget = 0 THEN <<tc, output>>
        ELSE IF is_claude(m) \/ is_gemini(m)
             THEN <<IF over THEN [tc EXCEPT !.budget = MaxBudget(room)] ELSE tc, room>>
        ELSE <<tc, IF over THEN grown ELSE room>>

build_generation_config(endpoint, m, settings) ==
    LET tc == IF endpoint = "openai" THEN thinking_config_from_openai(m, settings.effort)
              ELSE IF settings.asked = {} THEN forced_thinking_config(m)
              ELSE thinking_config_from_claude(m, CHOOSE a \in settings.asked : TRUE)
        fit == FitBudget(m, tc, MaxOutput(endpoint, m, settings.max_tokens))
    IN  [thinking |-> fit[1], max_output_tokens |-> fit[2],
         image_size |-> IF m \in ProImage \ {"gemini-3-pro-image"} THEN m ELSE "",
         media_resolution |-> IF is_gemini3(m) /\ ~is_image_model(m)
                              THEN settings.media_resolution ELSE ""]
=============================================================================
