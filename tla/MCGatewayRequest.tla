--------------------------- MODULE MCGatewayRequest ---------------------------
(* Instances of GatewayRequest for TLC: sessions that talk, that vary the    *)
(* settings, the tool schema or the errors of the upstream.                  *)
EXTENDS ToolSchemaProperties

CONSTANTS none, fallback

NthText(n) == <<"t1", "t2", "t3", "t4">>[n]
NthSig(n) == <<"s1", "s2", "s3", "s4">>[n]
NthCall(n) == <<"c1", "c2", "c3", "c4">>[n]
NthPicture(n) == <<"i1", "i2", "i3", "i4">>[n]

Default == [effort |-> [word |-> "", number |-> 0], asked |-> {}, max_tokens |-> 0,
            media_resolution |-> ""]

Session(endpoint, model, streams, keeps, kinds) ==
    [endpoint |-> endpoint, model |-> model, streams |-> streams, keeps |-> keeps,
     kinds |-> kinds, settings |-> Default, tool |-> <<>>, errors |-> {}]

ClaudeKinds == {"think", "signed", "bare", "text", "call"}
GeminiKinds == {"think", "text", "call", "owncall"}
ImageKinds == {"text", "owncall", "image", "ownimage"}

Talks ==
    {Session("claude", "claude-sonnet-4-5-thinking", s, k, ClaudeKinds) :
        s \in BOOLEAN, k \in {"all", "unsigned", "none", "redacted"}} \cup
    {Session("claude", "gemini-3-pro", s, k, GeminiKinds) : s \in BOOLEAN, k \in {"all", "redacted"}} \cup
    {Session("openai", "claude-opus-4-5-thinking", s, k, ClaudeKinds) : s \in BOOLEAN, k \in {"all", "none"}} \cup
    {Session("openai", "gemini-3-pro", s, k, GeminiKinds) : s \in BOOLEAN, k \in {"all", "none"}} \cup
    {Session("openai", "gemini-3-pro-image", s, "none", ImageKinds) : s \in BOOLEAN}

Budgets == {0, 1000, 1024, 32000, 62976, 62977, 64000, 65535, MaxInt - 4096, MaxInt}
Quiet(endpoint, model) == [Session(endpoint, model, FALSE, "all", {"text"}) EXCEPT !.kinds = {}]

Asked == {[enabled |-> TRUE, budget |-> b, budget_tokens |-> 5000] : b \in Budgets} \cup
         {[enabled |-> e, budget |-> 0, budget_tokens |-> 0] : e \in BOOLEAN}

Configs ==
    {[Quiet("openai", m) EXCEPT !.settings.effort = [word |-> "n", number |-> b], !.settings.max_tokens = t] :
        m \in Models, b \in Budgets, t \in {0, 5000}} \cup
    {[Quiet("openai", m) EXCEPT !.settings.effort = [word |-> w, number |-> 0]] :
        m \in Models, w \in {"", "low", "medium", "high"}} \cup
    {[Quiet("claude", m) EXCEPT !.settings.asked = {a}, !.settings.max_tokens = t] :
        m \in Models, a \in Asked, t \in {0, 1000, 5000}} \cup
    {[Quiet("claude", m) EXCEPT !.settings.media_resolution = "MEDIA_RESOLUTION_LOW"] : m \in Models}

\* Schemas: one value of several for each keyword, 0 for none.
Leaf == [k \in {"type", "const"} |-> IF k = "type" THEN String("string") ELSE String("x")]
StringEnum == [k \in {"enum", "nullable"} |->
                IF k = "enum" THEN Array(<<String("x"), String("y")>>) ELSE Bool(TRUE)]
Odd == "$ref" :> String("#") @@ "pattern" :> String("p") @@ "items" :> Array(<<Bool(TRUE), Object(Leaf)>>)
Union == "type" :> Array(<<String("integer"), String("null")>>) @@ "exclusiveMinimum" :> Number(3)

Values ==
    [type |-> <<String("object"), Array(<<String("null"), String("string")>>), Array(<<String("null")>>), Number(7)>>,
     properties |-> <<Object("a" :> Object(Odd) @@ "b" :> Bool(TRUE)), Object("a" :> Object(Union)), Array(<<>>)>>,
     items |-> <<Array(<<Object(Leaf), Object(Odd)>>), Array(<<Bool(TRUE)>>)>>,
     anyOf |-> <<Array(<<Object(Leaf), Object(StringEnum)>>), Array(<<Object(Odd), Number(1)>>), Object(Leaf)>>,
     oneOf |-> <<Array(<<Object(StringEnum)>>)>>,
     allOf |-> <<Array(<<Object("nullable" :> Number(1) @@ "oneOf" :> Array(<<>>) @@ "description" :> String("d"))>>), Array(<<Number(1)>>)>>,
     enum |-> <<Array(<<Number(1), String("x"), Bool(TRUE)>>), String("x")>>,
     const |-> <<String("z"), Number(3)>>,
     minimum |-> <<Number(1)>>,
     exclusiveMinimum |-> <<Number(5), Bool(TRUE)>>,
     rest |-> <<String("r")>>]

Keywords == DOMAIN Values
ToolSchema(tool) ==
    LET chosen == {k \in Keywords \ {"rest"} : tool[k] # 0}
    IN  [k \in chosen |-> Values[k][tool[k]]] @@
        (IF tool["rest"] = 0 THEN <<>>
         ELSE "$ref" :> Number(1) @@ "definitions" :> Object("d" :> Object(Odd) @@ "e" :> Number(1))
              @@ "required" :> Array(<<String("a"), Number(1)>>) @@ "maximum" :> String("m")
              @@ "exclusiveMaximum" :> Number(9) @@ "title" :> String("t"))

\* Three keywords at a time; the rest counts as one.
Tools ==
    LET choices(K) == {v \in [K -> 1..4] : \A k \in K : v[k] <= Len(Values[k])}
    IN  UNION {{[k \in Keywords |-> IF k \in K THEN v[k] ELSE 0] : v \in choices(K)} :
                K \in kSubset(3, Keywords)}

Toolboxes == {[Quiet("claude", "gemini-3-pro") EXCEPT !.tool = t] : t \in Tools}

Body(name, number, status, no_capacity, reason) ==
    [name |-> name, number |-> number, status |-> status, no_capacity |-> no_capacity, reason |-> reason]
NoJson == Body("", 0, "", FALSE, "")
Full == "MODEL_CAPACITY_EXHAUSTED"
Errors ==
    {[http |-> h, body |-> NoJson] : h \in {401, 429, 400, 503}} \cup
    {[http |-> 429, body |-> Body("UNAUTHENTICATED", 0, "", FALSE, "")],
     [http |-> 503, body |-> Body("", 503, "UNAVAILABLE", TRUE, Full)],
     [http |-> 503, body |-> Body("", 503, "UNAVAILABLE", TRUE, "other")],
     [http |-> 401, body |-> Body("RESOURCE_EXHAUSTED", 0, "", FALSE, "")],
     [http |-> 500, body |-> Body("", 401, "", FALSE, "")],
     [http |-> 500, body |-> Body("", 70000, "", FALSE, Full)]}

Troubled == {[Quiet(e, "gemini-3-pro") EXCEPT !.errors = Errors, !.kinds = {"text"}] : e \in {"claude", "openai"}}

AllSessions == Talks \cup Configs \cup Toolboxes \cup Troubled
=============================================================================
