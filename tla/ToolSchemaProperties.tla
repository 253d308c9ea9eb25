------------------------- MODULE ToolSchemaProperties -------------------------
(* What must hold of the tool schemas in the requests, where Sanitized is    *)
(* ToolParameters.                                                           *)
EXTENDS GatewayRequestProperties, SchemaSanitizer

RECURSIVE Accepted(_)
Accepted(s) ==
    /\ DOMAIN s \subseteq Allowed
    /\ \A k \in {"type", "description", "ref"} : Has(s, k) => s[k].t = "string"
    /\ \A k \in {"minimum", "maximum"} : Has(s, k) => s[k].t = "number"
    /\ Has(s, "nullable") => s["nullable"].t = "boolean"
    /\ \A k \in {"enum", "required"} : Has(s, k) =>
          /\ s[k].t = "array"
          /\ \A i \in DOMAIN s[k].v : s[k].v[i].t = "string"
    /\ Has(s, "properties") \/ Has(s, "items") => Has(s, "type")
    /\ \A k \in {"properties", "defs"} : Has(s, k) =>
          /\ s[k].t = "object"
          /\ \A name \in DOMAIN s[k].v : s[k].v[name].t = "object" /\ Accepted(s[k].v[name].v)
    /\ Has(s, "items") => s["items"].t = "object" /\ Accepted(s["items"].v)
    /\ Has(s, "anyOf") =>
          /\ s["anyOf"].t = "array" /\ s["anyOf"].v # <<>>
          /\ \A i \in DOMAIN s["anyOf"].v :
                s["anyOf"].v[i].t = "object" /\ Accepted(s["anyOf"].v[i].v)

\* Unknown or ill-typed fields of a tool schema are answered with 400 ("未知
\* 字段会导致 400"): at every depth only the allowed keywords are left, with
\* values of their types, whatever keywords a client combines.
SchemaAccepted ==
    phase = "sending" => \A i \in DOMAIN vreq.tools : Accepted(vreq.tools[i])

\* One pass is enough: no rule leaves or brings in what another pass, or the
\* next gateway on the way, would change again.
SchemaSettles ==
    phase = "sending" =>
        \A i \in DOMAIN vreq.tools : ToolParameters(vreq.tools[i]) = vreq.tools[i]
=============================================================================
