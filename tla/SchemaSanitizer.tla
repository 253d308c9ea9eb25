--------------------------- MODULE SchemaSanitizer ---------------------------
(***************************************************************************)
(* sanitize_function_parameters_schema of vertex/sanitize.rs: the JSON     *)
(* schema of a tool becomes the subset Vertex accepts.  A JSON value is    *)
(* [t, v]: its type and, by type, a string, a number, a Boolean, a         *)
(* sequence of values or a function from keys to values (a schema).        *)
(* Names of types are trimmed and in lower or upper case already; numbers  *)
(* are whole and never spelled as strings.                                 *)
(***************************************************************************)
EXTENDS Integers, SequencesExt, TLC

Json(t, v) == [t |-> t, v |-> v]
String(s) == Json("string", s)
Number(n) == Json("number", n)
Bool(b) == Json("boolean", b)
Array(s) == Json("array", s)
Object(f) == Json("object", f)

Has(s, key) == key \in DOMAIN s
HasA(s, key, t) == Has(s, key) /\ s[key].t = t
Without(s, keys) == [k \in DOMAIN s \ keys |-> s[k]]
With(s, key, value) == key :> value @@ s
WithDefault(s, key, value) == IF Has(s, key) THEN s ELSE With(s, key, value)

\* The value under key moves to another key, unless that one is taken.
Renamed(s, key, to) ==
    IF Has(s, key) THEN WithDefault(Without(s, {key}), to, s[key]) ELSE s

Strings(values) == SelectSeq(values, LAMBDA x : x.t = "string")
Objects(values) == SelectSeq(values, LAMBDA x : x.t = "object")

-----------------------------------------------------------------------------
(* Keywords of one level. *)

OneOfToAnyOf(s) ==
    IF ~Has(s, "oneOf") THEN s
    ELSE LET r == Without(s, {"oneOf"})
         IN  IF HasA(s, "anyOf", "array") /\ s["oneOf"].t = "array"
             THEN With(r, "anyOf", Array(s["anyOf"].v \o s["oneOf"].v))
             ELSE WithDefault(r, "anyOf", s["oneOf"])

\* The first entry fills in what the schema itself does not say.
FirstOfAllOf(s) ==
    LET fits == HasA(s, "allOf", "array") /\ s["allOf"].v # <<>> /\ Head(s["allOf"].v).t = "object"
    IN  Without(s, {"allOf"}) @@ (IF fits THEN Head(s["allOf"].v).v ELSE <<>>)

\* An integer bound moves by one, any other bound becomes inclusive.
adjust_exclusive(s, n, by) == IF HasA(s, "type", "string") /\ s["type"].v \in {"integer", "INTEGER"}
                              THEN n + by ELSE n

ExclusiveBound(s, exclusive, bound, by) ==
    LET r == Without(s, {exclusive})
        own == IF HasA(s, bound, "number") THEN s[bound].v ELSE 0
    IN  IF ~Has(s, exclusive) THEN s
        ELSE IF ~Has(s, bound)
             THEN IF s[exclusive].t = "number"
                  THEN With(r, bound, Number(adjust_exclusive(r, s[exclusive].v, by)))
                  ELSE r
        ELSE IF HasA(s, exclusive, "boolean") /\ s[exclusive].v /\ s[bound].t = "number"
             THEN With(r, bound, Number(adjust_exclusive(r, own, by)))
        ELSE r

convert_exclusive_bounds(s) ==
    ExclusiveBound(ExclusiveBound(s, "exclusiveMinimum", "minimum", 1),
                   "exclusiveMaximum", "maximum", -1)

VertexName == [object |-> "OBJECT", array |-> "ARRAY", string |-> "STRING",
               integer |-> "INTEGER", number |-> "NUMBER", boolean |-> "BOOLEAN", null |-> "NULL"]
Upper(type) == IF type \in DOMAIN VertexName THEN VertexName[type] ELSE type

\* A union keeps its first member that is not null and becomes nullable.
normalize_type_field(s) ==
    LET names == Strings(s["type"].v)
        isNull(x) == Upper(x.v) = "NULL"
        others == SelectSeq(names, LAMBDA x : ~isNull(x))
        r == IF \E i \in DOMAIN names : isNull(names[i])
             THEN WithDefault(s, "nullable", Bool(TRUE)) ELSE s
    IN  IF ~Has(s, "type") THEN s
        ELSE IF s["type"].t = "string" THEN With(s, "type", String(Upper(s["type"].v)))
        ELSE IF s["type"].t = "array"
             THEN IF others = <<>> THEN Without(r, {"type"})
                  ELSE With(r, "type", String(Upper(Head(others).v)))
        ELSE Without(s, {"type"})

DefaultType(s) ==
    IF HasA(s, "type", "string") THEN s
    ELSE IF Has(s, "properties") THEN With(s, "type", String("OBJECT"))
    ELSE IF Has(s, "items") THEN With(s, "type", String("ARRAY"))
    ELSE s

convert_const_to_enum(s) ==
    LET r == Without(s, {"const"})
    IN  IF ~HasA(s, "const", "string") THEN r
        ELSE IF HasA(s, "enum", "array")
             THEN With(r, "enum", Array(Append(s["enum"].v, s["const"])))
        ELSE With(r, "enum", Array(<<s["const"]>>))

\* Every member becomes a string.
Spelled(x) == IF x.t = "string" THEN x ELSE String(ToString(x.v))
normalize_enum(s) ==
    IF HasA(s, "enum", "array")
    THEN With(s, "enum", Array([i \in DOMAIN s["enum"].v |-> Spelled(s["enum"].v[i])]))
    ELSE Without(s, {"enum"})

NormalizeRequired(s) ==
    LET names == IF HasA(s, "required", "array") THEN Strings(s["required"].v) ELSE <<>>
    IN  IF names = <<>> THEN Without(s, {"required"}) ELSE With(s, "required", Array(names))

\* Bounds that are no numbers are dropped.
NormalizeBounds(s) ==
    Without(s, {k \in {"minimum", "maximum"} : Has(s, k) /\ s[k].t # "number"})

\* The keywords the code lists; these stand for all of them.
Unsupported == {"not", "patternProperties", "prefixItems", "pattern", "format", "minLength",
                "additionalProperties", "const", "title", "default"}

OneLevel(s) ==
    LET renamed == Renamed(Renamed(Renamed(Without(s, {"$schema", "$id"}), "$ref", "ref"),
                                   "$defs", "defs"), "definitions", "defs")
        typed == DefaultType(normalize_type_field(
                    convert_exclusive_bounds(FirstOfAllOf(OneOfToAnyOf(renamed)))))
    IN  Without(NormalizeBounds(NormalizeRequired(normalize_enum(convert_const_to_enum(typed)))),
                Unsupported)

-----------------------------------------------------------------------------
(* After the children: collapse and the allow-list. *)

OnlyStringEnum(v) ==
    /\ HasA(v, "type", "string") => v["type"].v = "STRING"
    /\ HasA(v, "enum", "array") /\ v["enum"].v # <<>>
    /\ DOMAIN v \subseteq {"type", "enum", "description", "nullable"}

Distinct(values) ==
    FoldLeft(LAMBDA acc, x : IF Contains(acc, x) THEN acc ELSE Append(acc, x), <<>>, values)

\* anyOf of string enums becomes one enum.
collapse_anyof_string_enums(s) ==
    LET variants == IF HasA(s, "anyOf", "array") THEN s["anyOf"].v ELSE <<>>
        collapses == /\ ~Has(s, "enum")
                     /\ HasA(s, "type", "string") => s["type"].v = "STRING"
                     /\ variants # <<>>
                     /\ \A i \in DOMAIN variants : OnlyStringEnum(variants[i].v)
        members == FlattenSeq([i \in DOMAIN variants |-> variants[i].v["enum"].v])
        nullable == \E i \in DOMAIN variants : HasA(variants[i].v, "nullable", "boolean")
                                               /\ variants[i].v["nullable"].v
        r == With(With(Without(s, {"anyOf"}), "enum", Array(Distinct(members))),
                  "type", String("STRING"))
    IN  IF ~collapses THEN s
        ELSE IF nullable THEN WithDefault(r, "nullable", Bool(TRUE)) ELSE r

Allowed == {"type", "properties", "required", "description", "enum", "items", "nullable",
            "minimum", "maximum", "anyOf", "ref", "defs"}

\* Without the final type checks.
enforce_vertex_schema_allowlist_Unchecked(s) == [k \in DOMAIN s \cap Allowed |-> s[k]]

enforce_vertex_schema_allowlist(s) ==
    LET wrong == {k \in {"ref", "type", "description"} : Has(s, k) /\ s[k].t # "string"}
                 \cup {k \in {"nullable"} : Has(s, k) /\ s[k].t # "boolean"}
    IN  [k \in (DOMAIN s \cap Allowed) \ wrong |-> s[k]]

-----------------------------------------------------------------------------
RECURSIVE sanitize_vertex_schema(_)

\* Members of properties and defs that are no schemas are dropped.
Members(s, key) ==
    IF ~Has(s, key) THEN s
    ELSE IF s[key].t # "object" THEN Without(s, {key})
    ELSE LET m == s[key].v
             names == {k \in DOMAIN m : m[k].t = "object"}
         IN  With(s, key, Object([k \in names |-> Object(sanitize_vertex_schema(m[k].v))]))

\* A tuple of items keeps its first schema.
Items(s) ==
    LET picked == IF HasA(s, "items", "object") THEN <<s["items"]>>
                  ELSE IF HasA(s, "items", "array") THEN Objects(s["items"].v)
                  ELSE <<>>
    IN  IF picked = <<>> THEN Without(s, {"items"})
        ELSE With(s, "items", Object(sanitize_vertex_schema(Head(picked).v)))

Variants(s) ==
    LET kept == IF HasA(s, "anyOf", "array") THEN Objects(s["anyOf"].v) ELSE <<>>
    IN  IF kept = <<>> THEN Without(s, {"anyOf"})
        ELSE With(s, "anyOf", Array([i \in DOMAIN kept |->
                                        Object(sanitize_vertex_schema(kept[i].v))]))

\* Collapses before the variants are sanitized.
sanitize_vertex_schema_CollapsesFirst(s) ==
    enforce_vertex_schema_allowlist(Variants(collapse_anyof_string_enums(
        Items(Members(Members(OneLevel(s), "defs"), "properties")))))

sanitize_vertex_schema(s) ==
    enforce_vertex_schema_allowlist(collapse_anyof_string_enums(
        Variants(Items(Members(Members(OneLevel(s), "defs"), "properties")))))

\* to_vertex_tools: an empty schema is declared an object.
ToolParameters(schema) ==
    LET params == sanitize_vertex_schema(schema)
    IN  IF DOMAIN params = {} THEN With(params, "type", String("OBJECT")) ELSE params
=============================================================================
