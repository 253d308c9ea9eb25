------------------------ MODULE RuntimeConfigProofs ------------------------
(* Theorems about RuntimeConfig, for every value of its constants. *)
EXTENDS RuntimeConfig, SequenceTheorems, FiniteSetTheorems, FunctionTheorems,
        WellFoundedInduction, TLAPS

-----------------------------------------------------------------------------
(* Lines and keys *)

AllKeys == Keys \cup {"other"}

\* i is the last line of key k.
LastOf(lines, k, i) ==
    /\ i \in DOMAIN lines /\ lines[i].key = k
    /\ \A j \in DOMAIN lines : lines[j].key = k => j <= i

\* A bounded set of naturals that is not empty has a greatest element.
LEMMA Greatest ==
    ASSUME NEW n \in Nat, NEW I, I \subseteq 1..n, I # {}
    PROVE  \E m \in I : \A i \in I : i <= m
<1>. DEFINE J == {j \in Nat : n - j \in I}
<1>1. PICK i \in I : i \in 1..n
  OBVIOUS
<1>2. n - i \in Nat /\ n - (n - i) = i
  BY <1>1
<1>3. J # {} /\ J \subseteq Nat
  BY <1>1, <1>2
<1>. HIDE DEF J
<1>4. PICK j \in J : \A k \in J : <<k, j>> \notin OpToRel(<, Nat)
  BY <1>3, WFMin, NatLessThanWellFounded, Zenon
<1>5. \A k \in J : ~(k < j)
  BY <1>3, <1>4, Zenon DEF OpToRel
<1>6. ASSUME NEW k \in I PROVE k <= n - j
  <2>1. k \in 1..n /\ n - k \in Nat /\ n - (n - k) = k
    OBVIOUS
  <2>2. n - k \in J
    BY <2>1 DEF J
  <2>3. ~(n - k < j) /\ j \in Nat
    BY <1>3, <1>5, <2>2
  <2>. QED
    BY <2>1, <2>3
<1>7. n - j \in I
  BY DEF J
<1>. QED
  BY <1>6, <1>7

\* What Load reads under a key: the last line of it, or the default.
LEMMA LoadAt ==
    ASSUME NEW lines \in Seq(Line), NEW k \in AllKeys
    PROVE  \/ \E i \in DOMAIN lines :
                LastOf(lines, k, i) /\ Load(lines)[k] = Value(lines[i])
           \/ /\ \A i \in DOMAIN lines : lines[i].key # k
              /\ Load(lines)[k] = Defaults[k]
<1>. DEFINE I == {i \in 1..Len(lines) : lines[i].key = k}
            m == CHOOSE x \in I : \A y \in I : x >= y
<1>1. DOMAIN Defaults = AllKeys
  BY DEF Defaults, AllKeys, Keys
<1>2. Load(lines)[k] =
        LET i == IF I # {} THEN m ELSE 0
        IN  IF i = 0 THEN Defaults[k] ELSE Value(lines[i])
  BY <1>1 DEF Load, SelectLastInSeq, Max
<1>3. DOMAIN lines = 1..Len(lines) /\ Len(lines) \in Nat
  OBVIOUS
<1>4. CASE I = {}
  BY <1>2, <1>3, <1>4
<1>5. CASE I # {}
  <2>1. \E x \in I : \A y \in I : y <= x
    BY <1>3, <1>5, Greatest
  <2>2. m \in I /\ \A y \in I : m >= y
    BY <1>3, <2>1
  <2>. HIDE DEF m
  <2>3. m \in DOMAIN lines /\ m # 0 /\ lines[m].key = k
    BY <1>3, <2>2
  <2>4. LastOf(lines, k, m)
    BY <1>3, <2>2, <2>3 DEF LastOf
  <2>. QED
    BY <1>2, <1>5, <2>3, <2>4
<1>. QED
  BY <1>4, <1>5

\* The last line of a key is one line.
LEMMA LastUnique ==
    ASSUME NEW lines \in Seq(Line), NEW k, NEW i, NEW j,
           LastOf(lines, k, i), LastOf(lines, k, j)
    PROVE  i = j
<1>1. DOMAIN lines = 1..Len(lines) /\ Len(lines) \in Nat
  OBVIOUS
<1>2. i \in Nat /\ j \in Nat
  BY <1>1 DEF LastOf
<1>. QED
  BY <1>2 DEF LastOf

\* The keys without a line, once each.
LEMMA MissingType ==
    ASSUME NEW lines \in Seq(Line)
    PROVE  /\ Missing(lines) \in Seq(Keys)
           /\ \A k \in Keys : (\A i \in DOMAIN lines : lines[i].key # k)
                => \E i \in DOMAIN Missing(lines) : Missing(lines)[i] = k
<1>. DEFINE S == Keys \ {lines[i].key : i \in DOMAIN lines}
            n == Cardinality(S)
            f == SetToSeq(S)
<1>1. IsFiniteSet(Keys)
  <2>1. Keys = {"WEBUI_PASSWORD"} \cup {"API_USER_AGENT"} \cup {"DEBUG"}
    BY DEF Keys
  <2>. QED
    BY <2>1, FS_Singleton, FS_Union
<1>2. IsFiniteSet(S)
  BY <1>1, FS_Subset
<1>3. n \in Nat /\ ExistsBijection(1..n, S)
  BY <1>2, FS_CardinalityType
<1>4. PICK g : g \in Bijection(1..n, S)
  BY <1>3 DEF ExistsBijection
<1>5. g \in [1..n -> S] /\ \A a, b \in 1..n : g[a] = g[b] => a = b
  BY <1>4 DEF Bijection, Injection, IsInjective
<1>6. g \in [1..n -> S] /\ IsInjective(g)
  BY <1>5 DEF IsInjective
<1>7. f = CHOOSE h \in [1..n -> S] : IsInjective(h)
  BY DEF SetToSeq
<1>8. f \in [1..n -> S] /\ IsInjective(f)
  BY <1>6, <1>7
<1>. HIDE DEF f
<1>a. S \subseteq Keys
  OBVIOUS
<1>9. f \in Injection(1..n, S)
  BY <1>8, Fun_IsInj DEF IsInjective
<1>10. Cardinality(1..n) = n
  BY <1>3, FS_Interval
<1>11. f \in Surjection(1..n, S)
  BY <1>2, <1>9, <1>10, FS_Injection
<1>12. \A k \in S : \E i \in 1..n : f[i] = k
  BY <1>11 DEF Surjection
<1>13. f \in Seq(Keys) /\ DOMAIN f = 1..n
  <2>. HIDE DEF S, n
  <2>1. f \in [1..n -> Keys] /\ DOMAIN f = 1..n
    BY <1>8, <1>a
  <2>. QED
    BY <1>3, <2>1
<1>14. Missing(lines) = f
  BY DEF Missing, f
<1>. QED
  BY <1>12, <1>13, <1>14

\* The form of a request, normalised: a text for every key.
LEMMA FormType ==
    ASSUME NEW form \in Forms
    PROVE  apply_to_runtime(form) \in [Keys -> AllTexts]
<1>1. normalized_debug(form.DEBUG) \in AllTexts
  BY TextsAssumption DEF normalized_debug
<1>2. form.WEBUI_PASSWORD \in AllTexts /\ form.API_USER_AGENT \in AllTexts
  BY TextsAssumption DEF Forms
<1>3. apply_to_runtime(form) = [k \in Keys |->
         IF k = "DEBUG" THEN normalized_debug(form.DEBUG) ELSE form[k]]
  BY DEF apply_to_runtime, Forms, Keys
<1>. QED
  BY <1>1, <1>2, <1>3 DEF Keys

LEMMA LineType ==
    ASSUME NEW k \in Keys, NEW text \in AllTexts
    PROVE  /\ format_env_line(k, text) \in Line
           /\ format_env_line(k, text).key = k
           /\ Value(format_env_line(k, text)) = text \/ LooksLikeComment(text)
<1>1. NeedsQuotes(text) \in BOOLEAN
  BY DEF NeedsQuotes
<1>2. format_env_line(k, text) \in Line
  BY <1>1 DEF format_env_line, Line
<1>3. format_env_line(k, text).key = k
  BY DEF format_env_line
<1>4. Value(format_env_line(k, text)) = text \/ LooksLikeComment(text)
  BY DEF format_env_line, Value
<1>. QED
  BY <1>2, <1>3, <1>4

\* update_dotenv_file: every line of a known key now holds the text saved, each
\* known key has a line, and the other lines are where they were.
LEMMA UpdatedLines ==
    ASSUME NEW lines \in Seq(Line), NEW form \in Forms
    PROVE  LET new == apply_to_runtime(form)
               u == Updated(lines, form)
           IN  /\ u \in Seq(Line)
               /\ \A i \in DOMAIN u : u[i].key \in Keys =>
                    u[i] = format_env_line(u[i].key, new[u[i].key])
               /\ \A k \in Keys : \E i \in DOMAIN u : u[i].key = k
               /\ DOMAIN lines \subseteq DOMAIN u
               /\ \A i \in DOMAIN lines : lines[i].key \notin Keys => u[i] = lines[i]
               /\ \A i \in DOMAIN u : u[i].key \notin Keys =>
                    i \in DOMAIN lines /\ lines[i] = u[i]
<1>. DEFINE new == apply_to_runtime(form)
            fixed == [i \in DOMAIN lines |->
               IF lines[i].key \in Keys THEN format_env_line(lines[i].key, new[lines[i].key])
               ELSE lines[i]]
            keys == Missing(lines)
            more == [i \in DOMAIN keys |-> format_env_line(keys[i], new[keys[i]])]
            u == Updated(lines, form)
            n == Len(lines)
<1>1. new \in [Keys -> AllTexts] /\ keys \in Seq(Keys) /\ n \in Nat /\ DOMAIN lines = 1..n
  BY FormType, MissingType
<1>2. u = fixed \o more
  BY DEF Updated, NewLines
<1>. HIDE DEF new, keys, u
<1>3. \A k \in Keys : /\ format_env_line(k, new[k]) \in Line
                      /\ format_env_line(k, new[k]).key = k
  BY <1>1, LineType
<1>4. \A i \in 1..n : lines[i] \in Line
  BY <1>1, ElementOfSeq
<1>5. /\ \A i \in 1..n : fixed[i] \in Line /\ fixed[i].key = lines[i].key
      /\ \A i \in 1..n : lines[i].key \in Keys =>
            fixed[i] = format_env_line(lines[i].key, new[lines[i].key])
      /\ \A i \in 1..n : lines[i].key \notin Keys => fixed[i] = lines[i]
  BY <1>1, <1>3, <1>4
<1>6. fixed \in Seq(Line) /\ Len(fixed) = n
  <2>1. fixed \in [1..n -> Line]
    BY <1>1, <1>5
  <2>. QED
    BY <1>1, <2>1
<1>7. DOMAIN keys = 1..Len(keys) /\ Len(keys) \in Nat /\ \A i \in 1..Len(keys) : keys[i] \in Keys
  BY <1>1, ElementOfSeq
<1>8. /\ \A i \in 1..Len(keys) : more[i] \in Line /\ more[i].key = keys[i]
                                 /\ more[i] = format_env_line(keys[i], new[keys[i]])
  BY <1>3, <1>7
<1>9. more \in Seq(Line) /\ Len(more) = Len(keys)
  <2>1. more \in [1..Len(keys) -> Line]
    BY <1>7, <1>8
  <2>. QED
    BY <1>7, <2>1
<1>. HIDE DEF fixed, more
<1>10. /\ u \in Seq(Line) /\ Len(u) = n + Len(keys) /\ DOMAIN u = 1..(n + Len(keys))
       /\ \A i \in 1..n : u[i] = fixed[i]
       /\ \A i \in 1..(n + Len(keys)) : i > n => u[i] = more[i - n]
  <2>. HIDE DEF n
  <2>0. /\ fixed \o more \in Seq(Line) /\ Len(fixed \o more) = Len(fixed) + Len(more)
        /\ \A i \in 1..(Len(fixed) + Len(more)) : (fixed \o more)[i] =
              IF i <= Len(fixed) THEN fixed[i] ELSE more[i - Len(fixed)]
    BY <1>6, <1>9, ConcatProperties, Zenon
  <2>1. u \in Seq(Line) /\ Len(u) = n + Len(keys)
    BY <1>2, <1>6, <1>9, <2>0
  <2>2. \A i \in 1..(n + Len(keys)) : u[i] = IF i <= n THEN fixed[i] ELSE more[i - n]
    BY <1>2, <1>6, <1>9, <2>0
  <2>3. DOMAIN u = 1..(n + Len(keys))
    BY <2>1
  <2>4. \A i \in 1..n : i \in 1..(n + Len(keys)) /\ i <= n
    BY <1>1, <1>7
  <2>5. \A i \in 1..(n + Len(keys)) : i > n => ~(i <= n)
    BY <1>1, <1>7
  <2>. QED
    BY <2>1, <2>2, <2>3, <2>4, <2>5
<1>11. ASSUME NEW i \in DOMAIN u, u[i].key \in Keys
       PROVE  u[i] = format_env_line(u[i].key, new[u[i].key])
  <2>1. CASE i <= n
    <3>1. i \in 1..n
      BY <1>1, <1>10, <2>1
    <3>. QED
      BY <1>5, <1>10, <1>11, <3>1
  <2>2. CASE i > n
    <3>1. i - n \in 1..Len(keys)
      BY <1>1, <1>7, <1>10, <2>2
    <3>. QED
      BY <1>8, <1>10, <2>2, <3>1
  <2>. QED
    BY <1>1, <1>10, <2>1, <2>2
<1>12. ASSUME NEW k \in Keys PROVE \E i \in DOMAIN u : u[i].key = k
  <2>1. ASSUME NEW i \in 1..n, lines[i].key = k PROVE \E j \in DOMAIN u : u[j].key = k
    <3>1. i \in DOMAIN u /\ u[i].key = k
      BY <1>1, <1>5, <1>7, <1>10, <2>1
    <3>. QED
      BY <3>1
  <2>2. ASSUME \A i \in 1..n : lines[i].key # k
        PROVE  \E j \in DOMAIN u : u[j].key = k
    <3>1. PICK i \in 1..Len(keys) : keys[i] = k
      BY <1>1, <1>7, <2>2, MissingType DEF keys
    <3>2. n + i \in DOMAIN u /\ n + i > n /\ (n + i) - n = i
      BY <1>1, <1>7, <1>10, <3>1
    <3>3. u[n + i] = more[i]
      BY <1>10, <3>2
    <3>. QED
      BY <1>8, <3>1, <3>2, <3>3
  <2>. QED
    BY <2>1, <2>2
<1>13. \A i \in DOMAIN lines : lines[i].key \notin Keys => u[i] = lines[i]
  BY <1>1, <1>5, <1>10
<1>14. ASSUME NEW i \in DOMAIN u, u[i].key \notin Keys
       PROVE  i \in DOMAIN lines /\ lines[i] = u[i]
  <2>1. i <= n
    <3>1. SUFFICES ASSUME i > n PROVE FALSE
      BY <1>1, <1>10
    <3>2. i - n \in 1..Len(keys)
      BY <1>1, <1>7, <1>10, <3>1
    <3>. QED
      BY <1>7, <1>8, <1>10, <1>14, <3>1, <3>2
  <2>2. i \in 1..n
    BY <1>1, <1>10, <2>1
  <2>. QED
    BY <1>1, <1>5, <1>10, <1>14, <2>2
<1>15. DOMAIN lines \subseteq DOMAIN u
  BY <1>1, <1>7, <1>10
<1>. QED
  BY <1>10, <1>11, <1>12, <1>13, <1>14, <1>15 DEF u, new

\* lines load to the settings s and to other under any other key.
Kept(lines, s, other) ==
    /\ \A k \in Keys : Load(lines)[k] = s[k] \/ LooksLikeComment(s[k])
    /\ Load(lines).other = other

\* What a save writes loads to what it applies, and it loses no other line.
LEMMA LoadUpdated ==
    ASSUME NEW lines \in Seq(Line), NEW form \in Forms
    PROVE  Kept(Updated(lines, form), apply_to_runtime(form), Load(lines).other)
<1>. DEFINE new == apply_to_runtime(form)
            u == Updated(lines, form)
<1>1. /\ u \in Seq(Line)
      /\ \A i \in DOMAIN u : u[i].key \in Keys =>
           u[i] = format_env_line(u[i].key, new[u[i].key])
      /\ \A k \in Keys : \E i \in DOMAIN u : u[i].key = k
      /\ DOMAIN lines \subseteq DOMAIN u
      /\ \A i \in DOMAIN lines : lines[i].key \notin Keys => u[i] = lines[i]
      /\ \A i \in DOMAIN u : u[i].key \notin Keys =>
           i \in DOMAIN lines /\ lines[i] = u[i]
  BY UpdatedLines
<1>2. new \in [Keys -> AllTexts]
  BY FormType
<1>. HIDE DEF u, new
<1>3. ASSUME NEW k \in Keys PROVE Load(u)[k] = new[k] \/ LooksLikeComment(new[k])
  <2>1. PICK i \in DOMAIN u : LastOf(u, k, i) /\ Load(u)[k] = Value(u[i])
    BY <1>1, LoadAt DEF AllKeys
  <2>2. u[i] = format_env_line(k, new[k])
    BY <1>1, <2>1 DEF LastOf
  <2>. QED
    BY <1>2, <2>1, <2>2, LineType
<1>4. Load(u)["other"] = Load(lines)["other"]
  <2>. DEFINE o == "other"
  <2>0. o \in AllKeys /\ o \notin Keys
    BY DEF AllKeys, Keys
  <2>. HIDE DEF o
  <2>1. CASE \E i \in DOMAIN lines : LastOf(lines, o, i)
    <3>1. PICK i \in DOMAIN lines : LastOf(lines, o, i)
      BY <2>1
    <3>2. LastOf(u, o, i) /\ u[i] = lines[i]
      BY <1>1, <2>0, <3>1 DEF LastOf
    <3>3. Load(u)[o] = Value(u[i])
      BY <1>1, <2>0, <3>2, LoadAt, LastUnique DEF LastOf
    <3>4. Load(lines)[o] = Value(lines[i])
      BY <2>0, <3>1, LoadAt, LastUnique DEF LastOf
    <3>. QED
      BY <3>2, <3>3, <3>4 DEF o
  <2>2. CASE ~ \E i \in DOMAIN lines : LastOf(lines, o, i)
    <3>1. /\ \A i \in DOMAIN lines : lines[i].key # o
          /\ Load(lines)[o] = Defaults[o]
      BY <2>0, <2>2, LoadAt
    <3>2. \A i \in DOMAIN u : u[i].key # o
      BY <1>1, <2>0, <3>1
    <3>3. Load(u)[o] = Defaults[o]
      BY <1>1, <2>0, <3>2, LoadAt DEF LastOf
    <3>. QED
      BY <3>1, <3>3 DEF o
  <2>. QED
    BY <2>1, <2>2
<1>. QED
  BY <1>3, <1>4 DEF Kept, u, new

-----------------------------------------------------------------------------
(* Mappings *)

\* A mapping that is normalised and names nothing twice.
Sound(map) == Valid(map) /\ Canonical(map) = map

LEMMA CanonicalSound ==
    ASSUME NEW map, Valid(map)
    PROVE  Sound(Canonical(map))
<1>. DEFINE C == Canonical(map)
            nice(p) == <<canonical_model_id(p[1]), canonical_model_id(p[2])>>
<1>1. \A P \in C : \E p \in map : P = nice(p)
  BY DEF Canonical
<1>2. \A p \in map : nice(p) \in C
  BY DEF Canonical
<1>3. \A x : canonical_model_id(canonical_model_id(x)) = canonical_model_id(x)
             /\ canonical_model_id(x)[1] = x[1]
  BY DEF canonical_model_id
<1>4. \A P \in C : nice(P) = P
  BY <1>1, <1>3
<1>5. Canonical(C) = C
  <2>1. Canonical(C) = {nice(P) : P \in C}
    BY DEF Canonical
  <2>. HIDE DEF C, nice
  <2>. QED
    BY <1>4, <2>1
<1>6. ASSUME NEW P \in C PROVE P[1][1] # "" /\ P[2][1] # ""
  <2>1. PICK p \in map : P = nice(p)
    BY <1>1
  <2>2. P[1] = canonical_model_id(p[1]) /\ P[2] = canonical_model_id(p[2])
    BY <2>1
  <2>3. P[1][1] = p[1][1] /\ P[2][1] = p[2][1]
    BY <1>3, <2>2
  <2>. QED
    BY <2>3 DEF Valid
<1>7. ASSUME NEW P \in C, NEW Q \in C, P # Q
      PROVE  /\ canonical_model_id(P[1]) # canonical_model_id(Q[1])
             /\ canonical_model_id(P[2]) # canonical_model_id(Q[2])
  <2>1. PICK p \in map : P = nice(p)
    BY <1>1
  <2>2. PICK q \in map : Q = nice(q)
    BY <1>1
  <2>3. p # q
    BY <1>7, <2>1, <2>2
  <2>4. /\ canonical_model_id(p[1]) # canonical_model_id(q[1])
        /\ canonical_model_id(p[2]) # canonical_model_id(q[2])
    BY <2>3 DEF Valid
  <2>5. /\ P[1] = canonical_model_id(p[1]) /\ P[2] = canonical_model_id(p[2])
        /\ Q[1] = canonical_model_id(q[1]) /\ Q[2] = canonical_model_id(q[2])
    BY <2>1, <2>2
  <2>. QED
    BY <1>3, <2>4, <2>5
<1>. QED
  BY <1>5, <1>6, <1>7 DEF Sound, Valid

LEMMA EmptySound == Sound({})
  BY DEF Sound, Valid, Canonical

LEMMA LoadedSound ==
    ASSUME NEW file
    PROVE  Sound(LoadMapping(file))
  BY CanonicalSound, EmptySound DEF LoadMapping

-----------------------------------------------------------------------------
(* Types *)

Pcs == {"idle", "read_env"} \cup Saving.env \cup Saving.mapping

Request == [pc : Pcs, form : Forms \cup {<<>>},
            map : {Canonical(m) : m \in Mappings} \cup {{}}, lines : Seq(Line)]

\* A request that is saving has checked what it saves.
Checked(r) ==
    /\ r.pc \in {"read_env"} \cup Saving.env => r.form \in Forms
    /\ r.pc \in Saving.mapping => Sound(r.map)

TypeInv ==
    /\ TypeOK
    /\ handler \in [Handlers -> Request]
    /\ \A h \in Handlers : Checked(handler[h])

LEMMA IdleType == Idle \in Request /\ Idle.pc = "idle" /\ Checked(Idle)
<1>1. <<>> \in Seq(Line)
  OBVIOUS
<1>2. Idle \in Request
  BY <1>1 DEF Idle, Request, Pcs
<1>. QED
  BY <1>2 DEF Idle, Checked, Saving

LEMMA LoadedType ==
    ASSUME NEW lines \in Seq(Line)
    PROVE  Restrict(Load(lines), Keys) \in [Keys -> AllTexts]
<1>1. ASSUME NEW i \in DOMAIN lines PROVE Value(lines[i]) \in AllTexts
  <2>1. lines[i] \in Line
    BY ElementOfSeq
  <2>2. lines[i].text \in AllTexts
    BY <2>1 DEF Line
  <2>. QED
    BY <2>2, TextsAssumption DEF Value
<1>2. \A k \in Keys : Defaults[k] \in AllTexts
  <2>1. /\ Defaults["WEBUI_PASSWORD"] = "" /\ Defaults["API_USER_AGENT"] = "antigravity"
        /\ Defaults["DEBUG"] = "off"
    BY DEF Defaults
  <2>. QED
    BY <2>1, TextsAssumption DEF Keys
<1>3. \A k \in Keys : Load(lines)[k] \in AllTexts
  BY <1>1, <1>2, LoadAt DEF AllKeys
<1>. QED
  BY <1>3 DEF Restrict

LEMMA OverType ==
    ASSUME env \in Seq(Line), NEW lines \in Seq(Line)
    PROVE  Over(lines) \in Seq(Line)
<1>1. Len(lines) \in Nat /\ Len(env) \in Nat
  OBVIOUS
<1>2. \A i \in (Len(lines) + 1)..Len(env) : env[i] \in Line
  BY <1>1, ElementOfSeq
<1>3. SubSeq(env, Len(lines) + 1, Len(env)) \in Seq(Line)
  BY <1>1, <1>2, SubSeqProperties
<1>. QED
  BY <1>3, ConcatProperties DEF Over

\* The request h becomes r.
LEMMA OneRequest ==
    ASSUME handler \in [Handlers -> Request], \A g \in Handlers : Checked(handler[g]),
           NEW h \in Handlers, NEW r \in Request, Checked(r),
           handler' = [handler EXCEPT ![h] = r]
    PROVE  /\ handler' \in [Handlers -> Request]
           /\ \A g \in Handlers : Checked(handler'[g])
  OBVIOUS

\* What the steps make of the request that takes them.
Becomes(h, r) == handler' = [handler EXCEPT ![h] = r]
Moved(h, pc) == [handler[h] EXCEPT !.pc = pc]
Read(h) == [[handler[h] EXCEPT !.pc = "create_env"]
               EXCEPT !.lines = Updated(env, handler[h].form)]

LEMMA Transitions ==
    ASSUME handler \in [Handlers -> Request], NEW h \in Handlers
    PROVE  /\ \A pc : Goes(h, pc) => Becomes(h, Moved(h, pc))
           /\ \A pc \in Pcs : Moved(h, pc) \in Request
           /\ \A pc : /\ Moved(h, pc).pc = pc /\ Moved(h, pc).form = handler[h].form
                      /\ Moved(h, pc).map = handler[h].map
                      /\ Moved(h, pc).lines = handler[h].lines
           /\ ReadEnv(h) => Becomes(h, Read(h))
           /\ Read(h).pc = "create_env" /\ Read(h).form = handler[h].form
           /\ Read(h).lines = Updated(env, handler[h].form)
           /\ Updated(env, handler[h].form) \in Seq(Line) => Read(h) \in Request
<1>. DEFINE S == Seq(Line)
            F == Forms \cup {<<>>}
            M == {Canonical(m) : m \in Mappings} \cup {{}}
            new == Updated(env, handler[h].form)
<1>0. Request = [pc : Pcs, form : F, map : M, lines : S]
  BY DEF Request
<1>1. handler[h] \in Request
  OBVIOUS
<1>. HIDE DEF S, F, M
<1>2. \A pc : Goes(h, pc) => Becomes(h, Moved(h, pc))
  BY DEF Goes, Becomes, Moved
<1>3. \A pc \in Pcs : Moved(h, pc) \in Request
  BY <1>0, <1>1 DEF Moved
<1>4. \A pc : /\ Moved(h, pc).pc = pc /\ Moved(h, pc).form = handler[h].form
              /\ Moved(h, pc).map = handler[h].map
              /\ Moved(h, pc).lines = handler[h].lines
  BY <1>0, <1>1 DEF Moved
<1>5. ReadEnv(h) => Becomes(h, Read(h))
  BY DEF ReadEnv, Becomes, Read
<1>. HIDE DEF new
<1>6. Read(h) = [[handler[h] EXCEPT !.pc = "create_env"] EXCEPT !.lines = new]
  BY DEF Read, new
<1>7. Read(h).pc = "create_env" /\ Read(h).form = handler[h].form /\ Read(h).lines = new
  BY <1>0, <1>1, <1>6
<1>8. "create_env" \in Pcs
  BY DEF Pcs, Saving
<1>9. new \in S => Read(h) \in Request
  BY <1>0, <1>1, <1>6, <1>8
<1>. QED
  BY <1>2, <1>3, <1>4, <1>5, <1>7, <1>9 DEF new, S

LEMMA InitTypes == Init => TypeInv
<1>. SUFFICES ASSUME Init PROVE TypeInv
  OBVIOUS
<1>1. env \in Seq(Line)
  BY EnvFilesAssumption DEF Init
<1>2. settings \in [Keys -> AllTexts]
  BY <1>1, LoadedType DEF Init
<1>3. Sound(mapping) /\ Len(mapping_file) = 0
  BY EmptySound DEF Init
<1>4. handler \in [Handlers -> Request] /\ \A h \in Handlers : Checked(handler[h])
  BY IdleType DEF Init
<1>. QED
  BY <1>1, <1>2, <1>3, <1>4, BoundsAssumption DEF Init, TypeInv, TypeOK, Sound

\* The steps that change settings.
LEMMA SettingsTypes ==
    ASSUME TypeInv, NEW h \in Handlers,
           \/ \E form \in Forms : PostSettings(h, form)
           \/ ReadEnv(h) \/ CreateEnv(h) \/ WriteEnv(h) \/ ApplySettings(h)
    PROVE  TypeInv'
<1>. USE DEF TypeInv
<1>a. /\ TypeOK /\ handler \in [Handlers -> Request] /\ handler[h] \in Request
      /\ \A g \in Handlers : Checked(handler[g])
  OBVIOUS
<1>b. handler[h].lines \in Seq(Line)
  BY <1>a DEF Request
<1>1. ASSUME NEW form \in Forms, PostSettings(h, form) PROVE TypeInv'
  <2>. DEFINE r == [Idle EXCEPT !.pc = "read_env", !.form = form]
  <2>1. r \in Request
    BY IdleType DEF Idle, Request, Pcs
  <2>2. Checked(r)
    BY DEF Checked, Idle, Saving
  <2>3. handler' = [handler EXCEPT ![h] = r]
    BY <1>1 DEF PostSettings
  <2>. HIDE DEF r
  <2>4. handler' \in [Handlers -> Request] /\ \A g \in Handlers : Checked(handler'[g])
    BY <1>a, <2>1, <2>2, <2>3, OneRequest
  <2>5. saves' \in 0..MaxSaves
    <3>1. saves \in 0..MaxSaves /\ saves < MaxSaves /\ saves' = saves + 1
      BY <1>1, <1>a DEF PostSettings, TypeOK
    <3>. QED
      BY <3>1, BoundsAssumption
  <2>. QED
    BY <1>1, <1>a, <2>4, <2>5 DEF PostSettings, TypeOK
<1>2. CASE ReadEnv(h)
  <2>1. handler[h].form \in Forms
    BY <1>2, <1>a DEF ReadEnv, Checked
  <2>2. Updated(env, handler[h].form) \in Seq(Line)
    BY <1>a, <2>1, UpdatedLines DEF TypeOK
  <2>3. Becomes(h, Read(h)) /\ Read(h) \in Request /\ Checked(Read(h))
    BY <1>2, <1>a, <2>1, <2>2, Transitions DEF Checked, Saving
  <2>4. handler' \in [Handlers -> Request] /\ \A g \in Handlers : Checked(handler'[g])
    BY <1>a, <2>3, OneRequest DEF Becomes
  <2>. QED
    BY <1>2, <1>a, <2>4 DEF ReadEnv, TypeOK, Harming, Saving
<1>3. ASSUME CreateEnv(h) \/ WriteEnv(h) PROVE TypeInv'
  <2>1. PICK pc \in {"write_env", "apply_settings"} : Goes(h, pc)
    BY <1>3 DEF CreateEnv, WriteEnv
  <2>2. handler[h].form \in Forms
    BY <1>3, <1>a DEF CreateEnv, WriteEnv, Checked, Saving
  <2>3. pc \in Pcs
    BY <2>1 DEF Pcs, Saving
  <2>4. Becomes(h, Moved(h, pc)) /\ Moved(h, pc) \in Request /\ Checked(Moved(h, pc))
    BY <1>a, <2>1, <2>2, <2>3, Transitions DEF Checked, Saving
  <2>5. handler' \in [Handlers -> Request] /\ \A g \in Handlers : Checked(handler'[g])
    BY <1>a, <2>4, OneRequest DEF Becomes
  <2>6. env' \in Seq(Line)
    <3>1. <<>> \in Seq(Line) /\ Over(handler[h].lines) \in Seq(Line)
      BY <1>a, <1>b, OverType DEF TypeOK
    <3>. QED
      BY <1>3, <3>1 DEF CreateEnv, WriteEnv
  <2>7. UNCHANGED <<settings, mapping, mapping_file, harm, faults, saves>>
    BY <1>3 DEF CreateEnv, WriteEnv
  <2>. QED
    BY <1>a, <2>5, <2>6, <2>7 DEF TypeOK
<1>4. CASE ApplySettings(h)
  <2>1. handler[h].form \in Forms
    BY <1>4, <1>a DEF ApplySettings, Checked, Saving
  <2>2. settings' \in [Keys -> AllTexts]
    BY <1>4, <2>1, FormType DEF ApplySettings
  <2>3. handler' \in [Handlers -> Request] /\ \A g \in Handlers : Checked(handler'[g])
    BY <1>4, <1>a, IdleType, OneRequest DEF ApplySettings
  <2>. QED
    BY <1>4, <1>a, <2>2, <2>3 DEF ApplySettings, TypeOK
<1>. QED
  BY <1>1, <1>2, <1>3, <1>4

\* The steps that change the mapping.
LEMMA MappingTypes ==
    ASSUME TypeInv, NEW h \in Handlers,
           \/ \E map \in Mappings : PostMapping(h, map)
           \/ CreateMapping(h) \/ WriteMapping(h) \/ ApplyMapping(h)
    PROVE  TypeInv'
<1>. USE DEF TypeInv
<1>a. /\ TypeOK /\ handler \in [Handlers -> Request] /\ handler[h] \in Request
      /\ \A g \in Handlers : Checked(handler[g])
  OBVIOUS
<1>1. ASSUME NEW map \in Mappings, PostMapping(h, map) PROVE TypeInv'
  <2>. DEFINE c == Canonical(map)
              r == [Idle EXCEPT !.pc = "create_mapping", !.map = c]
  <2>1. Sound(c) /\ c \in {Canonical(m) : m \in Mappings}
    BY <1>1, CanonicalSound DEF PostMapping
  <2>3. handler' = [handler EXCEPT ![h] = r]
    BY <1>1 DEF PostMapping
  <2>. HIDE DEF c
  <2>2. r \in Request /\ Checked(r)
    <3>. DEFINE M == {Canonical(m) : m \in Mappings} \cup {{}}
                S == Seq(Line)
                i == [Idle EXCEPT !.pc = "create_mapping"]
    <3>0. Request = [pc : Pcs, form : Forms \cup {<<>>}, map : M, lines : S] /\ c \in M
      BY <2>1 DEF Request
    <3>. HIDE DEF M, S
    <3>1. "create_mapping" \in Pcs /\ "create_mapping" \notin {"read_env"} \cup Saving.env
      BY DEF Pcs, Saving
    <3>2. i \in Request /\ i.pc = "create_mapping"
      BY <3>0, <3>1, IdleType
    <3>3. r = [i EXCEPT !.map = c]
      BY DEF r
    <3>. HIDE DEF i, r
    <3>4. r \in Request /\ r.pc = "create_mapping" /\ r.map = c
      BY <3>0, <3>2, <3>3
    <3>. QED
      BY <2>1, <3>1, <3>4 DEF Checked
  <2>. HIDE DEF r
  <2>4. handler' \in [Handlers -> Request] /\ \A g \in Handlers : Checked(handler'[g])
    BY <1>a, <2>2, <2>3, OneRequest
  <2>5. saves' \in 0..MaxSaves
    <3>1. saves \in 0..MaxSaves /\ saves < MaxSaves /\ saves' = saves + 1
      BY <1>1, <1>a DEF PostMapping, TypeOK
    <3>. QED
      BY <3>1, BoundsAssumption
  <2>. QED
    BY <1>1, <1>a, <2>4, <2>5 DEF PostMapping, TypeOK, Harming, Saving
<1>2. ASSUME CreateMapping(h) \/ WriteMapping(h) PROVE TypeInv'
  <2>1. PICK pc \in {"write_mapping", "apply_mapping"} : Goes(h, pc)
    BY <1>2 DEF CreateMapping, WriteMapping
  <2>2. Sound(handler[h].map)
    BY <1>2, <1>a DEF CreateMapping, WriteMapping, Checked, Saving
  <2>3. pc \in Pcs
    BY <2>1 DEF Pcs, Saving
  <2>4. Becomes(h, Moved(h, pc)) /\ Moved(h, pc) \in Request /\ Checked(Moved(h, pc))
    BY <1>a, <2>1, <2>2, <2>3, Transitions DEF Checked, Saving
  <2>5. handler' \in [Handlers -> Request] /\ \A g \in Handlers : Checked(handler'[g])
    BY <1>a, <2>4, OneRequest DEF Becomes
  <2>6. Len(mapping_file') \in {0, 1}
    BY <1>2 DEF CreateMapping, WriteMapping
  <2>7. UNCHANGED <<settings, mapping, env, harm, faults, saves>>
    BY <1>2 DEF CreateMapping, WriteMapping
  <2>. QED
    BY <1>a, <2>5, <2>6, <2>7 DEF TypeOK
<1>3. CASE ApplyMapping(h)
  <2>1. Sound(mapping')
    BY <1>3, <1>a DEF ApplyMapping, Checked, Saving
  <2>2. handler' \in [Handlers -> Request] /\ \A g \in Handlers : Checked(handler'[g])
    BY <1>3, <1>a, IdleType, OneRequest DEF ApplyMapping
  <2>. QED
    BY <1>3, <1>a, <2>1, <2>2 DEF ApplyMapping, TypeOK, Sound
<1>. QED
  BY <1>1, <1>2, <1>3

LEMMA FaultTypes ==
    ASSUME TypeInv, Restart \/ \E h \in Handlers : WriteFails(h)
    PROVE  TypeInv'
<1>. USE DEF TypeInv
<1>a. /\ TypeOK /\ handler \in [Handlers -> Request] /\ \A g \in Handlers : Checked(handler[g])
  OBVIOUS
<1>1. ASSUME NEW h \in Handlers, WriteFails(h) PROVE TypeInv'
  <2>1. handler' \in [Handlers -> Request] /\ \A g \in Handlers : Checked(handler'[g])
    BY <1>1, <1>a, IdleType, OneRequest DEF WriteFails
  <2>2. handler[h].lines \in Seq(Line)
    BY <1>a DEF Request
  <2>3. ASSUME NEW n \in 0..Len(handler[h].lines) - 1
        PROVE  Over(SubSeq(handler[h].lines, 1, n)) \in Seq(Line)
    <3>1. \A i \in 1..n : handler[h].lines[i] \in Line
      BY <2>2, ElementOfSeq
    <3>2. SubSeq(handler[h].lines, 1, n) \in Seq(Line)
      BY <2>2, <3>1, SubSeqProperties
    <3>. QED
      BY <1>a, <3>2, OverType DEF TypeOK
  <2>4. env' \in Seq(Line) /\ mapping_file' = mapping_file
    BY <1>1, <1>a, <2>3 DEF WriteFails, TypeOK
  <2>5. harm' \subseteq DOMAIN Saving
    BY <1>1, <1>a DEF WriteFails, TypeOK, Saving
  <2>6. faults' \in 0..MaxFaults /\ UNCHANGED <<settings, mapping, saves>>
    BY <1>1, <1>a, BoundsAssumption DEF WriteFails, TypeOK
  <2>. QED
    BY <1>a, <2>1, <2>4, <2>5, <2>6 DEF TypeOK
<1>2. CASE Restart
  <2>1. settings' \in [Keys -> AllTexts] /\ Sound(mapping')
    BY <1>2, <1>a, LoadedType, LoadedSound DEF Restart, TypeOK
  <2>2. handler' \in [Handlers -> Request] /\ \A g \in Handlers : Checked(handler'[g])
    BY <1>2, IdleType DEF Restart
  <2>3. harm' \subseteq DOMAIN Saving /\ faults' \in 0..MaxFaults
    BY <1>2, <1>a, BoundsAssumption DEF Restart, TypeOK, Harming, Saving
  <2>. QED
    BY <1>2, <1>a, <2>1, <2>2, <2>3 DEF Restart, TypeOK, Sound
<1>. QED
  BY <1>1, <1>2

LEMMA TypesInductive == TypeInv /\ [Next]_vars => TypeInv'
<1>. SUFFICES ASSUME TypeInv, [Next]_vars PROVE TypeInv'
  OBVIOUS
<1>1. CASE UNCHANGED vars
  BY <1>1 DEF vars, TypeInv, TypeOK
<1>2. CASE Next
  BY <1>2, SettingsTypes, MappingTypes, FaultTypes DEF Next, Step
<1>. QED
  BY <1>1, <1>2

-----------------------------------------------------------------------------
(* What runs is what the files hold *)

\* Between the first and the last access of a save of .env, as long as no other
\* save of it overlapped: the one request that saves has computed lines that
\* load to what it will apply; it alone has emptied the file; and whenever the
\* file is not empty it still says of the other keys what it said at first.
EnvInv == "env" \notin harm =>
    /\ \A g, h \in Handlers :
         handler[g].pc \in Saving.env /\ handler[h].pc \in Saving.env => g = h
    /\ \A h \in Handlers :
         /\ handler[h].pc \in Saving.env =>
              Kept(handler[h].lines, apply_to_runtime(handler[h].form), others)
         /\ handler[h].pc = "write_env" => env = <<>>
         /\ handler[h].pc = "apply_settings" => env = handler[h].lines
    /\ (\A h \in Handlers : handler[h].pc # "write_env") => Load(env).other = others
    /\ Quiet("env") => Kept(env, settings, others)

\* The same of the mapping file.
MappingInv == "mapping" \notin harm =>
    /\ \A g, h \in Handlers :
         handler[g].pc \in Saving.mapping /\ handler[h].pc \in Saving.mapping => g = h
    /\ \A h \in Handlers :
         handler[h].pc = "apply_mapping" => mapping_file = <<handler[h].map>>
    /\ Quiet("mapping") => LoadMapping(mapping_file) = mapping

\* Only the request h moves.
Alone(h) == \A g \in Handlers \ {h} : handler'[g] = handler[g]

LEMMA Lonely ==
    ASSUME handler \in [Handlers -> Request], NEW h \in Handlers, NEW r, Becomes(h, r)
    PROVE  Alone(h) /\ handler'[h] = r
  BY DEF Becomes, Alone

\* A step outside the saves of .env keeps what is known of it.
LEMMA EnvAside ==
    ASSUME EnvInv, NEW h \in Handlers, Alone(h),
           handler[h].pc \notin Saving.env, handler'[h].pc \notin Saving.env,
           UNCHANGED <<env, settings, others>>, harm \subseteq harm'
    PROVE  EnvInv'
<1>. SUFFICES ASSUME "env" \notin harm' PROVE EnvInv'
  BY DEF EnvInv
<1>1. "env" \notin harm
  OBVIOUS
<1>2. ASSUME NEW g \in Handlers
      PROVE  (handler'[g].pc \in Saving.env \/ handler[g].pc \in Saving.env) =>
                handler'[g] = handler[g]
  BY DEF Alone
<1>3. {"write_env", "apply_settings"} \subseteq Saving.env
  BY DEF Saving
<1>4. Quiet("env")' => Quiet("env")
  BY <1>2 DEF Quiet, Saving
<1>5. (\A g \in Handlers : handler'[g].pc # "write_env") =>
         \A g \in Handlers : handler[g].pc # "write_env"
  BY <1>2, <1>3
<1>6. Kept(env, settings, others) => Kept(env', settings', others')
  OBVIOUS
<1>7. ASSUME NEW g \in Handlers, handler'[g].pc \in Saving.env
      PROVE  /\ handler[g].pc \in Saving.env
             /\ Kept(handler'[g].lines, apply_to_runtime(handler'[g].form), others')
             /\ handler'[g].pc = "write_env" => env' = <<>>
             /\ handler'[g].pc = "apply_settings" => env' = handler'[g].lines
  BY <1>1, <1>2, <1>7 DEF EnvInv
<1>8. \A g \in Handlers :
         /\ handler'[g].pc \in Saving.env =>
              Kept(handler'[g].lines, apply_to_runtime(handler'[g].form), others')
         /\ handler'[g].pc = "write_env" => env' = <<>>
         /\ handler'[g].pc = "apply_settings" => env' = handler'[g].lines
  BY <1>3, <1>7
<1>9. \A g1, g2 \in Handlers :
         handler'[g1].pc \in Saving.env /\ handler'[g2].pc \in Saving.env => g1 = g2
  BY <1>1, <1>7 DEF EnvInv
<1>. QED
  BY <1>1, <1>4, <1>5, <1>6, <1>8, <1>9 DEF EnvInv

LEMMA MappingAside ==
    ASSUME MappingInv, NEW h \in Handlers, Alone(h),
           handler[h].pc \notin Saving.mapping, handler'[h].pc \notin Saving.mapping,
           UNCHANGED <<mapping_file, mapping>>, harm \subseteq harm'
    PROVE  MappingInv'
<1>1. ASSUME NEW g \in Handlers
      PROVE  (handler'[g].pc \in Saving.mapping \/ handler[g].pc \in Saving.mapping) =>
                handler'[g] = handler[g]
  BY DEF Alone
<1>2. "apply_mapping" \in Saving.mapping
  BY DEF Saving
<1>3. Quiet("mapping")' => Quiet("mapping")
  BY <1>1 DEF Quiet, Saving
<1>. QED
  BY <1>1, <1>2, <1>3 DEF MappingInv

\* A failed write puts its file among the harmed ones.
LEMMA HarmedEnv ==
    ASSUME "env" \in harm'
    PROVE  EnvInv'
  BY DEF EnvInv

LEMMA HarmedMapping ==
    ASSUME "mapping" \in harm'
    PROVE  MappingInv'
  BY DEF MappingInv

\* Where the steps of the two kinds of request take place.
LEMMA Places ==
    /\ Saving.env = {"create_env", "write_env", "apply_settings"}
    /\ Saving.mapping = {"create_mapping", "write_mapping", "apply_mapping"}
  BY DEF Saving

LEMMA EnvSteps ==
    ASSUME TypeInv, EnvInv, MappingInv, NEW h \in Handlers,
           \/ \E form \in Forms : PostSettings(h, form)
           \/ ReadEnv(h) \/ CreateEnv(h) \/ WriteEnv(h) \/ ApplySettings(h)
    PROVE  EnvInv' /\ MappingInv'
<1>. DEFINE r == handler[h]
<1>a. /\ TypeOK /\ handler \in [Handlers -> Request] /\ r \in Request
      /\ \A g \in Handlers : Checked(handler[g])
  BY DEF TypeInv
<1>b. r.lines \in Seq(Line) /\ env \in Seq(Line)
  BY <1>a DEF Request, TypeOK
<1>1. ASSUME NEW form \in Forms, PostSettings(h, form) PROVE EnvInv' /\ MappingInv'
  <2>. DEFINE s == [Idle EXCEPT !.pc = "read_env", !.form = form]
  <2>1. s.pc = "read_env"
    BY DEF Idle
  <2>2. Becomes(h, s) /\ r.pc = "idle"
        /\ UNCHANGED <<env, settings, others, mapping_file, mapping, harm>>
    BY <1>1 DEF PostSettings, Becomes
  <2>. HIDE DEF s
  <2>3. Alone(h) /\ handler'[h].pc = "read_env"
    BY <1>a, <2>1, <2>2, Lonely
  <2>. QED
    BY <2>2, <2>3, EnvAside, MappingAside, Places
<1>2. CASE ReadEnv(h)
  <2>1. /\ r.pc = "read_env" /\ Becomes(h, Read(h)) /\ r.form \in Forms
        /\ UNCHANGED <<env, settings, others, mapping_file, mapping>>
        /\ harm' = IF Overlaps(h, "env") THEN harm \cup {"env"} ELSE harm
    BY <1>2, <1>a, Transitions DEF ReadEnv, Checked, Harming
  <2>2. /\ Alone(h) /\ handler'[h].pc = "create_env"
        /\ handler'[h].lines = Updated(env, r.form) /\ handler'[h].form = r.form
    BY <1>a, <2>1, Lonely, Transitions
  <2>3. MappingInv'
    BY <2>1, <2>2, MappingAside, Places
  <2>4. ASSUME "env" \notin harm' PROVE EnvInv'
    <3>1. "env" \notin harm /\ \A g \in Handlers \ {h} : handler[g].pc \notin Saving.env
      BY <2>1, <2>4 DEF Overlaps, Saving
    <3>2. \A g \in Handlers : handler[g].pc # "write_env"
      BY <2>1, <3>1, Places
    <3>3. Load(env).other = others
      BY <3>1, <3>2 DEF EnvInv
    <3>4. Kept(Updated(env, r.form), apply_to_runtime(r.form), others)
      BY <1>b, <2>1, <3>3, LoadUpdated
    <3>5. \A g \in Handlers : handler'[g].pc \in Saving.env => g = h
      BY <2>2, <3>1 DEF Alone
    <3>6. Kept(handler'[h].lines, apply_to_runtime(handler'[h].form), others')
      BY <2>1, <2>2, <3>4
    <3>7. ~Quiet("env")'
      BY <2>2 DEF Quiet, Saving
    <3>8. \A g \in Handlers :
             handler'[g].pc # "write_env" /\ handler'[g].pc # "apply_settings"
      BY <2>2, <3>5, Places
    <3>. QED
      BY <2>1, <3>3, <3>5, <3>6, <3>7, <3>8 DEF EnvInv
  <2>. QED
    BY <2>3, <2>4, HarmedEnv
<1>3. CASE CreateEnv(h)
  <2>1. /\ r.pc = "create_env" /\ Becomes(h, Moved(h, "write_env")) /\ env' = <<>>
        /\ UNCHANGED <<settings, others, mapping_file, mapping, harm>>
    BY <1>3, <1>a, Transitions DEF CreateEnv
  <2>2. /\ Alone(h) /\ handler'[h].pc = "write_env"
        /\ handler'[h].lines = r.lines /\ handler'[h].form = r.form
    BY <1>a, <2>1, Lonely, Transitions
  <2>3. MappingInv'
    BY <2>1, <2>2, MappingAside, Places
  <2>4. ASSUME "env" \notin harm' PROVE EnvInv'
    <3>1. \A g \in Handlers \ {h} : handler[g].pc \notin Saving.env
      BY <2>1, <2>4, Places DEF EnvInv
    <3>2. \A g \in Handlers : handler'[g].pc \in Saving.env => g = h
      BY <2>2, <3>1 DEF Alone
    <3>3. Kept(r.lines, apply_to_runtime(r.form), others)
      BY <2>1, <2>4, Places DEF EnvInv
    <3>4. Kept(handler'[h].lines, apply_to_runtime(handler'[h].form), others')
      BY <2>1, <2>2, <3>3
    <3>5. ~Quiet("env")'
      BY <2>2 DEF Quiet, Saving
    <3>6. \A g \in Handlers : handler'[g].pc # "apply_settings"
      BY <2>2, <3>2, Places
    <3>. QED
      BY <2>1, <2>2, <3>2, <3>4, <3>5, <3>6 DEF EnvInv
  <2>. QED
    BY <2>3, <2>4, HarmedEnv
<1>4. CASE WriteEnv(h)
  <2>1. /\ r.pc = "write_env" /\ Becomes(h, Moved(h, "apply_settings"))
        /\ env' = Over(r.lines)
        /\ UNCHANGED <<settings, others, mapping_file, mapping, harm>>
    BY <1>4, <1>a, Transitions DEF WriteEnv
  <2>2. /\ Alone(h) /\ handler'[h].pc = "apply_settings"
        /\ handler'[h].lines = r.lines /\ handler'[h].form = r.form
    BY <1>a, <2>1, Lonely, Transitions
  <2>3. MappingInv'
    BY <2>1, <2>2, MappingAside, Places
  <2>4. ASSUME "env" \notin harm' PROVE EnvInv'
    <3>1. \A g \in Handlers \ {h} : handler[g].pc \notin Saving.env
      BY <2>1, <2>4, Places DEF EnvInv
    <3>2. \A g \in Handlers : handler'[g].pc \in Saving.env => g = h
      BY <2>2, <3>1 DEF Alone
    <3>3. Kept(r.lines, apply_to_runtime(r.form), others) /\ env = <<>>
      BY <2>1, <2>4, Places DEF EnvInv
    <3>4. env' = r.lines
      <4>1. SubSeq(env, Len(r.lines) + 1, Len(env)) = <<>>
        <5>1. Len(env) = 0 /\ Len(r.lines) \in Nat
          BY <1>b, <3>3
        <5>. QED
          BY <5>1, SubSeqEmpty
      <4>. QED
        BY <1>b, <2>1, <4>1, ConcatEmptySeq DEF Over
    <3>5. Kept(handler'[h].lines, apply_to_runtime(handler'[h].form), others')
      BY <2>1, <2>2, <3>3
    <3>6. ~Quiet("env")'
      BY <2>2 DEF Quiet, Saving
    <3>7. \A g \in Handlers : handler'[g].pc # "write_env"
      BY <2>2, <3>2, Places
    <3>8. Load(env').other = others'
      BY <2>1, <3>3, <3>4 DEF Kept
    <3>9. \A g \in Handlers : handler'[g].pc = "apply_settings" => env' = handler'[g].lines
      BY <2>2, <3>2, <3>4, Places
    <3>. QED
      BY <3>2, <3>5, <3>6, <3>7, <3>8, <3>9 DEF EnvInv
  <2>. QED
    BY <2>3, <2>4, HarmedEnv
<1>5. CASE ApplySettings(h)
  <2>1. /\ r.pc = "apply_settings" /\ Becomes(h, Idle)
        /\ settings' = apply_to_runtime(r.form)
        /\ UNCHANGED <<env, others, mapping_file, mapping, harm>>
    BY <1>5 DEF ApplySettings, Becomes
  <2>2. Alone(h) /\ handler'[h].pc = "idle"
    BY <1>a, <2>1, Lonely, IdleType
  <2>3. MappingInv'
    BY <2>1, <2>2, MappingAside, Places
  <2>4. ASSUME "env" \notin harm' PROVE EnvInv'
    <3>1. \A g \in Handlers \ {h} : handler[g].pc \notin Saving.env
      BY <2>1, <2>4, Places DEF EnvInv
    <3>2. \A g \in Handlers : handler'[g].pc \notin Saving.env
      BY <2>2, <3>1, Places DEF Alone
    <3>3. Kept(r.lines, apply_to_runtime(r.form), others) /\ env = r.lines
      BY <2>1, <2>4, Places DEF EnvInv
    <3>4. Kept(env', settings', others')
      BY <2>1, <3>3
    <3>5. Load(env').other = others'
      BY <3>4 DEF Kept
    <3>. QED
      BY <3>2, <3>4, <3>5, Places DEF EnvInv
  <2>. QED
    BY <2>3, <2>4, HarmedEnv
<1>. QED
  BY <1>1, <1>2, <1>3, <1>4, <1>5

LEMMA MappingSteps ==
    ASSUME TypeInv, EnvInv, MappingInv, NEW h \in Handlers,
           \/ \E map \in Mappings : PostMapping(h, map)
           \/ CreateMapping(h) \/ WriteMapping(h) \/ ApplyMapping(h)
    PROVE  EnvInv' /\ MappingInv'
<1>. DEFINE r == handler[h]
<1>a. /\ TypeOK /\ handler \in [Handlers -> Request] /\ r \in Request
      /\ \A g \in Handlers : Checked(handler[g])
  BY DEF TypeInv
<1>1. ASSUME NEW map \in Mappings, PostMapping(h, map) PROVE EnvInv' /\ MappingInv'
  <2>. DEFINE s == [Idle EXCEPT !.pc = "create_mapping", !.map = Canonical(map)]
  <2>1. s.pc = "create_mapping"
    BY DEF Idle
  <2>2. /\ Becomes(h, s) /\ r.pc = "idle"
        /\ UNCHANGED <<env, settings, others, mapping_file, mapping>>
        /\ harm' = IF Overlaps(h, "mapping") THEN harm \cup {"mapping"} ELSE harm
    BY <1>1 DEF PostMapping, Becomes, Harming
  <2>. HIDE DEF s
  <2>3. Alone(h) /\ handler'[h].pc = "create_mapping"
    BY <1>a, <2>1, <2>2, Lonely
  <2>4. EnvInv'
    BY <2>2, <2>3, EnvAside, Places
  <2>5. ASSUME "mapping" \notin harm' PROVE MappingInv'
    <3>1. \A g \in Handlers \ {h} : handler[g].pc \notin Saving.mapping
      BY <2>2, <2>5 DEF Overlaps, Saving
    <3>2. \A g \in Handlers : handler'[g].pc \in Saving.mapping => g = h
      BY <2>3, <3>1 DEF Alone
    <3>3. ~Quiet("mapping")'
      BY <2>3 DEF Quiet, Saving
    <3>4. \A g \in Handlers : handler'[g].pc # "apply_mapping"
      BY <2>3, <3>2, Places
    <3>. QED
      BY <3>2, <3>3, <3>4 DEF MappingInv
  <2>. QED
    BY <2>4, <2>5, HarmedMapping
<1>2. CASE CreateMapping(h) \/ WriteMapping(h)
  <2>1. PICK pc \in {"write_mapping", "apply_mapping"} :
           /\ Becomes(h, Moved(h, pc))
           /\ pc = "apply_mapping" => mapping_file' = <<r.map>>
    BY <1>2, <1>a, Transitions DEF CreateMapping, WriteMapping
  <2>2. /\ r.pc \in Saving.mapping
        /\ UNCHANGED <<env, settings, others, mapping, harm>>
    BY <1>2, Places DEF CreateMapping, WriteMapping
  <2>3. Alone(h) /\ handler'[h].pc = pc /\ handler'[h].map = r.map
    BY <1>a, <2>1, Lonely, Transitions
  <2>4. EnvInv'
    BY <2>1, <2>2, <2>3, EnvAside, Places
  <2>5. ASSUME "mapping" \notin harm' PROVE MappingInv'
    <3>1. \A g \in Handlers \ {h} : handler[g].pc \notin Saving.mapping
      BY <2>2, <2>5 DEF MappingInv
    <3>2. \A g \in Handlers : handler'[g].pc \in Saving.mapping => g = h
      BY <2>3, <3>1 DEF Alone
    <3>3. ~Quiet("mapping")'
      BY <2>1, <2>3 DEF Quiet, Saving
    <3>4. \A g \in Handlers :
             handler'[g].pc = "apply_mapping" => mapping_file' = <<handler'[g].map>>
      BY <2>1, <2>3, <3>2, Places
    <3>. QED
      BY <3>2, <3>3, <3>4 DEF MappingInv
  <2>. QED
    BY <2>4, <2>5, HarmedMapping
<1>3. CASE ApplyMapping(h)
  <2>1. /\ r.pc = "apply_mapping" /\ Becomes(h, Idle) /\ mapping' = r.map
        /\ UNCHANGED <<env, settings, others, mapping_file, harm>>
    BY <1>3 DEF ApplyMapping, Becomes
  <2>2. Alone(h) /\ handler'[h].pc = "idle"
    BY <1>a, <2>1, Lonely, IdleType
  <2>3. EnvInv'
    BY <2>1, <2>2, EnvAside, Places
  <2>4. ASSUME "mapping" \notin harm' PROVE MappingInv'
    <3>1. \A g \in Handlers \ {h} : handler[g].pc \notin Saving.mapping
      BY <2>1, <2>4, Places DEF MappingInv
    <3>2. \A g \in Handlers : handler'[g].pc \notin Saving.mapping
      BY <2>2, <3>1, Places DEF Alone
    <3>3. mapping_file = <<r.map>> /\ Sound(r.map)
      BY <1>a, <2>1, <2>4, Places DEF MappingInv, Checked
    <3>4. LoadMapping(mapping_file') = mapping'
      BY <2>1, <3>3 DEF LoadMapping, Sound
    <3>. QED
      BY <3>2, <3>4, Places DEF MappingInv
  <2>. QED
    BY <2>3, <2>4, HarmedMapping
<1>. QED
  BY <1>1, <1>2, <1>3

LEMMA FaultSteps ==
    ASSUME TypeInv, EnvInv, MappingInv, Restart \/ \E h \in Handlers : WriteFails(h)
    PROVE  EnvInv' /\ MappingInv'
<1>1. ASSUME NEW h \in Handlers, WriteFails(h) PROVE EnvInv' /\ MappingInv'
  <2>1. Alone(h) /\ handler'[h].pc = "idle"
    BY <1>1, Lonely, IdleType DEF TypeInv, WriteFails, Becomes
  <2>2. CASE handler[h].pc = "write_env"
    <3>1. harm' = harm \cup {"env"} /\ UNCHANGED <<mapping_file, mapping>>
      BY <1>1, <2>2 DEF WriteFails
    <3>. QED
      BY <2>1, <2>2, <3>1, HarmedEnv, MappingAside, Places
  <2>3. CASE handler[h].pc = "write_mapping"
    <3>1. harm' = harm \cup {"mapping"} /\ UNCHANGED <<env, settings, others>>
      BY <1>1, <2>3 DEF WriteFails
    <3>. QED
      BY <2>1, <2>3, <3>1, HarmedMapping, EnvAside, Places
  <2>. QED
    BY <1>1, <2>2, <2>3 DEF WriteFails
<1>2. CASE Restart
  <2>1. /\ \A h \in Handlers : handler'[h].pc = "idle"
        /\ settings' = Restrict(Load(env), Keys) /\ mapping' = LoadMapping(mapping_file)
        /\ UNCHANGED <<env, mapping_file, others>>
        /\ harm' = IF \E h \in Handlers : handler[h].pc = "write_env"
                   THEN harm \cup {"env"} ELSE harm
    BY <1>2, IdleType DEF Restart, Harming
  <2>2. MappingInv'
    BY <2>1, Places DEF MappingInv
  <2>3. ASSUME "env" \notin harm' PROVE EnvInv'
    <3>1. Load(env).other = others
      BY <2>1, <2>3 DEF EnvInv
    <3>2. Kept(env', settings', others')
      BY <2>1, <3>1 DEF Kept, Restrict
    <3>. QED
      BY <2>1, <3>1, <3>2, Places DEF EnvInv
  <2>. QED
    BY <2>2, <2>3, HarmedEnv
<1>. QED
  BY <1>1, <1>2

IInv == TypeInv /\ EnvInv /\ MappingInv

LEMMA InitIInv == Init => IInv
<1>. SUFFICES ASSUME Init PROVE IInv
  OBVIOUS
<1>1. \A h \in Handlers : handler[h].pc = "idle"
  BY IdleType DEF Init
<1>2. Kept(env, settings, others)
  BY DEF Init, Kept, Restrict
<1>3. LoadMapping(mapping_file) = mapping
  BY DEF Init, LoadMapping
<1>. QED
  BY <1>1, <1>2, <1>3, InitTypes, Places DEF IInv, EnvInv, MappingInv, Kept

LEMMA Inductive == IInv /\ [Next]_vars => IInv'
<1>. SUFFICES ASSUME IInv, [Next]_vars PROVE IInv'
  OBVIOUS
<1>1. TypeInv'
  BY TypesInductive DEF IInv
<1>2. CASE UNCHANGED vars
  BY <1>1, <1>2 DEF vars, IInv, EnvInv, MappingInv, Quiet, Kept
<1>3. CASE Next
  BY <1>1, <1>3, EnvSteps, MappingSteps, FaultSteps DEF Next, Step, IInv
<1>. QED
  BY <1>2, <1>3

\* For any number of concurrent requests, any first .env and any faults.
THEOREM Invariance == Spec => []IInv
  BY InitIInv, Inductive, PTL DEF Spec

\* The settings in use are a text for every key, and the mapping in use is
\* normalised and names no model twice, whatever a request, a damaged file or a
\* restart brings.
THEOREM TypeCorrect == Spec => []TypeOK
<1>1. IInv => TypeOK
  BY DEF IInv, TypeInv
<1>. QED
  BY <1>1, Invariance, PTL

\* After every save of .env or of the mapping the file loads to what is in use,
\* and .env keeps the lines of keys the WebUI does not know, unless two saves of
\* the file overlapped or one was cut short.
THEOREM SavesLast == Spec => []SavedLasts
<1>1. IInv => SavedLasts
  BY DEF IInv, EnvInv, MappingInv, SavedLasts, Kept
<1>. QED
  BY <1>1, Invariance, PTL
=============================================================================
