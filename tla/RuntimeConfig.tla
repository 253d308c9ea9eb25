---------------------------- MODULE RuntimeConfig ----------------------------
(***************************************************************************)
(* The settings and the model mapping that the WebUI changes at run time   *)
(* (runtime_config.rs), the two files that keep them, .env and             *)
(* model_id_mapping.json, and what the next start reads of them            *)
(* (config.rs).  Handlers run on several threads and take no lock; a step  *)
(* is one access to a file or to a shared snapshot.                        *)
(*                                                                         *)
(* Three settings stand for seven: a password, which must not be empty, a  *)
(* free text and a level that is normalised.                               *)
(***************************************************************************)
EXTENDS Integers, Sequences, SequencesExt, FiniteSets, FiniteSetsExt, Functions

CONSTANTS
    Handlers,       \* WebUI requests that may run at the same time
    AllTexts,       \* the texts a setting may have
    EnvFiles,       \* what .env may hold at the first start
    Texts, Levels,  \* what operators enter as text and as level
    Mappings,       \* the model mappings they enter
    Faults,         \* subset of {"write", "kill"}
    MaxFaults, MaxSaves     \* bounds

Keys == {"WEBUI_PASSWORD", "API_USER_AGENT", "DEBUG"}

\* A line of .env assigns a quoted or bare text to a key; "other" stands for
\* the keys that the WebUI does not know.
Line == [key : Keys \cup {"other"}, quoted : BOOLEAN, text : AllTexts]

ASSUME EnvFilesAssumption == EnvFiles \subseteq Seq(Line)
ASSUME TextsAssumption == Texts \cup {"", "antigravity", "high", "off"} \subseteq AllTexts
ASSUME BoundsAssumption == MaxFaults \in Nat /\ MaxSaves \in Nat

VARIABLES
    settings,       \* RUNTIME_SETTINGS
    mapping,        \* MODEL_ID_MAPPING
    env,            \* the lines of .env
    mapping_file,   \* model_id_mapping.json: <<mapping>>, or <<>> if absent or cut short
    handler,        \* what each request is doing
    others,         \* history: what .env said of other keys at the first start
    harm,           \* history: files whose saves overlapped or were cut short
    faults, saves   \* counters

vars == <<settings, mapping, env, mapping_file, handler, others, harm, faults, saves>>

-----------------------------------------------------------------------------
(* One line *)

\* format_env_line quotes an empty text and one with blanks or quotes.
NeedsQuotes(text) == text \in {"", "two words"}
format_env_line(key, text) == [key |-> key, quoted |-> NeedsQuotes(text), text |-> text]

\* parse_dotenv_line of config.rs: a bare text that begins with "#" is a comment.
LooksLikeComment(text) == text = "#1"
Value(line) == IF ~line.quoted /\ LooksLikeComment(line.text) THEN "" ELSE line.text

-----------------------------------------------------------------------------
(* The settings *)

normalized_debug(level) ==
    IF level \in {"high", "HIGH"} THEN "high" ELSE "off"

Defaults == [WEBUI_PASSWORD |-> "", API_USER_AGENT |-> "antigravity", DEBUG |-> "off", other |-> ""]

\* load_dotenv sets one variable after the other, so the last line of a key
\* counts; a key without a line has its default.
Load(lines) ==
    [k \in DOMAIN Defaults |->
        LET i == SelectLastInSeq(lines, LAMBDA l : l.key = k)
        IN  IF i = 0 THEN Defaults[k] ELSE Value(lines[i])]

apply_to_runtime(form) == [form EXCEPT !["DEBUG"] = normalized_debug(@)]

Missing(lines) == SetToSeq(Keys \ {lines[i].key : i \in DOMAIN lines})
NewLines(keys, new) == [i \in DOMAIN keys |-> format_env_line(keys[i], new[keys[i]])]

\* Mutant: a key is looked for once.
Updated_FirstOnly(lines, form) ==
    LET new == apply_to_runtime(form)
        first(i) == \A j \in 1..i - 1 : lines[j].key # lines[i].key
    IN  [i \in DOMAIN lines |->
            IF lines[i].key \in Keys /\ first(i) THEN format_env_line(lines[i].key, new[lines[i].key])
            ELSE lines[i]]
        \o NewLines(Missing(lines), new)

\* update_dotenv_file: every line of a key is replaced, a missing one appended.
Updated(lines, form) ==
    LET new == apply_to_runtime(form) IN
    [i \in DOMAIN lines |->
        IF lines[i].key \in Keys THEN format_env_line(lines[i].key, new[lines[i].key])
        ELSE lines[i]]
    \o NewLines(Missing(lines), new)

-----------------------------------------------------------------------------
(* The model mapping: from names of clients to names of the backend. *)

\* Names differ in a prefix "models/" and a suffix behind a slash, which
\* canonical_model_id removes: <<"m", "models/">> becomes <<"m", "">>.
canonical_model_id(name) == <<name[1], "">>
Canonical(map) == {<<canonical_model_id(p[1]), canonical_model_id(p[2])>> : p \in map}

\* validate_and_normalize_model_id_mapping: no name is empty, none is used twice.
Valid(map) ==
    /\ \A p \in map : p[1][1] # "" /\ p[2][1] # ""
    /\ \A p, q \in map : p # q => /\ canonical_model_id(p[1]) # canonical_model_id(q[1])
                                  /\ canonical_model_id(p[2]) # canonical_model_id(q[2])

LoadMapping(file) == IF file = <<>> \/ ~Valid(file[1]) THEN {} ELSE Canonical(file[1])

-----------------------------------------------------------------------------
(* handle_settings_post and handle_model_id_mapping_post *)

Idle == [pc |-> "idle", form |-> <<>>, map |-> {}, lines |-> <<>>]
Goes(h, pc) == handler' = [handler EXCEPT ![h].pc = pc]

\* Where a handler is between its first and its last access, by file.
Saving == [env |-> {"create_env", "write_env", "apply_settings"},
           mapping |-> {"create_mapping", "write_mapping", "apply_mapping"}]
Overlaps(h, file) == \E g \in Handlers \ {h} : handler[g].pc \in Saving[file]
Harming(file, condition) == harm' = IF condition THEN harm \cup {file} ELSE harm

Init ==
    /\ env \in EnvFiles /\ mapping_file = <<>>
    /\ settings = Restrict(Load(env), Keys) /\ mapping = {}
    /\ handler = [h \in Handlers |-> Idle]
    /\ others = Load(env).other
    /\ harm = {} /\ faults = 0 /\ saves = 0

Forms == [WEBUI_PASSWORD : Texts, API_USER_AGENT : Texts, DEBUG : Levels]

\* validate: the password is not empty, the level is known or empty.
PostSettings(h, form) ==
    /\ handler[h].pc = "idle" /\ saves < MaxSaves
    /\ form.WEBUI_PASSWORD # "" /\ form.DEBUG \in {"", "off", "high", "HIGH"}
    /\ handler' = [handler EXCEPT ![h] = [Idle EXCEPT !.pc = "read_env", !.form = form]]
    /\ saves' = saves + 1
    /\ UNCHANGED <<settings, mapping, env, mapping_file, others, harm, faults>>

ReadEnv(h) ==
    /\ handler[h].pc = "read_env"
    /\ handler' = [handler EXCEPT ![h].pc = "create_env",
                                  ![h].lines = Updated(env, handler[h].form)]
    /\ Harming("env", Overlaps(h, "env"))
    /\ UNCHANGED <<settings, mapping, env, mapping_file, others, faults, saves>>

CreateEnv(h) ==
    /\ handler[h].pc = "create_env"
    /\ env' = <<>>
    /\ Goes(h, "write_env")
    /\ UNCHANGED <<settings, mapping, mapping_file, others, harm, faults, saves>>

\* Lines land where the writer stands, over those of another writer.
Over(lines) == lines \o SubSeq(env, Len(lines) + 1, Len(env))

WriteEnv(h) ==
    /\ handler[h].pc = "write_env"
    /\ env' = Over(handler[h].lines)
    /\ Goes(h, "apply_settings")
    /\ UNCHANGED <<settings, mapping, mapping_file, others, harm, faults, saves>>

ApplySettings(h) ==
    /\ handler[h].pc = "apply_settings"
    /\ settings' = apply_to_runtime(handler[h].form)
    /\ handler' = [handler EXCEPT ![h] = Idle]
    /\ UNCHANGED <<mapping, env, mapping_file, others, harm, faults, saves>>

\* Mutant: the mapping is normalised and not checked.
PostMapping_Unchecked(h, map) ==
    /\ handler[h].pc = "idle" /\ saves < MaxSaves
    /\ handler' = [handler EXCEPT ![h] = [Idle EXCEPT !.pc = "create_mapping", !.map = Canonical(map)]]
    /\ saves' = saves + 1
    /\ Harming("mapping", Overlaps(h, "mapping"))
    /\ UNCHANGED <<settings, mapping, env, mapping_file, others, faults>>

PostMapping(h, map) ==
    /\ handler[h].pc = "idle" /\ saves < MaxSaves
    /\ Valid(map)
    /\ handler' = [handler EXCEPT ![h] = [Idle EXCEPT !.pc = "create_mapping", !.map = Canonical(map)]]
    /\ saves' = saves + 1
    /\ Harming("mapping", Overlaps(h, "mapping"))
    /\ UNCHANGED <<settings, mapping, env, mapping_file, others, faults>>

CreateMapping(h) ==
    /\ handler[h].pc = "create_mapping"
    /\ mapping_file' = <<>>
    /\ Goes(h, "write_mapping")
    /\ UNCHANGED <<settings, mapping, env, others, harm, faults, saves>>

WriteMapping(h) ==
    /\ handler[h].pc = "write_mapping"
    /\ mapping_file' = <<handler[h].map>>
    /\ Goes(h, "apply_mapping")
    /\ UNCHANGED <<settings, mapping, env, others, harm, faults, saves>>

ApplyMapping(h) ==
    /\ handler[h].pc = "apply_mapping"
    /\ mapping' = handler[h].map
    /\ handler' = [handler EXCEPT ![h] = Idle]
    /\ UNCHANGED <<settings, env, mapping_file, others, harm, faults, saves>>

-----------------------------------------------------------------------------
(* Faults *)

\* A write fails after some lines; the handler returns without applying.
WriteFails(h) ==
    /\ "write" \in Faults /\ faults < MaxFaults /\ faults' = faults + 1
    /\ \/ /\ handler[h].pc = "write_env"
          /\ \E n \in 0..Len(handler[h].lines) - 1 : env' = Over(SubSeq(handler[h].lines, 1, n))
          /\ harm' = harm \cup {"env"}
          /\ UNCHANGED mapping_file
       \/ /\ handler[h].pc = "write_mapping"
          /\ harm' = harm \cup {"mapping"}
          /\ UNCHANGED <<env, mapping_file>>
    /\ handler' = [handler EXCEPT ![h] = Idle]
    /\ UNCHANGED <<settings, mapping, others, saves>>

\* The process is killed and started again; it reads both files.
Restart ==
    /\ "kill" \in Faults /\ faults < MaxFaults /\ faults' = faults + 1
    /\ settings' = Restrict(Load(env), Keys)
    /\ mapping' = LoadMapping(mapping_file)
    /\ handler' = [h \in Handlers |-> Idle]
    /\ Harming("env", \E h \in Handlers : handler[h].pc = "write_env")
    /\ UNCHANGED <<env, mapping_file, others, saves>>

-----------------------------------------------------------------------------

Step(h) == ReadEnv(h) \/ CreateEnv(h) \/ WriteEnv(h) \/ ApplySettings(h)
           \/ CreateMapping(h) \/ WriteMapping(h) \/ ApplyMapping(h)

Next ==
    \/ \E h \in Handlers :
          \/ Step(h) \/ WriteFails(h)
          \/ \E form \in Forms : PostSettings(h, form)
          \/ \E map \in Mappings : PostMapping(h, map)
    \/ Restart

Spec == Init /\ [][Next]_vars

TypeOK ==
    /\ settings \in [Keys -> AllTexts]
    /\ env \in Seq(Line)
    /\ Len(mapping_file) \in {0, 1}
    /\ Valid(mapping) /\ Canonical(mapping) = mapping
    /\ harm \subseteq DOMAIN Saving
    /\ faults \in 0..MaxFaults /\ saves \in 0..MaxSaves

-----------------------------------------------------------------------------
(* Properties *)

\* What runs is what the next start will read: after every save the two files
\* load to the settings and the mapping in use, whatever lines .env had, and
\* the lines the WebUI does not know are still there, unless two saves of one
\* file overlapped or one was cut short.  (A text that begins with "#" and is
\* not quoted is read back as empty.)
Quiet(file) == \A h \in Handlers : handler[h].pc \notin Saving[file]
SavedLasts ==
    /\ Quiet("env") /\ "env" \notin harm =>
          /\ \A k \in Keys : Load(env)[k] = settings[k] \/ LooksLikeComment(settings[k])
          /\ Load(env).other = others
    /\ Quiet("mapping") /\ "mapping" \notin harm => LoadMapping(mapping_file) = mapping
=============================================================================
