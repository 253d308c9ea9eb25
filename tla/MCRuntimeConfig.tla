--------------------------- MODULE MCRuntimeConfig ---------------------------
(* Instances of RuntimeConfig for TLC. *)
EXTENDS RuntimeConfig, TLC

CONSTANTS h1, h2

L(key, text) == [key |-> key, quoted |-> FALSE, text |-> text]

\* No file; one by hand, with a repeated key and keys the WebUI does not know.
FirstFiles == {<<>>,
               <<L("other", "port"), L("DEBUG", "HIGH"), L("WEBUI_PASSWORD", "#1"), L("DEBUG", "off")>>}

\* Names with prefix or suffix; the last two are refused.
Maps == {{<<<<"gpt", "">>, <<"claude", "models/">>>>},
         {<<<<"gpt", "/x">>, <<"claude", "">>>>, <<<<"m", "">>, <<"gemini", "">>>>},
         {<<<<"gpt", "">>, <<"claude", "">>>>, <<<<"m", "">>, <<"claude", "models/">>>>},
         {<<<<"gpt", "">>, <<"claude", "">>>>, <<<<"gpt", "models/">>, <<"gemini", "">>>>}}

Alike == Permutations(Handlers)
=============================================================================
