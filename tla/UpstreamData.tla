---------------------------- MODULE UpstreamData ----------------------------
(* The stream items of the Vertex API as vertex/types.rs deserializes them. *)
EXTENDS Naturals, Sequences

CONSTANTS
    Calls,    \* ids of function calls
    Images,   \* signature keys of inline images
    Sigs,     \* thought signatures
    None      \* an absent call, image or signature

ASSUME NoneAssumption == None \notin Calls \cup Images \cup Sigs

\* Text is a sequence of symbols; a text of blanks only is trimmed to nothing.
Blank == " "
Letters == {"a", Blank}
Texts == Seq(Letters)
Trimmed(t) == \A i \in DOMAIN t : t[i] = Blank

\* What stands for a thought that came without text.
MissingThought == <<"missing_thought_text">>

Part == [thought : BOOLEAN, text : Texts, image : Images \cup {None},
         call : Calls \cup {None}, sig : Sigs \cup {None}]

\* One "data:" line: the parts of its first candidate and its finish reason.
NoReason == ""
Datum == [parts : Seq(Part), finish : {NoReason, "STOP"}]
=============================================================================
