-------------------------- MODULE MCGatewayStream --------------------------
(* Instances of GatewayStream for TLC. *)
EXTENDS GatewayStreamProperties

CONSTANTS c1, im1, s1, s2, none

P(thought, text, image, call, sig) ==
    [thought |-> thought, text |-> text, image |-> image, call |-> call, sig |-> sig]

Think == P(TRUE, <<"a">>, none, none, none)
Signed == P(TRUE, <<"a">>, none, none, s1)
BareSign == P(TRUE, <<>>, none, none, s2)
BlankSign == P(TRUE, <<Blank>>, none, none, s2)
HiddenCall == P(TRUE, <<>>, none, c1, none)
Text == P(FALSE, <<"a">>, none, none, none)
Picture == P(FALSE, <<>>, im1, none, s2)
Call == P(FALSE, <<>>, none, c1, none)
OwnCall == P(FALSE, <<>>, none, c1, s2)

Data(parts, finish) == [kind |-> "data", datum |-> [parts |-> parts, finish |-> finish]]

Short == {Data(<<p>>, NoReason) : p \in {Think, Signed, BareSign, Text, Picture, Call, OwnCall}}
         \cup {Data(<<HiddenCall, BlankSign>>, NoReason), Data(<<Call>>, "STOP"), Data(<<>>, "STOP"),
               [kind |-> "done"], [kind |-> "bad"]}

Long == {Data(<<Signed>>, NoReason), Data(<<Text>>, NoReason), Data(<<Call>>, NoReason), Data(<<OwnCall>>, NoReason),
         Data(<<Think, Call>>, "STOP")}

TwoOrThree == [1..2 -> Short] \cup [1..3 -> Long]
=============================================================================
