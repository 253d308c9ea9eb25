------------------------ MODULE MCAccountSelection ------------------------
(* Instances of AccountSelection for TLC. *)
EXTENDS AccountSelection, TLC

CONSTANTS p1, r1, r2, h1

A(s, on) == [session_id |-> s, enable |-> on]

OneOn == {<<A(1, TRUE)>>}

Alike == Permutations(Requests)
=============================================================================
