------------------------- MODULE MCCredentialStore -------------------------
(* Instances of CredentialStore for TLC. *)
EXTENDS CredentialStore, TLC

CONSTANTS u0, u1, u2, t1, t2, t3, none, proj

Entry(u, on) == [user |-> u, token |-> 0, project_id |-> none, enable |-> on]

\* What the process may find in accounts.json when it starts.
TwoAccounts == {<<Entry(u1, TRUE), Entry(u2, TRUE)>>}
OneAccount == {<<Entry(u1, TRUE)>>}

\* Users are interchangeable, and so are the tasks other than Main (t1).
UserSymmetry == Permutations({u1, u2})
=============================================================================
