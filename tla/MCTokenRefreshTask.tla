------------------------ MODULE MCTokenRefreshTask ------------------------
(* Instances of TokenRefreshTask for TLC. *)
EXTENDS TokenRefreshTask
=============================================================================
