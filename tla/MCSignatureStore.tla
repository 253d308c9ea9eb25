-------------------------- MODULE MCSignatureStore --------------------------
(* Instances of SignatureStore for TLC. *)
EXTENDS SignatureStore, TLC

CONSTANTS k1, k2, t1, t2

\* One task saves, the other looks up and migrates.
Roles == [t \in Tasks |-> IF t = t1 THEN {"save"} ELSE {"lookup"}]

\* Nothing tells the keys apart.
KeySymmetry == Permutations(Keys)

\* After a failed write nothing but the types is promised: a run goes on until
\* the batch that met it has been written again.
FailedBatchRewritten == harm = "write" => batch # <<>>
=============================================================================
