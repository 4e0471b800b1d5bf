---------------------- MODULE MCSnapshotStream_proofs ----------------------
(* The inductive invariant of SnapshotStream_proofs, for TLC.              *)
EXTENDS MCSnapshotStream, SnapshotStream_proofs
=============================================================================
