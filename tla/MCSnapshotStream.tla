-------------------------- MODULE MCSnapshotStream --------------------------
(* Instances of SnapshotStream for TLC.  Sizes are in megabytes.           *)
EXTENDS SnapshotStream

Sized(n) == [size |-> n, left |-> n]

\* A transcript that is cut by the count; a small one after compaction; and one
\* with a message that truncation makes small and one that it leaves oversized,
\* cut by the byte limit.
Compacted ==
  << <<Sized(1), Sized(1), Sized(4)>>,
     <<Sized(1)>>,
     <<[size |-> 7, left |-> 1], [size |-> 12, left |-> 11]>> >>
=============================================================================
