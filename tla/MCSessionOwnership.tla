------------------------- MODULE MCSessionOwnership -------------------------
(* Instances of SessionOwnership for TLC. *)
EXTENDS SessionOwnership

CONSTANTS s1, s2, s3, n1, n2, u1, u2

\* Three sockets of one user; s1 and s3 share a node, s2 is on the other.
TwoNodes == [s \in Sock |-> IF s = s2 THEN n2 ELSE n1]
\* All on one node.
OneNode == [s \in Sock |-> n1]
\* s3 belongs to a second user.
TwoUsers == [s \in Sock |-> IF s = s3 THEN u2 ELSE u1]
OneUser == [s \in Sock |-> u1]
=============================================================================
