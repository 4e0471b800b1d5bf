------------------------ MODULE MCTerminalLifecycle ------------------------
(* Instances of TerminalLifecycle for TLC.                                 *)
EXTENDS TerminalLifecycle, TLC

CONSTANTS v1, v2

Browsers == Permutations(Viewer)
=============================================================================
