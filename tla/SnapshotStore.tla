---------------------------- MODULE SnapshotStore ----------------------------
(***************************************************************************)
(* What the relay promises about the transcript it keeps for a session:    *)
(* the working copy (lastState of the Redis record) and the persisted copy *)
(* (relay_session_state in SQLite) only ever hold a transcript the runner  *)
(* had as a whole, and never go back to an older one.                      *)
(***************************************************************************)
EXTENDS Naturals

CONSTANT Version    \* the transcripts of the session, numbered in time

VARIABLES
  working,    \* version in the Redis record, 0 when it holds none
  persisted   \* version in SQLite, 0 when there is none

store == <<working, persisted>>

Init == working = 0 /\ persisted = 0

\* A snapshot replaces the working copy; the persisted one may follow it.
Take(v) ==
  /\ working <= v /\ persisted <= v
  /\ working' = v
  /\ persisted' \in {persisted, v}

\* The record ends; what it held is persisted first.
Close ==
  /\ working' = 0
  /\ persisted' = IF working = 0 THEN persisted ELSE working

Next == Close \/ \E v \in Version : Take(v)

Spec == Init /\ [][Next]_store
=============================================================================
