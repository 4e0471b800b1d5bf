---------------------------- MODULE SessionOwner ----------------------------
(***************************************************************************)
(* What the relay promises about one session id, whatever its nodes, locks *)
(* and queues do: at any time at most one connection owns the id, a new    *)
(* connection takes it over only after the old ownership was given up, the *)
(* snapshot viewers are shown was sent by the present owner, and the id    *)
(* stays with the user that first persisted it.                            *)
(***************************************************************************)
CONSTANTS Sock,     \* connections of TUI workers, one register call each
          UserOf,   \* the authenticated user of every connection
          None      \* no owner, no snapshot, no user

VARIABLES owner,    \* connection whose token is the shared one, or None
          state,    \* connection that sent the snapshot kept for the id
          user      \* user of the persisted row of the id, or None

vars == <<owner, state, user>>

Init == owner = None /\ state = None /\ user = None

\* A free id is taken by a connection of the user it belongs to.
Claim(s) == /\ owner = None
            /\ user \in {None, UserOf[s]}
            /\ owner' = s /\ state' = None
            /\ UNCHANGED user

\* The id is persisted under the user of its owner, once and for all.
Persist == /\ owner # None
           /\ user \in {None, UserOf[owner]}
           /\ user' = UserOf[owner]
           /\ UNCHANGED <<owner, state>>

\* Only the owner replaces the snapshot.
Accept == /\ owner # None
          /\ state' = owner
          /\ UNCHANGED <<owner, user>>

\* Ownership ends, and the snapshot with it.
Release == /\ owner # None
           /\ owner' = None /\ state' = None
           /\ UNCHANGED user

Next == \/ \E s \in Sock : Claim(s)
        \/ Persist
        \/ Accept
        \/ Release

Spec == Init /\ [][Next]_vars
=============================================================================
