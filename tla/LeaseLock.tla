----------------------------- MODULE LeaseLock -----------------------------
(***************************************************************************)
(* What a key of RedisLockService promises to the callers that guard a     *)
(* section of code with it: acquire is SET PX NX, release is a             *)
(* compare-and-delete, and Redis drops the key when its TTL runs out.      *)
(*                                                                         *)
(* The promise is a lease, not a lock: a client may find itself inside     *)
(* the section after its lease ran out ("late").  What is promised is that *)
(* nobody else than the holder or the TTL ever ends a lease, and that only *)
(* a free key is granted.                                                  *)
(***************************************************************************)

CONSTANTS Clients,   \* the callers, each with a value of its own to lock with
          Nobody     \* the key is absent

VARIABLES holder,    \* the value under the key
          inside,    \* the clients inside the guarded section
          late       \* the clients whose lease ran out while they were inside

leaseVars == <<holder, inside, late>>

Init == /\ holder = Nobody
        /\ inside = {}
        /\ late = {}

\* The key was free: the client owns it and enters the section.
Enter(c) == /\ holder = Nobody
            /\ holder' = c
            /\ inside' = inside \cup {c}
            /\ UNCHANGED late

\* The key was free and is taken, but the reply is lost: the client gives up.
Leak(c) == /\ holder = Nobody
           /\ holder' = c
           /\ UNCHANGED <<inside, late>>

\* The client leaves the section and deletes the key, if it is still its own.
Leave(c) == /\ c \in inside
            /\ inside' = inside \ {c}
            /\ holder' = IF holder = c THEN Nobody ELSE holder
            /\ UNCHANGED late

\* The client leaves the section without deleting the key: it crashed, or the
\* call that deletes the key failed.
Abandon(c) == /\ c \in inside
              /\ inside' = inside \ {c}
              /\ UNCHANGED <<holder, late>>

\* The TTL runs out.
Expire == /\ holder # Nobody
          /\ holder' = Nobody
          /\ late' = late \cup (inside \cap {holder})
          /\ UNCHANGED inside

Next == \/ \E c \in Clients : Enter(c) \/ Leak(c) \/ Leave(c) \/ Abandon(c)
        \/ Expire

LeaseSpec == Init /\ [][Next]_leaseVars
=============================================================================
