------------------------------ MODULE VpnSlot ------------------------------
(***************************************************************************)
(* What the lock around vpn_handle is for, stated without any lock: a slot *)
(* that holds the Vpn a request dials, and the threads that are inside     *)
(* openconnect with it.  openconnect keeps a raw pointer to the Vpn for    *)
(* the whole session, so the slot may only change while nobody uses it.    *)
(***************************************************************************)
CONSTANTS
  Users, \* the connection threads
  Vpns,  \* what the slot can hold
  Empty  \* and what it holds when it holds nothing

VARIABLES slot, inUse

Init == slot = Empty /\ inUse = {}

(* A thread enters openconnect with the stored Vpn. *)
Use(u) ==
  /\ slot # Empty
  /\ u \notin inUse
  /\ inUse' = inUse \cup {u}
  /\ UNCHANGED slot

Leave(u) ==
  /\ u \in inUse
  /\ inUse' = inUse \ {u}
  /\ UNCHANGED slot

(* The Vpn is stored, replaced or dropped. *)
Swap(v) ==
  /\ inUse = {}
  /\ slot' = v
  /\ UNCHANGED inUse

Next ==
  \/ \E u \in Users : Use(u) \/ Leave(u)
  \/ \E v \in Vpns \cup {Empty} : Swap(v)

Spec == Init /\ [][Next]_<<slot, inUse>>

=============================================================================
