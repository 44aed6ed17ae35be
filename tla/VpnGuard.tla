----------------------------- MODULE VpnGuard -----------------------------
(***************************************************************************)
(* What connect() takes its guard for, without tasks, locks or channels:   *)
(* the published state is the lock of the tunnel.  A connection thread is  *)
(* started while a state is shown that connect() refuses; such a state is  *)
(* shown until the thread publishes its end, and with it the lock is free. *)
(* Once the service shuts down it takes no requests, and shows what it     *)
(* likes.                                                                  *)
(***************************************************************************)
CONSTANTS
  Users,    \* the connection threads
  Tags,     \* what can be shown
  Refusing, \* what connect() takes for a tunnel
  Free      \* what the end of a thread shows

VARIABLES shown, busy, closing

Held == busy # {} /\ ~ closing

Init == shown = Free /\ busy = {} /\ closing = FALSE

(* A thread is started: by a connect that shows a state of its own. *)
Open(u) ==
  /\ busy = {}
  /\ shown \in Refusing \/ closing
  /\ busy' = {u}
  /\ UNCHANGED <<shown, closing>>

(* Anyone publishes. *)
Report ==
  /\ shown' \in Tags
  /\ closing => closing'
  /\ Held' => shown' \in Refusing
  /\ UNCHANGED busy

(* The thread has published its end. *)
Close ==
  /\ busy # {}
  /\ busy' = {}
  /\ shown' = Free
  /\ UNCHANGED closing

Next == (\E u \in Users : Open(u)) \/ Report \/ Close

Spec == Init /\ [][Next]_<<shown, busy, closing>>

=============================================================================
