------------------------------- MODULE Prompt -------------------------------
(***************************************************************************)
(* What a prompter of the login pipeline promises, without slots and       *)
(* channels: one prompt is open at a time, the last that was asked, and an *)
(* answer is for that one, whichever is on the screen.  Asking again calls *)
(* off the prompt before, and nobody who asked goes on without an answer,  *)
(* or gets a second one.                                                   *)
(***************************************************************************)
CONSTANTS
  Callers, \* who may ask
  Replies, \* what the user can answer
  Cancel,  \* what a prompt is told that was called off
  None     \* and what it has before it is told anything

VARIABLES
  asking, \* the callers that wait, or could already go on
  reply   \* what each of them was told

Open == {c \in asking : reply[c] = None}

Init ==
  /\ asking = {}
  /\ reply = [c \in Callers |-> None]

Ask(c) ==
  /\ c \notin asking
  /\ asking' = asking \cup {c}
  /\ reply' = [d \in Callers |-> IF d \in Open THEN Cancel ELSE reply[d]]

(* The open prompt is answered, or called off by a disconnect. *)
Answer ==
  /\ UNCHANGED asking
  /\ Open # {} /\ Open' = {}
  /\ \E r \in Replies \cup {Cancel} :
       reply' = [d \in Callers |-> IF d \in Open THEN r ELSE reply[d]]

GoOn(c) ==
  /\ c \in asking
  /\ asking' = asking \ {c}
  /\ reply[c] # None
  /\ reply' = [reply EXCEPT ![c] = None]

Next ==
  \/ \E c \in Callers : Ask(c) \/ GoOn(c)
  \/ Answer

Spec == Init /\ [][Next]_<<asking, reply>>

=============================================================================
