---------------------------- MODULE DbusService ----------------------------
(***************************************************************************)
(* The D-Bus front-end of gpservice and its life cycle                     *)
(* (apps/gpservice/src/dbus_service.rs, cli.rs): methods that GUIs call    *)
(* concurrently, the recorded controller, the watchdog that drops the      *)
(* tunnel of a GUI that died, the request queue, the exit and the          *)
(* activation of a fresh service.                                          *)
(*                                                                         *)
(* The supervisor behind the queue is reduced to whether there is a        *)
(* tunnel, and whether it was asked to end: each request is handled by a   *)
(* task of its own that takes effect some time later, since a ConnectAuth  *)
(* first logs in.  VpnTask and AuthFlow have those steps.                  *)
(***************************************************************************)
EXTENDS Naturals, Sequences

CONSTANTS
  Guis,          \* unique bus names: each belongs to one process, once
  QueueLength,   \* capacity of the request channel (32 in cli.rs)
  MaxPending,    \* bound on the requests of GUIs under way at once
  QuietGuis,     \* do GUIs call and die only while nothing else goes on?
  DiesInCall,    \* may a GUI die during its call or before the watchdog runs?
  Sigterm,       \* may the system stop the service?
  NoGui

ASSUME DbusServiceAssumption ==
  /\ NoGui \notin Guis
  /\ QueueLength \in Nat \ {0}
  /\ MaxPending \in Nat \ {0}
  /\ {QuietGuis, DiesInCall, Sigterm} \subseteq BOOLEAN

VARIABLES
  gui,        \* the life of each GUI
  call,       \* how far its call has come
  controller, \* the GUI that is watched
  queue,      \* requests sent to the supervisor
  handling,   \* how many requests of each kind are being handled
  tunnel,     \* "none", "up", or "ending": asked to, but its thread lives
  signals,    \* names released, as the watchdog's stream has them
  watchdog,   \* where the watchdog is
  service     \* the life of the service process

vars == <<gui, call, controller, queue, handling, tunnel, signals, watchdog,
          service>>

Kinds == {"connect", "disconnect"}

(* A call is first authorised, then touches the controller, then sends.    *)
NoCall == <<"none", "none">>

CallStages ==
  {NoCall} \cup (Kinds \X {"authorising", "granted", "sending"})

Idle == [k \in Kinds |-> 0]

-----------------------------------------------------------------------------
Init ==
  /\ gui = [g \in Guis |-> "new"]
  /\ call = [g \in Guis |-> NoCall]
  /\ controller = NoGui
  /\ queue = <<>>
  /\ handling = Idle
  /\ tunnel = "none"
  /\ signals = <<>>
  /\ watchdog = "starting"
  /\ service = "exited"

Up == service # "exited"

(* The receiver lives until VpnTask::start has returned.                   *)
ReceiverAlive == service \in {"running", "stopping", "cancelled"}

Calling == {g \in Guis : call[g] # NoCall}

Quiet ==
  /\ Calling = {}
  /\ queue = <<>>
  /\ handling = Idle
  /\ signals = <<>>
  /\ Up => service = "running" /\ watchdog \in {"listening", "failed"}

(* Mutant: a full queue takes one more. *)
EnqueueOverfull(kind) ==
  IF ReceiverAlive /\ Len(queue) <= QueueLength
    THEN queue' = Append(queue, kind) ELSE UNCHANGED queue

(* How a request gets into the queue: a full one makes the sender wait,    *)
(* one whose receiver is gone is an error the sender reports or ignores.   *)
Enqueue(kind) ==
  \/ /\ ReceiverAlive
     /\ Len(queue) < QueueLength
     /\ queue' = Append(queue, kind)
  \/ ~ ReceiverAlive /\ UNCHANGED queue

-----------------------------------------------------------------------------
(* Methods.  The bus activates the service for a call when it is not up.   *)

Call(g, kind) ==
  /\ gui[g] # "gone"
  /\ call[g] = NoCall
  /\ Len(queue) + handling["connect"] + handling["disconnect"] < MaxPending
  /\ QuietGuis => Quiet
  /\ gui' = [gui EXCEPT ![g] = "alive"]
  /\ call' = [call EXCEPT ![g] = <<kind, "authorising">>]
  /\ service' = IF Up THEN service ELSE "running"
  /\ UNCHANGED <<controller, queue, handling, tunnel, signals, watchdog>>

(* polkit decides about a caller that is on the bus.  A request that does  *)
(* not parse is turned down like one that is denied.                       *)
Authorised(g) ==
  \E kind \in Kinds :
    /\ call[g] = <<kind, "authorising">>
    /\ \/ gui[g] = "alive" /\ call' = [call EXCEPT ![g] = <<kind, "granted">>]
       \/ call' = [call EXCEPT ![g] = NoCall]
    /\ UNCHANGED <<gui, controller, queue, handling, tunnel, signals,
                   watchdog, service>>

(* Mutant: the caller is not recorded.                                     *)
ClaimForgotten(g) ==
  /\ call[g] = <<"connect", "granted">>
  /\ call' = [call EXCEPT ![g] = <<"connect", "sending">>]
  /\ UNCHANGED <<gui, controller, queue, handling, tunnel, signals, watchdog,
                 service>>

(* Connect and ConnectAuth record their caller.                            *)
Claim(g) ==
  /\ call[g] = <<"connect", "granted">>
  /\ controller' = g
  /\ call' = [call EXCEPT ![g] = <<"connect", "sending">>]
  /\ UNCHANGED <<gui, queue, handling, tunnel, signals, watchdog, service>>

(* Disconnect stops the watch, whoever calls it.                           *)
Release(g) ==
  /\ call[g] = <<"disconnect", "granted">>
  /\ controller' = NoGui
  /\ call' = [call EXCEPT ![g] = <<"disconnect", "sending">>]
  /\ UNCHANGED <<gui, queue, handling, tunnel, signals, watchdog, service>>

Send(g) ==
  \E kind \in Kinds :
    /\ call[g] = <<kind, "sending">>
    /\ Enqueue(kind)
    /\ call' = [call EXCEPT ![g] = NoCall]
    /\ UNCHANGED <<gui, controller, handling, tunnel, signals, watchdog,
                   service>>

(* The process of g ends, for whatever reason: the bus releases its name.  *)
(* A watchdog that has not subscribed, or could not, does not hear of it.  *)
Die(g) ==
  /\ gui[g] = "alive"
  /\ DiesInCall \/ (call[g] = NoCall /\ (Up => watchdog # "starting"))
  /\ QuietGuis => Quiet
  /\ gui' = [gui EXCEPT ![g] = "gone"]
  /\ signals' = IF Up /\ watchdog \notin {"starting", "failed"}
                  THEN Append(signals, g) ELSE signals
  /\ UNCHANGED <<call, controller, queue, handling, tunnel, watchdog, service>>

-----------------------------------------------------------------------------
(* The supervisor: requests are received in order, handled in any.         *)

(* Mutant: a request is handled before the next one is received.           *)
RecvAwaits ==
  /\ service \in {"running", "stopping"}
  /\ handling = Idle
  /\ queue # <<>>
  /\ handling' = [handling EXCEPT ![Head(queue)] = @ + 1]
  /\ queue' = Tail(queue)
  /\ UNCHANGED <<gui, call, controller, tunnel, signals, watchdog, service>>

Recv ==
  /\ service \in {"running", "stopping"}
  /\ queue # <<>>
  /\ handling' = [handling EXCEPT ![Head(queue)] = @ + 1]
  /\ queue' = Tail(queue)
  /\ UNCHANGED <<gui, call, controller, tunnel, signals, watchdog, service>>

(* A connect starts a tunnel, fails, or is refused because there is one.   *)
HandleConnect ==
  /\ Up
  /\ handling["connect"] > 0
  /\ handling' = [handling EXCEPT !["connect"] = @ - 1]
  /\ tunnel' \in {"up", tunnel}
  /\ UNCHANGED <<gui, call, controller, queue, signals, watchdog, service>>

(* disconnect() tells the tunnel to end and waits for its thread, which    *)
(* may take longer than that; a tunnel that was told before has no         *)
(* receiver left to wait on, and stays as it is.                           *)
Disconnected == IF tunnel = "up" THEN {"none", "ending"} ELSE {tunnel}

HandleDisconnect ==
  /\ Up
  /\ handling["disconnect"] > 0
  /\ handling' = [handling EXCEPT !["disconnect"] = @ - 1]
  /\ tunnel' \in Disconnected
  /\ UNCHANGED <<gui, call, controller, queue, signals, watchdog, service>>

(* The thread of the tunnel ends: it was told to, or lost its gateway.     *)
TunnelLost ==
  /\ tunnel # "none"
  /\ tunnel' = "none"
  /\ UNCHANGED <<gui, call, controller, queue, handling, signals, watchdog,
                 service>>

-----------------------------------------------------------------------------
(* watch_controller                                                        *)

Watch(from, to) ==
  /\ Up
  /\ watchdog = from
  /\ watchdog' = to

(* A subscription that fails is the end of the watchdog, not of the        *)
(* service.                                                                *)
Subscribe ==
  /\ \E to \in {"listening", "failed"} : Watch("starting", to)
  /\ UNCHANGED <<gui, call, controller, queue, handling, tunnel, signals,
                 service>>

HearRelease ==
  /\ signals # <<>>
  /\ Watch("listening", IF controller = Head(signals) THEN "sending"
                        ELSE "listening")
  /\ signals' = Tail(signals)
  /\ UNCHANGED <<gui, call, controller, queue, handling, tunnel, service>>

SendDisconnect ==
  /\ Watch("sending", "forgetting")
  /\ Enqueue("disconnect")
  /\ UNCHANGED <<gui, call, controller, handling, tunnel, signals, service>>

(* The controller is forgotten, whoever it is by now.                      *)
Forget ==
  /\ Watch("forgetting", "grace")
  /\ controller' = NoGui
  /\ UNCHANGED <<gui, call, queue, handling, tunnel, signals, service>>

(* Mutant: the watchdog ends when a new GUI has claimed the service.       *)
GraceOverOnce ==
  /\ Watch("grace", IF controller = NoGui THEN "exiting" ELSE "ended")
  /\ UNCHANGED <<gui, call, controller, queue, handling, tunnel, signals,
                 service>>

(* The two seconds are over: did a new GUI claim the service?              *)
GraceOver ==
  /\ Watch("grace", IF controller = NoGui THEN "exiting" ELSE "listening")
  /\ UNCHANGED <<gui, call, controller, queue, handling, tunnel, signals,
                 service>>

AskForShutdown ==
  /\ Watch("exiting", "ended")
  /\ service' = IF service = "running" THEN "stopping" ELSE service
  /\ UNCHANGED <<gui, call, controller, queue, handling, tunnel, signals>>

WatchStep ==
  \/ Subscribe \/ HearRelease \/ SendDisconnect \/ Forget \/ GraceOver
  \/ AskForShutdown

-----------------------------------------------------------------------------
(* Cli::run after its select, and VpnTask::start.                          *)

ShutdownSignal ==
  /\ Sigterm
  /\ service = "running"
  /\ service' = "stopping"
  /\ UNCHANGED <<gui, call, controller, queue, handling, tunnel, signals,
                 watchdog>>

(* From now on nothing is received.                                        *)
Cancel ==
  /\ service = "stopping"
  /\ service' = "cancelled"
  /\ UNCHANGED <<gui, call, controller, queue, handling, tunnel, signals,
                 watchdog>>

FinalDisconnect ==
  /\ service = "cancelled"
  /\ service' = "disconnected"
  /\ tunnel' \in Disconnected
  /\ UNCHANGED <<gui, call, controller, queue, handling, signals, watchdog>>

(* The process ends, and everything in it.                                 *)
Exit ==
  /\ service = "disconnected"
  /\ service' = "exited"
  /\ call' = [g \in Guis |-> NoCall]
  /\ controller' = NoGui
  /\ queue' = <<>>
  /\ handling' = Idle
  /\ tunnel' = "none"
  /\ signals' = <<>>
  /\ watchdog' = "starting"
  /\ UNCHANGED gui

-----------------------------------------------------------------------------
Next ==
  \/ \E g \in Guis :
       \/ \E kind \in Kinds : Call(g, kind)
       \/ Authorised(g) \/ Claim(g) \/ Release(g) \/ Send(g) \/ Die(g)
  \/ Recv \/ HandleConnect \/ HandleDisconnect \/ TunnelLost
  \/ WatchStep
  \/ ShutdownSignal \/ Cancel \/ FinalDisconnect \/ Exit

Spec == Init /\ [][Next]_vars

(* The runtime runs its tasks.  Nobody makes a GUI call or die, polkit's   *)
(* user answer, a login finish or a tunnel end.                            *)
Fairness ==
  /\ \A g \in Guis : WF_vars(Claim(g) \/ Release(g)) /\ SF_vars(Send(g))
  /\ WF_vars(Recv) /\ WF_vars(HandleDisconnect)
  /\ SF_vars(SendDisconnect)
  /\ WF_vars(WatchStep)
  /\ WF_vars(Cancel) /\ WF_vars(FinalDisconnect) /\ WF_vars(Exit)

FairSpec == Spec /\ Fairness

-----------------------------------------------------------------------------
(* The variables have the types the code gives them.                       *)
TypeOK ==
  /\ gui \in [Guis -> {"new", "alive", "gone"}]
  /\ call \in [Guis -> CallStages]
  /\ controller \in Guis \cup {NoGui}
  /\ queue \in Seq(Kinds) /\ Len(queue) <= QueueLength
  /\ handling \in [Kinds -> Nat]
  /\ tunnel \in {"none", "up", "ending"}
  /\ signals \in Seq(Guis)
  /\ watchdog \in {"starting", "failed", "listening", "sending", "forgetting",
                   "grace", "exiting", "ended"}
  /\ service \in {"running", "stopping", "cancelled", "disconnected", "exited"}

(* Some task is about to disconnect the tunnel.                            *)
DisconnectUnderWay ==
  \/ \E g \in Guis : call[g] = <<"disconnect", "sending">>
  \/ \E i \in DOMAIN queue : queue[i] = "disconnect"
  \/ handling["disconnect"] > 0
  \/ service = "cancelled"

(* A tunnel that nobody told to end has a controller on record, "so the    *)
(* watchdog can drop it if that process dies without disconnecting", or is *)
(* about to be told.                                                       *)
TunnelWatched == tunnel = "up" => controller # NoGui \/ DisconnectUnderWay

(* A Disconnect that was accepted is handled, although logins that wait    *)
(* for their user may be handled for ever.                                 *)
DisconnectServed ==
  (\E i \in DOMAIN queue : queue[i] = "disconnect")
    ~> (handling["disconnect"] > 0 \/ service # "running")

(* What DeadControllerDropped rests on: the release of a controller that   *)
(* died is still in the watchdog's stream, or the watchdog is about to     *)
(* forget whoever is the controller, or could not subscribe.               *)
DeadControllerHeard ==
  \A g \in Guis : controller = g /\ gui[g] = "gone" =>
    \/ watchdog \in {"sending", "forgetting", "failed"}
    \/ \E i \in DOMAIN signals : signals[i] = g

(* A controller that died does not stay the controller: GUIs that come and *)
(* go during the grace period are noticed as well.  Only a watchdog that   *)
(* could not subscribe notices nobody.                                     *)
DeadControllerDropped ==
  \A g \in Guis :
    controller = g /\ gui[g] = "gone" ~> controller # g \/ watchdog = "failed"

(* The claim of a GUI that lives is only given up to another claim, to an  *)
(* explicit Disconnect or with the service: "let a fast GUI relaunch       *)
(* re-claim (a new Connect sets `controller` again) before we exit".       *)
ClaimKept ==
  [][\A g \in Guis :
       gui[g] = "alive" /\ controller = g /\ controller' = NoGui
         => service' = "exited" \/ \E h \in Guis : Release(h)]_vars

(* A Connect that was accepted is not lost with the process: a fresh       *)
(* service is activated "on the next `Connect`".                           *)
ExitLosesNoConnect ==
  [][service # "exited" /\ service' = "exited" =>
       \A i \in DOMAIN queue : queue[i] # "connect"]_vars

=============================================================================
