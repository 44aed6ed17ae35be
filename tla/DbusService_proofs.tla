-------------------------- MODULE DbusService_proofs --------------------------
(***************************************************************************)
(* What DbusService guarantees for any number of GUIs and any queue        *)
(* length: the types however GUIs call and die, and, while they do so only *)
(* when nothing else goes on, that no tunnel is left without a controller. *)
(***************************************************************************)
EXTENDS DbusService, TLAPS

USE DbusServiceAssumption

(* A send never overfills the request queue.                               *)
LEMMA EnqueueType ==
  ASSUME TypeOK, NEW kind \in Kinds, Enqueue(kind)
  PROVE  queue' \in Seq(Kinds) /\ Len(queue') <= QueueLength
<1>1. CASE ReceiverAlive /\ Len(queue) < QueueLength /\ queue' = Append(queue, kind)
  <2>1. queue' \in Seq(Kinds) /\ Len(queue') = Len(queue) + 1
    BY <1>1 DEF TypeOK
  <2> QED
    BY <1>1, <2>1 DEF TypeOK
<1>2. CASE UNCHANGED queue
  BY <1>2 DEF TypeOK
<1> QED
  BY <1>1, <1>2 DEF Enqueue

(* Receiving shortens it.                                                  *)
LEMMA RecvType == ASSUME TypeOK, Recv PROVE TypeOK'
<1>1. queue \in Seq(Kinds) /\ queue # <<>>
  BY DEF Recv, TypeOK
<1>2. Head(queue) \in Kinds /\ Tail(queue) \in Seq(Kinds) /\ Len(Tail(queue)) = Len(queue) - 1
  BY <1>1
<1>3. queue' \in Seq(Kinds) /\ Len(queue') <= QueueLength
  BY <1>2 DEF Recv, TypeOK
<1>4. handling' \in [Kinds -> Nat]
  BY <1>2 DEF Recv, TypeOK
<1> QED
  BY <1>3, <1>4 DEF Recv, TypeOK

(* What a GUI does.                                                        *)
LEMMA GuiType ==
  ASSUME TypeOK, NEW g \in Guis,
         \/ \E kind \in Kinds : Call(g, kind)
         \/ Authorised(g) \/ Claim(g) \/ Release(g) \/ Send(g) \/ Die(g)
  PROVE  TypeOK'
<1>1. CASE \E kind \in Kinds : Call(g, kind)
  BY <1>1 DEF TypeOK, Call, CallStages, NoCall
<1>2. CASE Authorised(g)
  <2>0. PICK kind \in Kinds : \/ call' = [call EXCEPT ![g] = <<kind, "granted">>]
                              \/ call' = [call EXCEPT ![g] = NoCall]
    BY <1>2 DEF Authorised
  <2>1. NoCall \in CallStages /\ <<kind, "granted">> \in CallStages
    BY DEF CallStages
  <2>2. call' \in [Guis -> CallStages]
    BY <2>0, <2>1 DEF TypeOK
  <2> QED
    BY <1>2, <2>2 DEF TypeOK, Authorised
<1>3. CASE Claim(g)
  BY <1>3 DEF TypeOK, Claim, CallStages, Kinds
<1>4. CASE Release(g)
  BY <1>4 DEF TypeOK, Release, CallStages, Kinds
<1>5. CASE Send(g)
  BY <1>5, EnqueueType DEF TypeOK, Send, CallStages
<1>6. CASE Die(g)
  BY <1>6 DEF TypeOK, Die
<1> QED
  BY <1>1, <1>2, <1>3, <1>4, <1>5, <1>6

(* What the watchdog does.                                                 *)
LEMMA WatchType == ASSUME TypeOK, WatchStep PROVE TypeOK'
<1>1. CASE Subscribe
  BY <1>1 DEF TypeOK, Subscribe, Watch
<1>2. CASE HearRelease
  <2>1. Tail(signals) \in Seq(Guis)
    BY <1>2 DEF HearRelease, TypeOK
  <2> QED
    BY <1>2, <2>1 DEF TypeOK, HearRelease, Watch
<1>3. CASE SendDisconnect
  BY <1>3, EnqueueType DEF TypeOK, SendDisconnect, Watch, Kinds
<1>4. CASE Forget
  BY <1>4 DEF TypeOK, Forget, Watch
<1>5. CASE GraceOver
  BY <1>5 DEF TypeOK, GraceOver, Watch
<1>6. CASE AskForShutdown
  BY <1>6 DEF TypeOK, AskForShutdown, Watch
<1> QED
  BY <1>1, <1>2, <1>3, <1>4, <1>5, <1>6 DEF WatchStep

LEMMA TypeStep == TypeOK /\ [Next]_vars => TypeOK'
<1> SUFFICES ASSUME TypeOK, [Next]_vars PROVE TypeOK'
  OBVIOUS
<1>1. CASE HandleConnect
  <2>1. handling' \in [Kinds -> Nat]
    BY <1>1 DEF TypeOK, HandleConnect, Kinds
  <2>3. tunnel' \in {"none", "up", "ending"}
    BY <1>1 DEF HandleConnect, TypeOK
  <2> QED
    BY <1>1, <2>1, <2>3 DEF TypeOK, HandleConnect
<1>2. CASE HandleDisconnect
  <2>1. handling' \in [Kinds -> Nat]
    BY <1>2 DEF TypeOK, HandleDisconnect, Kinds
  <2> QED
    BY <1>2, <2>1 DEF TypeOK, HandleDisconnect, Disconnected
<1>3. CASE TunnelLost
  BY <1>3 DEF TypeOK, TunnelLost
<1>4. CASE ShutdownSignal \/ Cancel
  BY <1>4 DEF TypeOK, ShutdownSignal, Cancel
<1>5. CASE FinalDisconnect
  BY <1>5 DEF TypeOK, FinalDisconnect, Disconnected
<1>6. CASE Exit
  <2>1. queue' \in Seq(Kinds) /\ Len(queue') <= QueueLength /\ signals' \in Seq(Guis)
    BY <1>6 DEF Exit
  <2>2. handling' \in [Kinds -> Nat] /\ call' \in [Guis -> CallStages]
    BY <1>6 DEF Exit, Idle, CallStages
  <2> QED
    BY <1>6, <2>1, <2>2 DEF TypeOK, Exit
<1>7. CASE UNCHANGED vars
  BY <1>7 DEF TypeOK, vars
<1> QED
  BY <1>1, <1>2, <1>3, <1>4, <1>5, <1>6, <1>7, GuiType, WatchType, RecvType DEF Next

LEMMA InitType == Init => TypeOK
<1> SUFFICES ASSUME Init PROVE TypeOK
  OBVIOUS
<1>1. queue \in Seq(Kinds) /\ Len(queue) <= QueueLength /\ signals \in Seq(Guis)
  BY DEF Init
<1>2. handling \in [Kinds -> Nat] /\ call \in [Guis -> CallStages]
  BY DEF Init, Idle, CallStages
<1> QED
  BY <1>1, <1>2 DEF TypeOK, Init

(* The front-end keeps its types, and no sender gets a request past the    *)
(* capacity of the channel, for any number of callers.                     *)
THEOREM TypeCorrect == Spec => []TypeOK
  BY InitType, TypeStep, PTL DEF Spec

-----------------------------------------------------------------------------
(* A service that nobody stops, whose GUIs call and die only while nothing *)
(* else goes on.                                                           *)
QuietService == QuietGuis /\ ~ Sigterm

\* A request that may still start a tunnel, from the call to its handling.
ConnectUnderWay ==
  \/ \E g \in Guis : call[g] = <<"connect", "sending">>
  \/ queue = <<"connect">>
  \/ handling["connect"] > 0

Occupied == Calling # {} \/ ConnectUnderWay

\* The watchdog is at its stream, or before it, and has heard of nothing.
Attended == service = "running" /\ watchdog \in {"starting", "failed", "listening"} /\ signals = <<>>

(* TunnelWatched is not inductive: the tunnel comes some time after the    *)
(* claim, and the claim goes before the disconnect is handled.  One piece  *)
(* of work exists at a time, a request that may start a tunnel has its     *)
(* claim and an attentive watchdog until it is handled, and a watchdog     *)
(* that is past its disconnect has left no tunnel, or has the disconnect   *)
(* on its way.                                                             *)
OneWork ==
  /\ queue \in {<<>>, <<"connect">>, <<"disconnect">>}
  /\ signals = <<>> \/ \E g \in Guis : signals = <<g>>
  /\ \A g, h \in Guis : call[g] # NoCall /\ call[h] # NoCall => g = h
  /\ Calling # {} => queue = <<>>
  /\ Calling # {} \/ queue # <<>> => handling["connect"] = 0 /\ handling["disconnect"] = 0
  /\ handling["connect"] + handling["disconnect"] <= 1

Stations ==
  /\ signals # <<>> \/ watchdog = "sending" =>
       /\ service = "running" /\ watchdog \in {"listening", "sending"} /\ queue = <<>>
       /\ handling["connect"] = 0 /\ handling["disconnect"] = 0
  /\ watchdog \in {"forgetting", "grace", "exiting", "ended"} =>
       signals = <<>> /\ (tunnel = "up" => DisconnectUnderWay)
  /\ watchdog = "sending" => signals = <<>>
  /\ service \in {"stopping", "cancelled", "disconnected"} => watchdog = "ended"
  /\ service = "disconnected" => tunnel # "up"
  /\ service = "exited" => watchdog = "starting" /\ tunnel = "none"

QuietInv ==
  /\ TypeOK
  /\ OneWork
  /\ Stations
  /\ Occupied => Attended
  /\ ConnectUnderWay => controller # NoGui
  /\ TunnelWatched

(* The queue of one request.                                               *)
LEMMA OneRequest ==
  ASSUME NEW kind \in Kinds
  PROVE  /\ Append(<<>>, kind) = <<kind>> /\ Head(<<kind>>) = kind /\ Tail(<<kind>>) = <<>>
         /\ <<kind>> # <<>> /\ DOMAIN <<kind>> = {1} /\ <<kind>>[1] = kind
         /\ \A other \in Kinds : <<kind>> = <<other>> => kind = other
OBVIOUS

\* What DisconnectUnderWay comes to with one request at a time.
Ending ==
  \/ \E g \in Guis : call[g] = <<"disconnect", "sending">>
  \/ queue = <<"disconnect">>
  \/ handling["disconnect"] > 0
  \/ service = "cancelled"

LEMMA UnderWay ==
  /\ OneWork => (DisconnectUnderWay <=> Ending)
  /\ OneWork' => (DisconnectUnderWay' <=> Ending')
<1>1. ASSUME OneWork PROVE (\E i \in DOMAIN queue : queue[i] = "disconnect") <=> queue = <<"disconnect">>
  BY <1>1 DEF OneWork
<1>2. ASSUME OneWork' PROVE (\E i \in DOMAIN queue' : queue'[i] = "disconnect") <=> queue' = <<"disconnect">>
  BY <1>2 DEF OneWork
<1> QED
  BY <1>1, <1>2 DEF DisconnectUnderWay, Ending

\* What a GUI's call goes through.
LEMMA QuietCall ==
  ASSUME QuietService, QuietInv, TypeOK', NEW g \in Guis,
         (\E kind \in Kinds : Call(g, kind)) \/ Authorised(g) \/ Claim(g) \/ Release(g)
  PROVE  QuietInv'
<1> USE DEF QuietInv, OneWork, Stations, Occupied, Attended, ConnectUnderWay, Calling, NoCall,
            TunnelWatched, Kinds
<1>1. CASE \E kind \in Kinds : Call(g, kind)
  <2>1. /\ call[g] = NoCall /\ \A h \in Guis : call[h] = NoCall
        /\ queue = <<>> /\ signals = <<>> /\ handling = Idle
        /\ service # "exited" => service = "running" /\ watchdog \in {"listening", "failed"}
    BY <1>1 DEF Call, QuietService, Quiet, Up
  <2>2. PICK kind \in Kinds : call' = [call EXCEPT ![g] = <<kind, "authorising">>]
    BY <1>1 DEF Call
  <2>3. /\ service' = "running"
        /\ UNCHANGED <<controller, queue, handling, tunnel, signals, watchdog>>
    BY <1>1, <2>1 DEF Call, Up
  <2>4. \A h \in Guis : call'[h] = IF h = g THEN <<kind, "authorising">> ELSE NoCall
    BY <2>1, <2>2 DEF TypeOK
  <2>5. handling["connect"] = 0 /\ handling["disconnect"] = 0
    BY <2>1 DEF Idle
  <2>6. OneWork'
    BY <2>1, <2>3, <2>4, <2>5
  <2>7. tunnel = "up" => controller # NoGui
    BY <2>1, <2>4, <2>5, UnderWay DEF Ending
  <2>8. Stations' /\ (Occupied => Attended)' /\ (ConnectUnderWay => controller # NoGui)'
    BY <2>1, <2>3, <2>4, <2>5
  <2> QED
    BY <2>3, <2>6, <2>7, <2>8
<1>2. CASE Authorised(g)
  <2>1. /\ \E kind \in Kinds : call[g] = <<kind, "authorising">>
                              /\ call'[g] \in {<<kind, "granted">>, NoCall}
        /\ \A h \in Guis : h # g => call'[h] = NoCall /\ call[h] = NoCall
        /\ UNCHANGED <<controller, queue, handling, tunnel, signals, watchdog, service>>
    <3>1. PICK kind \in Kinds :
            /\ call[g] = <<kind, "authorising">>
            /\ \/ call' = [call EXCEPT ![g] = <<kind, "granted">>]
               \/ call' = [call EXCEPT ![g] = NoCall]
            /\ UNCHANGED <<controller, queue, handling, tunnel, signals, watchdog, service>>
      BY <1>2 DEF Authorised
    <3>2. \A h \in Guis : h # g => call[h] = NoCall
      BY <3>1
    <3>3. call'[g] \in {<<kind, "granted">>, NoCall} /\ \A h \in Guis : h # g => call'[h] = call[h]
      BY <3>1 DEF TypeOK
    <3> QED
      BY <3>1, <3>2, <3>3
  <2>2. OneWork' /\ (Ending <=> Ending') /\ (ConnectUnderWay <=> ConnectUnderWay')
    BY <2>1 DEF Ending
  <2>3. DisconnectUnderWay <=> DisconnectUnderWay'
    BY <2>2, UnderWay
  <2>4. Calling # {}
    BY <2>1
  <2>5. Stations'
    BY <2>1, <2>3
  <2> QED
    BY <2>1, <2>2, <2>3, <2>4, <2>5
<1>3. CASE Claim(g)
  BY <1>3, UnderWay DEF Claim, Ending, TypeOK
<1>4. CASE Release(g)
  <2>1. /\ call[g] = <<"disconnect", "granted">> /\ call'[g] = <<"disconnect", "sending">>
        /\ \A h \in Guis : h # g => call'[h] = NoCall
        /\ UNCHANGED <<queue, handling, tunnel, signals, watchdog, service>>
    BY <1>4 DEF Release, TypeOK
  <2>2. queue = <<>> /\ handling["connect"] = 0 /\ handling["disconnect"] = 0 /\ Attended
    BY <2>1
  <2>3. OneWork' /\ Ending' /\ ~ ConnectUnderWay'
    BY <2>1, <2>2 DEF Ending
  <2>4. DisconnectUnderWay'
    BY <2>3, UnderWay
  <2> QED
    BY <2>1, <2>2, <2>3, <2>4
<1> QED
  BY <1>1, <1>2, <1>3, <1>4

LEMMA QuietSend ==
  ASSUME QuietService, QuietInv, TypeOK', NEW g \in Guis, Send(g)
  PROVE  QuietInv'
<1> USE DEF QuietInv, OneWork, Stations, Occupied, Attended, ConnectUnderWay, Calling, NoCall,
            TunnelWatched, Kinds
<1>1. PICK kind \in Kinds : call[g] = <<kind, "sending">> /\ Enqueue(kind)
  BY DEF Send
<1>2. /\ queue = <<>> /\ handling["connect"] = 0 /\ handling["disconnect"] = 0
      /\ Attended /\ \A h \in Guis : h # g => call[h] = NoCall
  BY <1>1
<1>3. queue' = <<kind>>
  BY <1>1, <1>2, OneRequest DEF Enqueue, ReceiverAlive
<1>4. /\ \A h \in Guis : call'[h] = NoCall
      /\ UNCHANGED <<controller, handling, tunnel, signals, watchdog, service>>
  BY <1>2 DEF Send, TypeOK
<1>5. OneWork' /\ Stations' /\ (Occupied => Attended)'
  BY <1>1, <1>2, <1>3, <1>4, OneRequest
<1>6. CASE kind = "connect"
  <2>1. controller # NoGui
    BY <1>1, <1>6
  <2> QED
    BY <1>4, <1>5, <2>1
<1>7. CASE kind = "disconnect"
  <2>1. ~ ConnectUnderWay'
    BY <1>2, <1>3, <1>4, <1>7, OneRequest
  <2>2. Ending'
    BY <1>3, <1>7 DEF Ending
  <2> QED
    BY <1>5, <2>1, <2>2, UnderWay
<1> QED
  BY <1>6, <1>7

LEMMA QuietDeath ==
  ASSUME QuietService, QuietInv, TypeOK', NEW g \in Guis, Die(g)
  PROVE  QuietInv'
<1> USE DEF QuietInv, OneWork, Stations, Occupied, Attended, ConnectUnderWay, Calling, NoCall,
            TunnelWatched, Kinds
<1>1. /\ \A h \in Guis : call[h] = NoCall
      /\ queue = <<>> /\ signals = <<>> /\ handling["connect"] = 0 /\ handling["disconnect"] = 0
      /\ service # "exited" => service = "running" /\ watchdog \in {"listening", "failed"}
  BY DEF Die, QuietService, Quiet, Up, Idle
<1>2. UNCHANGED <<call, controller, queue, handling, tunnel, watchdog, service>>
  BY DEF Die
<1>3. \/ signals' = <<g>> /\ service = "running" /\ watchdog = "listening"
      \/ signals' = <<>>
  BY <1>1 DEF Die, Up
<1>4. tunnel = "up" => controller # NoGui
  BY <1>1, UnderWay DEF Ending
<1> QED
  BY <1>1, <1>2, <1>3, <1>4

\* What the supervisor does.
LEMMA QuietSupervisor ==
  ASSUME QuietService, QuietInv, TypeOK', Recv \/ HandleConnect \/ HandleDisconnect \/ TunnelLost
  PROVE  QuietInv'
<1> USE DEF QuietInv, OneWork, Stations, Occupied, Attended, ConnectUnderWay, Calling, NoCall,
            TunnelWatched, Kinds
<1>1. CASE Recv
  <2>1. PICK kind \in Kinds : queue = <<kind>>
    BY <1>1 DEF Recv
  <2>2. /\ queue' = <<>> /\ handling' = [handling EXCEPT ![kind] = @ + 1]
        /\ UNCHANGED <<call, controller, tunnel, signals, watchdog, service>>
    BY <1>1, <2>1, OneRequest DEF Recv
  <2>3. handling["connect"] = 0 /\ handling["disconnect"] = 0 /\ \A g \in Guis : call[g] = NoCall
    BY <2>1, OneRequest
  <2>4. \/ kind = "connect" /\ handling'["connect"] = 1 /\ handling'["disconnect"] = 0
        \/ kind = "disconnect" /\ handling'["connect"] = 0 /\ handling'["disconnect"] = 1
    BY <2>2, <2>3 DEF TypeOK
  <2>5. OneWork'
    BY <2>2, <2>3, <2>4
  <2>6. Ending <=> Ending'
    BY <2>1, <2>2, <2>3, <2>4, OneRequest DEF Ending
  <2>7. DisconnectUnderWay <=> DisconnectUnderWay'
    BY <2>5, <2>6, UnderWay
  <2>8. Stations'
    BY <2>1, <2>2, <2>3, <2>4, <2>7, OneRequest
  <2>9. ConnectUnderWay' => ConnectUnderWay
    BY <2>1, <2>2, <2>3, <2>4, OneRequest
  <2> QED
    BY <2>2, <2>3, <2>5, <2>7, <2>8, <2>9
<1>2. CASE HandleConnect
  <2>1. /\ handling["connect"] = 1 /\ handling["disconnect"] = 0
        /\ handling'["connect"] = 0 /\ handling'["disconnect"] = 0
        /\ UNCHANGED <<call, controller, queue, signals, watchdog, service>>
    BY <1>2 DEF HandleConnect, TypeOK
  <2>2. Attended /\ controller # NoGui /\ queue = <<>> /\ \A g \in Guis : call[g] = NoCall
    BY <2>1
  <2>3. OneWork' /\ Stations' /\ ~ Occupied'
    BY <2>1, <2>2, OneRequest
  <2>4. controller' # NoGui
    BY <2>1, <2>2
  <2> QED
    BY <2>1, <2>2, <2>3, <2>4
<1>3. CASE HandleDisconnect
  <2>1. /\ handling["connect"] = 0 /\ handling["disconnect"] = 1
        /\ handling'["connect"] = 0 /\ handling'["disconnect"] = 0 /\ tunnel' # "up" /\ service # "exited"
        /\ UNCHANGED <<call, controller, queue, signals, watchdog, service>>
    BY <1>3 DEF HandleDisconnect, Disconnected, Up, TypeOK
  <2>2. queue = <<>> /\ \A g \in Guis : call[g] = NoCall
    BY <2>1
  <2>3. OneWork' /\ ~ Occupied'
    BY <2>1, <2>2, OneRequest
  <2>4. Stations'
    BY <2>1, <2>2
  <2> QED
    BY <2>1, <2>2, <2>3, <2>4
<1>4. CASE TunnelLost
  BY <1>4 DEF TunnelLost
<1> QED
  BY <1>1, <1>2, <1>3, <1>4

\* What the watchdog does.
LEMMA QuietWatch ==
  ASSUME QuietService, QuietInv, TypeOK', WatchStep
  PROVE  QuietInv'
<1> USE DEF QuietInv, OneWork, Stations, Occupied, Attended, ConnectUnderWay, Calling, NoCall,
            TunnelWatched, Kinds
<1>1. CASE Subscribe
  <2>1. /\ watchdog = "starting" /\ watchdog' \in {"listening", "failed"} /\ service # "exited"
        /\ UNCHANGED <<call, controller, queue, handling, tunnel, signals, service>>
    BY <1>1 DEF Subscribe, Watch, Up
  <2>2. DisconnectUnderWay' <=> DisconnectUnderWay
    BY <2>1 DEF DisconnectUnderWay
  <2>3. service = "running"
    BY <2>1 DEF TypeOK
  <2> QED
    BY <2>1, <2>2, <2>3
<1>2. CASE HearRelease
  <2>1. /\ signals' = <<>> /\ watchdog' \in {"listening", "sending"}
        /\ UNCHANGED <<call, controller, queue, handling, tunnel, service>>
    BY <1>2 DEF HearRelease, Watch
  <2>2. /\ service = "running" /\ queue = <<>>
        /\ handling["connect"] = 0 /\ handling["disconnect"] = 0
    BY <1>2 DEF HearRelease
  <2>3. DisconnectUnderWay' <=> DisconnectUnderWay
    BY <2>1 DEF DisconnectUnderWay
  <2> QED
    BY <1>2, <2>1, <2>2, <2>3 DEF HearRelease
<1>3. CASE SendDisconnect
  <2>1. /\ service = "running" /\ queue = <<>> /\ signals = <<>>
        /\ handling["connect"] = 0 /\ handling["disconnect"] = 0
        /\ \A g \in Guis : call[g] = NoCall
    BY <1>3 DEF SendDisconnect, Watch
  <2>2. /\ queue' = <<"disconnect">> /\ watchdog' = "forgetting"
        /\ UNCHANGED <<call, controller, handling, tunnel, signals, service>>
    BY <1>3, <2>1, OneRequest DEF SendDisconnect, Watch, Enqueue, ReceiverAlive
  <2>3. OneWork' /\ Ending' /\ ~ ConnectUnderWay' /\ ~ Occupied'
    BY <2>1, <2>2, OneRequest DEF Ending
  <2>4. DisconnectUnderWay'
    BY <2>3, UnderWay
  <2> QED
    BY <2>1, <2>2, <2>3, <2>4
<1>4. CASE Forget \/ GraceOver \/ AskForShutdown
  <2>1. /\ watchdog \in {"forgetting", "grace", "exiting"} /\ service = "running"
        /\ UNCHANGED <<call, queue, handling, tunnel, signals>>
        /\ watchdog' \in {"grace", "exiting", "listening", "ended"}
        /\ service' \in {"running", "stopping"} /\ (service' = "stopping" => watchdog' = "ended")
    BY <1>4 DEF Forget, GraceOver, AskForShutdown, Watch, Up, TypeOK
  <2>2. ~ Occupied /\ ~ Occupied'
    BY <2>1
  <2>3. DisconnectUnderWay <=> DisconnectUnderWay'
    BY <2>1 DEF DisconnectUnderWay
  <2> QED
    BY <2>1, <2>2, <2>3
<1> QED
  BY <1>1, <1>2, <1>3, <1>4 DEF WatchStep

\* What the end of the service does.
LEMMA QuietEnd ==
  ASSUME QuietService, QuietInv, TypeOK', Cancel \/ FinalDisconnect \/ Exit
  PROVE  QuietInv'
<1> USE DEF QuietInv, OneWork, Stations, Occupied, Attended, ConnectUnderWay, Calling, NoCall,
            TunnelWatched, Kinds
<1>1. CASE Cancel
  <2>1. Ending'
    BY <1>1 DEF Cancel, Ending
  <2> QED
    BY <1>1, <2>1, UnderWay DEF Cancel
<1>2. CASE FinalDisconnect
  BY <1>2 DEF FinalDisconnect, Disconnected
<1>3. CASE Exit
  <2>1. /\ queue' = <<>> /\ signals' = <<>> /\ tunnel' = "none" /\ service' = "exited"
        /\ handling'["connect"] = 0 /\ handling'["disconnect"] = 0 /\ watchdog' = "starting"
        /\ \A g \in Guis : call'[g] = NoCall
    BY <1>3 DEF Exit, Idle
  <2> QED
    BY <2>1
<1> QED
  BY <1>1, <1>2, <1>3

LEMMA QuietStep ==
  ASSUME QuietService
  PROVE  QuietInv /\ [Next]_vars => QuietInv'
<1> SUFFICES ASSUME QuietInv, [Next]_vars PROVE QuietInv'
  OBVIOUS
<1>1. TypeOK'
  BY TypeStep DEF QuietInv
<1>2. CASE UNCHANGED vars
  <2>1. (DisconnectUnderWay <=> DisconnectUnderWay') /\ (Occupied <=> Occupied')
        /\ (ConnectUnderWay <=> ConnectUnderWay')
    BY <1>2 DEF vars, DisconnectUnderWay, Occupied, ConnectUnderWay, Calling
  <2> QED
    BY <1>1, <1>2, <2>1 DEF vars, QuietInv, OneWork, Stations, Attended, TunnelWatched, Calling
<1>3. ~ ShutdownSignal
  BY DEF QuietService, ShutdownSignal
<1> QED
  BY <1>1, <1>2, <1>3, QuietCall, QuietSend, QuietDeath, QuietSupervisor, QuietWatch, QuietEnd
     DEF Next

LEMMA QuietInvariant ==
  ASSUME QuietService
  PROVE  Spec => []QuietInv
<1>1. Init => QuietInv
  <2> SUFFICES ASSUME Init PROVE QuietInv
    OBVIOUS
  <2>1. /\ queue = <<>> /\ signals = <<>> /\ handling["connect"] = 0 /\ handling["disconnect"] = 0
        /\ \A g \in Guis : call[g] = NoCall
    BY DEF Init, Idle, Kinds
  <2>2. ~ Occupied /\ ~ ConnectUnderWay /\ OneWork
    BY <2>1 DEF Occupied, ConnectUnderWay, Calling, OneWork, NoCall
  <2> QED
    BY <2>1, <2>2, InitType DEF Init, QuietInv, Stations, TunnelWatched
<1> QED
  BY <1>1, QuietStep, PTL DEF Spec

(* A tunnel that nobody told to end has a controller on record, or a task  *)
(* that is about to tell it, whatever GUIs come, go and die.               *)
THEOREM TunnelWatchedAlways ==
  ASSUME QuietService
  PROVE  Spec => []TunnelWatched
<1>1. QuietInv => TunnelWatched
  BY DEF QuietInv
<1> QED
  BY <1>1, QuietInvariant, PTL

-----------------------------------------------------------------------------
(* GUIs that do not die in their calls.  Nobody claims the service after   *)
(* its death, and a service that is down has no controller.                *)
Heard(g) == \E i \in DOMAIN signals : signals[i] = g

DeadInv ==
  /\ \A g \in Guis : call[g] # NoCall => gui[g] = "alive" /\ Up
  /\ ~Up => controller = NoGui
  /\ DeadControllerHeard

(* A name stays in the stream until it is heard.                           *)
LEMMA StillHeard ==
  ASSUME TypeOK, NEW g \in Guis, NEW h \in Guis, signals' = Append(signals, h)
  PROVE  (Heard(g) => Heard(g)') /\ (g = h => Heard(g)')
<1>1. Len(signals) \in Nat /\ DOMAIN signals = 1..Len(signals)
  BY DEF TypeOK
<1>2. DOMAIN signals' = 1..(Len(signals) + 1) /\ signals'[Len(signals) + 1] = h
  BY <1>1 DEF TypeOK
<1>3. \A i \in DOMAIN signals : i \in DOMAIN signals' /\ signals'[i] = signals[i]
  BY <1>1, <1>2 DEF TypeOK
<1> QED
  BY <1>1, <1>2, <1>3 DEF Heard

LEMMA OthersHeard ==
  ASSUME TypeOK, NEW g \in Guis, signals # <<>>, g # Head(signals), signals' = Tail(signals), Heard(g)
  PROVE  Heard(g)'
<1>1. PICK i \in 1..Len(signals) : signals[i] = g
  BY DEF Heard, TypeOK
<1>2. i # 1 /\ Len(signals) \in Nat
  BY <1>1 DEF TypeOK
<1>3. Len(signals') = Len(signals) - 1 /\ DOMAIN signals' = 1..Len(signals')
  BY <1>2 DEF TypeOK
<1>4. i - 1 \in 1..Len(signals') /\ signals'[i - 1] = signals[i]
  BY <1>1, <1>2, <1>3 DEF TypeOK
<1> QED
  BY <1>1, <1>3, <1>4 DEF Heard

LEMMA DeadStep ==
  ASSUME ~DiesInCall
  PROVE  TypeOK /\ DeadInv /\ [Next]_vars => DeadInv'
<1> SUFFICES ASSUME TypeOK, DeadInv, [Next]_vars PROVE DeadInv'
  OBVIOUS
<1> USE DEF DeadInv, DeadControllerHeard, Up
<1>1. ASSUME NEW g \in Guis, NEW kind \in Kinds, Call(g, kind) PROVE DeadInv'
  BY <1>1 DEF Call, TypeOK
<1>2. ASSUME NEW g \in Guis, Authorised(g) PROVE DeadInv'
  BY <1>2 DEF Authorised, TypeOK, NoCall, Kinds
<1>3. ASSUME NEW g \in Guis, Claim(g) PROVE DeadInv'
  BY <1>3 DEF Claim, TypeOK, NoCall
<1>4. ASSUME NEW g \in Guis, Release(g) PROVE DeadInv'
  BY <1>4 DEF Release, TypeOK, NoCall
<1>5. ASSUME NEW g \in Guis, Send(g) PROVE DeadInv'
  BY <1>5 DEF Send, TypeOK, NoCall, Kinds
<1>6. ASSUME NEW g \in Guis, Die(g) PROVE DeadInv'
  <2>1. call[g] = NoCall /\ UNCHANGED <<call, controller, watchdog, service>>
    BY <1>6 DEF Die
  <2>2. gui' = [gui EXCEPT ![g] = "gone"]
    BY <1>6 DEF Die
  <2>3. ASSUME NEW h \in Guis, controller = h, gui'[h] = "gone", watchdog \notin {"sending", "forgetting", "failed"}
        PROVE  Heard(h)'
    <3>1. Up /\ signals' = Append(signals, g)
      BY <1>6, <2>3 DEF Die, TypeOK
    <3>2. h = g \/ Heard(h)
      BY <2>2, <2>3 DEF Heard, TypeOK
    <3> QED
      BY <3>1, <3>2, StillHeard
  <2> QED
    BY <2>1, <2>2, <2>3 DEF Heard, TypeOK
<1>7. CASE HearRelease
  <2>1. UNCHANGED <<gui, call, controller, service>> /\ watchdog = "listening"
    BY <1>7 DEF HearRelease, Watch
  <2>2. ASSUME NEW h \in Guis, controller = h, gui[h] = "gone", watchdog' # "sending" PROVE Heard(h)'
    <3>1. h # Head(signals) /\ Heard(h)
      BY <1>7, <2>1, <2>2 DEF HearRelease, Watch, Heard
    <3> QED
      BY <1>7, <3>1, OthersHeard DEF HearRelease
  <2> QED
    BY <1>7, <2>1, <2>2 DEF HearRelease, Watch, Heard
<1>8. CASE Subscribe \/ SendDisconnect \/ GraceOver \/ AskForShutdown
  BY <1>8 DEF Subscribe, SendDisconnect, GraceOver, AskForShutdown, Watch
<1>9. CASE Forget
  BY <1>9 DEF Forget, Watch
<1>10. CASE Recv \/ HandleConnect \/ HandleDisconnect \/ TunnelLost
  BY <1>10 DEF Recv, HandleConnect, HandleDisconnect, TunnelLost
<1>11. CASE ShutdownSignal \/ Cancel \/ FinalDisconnect
  BY <1>11 DEF ShutdownSignal, Cancel, FinalDisconnect
<1>12. CASE Exit
  BY <1>12 DEF Exit
<1>13. CASE UNCHANGED vars
  BY <1>13 DEF vars
<1> QED
  BY <1>1, <1>2, <1>3, <1>4, <1>5, <1>6, <1>7, <1>8, <1>9, <1>10, <1>11, <1>12, <1>13
     DEF Next, WatchStep

(* A GUI that died as the controller is not overlooked: claims, releases,  *)
(* graces and exits in any order never lose the signal of its death, as    *)
(* long as it does not die within its own call and the subscription of the *)
(* watchdog succeeded.                                                     *)
THEOREM DeadControllerHeardAlways ==
  ASSUME ~DiesInCall
  PROVE  Spec => []DeadControllerHeard
<1>1. Init => DeadInv
  BY DEF Init, DeadInv, DeadControllerHeard, Up
<1>2. DeadInv => DeadControllerHeard
  BY DEF DeadInv
<1> QED
  BY <1>1, <1>2, DeadStep, TypeCorrect, PTL DEF Spec

=============================================================================
