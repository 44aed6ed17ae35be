-------------------------- MODULE VpnSafety_proofs --------------------------
(***************************************************************************)
(* Safety theorems about VpnTask: the Connected that the GUI is shown, the *)
(* remembered ConnectedInfo, and the slot that the lock around vpn_handle  *)
(* protects, for every client; that what is shown is what is dialled, for  *)
(* a patient one; and that the guard of connect() keeps a second session   *)
(* out, for an eager one.                                                  *)
(***************************************************************************)
EXTENDS VpnTask_proofs

-----------------------------------------------------------------------------
(* Connected is only published from inside a session, and a thread that    *)
(* ends publishes Disconnected on its way.  No strengthening is needed     *)
(* beyond the types.                                                       *)

LEMMA ConnectedHasThreadStep ==
  ASSUME TypeOK, ConnectedHasThread, [Next]_vars
  PROVE  ConnectedHasThread'
<1> SUFFICES ASSUME vpnState'.tag = "Connected"
             PROVE  \E s \in Threads : tpc'[s] \notin Ended
  BY DEF ConnectedHasThread
<1> USE DEF TypeOK, ConnectedHasThread, Ended, Publish, State, Disconnected
<1>1. ASSUME NEW h \in Handlers, HandlerAction(h)
      PROVE  \E s \in Threads : tpc'[s] \notin Ended
  <2>1. CASE \/ Arm(h) \/ BuildVpn(h) \/ ReplaceHandle(h) \/ ConnectAuth(h)
             \/ \E r \in Requests : Connect(h, r) \/ Authenticated(h, r)
    BY <2>1 DEF Arm, BuildVpn, ReplaceHandle, Connect, ConnectAuth,
                Authenticated, ctxVars, threadVars
  <2>2. CASE \/ BuildFails(h) \/ PublishConnecting(h) \/ ShowPrompt(h)
             \/ LoginFails(h)
    BY <2>2 DEF BuildFails, PublishConnecting, ShowPrompt, LoginFails
  <2>3. ASSUME NEW t \in Threads, Spawn(h, t)
        PROVE  \E s \in Threads : tpc'[s] \notin Ended
    BY <2>3 DEF Spawn
  <2>. QED
    BY <1>1, <2>1, <2>2, <2>3 DEF HandlerAction
<1>2. ASSUME NEW p \in Handlers \cup {Main}, DisconnectAction(p)
      PROVE  \E s \in Threads : tpc'[s] \notin Ended
  <2>1. CASE RequestDisconnect(p) \/ TakeReceiver(p) \/ RevertDns(p)
             \/ TornDown(p)
    BY <2>1 DEF RequestDisconnect, TakeReceiver, RevertDns, TornDown, ctxVars,
                threadVars
  <2>2. CASE SkipDisconnect(p) \/ CancelTunnel(p) \/ ForceDisconnected(p)
    BY <2>2 DEF SkipDisconnect, CancelTunnel, ForceDisconnected, threadVars
  <2>. QED
    BY <1>2, <2>1, <2>2 DEF DisconnectAction
<1>3. CASE MonitorAction
  BY <1>3 DEF MonitorAction, Resume, AnnounceReconnecting, Repinned,
              PauseTunnel, ctxVars, threadVars
<1>4. ASSUME NEW t \in Threads, ThreadAction(t)
      PROVE  \E s \in Threads : tpc'[s] \notin Ended
  <2>1. CASE tpc[t] \notin Ended /\ tpc'[t] \notin Ended
    BY <2>1
  <2>2. CASE tpc[t] \in Ended
    <3>1. /\ vpnState' = vpnState
          /\ \A s \in Threads \ {t} : tpc'[s] = tpc[s]
      BY <1>4, <2>2 DEF ThreadAction, Reestablished, TunnelLost, LoopTop,
         EnterSession, SessionOver, StartRetry, NetworkWaited, Rebuild,
         StoreRebuilt, RevertAtEnd, PublishEnd, RequestDrop, DropHandle,
         SignalEnd, OpenPipe, TunnelUp, DialFailed, Announce, Paused,
         Cancelled, ctxVars
    <3>. QED
      BY <2>2, <3>1
  <2>3. CASE tpc[t] \notin Ended /\ tpc'[t] \in Ended
    <3>1. PublishEnd(t)
      BY <1>4, <2>3 DEF ThreadAction, Reestablished, TunnelLost, LoopTop,
         EnterSession, SessionOver, StartRetry, NetworkWaited, Rebuild,
         StoreRebuilt, RevertAtEnd, RequestDrop, DropHandle, SignalEnd,
         OpenPipe, TunnelUp, DialFailed, Announce, Paused, Cancelled,
         LeaveSession, threadVars
    <3>. QED
      BY <3>1 DEF PublishEnd
  <2>. QED
    BY <2>1, <2>2, <2>3
<1>5. CASE UNCHANGED vars
  BY <1>5 DEF vars, ctxVars, threadVars
<1>. QED
  BY <1>1, <1>2, <1>3, <1>4, <1>5, NextByActor

(* The GUI is never told Connected without a connection thread that can    *)
(* still take it back.                                                     *)
THEOREM ConnectedHasThreadAlways == Spec => []ConnectedHasThread
<1>1. Init => ConnectedHasThread
  BY DEF Init, ConnectedHasThread, Disconnected, State
<1>2. TypeOK /\ ConnectedHasThread /\ [Next]_vars => ConnectedHasThread'
  BY ConnectedHasThreadStep
<1>. QED
  BY <1>1, <1>2, TypeCorrect, PTL DEF Spec

(* A task that goes on, and is not the one about to start a thread, takes   *)
(* nothing from those who answer for a Connecting already shown.           *)
LEMMA ConnectingKept ==
  ASSUME TypeOK, ConnectingHasThread, NEW p \in Procs, NEW where,
         pc' = [pc EXCEPT ![p] = where], pc[p] # "spawn",
         UNCHANGED <<vpnState, tpc>>
  PROVE  ConnectingHasThread'
<1> SUFFICES ASSUME vpnState.tag = "Connecting"
             PROVE  \/ \E t \in Threads : tpc'[t] \notin Ended
                    \/ \E h \in Handlers : pc'[h] = "spawn"
  BY DEF ConnectingHasThread
<1>1. CASE \E t \in Threads : tpc[t] \notin Ended
  BY <1>1
<1>2. ASSUME NEW h \in Handlers, pc[h] = "spawn" PROVE pc'[h] = "spawn"
  BY <1>2 DEF TypeOK, Procs
<1>. QED
  BY <1>1, <1>2 DEF ConnectingHasThread

(* Connecting is only published by connect(), which then starts a thread.  *)
LEMMA ConnectingHasThreadStep ==
  ASSUME TypeOK, ConnectingHasThread, [Next]_vars
  PROVE  ConnectingHasThread'
<1> DEFINE Left == \/ \E s \in Threads : tpc[s] \notin Ended
                   \/ \E h \in Handlers : pc[h] = "spawn"
<1>1. ASSUME NEW h \in Handlers, HandlerAction(h) PROVE ConnectingHasThread'
  <2>. h \in Procs
    BY DEF Procs
  <2>1. CASE \E r \in Requests : Connect(h, r)
    <3>1. /\ pc' = [pc EXCEPT ![h] = "arm"] /\ pc[h] # "spawn"
          /\ UNCHANGED <<vpnState, tpc>>
      BY <2>1 DEF Connect, Accepts, ctxVars, threadVars
    <3>. QED
      BY <3>1, ConnectingKept
  <2>2. CASE Arm(h)
    <3>1. /\ pc' = [pc EXCEPT ![h] = "resolve"] /\ pc[h] # "spawn"
          /\ UNCHANGED <<vpnState, tpc>>
      BY <2>2 DEF Arm, threadVars
    <3>. QED
      BY <3>1, ConnectingKept
  <2>3. CASE BuildVpn(h)
    <3>1. /\ pc' = [pc EXCEPT ![h] = "replace"] /\ pc[h] # "spawn"
          /\ UNCHANGED <<vpnState, tpc>>
      BY <2>3 DEF BuildVpn, threadVars
    <3>. QED
      BY <3>1, ConnectingKept
  <2>4. CASE ReplaceHandle(h)
    <3>1. /\ pc' = [pc EXCEPT ![h] = "connecting"] /\ pc[h] # "spawn"
          /\ UNCHANGED <<vpnState, tpc>>
      BY <2>4 DEF ReplaceHandle, threadVars
    <3>. QED
      BY <3>1, ConnectingKept
  <2>5. CASE BuildFails(h)
    BY <2>5 DEF BuildFails, Publish, Disconnected, State, ConnectingHasThread
  <2>6. CASE PublishConnecting(h)
    BY <2>6 DEF PublishConnecting, ConnectingHasThread, TypeOK
  <2>7. ASSUME NEW t \in Threads, Spawn(h, t) PROVE ConnectingHasThread'
    <3>1. tpc'[t] = "top"
      BY <2>7 DEF Spawn, TypeOK
    <3>. QED
      BY <3>1 DEF ConnectingHasThread, Ended
  <2>8. CASE ConnectAuth(h) \/ \E r \in Requests : Authenticated(h, r)
    <3>1. /\ \E where : pc' = [pc EXCEPT ![h] = where]
          /\ pc[h] # "spawn" /\ UNCHANGED <<vpnState, tpc>>
      BY <2>8 DEF ConnectAuth, Authenticated, Accepts, ctxVars, threadVars
    <3>. QED
      BY <3>1, ConnectingKept
  <2>9. CASE ShowPrompt(h) \/ LoginFails(h)
    BY <2>9 DEF ShowPrompt, LoginFails, Publish, Disconnected, State,
                ConnectingHasThread
  <2>. QED
    BY <1>1, <2>1, <2>2, <2>3, <2>4, <2>5, <2>6, <2>7, <2>8, <2>9
       DEF HandlerAction
<1>2. ASSUME NEW p \in Handlers \cup {Main}, DisconnectAction(p)
      PROVE  ConnectingHasThread'
  <2>. p \in Procs
    BY DEF Procs
  <2>1. CASE vpnState'.tag # "Connecting"
    BY <2>1 DEF ConnectingHasThread
  <2>2. ASSUME vpnState' = vpnState PROVE ConnectingHasThread'
    <3>1. pc[p] # "spawn" /\ tpc' = tpc
      BY <1>2 DEF DisconnectAction, RequestDisconnect, Accepts, TakeReceiver,
         SkipDisconnect, CancelTunnel, RevertDns, TornDown, ForceDisconnected,
         threadVars
    <3>2. \E where : pc' = [pc EXCEPT ![p] = where]
      BY <1>2 DEF DisconnectAction, RequestDisconnect, TakeReceiver,
         SkipDisconnect, CancelTunnel, RevertDns, TornDown, ForceDisconnected,
         Return
    <3>. QED
      BY <2>2, <3>1, <3>2, ConnectingKept
  <2>3. vpnState' = vpnState \/ vpnState'.tag # "Connecting"
    BY <1>2 DEF DisconnectAction, RequestDisconnect, TakeReceiver,
       SkipDisconnect, CancelTunnel, RevertDns, TornDown, ForceDisconnected,
       ctxVars, Publish, Disconnected, State
  <2>. QED
    BY <2>1, <2>2, <2>3
<1>3. ASSUME MonitorAction PROVE ConnectingHasThread'
  <2>. Monitor \in Procs
    BY DEF Procs
  <2>1. CASE AnnounceReconnecting
    BY <2>1 DEF AnnounceReconnecting, Publish, State, ConnectingHasThread
  <2>2. CASE Resume \/ Repinned \/ PauseTunnel
    <3>1. pc[Monitor] # "spawn" /\ UNCHANGED <<vpnState, tpc>>
      BY <2>2 DEF Resume, Repinned, PauseTunnel, ctxVars, threadVars
    <3>2. \E where : pc' = [pc EXCEPT ![Monitor] = where]
      BY <2>2 DEF Resume, Repinned, PauseTunnel
    <3>. QED
      BY <3>1, <3>2, ConnectingKept
  <2>. QED
    BY <1>3, <2>1, <2>2 DEF MonitorAction
<1>4. ASSUME NEW t \in Threads, ThreadAction(t), vpnState'.tag = "Connecting"
      PROVE  Left'
  <2> USE DEF TypeOK, ConnectingHasThread, Ended, Publish, State, Disconnected
  <2>1. CASE tpc[t] \notin Ended /\ tpc'[t] \notin Ended
    BY <2>1
  <2>2. CASE tpc[t] \in Ended
    <3>1. /\ UNCHANGED <<vpnState, pc>>
          /\ \A s \in Threads \ {t} : tpc'[s] = tpc[s]
      BY <1>4, <2>2 DEF ThreadAction, Reestablished, TunnelLost, LoopTop,
         EnterSession, SessionOver, StartRetry, NetworkWaited, Rebuild,
         StoreRebuilt, RevertAtEnd, PublishEnd, RequestDrop, DropHandle,
         SignalEnd, OpenPipe, TunnelUp, DialFailed, Announce, Paused,
         Cancelled, ctxVars, procVars
    <3>. QED
      BY <1>4, <2>2, <3>1 DEF Ended
  <2>3. CASE tpc[t] \notin Ended /\ tpc'[t] \in Ended
    <3>1. PublishEnd(t)
      BY <1>4, <2>3 DEF ThreadAction, Reestablished, TunnelLost, LoopTop,
         EnterSession, SessionOver, StartRetry, NetworkWaited, Rebuild,
         StoreRebuilt, RevertAtEnd, RequestDrop, DropHandle, SignalEnd,
         OpenPipe, TunnelUp, DialFailed, Announce, Paused, Cancelled,
         LeaveSession, threadVars
    <3>. QED
      BY <1>4, <3>1 DEF PublishEnd
  <2>. QED
    BY <2>1, <2>2, <2>3
<1>5. ASSUME UNCHANGED vars PROVE ConnectingHasThread'
  BY <1>5 DEF ConnectingHasThread, vars, ctxVars, procVars, threadVars
<1>. QED
  BY <1>1, <1>2, <1>3, <1>4, <1>5, NextByActor DEF ConnectingHasThread

(* Nor Connecting, without a thread that will publish its end or a         *)
(* connect() that is about to start it, for any client.                    *)
THEOREM ConnectingHasThreadAlways == Spec => []ConnectingHasThread
<1>1. Init => ConnectingHasThread
  BY DEF Init, ConnectingHasThread, Disconnected, State
<1>2. TypeOK /\ ConnectingHasThread /\ [Next]_vars => ConnectingHasThread'
  BY ConnectingHasThreadStep
<1>. QED
  BY <1>1, <1>2, TypeCorrect, PTL DEF Spec

-----------------------------------------------------------------------------
(* ConnectedInfo is only written by a session's closure, and the epilogue  *)
(* takes it before the thread is past publishing.                          *)

LEMMA InfoHasThreadStep ==
  ASSUME TypeOK, InfoHasThread, [Next]_vars
  PROVE  InfoHasThread'
<1> DEFINE Owner(s) == tpc[s] \notin Ended \cup {"publish"}
<1> SUFFICES ASSUME connectedInfo' # NoInfo
             PROVE  \E s \in Threads : Owner(s)'
  BY DEF InfoHasThread
<1> USE DEF TypeOK, InfoHasThread, Ended
<1>1. ASSUME NEW h \in Handlers, HandlerAction(h)
      PROVE  \E s \in Threads : Owner(s)'
  <2>1. CASE \/ Arm(h) \/ BuildVpn(h) \/ BuildFails(h) \/ ReplaceHandle(h)
             \/ PublishConnecting(h) \/ ConnectAuth(h) \/ ShowPrompt(h)
             \/ LoginFails(h)
             \/ \E r \in Requests : Connect(h, r) \/ Authenticated(h, r)
    BY <2>1 DEF Arm, BuildVpn, BuildFails, ReplaceHandle, PublishConnecting,
                Connect, ConnectAuth, ShowPrompt, LoginFails, Authenticated,
                ctxVars, threadVars
  <2>2. ASSUME NEW t \in Threads, Spawn(h, t)
        PROVE  \E s \in Threads : Owner(s)'
    BY <2>2 DEF Spawn
  <2>. QED
    BY <1>1, <2>1, <2>2 DEF HandlerAction
<1>2. ASSUME NEW p \in Handlers \cup {Main}, DisconnectAction(p)
      PROVE  \E s \in Threads : Owner(s)'
  BY <1>2 DEF DisconnectAction, RequestDisconnect, TakeReceiver, RevertDns,
     TornDown, SkipDisconnect, CancelTunnel, ForceDisconnected, ctxVars,
     threadVars
<1>3. CASE MonitorAction
  BY <1>3 DEF MonitorAction, Resume, AnnounceReconnecting, Repinned,
              PauseTunnel, ctxVars, threadVars
<1>4. ASSUME NEW t \in Threads, ThreadAction(t)
      PROVE  \E s \in Threads : Owner(s)'
  <2>1. CASE Owner(t) /\ Owner(t)'
    BY <2>1
  <2>2. CASE ~ Owner(t)
    <3>1. /\ connectedInfo' = connectedInfo
          /\ \A s \in Threads \ {t} : tpc'[s] = tpc[s]
      BY <1>4, <2>2 DEF ThreadAction, Reestablished, TunnelLost, LoopTop,
         EnterSession, SessionOver, StartRetry, NetworkWaited, Rebuild,
         StoreRebuilt, RevertAtEnd, PublishEnd, RequestDrop, DropHandle,
         SignalEnd, OpenPipe, TunnelUp, DialFailed, Announce, Paused,
         Cancelled, ctxVars
    <3>. QED
      BY <2>2, <3>1
  <2>3. CASE Owner(t) /\ ~ Owner(t)'
    <3>1. RevertAtEnd(t)
      BY <1>4, <2>3 DEF ThreadAction, Reestablished, TunnelLost, LoopTop,
         EnterSession, SessionOver, StartRetry, NetworkWaited, Rebuild,
         StoreRebuilt, PublishEnd, RequestDrop, DropHandle, SignalEnd,
         OpenPipe, TunnelUp, DialFailed, Announce, Paused, Cancelled,
         LeaveSession, threadVars
    <3>. QED
      BY <3>1 DEF RevertAtEnd
  <2>. QED
    BY <2>1, <2>2, <2>3
<1>5. CASE UNCHANGED vars
  BY <1>5 DEF vars, ctxVars, threadVars
<1>. QED
  BY <1>1, <1>2, <1>3, <1>4, <1>5, NextByActor

(* The remembered ConnectedInfo never outlives the threads that could      *)
(* still revert its DNS.                                                   *)
THEOREM InfoHasThreadAlways == Spec => []InfoHasThread
<1>1. Init => InfoHasThread
  BY DEF Init, InfoHasThread
<1>2. TypeOK /\ InfoHasThread /\ [Next]_vars => InfoHasThread'
  BY InfoHasThreadStep
<1>. QED
  BY <1>1, <1>2, TypeCorrect, PTL DEF Spec

-----------------------------------------------------------------------------
(* The refinement: a step of VpnTask is a step of VpnSlot or a stutter.    *)
(* A write is only granted while no thread is in a session, and a thread   *)
(* only enters a session on a slot it found full.                          *)

SlotNext == [Slot!Next]_<<vpnHandle, Readers>>

(* A step that moves no thread into or out of a session, and leaves the    *)
(* slot alone, is a stutter.                                               *)
LEMMA SlotStutter ==
  ASSUME vpnHandle' = vpnHandle,
         \A s \in Threads : tpc'[s] \in InSession <=> tpc[s] \in InSession
  PROVE  SlotNext
  BY DEF SlotNext, Readers

LEMMA SlotSwap ==
  ASSUME Readers = {},
         vpnHandle' \in Requests \cup {NoRequest},
         \A s \in Threads : tpc'[s] \in InSession => tpc[s] \in InSession
  PROVE  SlotNext
<1>1. Readers' = Readers
  BY DEF Readers
<1>. QED
  BY <1>1 DEF SlotNext, Slot!Next, Slot!Swap

LEMMA SlotLeave ==
  ASSUME NEW t \in Threads, tpc[t] \in InSession, tpc'[t] \notin InSession,
         vpnHandle' = vpnHandle,
         \A s \in Threads \ {t} : tpc'[s] = tpc[s]
  PROVE  SlotNext
<1>1. t \in Readers /\ Readers' = Readers \ {t}
  BY DEF Readers
<1>. QED
  BY <1>1 DEF SlotNext, Slot!Next, Slot!Leave

LEMMA SlotUse ==
  ASSUME NEW t \in Threads, tpc[t] \notin InSession, tpc'[t] \in InSession,
         vpnHandle # NoRequest, vpnHandle' = vpnHandle,
         \A s \in Threads \ {t} : tpc'[s] = tpc[s]
  PROVE  SlotNext
<1>1. t \notin Readers /\ Readers' = Readers \cup {t}
  BY DEF Readers
<1>. QED
  BY <1>1 DEF SlotNext, Slot!Next, Slot!Use

LEMMA SlotStep ==
  ASSUME TypeInv, [Next]_vars
  PROVE  SlotNext
<1> USE DEF TypeInv, TypeOK, InSession
<1>1. ASSUME NEW h \in Handlers, HandlerAction(h) PROVE SlotNext
  <2>1. CASE \/ Arm(h) \/ BuildVpn(h) \/ BuildFails(h) \/ PublishConnecting(h)
             \/ ConnectAuth(h) \/ ShowPrompt(h) \/ LoginFails(h)
             \/ \E r \in Requests : Connect(h, r) \/ Authenticated(h, r)
    BY <2>1, SlotStutter DEF Arm, BuildVpn, BuildFails, PublishConnecting,
       Connect, ConnectAuth, ShowPrompt, LoginFails, Authenticated, ctxVars,
       threadVars
  <2>2. CASE ReplaceHandle(h)
    BY <2>2, SlotSwap DEF ReplaceHandle, GrantedWrite, threadVars, Procs
  <2>3. ASSUME NEW t \in Threads, Spawn(h, t) PROVE SlotNext
    BY <2>3, SlotStutter DEF Spawn, Live
  <2>. QED
    BY <1>1, <2>1, <2>2, <2>3 DEF HandlerAction
<1>2. ASSUME NEW p \in Handlers \cup {Main}, DisconnectAction(p) PROVE SlotNext
  BY <1>2, SlotStutter DEF DisconnectAction, RequestDisconnect, TakeReceiver,
     RevertDns, TornDown, SkipDisconnect, CancelTunnel, ForceDisconnected,
     ctxVars, threadVars
<1>3. CASE MonitorAction
  BY <1>3, SlotStutter DEF MonitorAction, Resume, AnnounceReconnecting,
     Repinned, PauseTunnel, ctxVars, threadVars
<1>4. ASSUME NEW t \in Threads, ThreadAction(t) PROVE SlotNext
  <2>1. CASE StoreRebuilt(t) \/ DropHandle(t)
    BY <2>1, SlotSwap DEF StoreRebuilt, DropHandle, GrantedWrite
  <2>2. CASE EnterSession(t)
    <3>1. CASE tpc' = [tpc EXCEPT ![t] = "starting"] /\ vpnHandle # NoRequest
      BY <2>2, <3>1, SlotUse DEF EnterSession
    <3>2. CASE tpc' = [tpc EXCEPT ![t] = "exited"]
      BY <2>2, <3>2, SlotStutter DEF EnterSession
    <3>. QED
      BY <2>2, <3>1, <3>2 DEF EnterSession
  <2>3. CASE OpenPipe(t)
    <3>1. CASE tpc' = [tpc EXCEPT ![t] = "dialing"]
      BY <2>3, <3>1, SlotStutter DEF OpenPipe, ctxVars
    <3>2. CASE tpc' = [tpc EXCEPT ![t] = "exited"]
      BY <2>3, <3>2, SlotLeave DEF OpenPipe, ctxVars
    <3>. QED
      BY <2>3, <3>1, <3>2 DEF OpenPipe
  <2>4. CASE Cancelled(t) \/ DialFailed(t) \/ TunnelLost(t)
    BY <2>4, SlotLeave DEF Cancelled, DialFailed, TunnelLost, LeaveSession,
                           ctxVars
  <2>5. CASE TunnelUp(t) \/ Announce(t)
    BY <2>5, SlotStutter DEF TunnelUp, Announce, ctxVars
  <2>6. CASE \/ Reestablished(t) \/ Paused(t) \/ LoopTop(t) \/ SessionOver(t)
             \/ StartRetry(t) \/ NetworkWaited(t) \/ Rebuild(t)
             \/ RevertAtEnd(t) \/ PublishEnd(t) \/ RequestDrop(t)
             \/ SignalEnd(t)
    BY <2>6, SlotStutter DEF Reestablished, Paused, LoopTop, SessionOver,
       StartRetry, NetworkWaited, Rebuild, RevertAtEnd, PublishEnd,
       RequestDrop, SignalEnd, ctxVars, threadVars
  <2>. QED
    BY <1>4, <2>1, <2>2, <2>3, <2>4, <2>5, <2>6 DEF ThreadAction
<1>5. CASE UNCHANGED vars
  BY <1>5, SlotStutter DEF vars, ctxVars, threadVars
<1>. QED
  BY <1>1, <1>2, <1>3, <1>4, <1>5, NextByActor

(* VpnTask implements VpnSlot: openconnect never loses the Vpn it runs on. *)
THEOREM ImplementsSlot == Spec => SlotSpec
<1>1. Init => Slot!Init
  BY DEF Init, Slot!Init, Readers, InSession
<1>2. TypeInv /\ [Next]_vars => SlotNext
  BY SlotStep
<1>. QED
  BY <1>1, <1>2, TypeInvariant, PTL DEF Spec, SlotSpec, Slot!Spec, SlotNext

-----------------------------------------------------------------------------
(* A patient client connects only while no other request is handled and no *)
(* thread is left.  Then one thread exists, and what it dials, remembers   *)
(* and shows is the request that it was started with; a teardown that      *)
(* outlasts its disconnect() changes nothing about that.                   *)

Connecting == {"login", "arm", "resolve", "replace", "connecting", "spawn"}

(* What thread t, the only one, works for.                                 *)
Follows(t) ==
  /\ request[t] = lastRequest
  /\ tpc[t] # "signal" => vpnHandle = request[t]
  /\ tpc[t] = "store" => rebuilt[t] = request[t]
  /\ tpc[t] = "announce" => closure[t] = t
  /\ connectedInfo # NoInfo => connectedInfo.request = request[t]
  /\ vpnState.tag = "Connected" => vpnState.request = request[t]

PatientInv ==
  /\ \A g, h \in Handlers : pc[g] # "idle" /\ pc[h] # "idle" => g = h
  /\ \A h \in Handlers : pc[h] \in Connecting => \A t \in Threads : ~ Live(t)
  /\ \A s, t \in Threads : Live(s) /\ Live(t) => s = t
  /\ \A h \in Handlers :
       /\ pc[h] \in {"resolve", "replace", "connecting", "spawn"} => lastRequest = req[h]
       /\ pc[h] \in {"connecting", "spawn"} => vpnHandle = req[h]
  /\ \A t \in Threads : Live(t) => Follows(t)

\* What is known of a state besides: the types and the theorems above.
Known == TypeInv /\ ConnectedHasThread /\ InfoHasThread

LEMMA PatientHandler ==
  ASSUME PatientClient, Known, PatientInv, NEW h \in Handlers, HandlerAction(h)
  PROVE  PatientInv'
<1> USE VpnTaskAssumption DEF Known, TypeInv, TypeOK, PatientInv, Connecting, Live, Procs
<1>1. CASE ConnectAuth(h) \/ \E r \in Requests : Connect(h, r)
  <2>1. \A g \in Handlers : pc[g] = "idle"
    BY <1>1 DEF Connect, ConnectAuth, Quiet
  <2>2. \A t \in Threads : tpc[t] = "done"
    BY <1>1 DEF Connect, ConnectAuth, Quiet
  <2>3. \E place \in {"login", "arm"} : pc' = [pc EXCEPT ![h] = place] /\ tpc' = tpc
    BY <1>1 DEF Connect, ConnectAuth, threadVars
  <2> QED
    BY <2>1, <2>2, <2>3
<1>2. CASE ~ (ConnectAuth(h) \/ \E r \in Requests : Connect(h, r))
  <2>1. pc[h] \in Connecting
    BY <1>2 DEF HandlerAction, ShowPrompt, Authenticated, LoginFails, Arm, BuildVpn, BuildFails,
       ReplaceHandle, PublishConnecting, Spawn
  <2>2. (\A t \in Threads : tpc[t] = "done") /\ (\A g \in Handlers : g # h => pc[g] = "idle")
    BY <2>1
  <2>3. CASE Arm(h) \/ BuildVpn(h) \/ BuildFails(h) \/ ReplaceHandle(h) \/ PublishConnecting(h)
    <3>1. tpc' = tpc /\ \A g \in Handlers : g # h => pc'[g] = pc[g]
      BY <2>3 DEF Arm, BuildVpn, BuildFails, ReplaceHandle, PublishConnecting, threadVars
    <3>2. /\ pc'[h] \in {"resolve", "replace", "connecting", "spawn"} =>
               lastRequest' = req[h] /\ req' = req
          /\ pc'[h] \in {"connecting", "spawn"} => vpnHandle' = req[h]
      <4>1. CASE Arm(h) \/ BuildVpn(h) \/ BuildFails(h)
        BY <4>1 DEF Arm, BuildVpn, BuildFails
      <4>2. CASE ReplaceHandle(h) \/ PublishConnecting(h)
        BY <4>2 DEF ReplaceHandle, PublishConnecting
      <4> QED
        BY <2>3, <4>1, <4>2
    <3> QED
      BY <2>2, <3>1, <3>2
  <2>4. ASSUME NEW t \in Threads, Spawn(h, t) PROVE PatientInv'
    <3>1. connectedInfo = NoInfo /\ vpnState.tag # "Connected"
      BY <2>2 DEF ConnectedHasThread, InfoHasThread, Ended
    <3>2. /\ tpc'[t] = "top" /\ request'[t] = req[h]
          /\ \A s \in Threads : s # t => tpc'[s] = "done"
          /\ \A g \in Handlers : pc'[g] = "idle"
          /\ lastRequest' = req[h] /\ vpnHandle' = req[h]
          /\ connectedInfo' = connectedInfo /\ vpnState' = vpnState
      BY <2>2, <2>4 DEF Spawn
    <3>3. Follows(t)'
      BY <3>1, <3>2 DEF Follows
    <3> QED
      BY <3>2, <3>3
  <2>5. CASE ShowPrompt(h) \/ LoginFails(h) \/ \E r \in Requests : Authenticated(h, r)
    <3>1. /\ tpc' = tpc /\ \A g \in Handlers : g # h => pc'[g] = pc[g]
          /\ pc'[h] \in {"idle", "login", "arm"}
      BY <2>5 DEF ShowPrompt, LoginFails, Authenticated, procVars, threadVars
    <3> QED
      BY <2>2, <3>1
  <2> QED
    BY <1>2, <2>3, <2>4, <2>5 DEF HandlerAction
<1> QED
  BY <1>1, <1>2

\* A disconnect, and a resume, publish no Connected and touch no thread.
LEMMA PatientOther ==
  ASSUME PatientClient, Known, PatientInv,
         MonitorAction \/ \E p \in Handlers \cup {Main} : DisconnectAction(p)
  PROVE  PatientInv'
<1> USE VpnTaskAssumption DEF Known, TypeInv, TypeOK, PatientInv, Connecting, Live, Procs
<1>1. UNCHANGED <<threadVars, closure, connectedInfo, lastRequest, vpnHandle>>
  BY DEF MonitorAction, Resume, AnnounceReconnecting, Repinned, PauseTunnel, DisconnectAction,
         RequestDisconnect, TakeReceiver, RevertDns, TornDown, SkipDisconnect, CancelTunnel,
         ForceDisconnected, ctxVars, threadVars, ocVars
<1>2. vpnState' = vpnState \/ vpnState'.tag \in {"Disconnected", "Disconnecting", "Reconnecting"}
  BY DEF MonitorAction, Resume, AnnounceReconnecting, Repinned, PauseTunnel, DisconnectAction,
         RequestDisconnect, TakeReceiver, RevertDns, TornDown, SkipDisconnect, CancelTunnel,
         ForceDisconnected, ctxVars, Publish, State, Disconnected
<1>3. \A t \in Threads : Live(t)' => Live(t) /\ Follows(t)'
  BY <1>1, <1>2 DEF Follows, threadVars
<1>4. CASE MonitorAction
  <2>1. \A g \in Handlers : pc'[g] = pc[g] /\ req'[g] = req[g]
    BY <1>4 DEF MonitorAction, Resume, AnnounceReconnecting, Repinned, PauseTunnel
  <2> QED
    BY <1>1, <1>3, <2>1 DEF threadVars
<1>5. ASSUME NEW p \in Handlers \cup {Main}, DisconnectAction(p) PROVE PatientInv'
  <2>1. /\ \A g \in Handlers : g # p => pc'[g] = pc[g]
        /\ pc'[p] \notin Connecting
        /\ req' = req
    BY <1>5 DEF DisconnectAction, RequestDisconnect, TakeReceiver, RevertDns, TornDown,
       SkipDisconnect, CancelTunnel, ForceDisconnected, Return
  <2>2. p \in Handlers => pc[p] # "idle" \/ \A g \in Handlers : pc[g] = "idle"
    BY <1>5 DEF DisconnectAction, RequestDisconnect, TakeReceiver, RevertDns, TornDown,
       SkipDisconnect, CancelTunnel, ForceDisconnected, Accepts
  <2> QED
    BY <1>1, <1>3, <2>1, <2>2 DEF threadVars
<1> QED
  BY <1>4, <1>5

\* The only thread decides.
LEMMA PatientThreadMoves ==
  ASSUME PatientInv, NEW t \in Threads, Live(t), UNCHANGED <<pc, req, lastRequest>>,
         \A s \in Threads : s # t => tpc'[s] = tpc[s],
         Live(t)' => Follows(t)'
  PROVE  PatientInv'
<1>1. \A s \in Threads : s # t => ~ Live(s) /\ ~ Live(s)'
  BY DEF PatientInv, Live
<1>2. \A h \in Handlers : pc[h] \notin Connecting
  BY DEF PatientInv
<1> QED
  BY <1>1, <1>2 DEF PatientInv, Connecting

LEMMA PatientThread ==
  ASSUME Known, PatientInv, NEW t \in Threads, ThreadAction(t)
  PROVE  PatientInv'
<1> USE VpnTaskAssumption DEF Known, TypeInv, TypeOK, Live
<1>1. Live(t) /\ UNCHANGED <<pc, req, lastRequest>> /\ \A s \in Threads : s # t => tpc'[s] = tpc[s]
  BY DEF ThreadAction, Reestablished, TunnelLost, LoopTop, EnterSession, SessionOver, StartRetry,
     NetworkWaited, Rebuild, StoreRebuilt, RevertAtEnd, PublishEnd, RequestDrop, DropHandle,
     SignalEnd, OpenPipe, TunnelUp, DialFailed, Announce, Paused, Cancelled, LeaveSession,
     procVars, threadVars, ctxVars
<1>2. Follows(t)
  BY <1>1 DEF PatientInv
<1>3. SUFFICES ASSUME Live(t)' PROVE Follows(t)'
  BY <1>1, PatientThreadMoves
<1>4. CASE \/ LoopTop(t) \/ SessionOver(t) \/ NetworkWaited(t) \/ RequestDrop(t) \/ SignalEnd(t)
           \/ OpenPipe(t) \/ DialFailed(t) \/ Cancelled(t) \/ TunnelLost(t)
  BY <1>2, <1>3, <1>4 DEF LoopTop, SessionOver, NetworkWaited, RequestDrop, SignalEnd, OpenPipe,
     DialFailed, Cancelled, TunnelLost, LeaveSession, Follows, procVars, ctxVars, ocVars
<1>5. CASE Reestablished(t) \/ Paused(t) \/ StartRetry(t)
  <2>1. vpnState' = vpnState \/ \E tag \in VpnTags : connectedInfo # NoInfo
                                  /\ vpnState' = State(tag, connectedInfo.request)
    BY <1>5 DEF Reestablished, Paused, StartRetry, OnReconnected, Publish, VpnTags
  <2> QED
    BY <1>2, <1>5, <2>1 DEF Reestablished, Paused, StartRetry, Follows, State, procVars,
       threadVars, ocVars
<1>6. CASE EnterSession(t)
  BY <1>2, <1>6 DEF EnterSession, Follows, procVars
<1>7. CASE Rebuild(t)
  BY <1>2, <1>7 DEF Rebuild, Follows, ocVars
<1>8. CASE StoreRebuilt(t)
  BY <1>2, <1>8 DEF StoreRebuilt, Follows
<1>9. CASE RevertAtEnd(t)
  BY <1>2, <1>9 DEF RevertAtEnd, Follows
<1>10. CASE PublishEnd(t)
  BY <1>2, <1>10 DEF PublishEnd, Follows, Publish, Disconnected, State, ocVars
<1>11. CASE DropHandle(t)
  BY <1>2, <1>11 DEF DropHandle, Follows
<1>12. CASE TunnelUp(t)
  <2>1. onConnected # NoThread => onConnected = t
    BY <1>1 DEF ClosureAlive, Over, PatientInv
  <2> QED
    BY <1>2, <1>12, <2>1 DEF TunnelUp, Follows, ctxVars
<1>13. CASE Announce(t)
  BY <1>2, <1>13 DEF Announce, Follows, Publish, State
<1> QED
  BY <1>4, <1>5, <1>6, <1>7, <1>8, <1>9, <1>10, <1>11, <1>12, <1>13 DEF ThreadAction

LEMMA PatientStep ==
  ASSUME PatientClient
  PROVE  Known /\ PatientInv /\ [Next]_vars => PatientInv'
<1> SUFFICES ASSUME Known, PatientInv, [Next]_vars PROVE PatientInv'
  OBVIOUS
<1>1. CASE UNCHANGED vars
  BY <1>1 DEF vars, ctxVars, procVars, threadVars, ocVars, PatientInv, Follows, Live
<1> QED
  BY <1>1, NextByActor, PatientHandler, PatientOther, PatientThread

LEMMA PatientInvariant ==
  ASSUME PatientClient
  PROVE  Spec => []PatientInv
<1>1. Init => PatientInv
  BY VpnTaskAssumption DEF Init, PatientInv, Connecting, Live, Procs
<1>2. Spec => []Known
  BY TypeInvariant, ConnectedHasThreadAlways, InfoHasThreadAlways, PTL DEF Known
<1> QED
  BY <1>1, <1>2, PatientStep, PTL DEF Spec

(* The gateway that a patient client sees as Connected is the one that the *)
(* running session dials, also after rebuilds, resumes and switches.       *)
THEOREM ConnectedIsDialedAlways ==
  ASSUME PatientClient
  PROVE  Spec => []ConnectedIsDialed
<1>1. PatientInv => ConnectedIsDialed
  BY DEF PatientInv, ConnectedIsDialed, Follows, Readers, Live, InSession
<1> QED
  BY <1>1, PatientInvariant, PTL

-----------------------------------------------------------------------------
(* A client that asks whenever it likes, one request at a time, at a       *)
(* service whose teardowns end in time.  connect() then relies on its      *)
(* guard: while a thread can still enter a session, the published state is *)
(* none that the guard lets pass.  The states that could come in between   *)
(* are published by disconnect(): when it finds no receiver, or when it    *)
(* gives up waiting.  The first needs that the receiver of such a thread   *)
(* is stored or held by the disconnect() itself; the second never comes    *)
(* with such a thread, since its cancel is in the pipe or comes with the   *)
(* tunnel.  The thread before it may still be on its way out and drop the  *)
(* new Vpn, which is why a full slot is only known during a session.       *)

OneHandler == \A g, h \in Handlers : g = h

Eager == OneHandler /\ ~ TeardownMayHang /\ ~ LoginsBesideTunnel

\* t may be in a session, now or later.
Active(t) == tpc[t] \notin Ended

Awaiting == {"cancel", "revert", "await"}
Refusing == VpnTags \ {"Disconnected", "GatewaySelect"}

\* How the one active thread is connected to openconnect.
Wired(t) ==
  /\ tpc[t] \in InSession => vpnHandle # NoRequest
  /\ tpc[t] \in {"dialing", "announce", "up"} => cmdPipe = t
  /\ tpc[t] \in {"starting", "dialing"} => onConnected = t

\* What a disconnect() of p knows of the thread it waits for.
Asked(p) ==
  /\ InDisconnect(p) => userDisconnect
  /\ pc[p] \in Awaiting => disconnectRx = NoThread /\ rxGuard = p /\ awaited[p] \in Threads
  /\ pc[p] \in {"revert", "await"} /\ tpc[awaited[p]] \in {"announce", "up"} =>
       "cancel" \in commands[awaited[p]]

\* While requests are accepted.
Guarded ==
  /\ \A t \in Threads : Active(t) =>
       /\ vpnState.tag \in Refusing
       /\ disconnectRx = t \/ \E h \in Handlers : awaited[h] = t /\ pc[h] \in Awaiting
  /\ \A h \in Handlers :
       /\ pc[h] = "spawn" => vpnState.tag \in Refusing
       /\ pc[h] = "skip" => \A t \in Threads : ~ Active(t)

EagerInv ==
  /\ \A s, t \in Threads : Active(s) /\ Active(t) => s = t
  /\ \A h \in Handlers : pc[h] \in Connecting => \A t \in Threads : ~ Active(t)
  /\ \A t \in Threads : Active(t) => Wired(t)
  /\ \A h \in Handlers : Asked(h)
  /\ pc[Main] = "running" => Guarded

\* A session belongs to the active thread.
LEMMA ReaderActive == \A t \in Threads : t \in Readers => Active(t)
BY DEF Readers, Active, Ended, InSession

\* No handler is past its guard while a thread is active.
LEMMA EagerConnect ==
  ASSUME Eager, TypeInv, EagerInv, NEW h \in Handlers, HandlerAction(h)
  PROVE  EagerInv'
<1> USE VpnTaskAssumption DEF Eager, OneHandler, TypeInv, TypeOK, EagerInv, Connecting, Procs
<1>1. \A t \in Threads : ~ Active(t)
  <2>1. CASE ConnectAuth(h) \/ \E r \in Requests : Connect(h, r)
    BY <2>1 DEF Connect, ConnectAuth, Accepts, Admits, Guarded, Refusing
  <2>2. CASE ~ (ConnectAuth(h) \/ \E r \in Requests : Connect(h, r))
    BY <2>2 DEF HandlerAction, ShowPrompt, Authenticated, LoginFails, Arm, BuildVpn, BuildFails,
       ReplaceHandle, PublishConnecting, Spawn
  <2> QED
    BY <2>1, <2>2
<1>2. \A g \in Handlers : g = h
  OBVIOUS
<1>3. ~ InDisconnect(h) /\ ~ InDisconnect(h)'
  BY DEF HandlerAction, Connect, ConnectAuth, ShowPrompt, Authenticated, LoginFails, Accepts, Arm,
         BuildVpn, BuildFails, ReplaceHandle, PublishConnecting, Spawn, InDisconnect, procVars
<1>4. \A g \in Handlers : Asked(g)'
  BY <1>2, <1>3 DEF Asked, InDisconnect, Awaiting
<1>5. pc'[Main] = pc[Main]
  BY DEF HandlerAction, Connect, ConnectAuth, ShowPrompt, Authenticated, LoginFails, Arm, BuildVpn,
         BuildFails, ReplaceHandle, PublishConnecting, Spawn, procVars
<1>6. CASE \/ Arm(h) \/ BuildVpn(h) \/ BuildFails(h) \/ ReplaceHandle(h) \/ PublishConnecting(h)
           \/ ConnectAuth(h) \/ ShowPrompt(h) \/ LoginFails(h)
           \/ \E r \in Requests : Connect(h, r) \/ Authenticated(h, r)
  <2>1. \A t \in Threads : ~ Active(t)'
    BY <1>1, <1>6 DEF Active, Connect, ConnectAuth, ShowPrompt, Authenticated, LoginFails, Arm,
       BuildVpn, BuildFails, ReplaceHandle, PublishConnecting, threadVars
  <2>2. pc'[h] = "spawn" => vpnState'.tag = "Connecting"
    BY <1>6 DEF Connect, ConnectAuth, ShowPrompt, Authenticated, LoginFails, Arm, BuildVpn,
       BuildFails, ReplaceHandle, PublishConnecting, Publish, State, procVars
  <2>3. Guarded'
    BY <1>2, <1>3, <2>1, <2>2 DEF Guarded, Refusing, VpnTags, InDisconnect
  <2> QED
    BY <1>4, <2>1, <2>3
<1>7. ASSUME NEW t \in Threads, Spawn(h, t) PROVE EagerInv'
  <2>1. /\ \A s \in Threads : s # t => ~ Active(s)'
        /\ tpc'[t] = "top" /\ disconnectRx' = t /\ vpnState' = vpnState /\ pc'[h] = "idle"
    BY <1>1, <1>7 DEF Spawn, Active
  <2>2. Wired(t)'
    BY <2>1 DEF Wired, InSession
  <2>3. pc[Main] = "running" => Guarded'
    BY <1>2, <1>7, <2>1 DEF Guarded, Spawn
  <2> QED
    BY <1>2, <1>4, <1>5, <2>1, <2>2, <2>3
<1> QED
  BY <1>6, <1>7 DEF HandlerAction

\* One active thread moves.
LEMMA EagerThreadMoves ==
  ASSUME EagerInv, NEW t \in Threads, Active(t),
         UNCHANGED <<pc, awaited, disconnectRx, rxGuard, userDisconnect>>,
         \A s \in Threads : s # t => tpc'[s] = tpc[s],
         Active(t)' => vpnState' = vpnState \/ vpnState'.tag \in Refusing,
         Active(t)' => Wired(t)',
         userDisconnect /\ (\E h \in Handlers : pc[h] \in {"revert", "await"} /\ awaited[h] = t)
           /\ tpc'[t] \in {"announce", "up"} => "cancel" \in commands'[t]
  PROVE  EagerInv'
<1>1. \A s \in Threads : s # t => ~ Active(s) /\ ~ Active(s)'
  BY DEF EagerInv, Active
<1>2. \A h \in Handlers : pc[h] \notin Connecting
  BY DEF EagerInv
<1>3. ASSUME NEW h \in Handlers PROVE Asked(h)'
  <2>1. CASE awaited[h] = t
    BY <2>1 DEF EagerInv, Asked, InDisconnect
  <2>2. CASE awaited[h] # t
    BY <1>1, <2>2 DEF EagerInv, Asked, InDisconnect, Awaiting, Active, Ended
  <2> QED
    BY <2>1, <2>2
<1>4. Guarded => Guarded'
  BY <1>1, <1>2 DEF Guarded, Connecting
<1> QED
  BY <1>1, <1>2, <1>3, <1>4 DEF EagerInv

LEMMA EagerThread ==
  ASSUME Eager, TypeInv, EagerInv, NEW t \in Threads, ThreadAction(t)
  PROVE  EagerInv'
<1> USE VpnTaskAssumption DEF TypeInv, TypeOK
<1>1. UNCHANGED <<pc, awaited, disconnectRx, rxGuard, userDisconnect>>
      /\ \A s \in Threads : s # t => tpc'[s] = tpc[s]
  BY DEF ThreadAction, Reestablished, TunnelLost, LoopTop, EnterSession, SessionOver, StartRetry,
     NetworkWaited, Rebuild, StoreRebuilt, RevertAtEnd, PublishEnd, RequestDrop, DropHandle,
     SignalEnd, OpenPipe, TunnelUp, DialFailed, Announce, Paused, Cancelled, LeaveSession,
     procVars, threadVars, ctxVars
<1>2. CASE ~ Active(t)
  <2>1. RequestDrop(t) \/ DropHandle(t) \/ SignalEnd(t)
    BY <1>2 DEF Active, Ended, ThreadAction, Reestablished, TunnelLost, LoopTop, EnterSession,
       SessionOver, StartRetry, NetworkWaited, Rebuild, StoreRebuilt, RevertAtEnd, PublishEnd,
       OpenPipe, TunnelUp, DialFailed, Announce, Paused, Cancelled
  <2>2. ~ Active(t)' /\ tpc[t] \notin {"announce", "up"} /\ tpc'[t] \notin {"announce", "up"}
    BY <2>1 DEF RequestDrop, DropHandle, SignalEnd, Active, Ended
  <2>3. UNCHANGED <<vpnState, commands, cmdPipe>>
    BY <2>1 DEF RequestDrop, DropHandle, SignalEnd, ctxVars, ocVars
  <2>4. UNCHANGED <<vpnHandle, onConnected>> \/ Readers = {}
    BY <2>1 DEF RequestDrop, DropHandle, SignalEnd, GrantedWrite, ctxVars, ocVars
  <2>5. \A s \in Threads : Active(s)' => Active(s) /\ s # t /\ tpc'[s] = tpc[s]
    BY <1>1, <2>2 DEF Active
  <2>6. ASSUME NEW s \in Threads, Active(s)' PROVE Wired(s)'
    <3>1. Active(s) /\ tpc'[s] = tpc[s] /\ Wired(s)
      BY <2>5, <2>6 DEF EagerInv
    <3>2. CASE Readers = {}
      BY <2>3, <3>1, <3>2 DEF Wired, Readers, InSession
    <3>3. CASE UNCHANGED <<vpnHandle, onConnected>>
      BY <2>3, <3>1, <3>3 DEF Wired
    <3> QED
      BY <2>4, <3>2, <3>3
  <2>7. ASSUME NEW h \in Handlers PROVE Asked(h)'
    <3>1. awaited[h] \in Threads /\ tpc'[awaited[h]] \in {"announce", "up"} =>
            tpc[awaited[h]] = tpc'[awaited[h]]
      BY <1>1, <2>2
    <3> QED
      BY <1>1, <2>3, <3>1 DEF EagerInv, Asked, InDisconnect, Awaiting
  <2>8. Guarded => Guarded'
    BY <1>1, <2>3, <2>5 DEF Guarded
  <2> QED
    BY <1>1, <2>5, <2>6, <2>7, <2>8 DEF EagerInv
<1>3. CASE Active(t)
  <2>1. Wired(t)
    BY <1>3 DEF EagerInv
  <2> USE DEF Active, Ended, Wired, InSession
  <2>2. CASE \/ LoopTop(t) \/ SessionOver(t) \/ StartRetry(t) \/ NetworkWaited(t) \/ Rebuild(t)
             \/ StoreRebuilt(t) \/ RevertAtEnd(t) \/ PublishEnd(t)
    <3>1. Active(t)' => tpc'[t] \notin InSession
      BY <2>2 DEF LoopTop, SessionOver, StartRetry, NetworkWaited, Rebuild, StoreRebuilt,
         RevertAtEnd, PublishEnd
    <3>2. Active(t)' => vpnState' = vpnState \/ vpnState'.tag = "Reconnecting"
      BY <2>2 DEF LoopTop, SessionOver, StartRetry, NetworkWaited, Rebuild, StoreRebuilt,
         RevertAtEnd, PublishEnd, Publish, State, ctxVars
    <3>3. Wired(t)' \/ ~ Active(t)'
      BY <3>1
    <3>4. tpc'[t] \notin {"announce", "up"}
      BY <2>2 DEF LoopTop, SessionOver, StartRetry, NetworkWaited, Rebuild, StoreRebuilt,
         RevertAtEnd, PublishEnd
    <3> HIDE DEF Active, Wired
    <3> QED
      BY <1>1, <1>3, <3>2, <3>3, <3>4, EagerThreadMoves DEF Refusing, VpnTags
  <2>3. CASE DialFailed(t) \/ Cancelled(t) \/ TunnelLost(t)
    <3>1. tpc'[t] = "exited" /\ vpnState' = vpnState
      BY <2>3 DEF DialFailed, Cancelled, TunnelLost, LeaveSession, ctxVars
    <3>2. Wired(t)'
      BY <3>1
    <3> HIDE DEF Active, Wired
    <3> QED
      BY <1>1, <1>3, <3>1, <3>2, EagerThreadMoves
  <2>4. CASE EnterSession(t) \/ OpenPipe(t)
    <3>1. Wired(t)' /\ tpc'[t] \in {"starting", "dialing", "exited"} /\ vpnState' = vpnState
      BY <2>1, <2>4 DEF EnterSession, OpenPipe, ctxVars
    <3> HIDE DEF Active, Wired
    <3> QED
      BY <1>1, <1>3, <3>1, EagerThreadMoves
  <2>5. CASE TunnelUp(t)
    <3>1. Wired(t)' /\ vpnState' = vpnState
      BY <2>1, <2>5 DEF TunnelUp, ctxVars
    <3>2. onConnected = t /\ cmdPipe = t
      BY <2>1, <2>5 DEF TunnelUp
    <3>3. userDisconnect => "cancel" \in commands'[t]
      BY <2>5, <3>2 DEF TunnelUp, SendCommand
    <3> HIDE DEF Active, Wired
    <3> QED
      BY <1>1, <1>3, <3>1, <3>3, EagerThreadMoves
  <2>6. CASE Announce(t) \/ Reestablished(t) \/ Paused(t)
    <3>1. vpnState' = vpnState \/ vpnState'.tag = "Connected"
      BY <2>6 DEF Announce, Reestablished, Paused, OnReconnected, Publish, State
    <3>2. /\ tpc[t] \in {"announce", "up"} /\ tpc'[t] = "up"
          /\ "cancel" \in commands[t] => "cancel" \in commands'[t]
          /\ UNCHANGED <<vpnHandle, cmdPipe>>
      BY <2>6 DEF Announce, Reestablished, Paused, threadVars, ocVars
    <3>3. Wired(t)'
      BY <2>1, <3>2
    <3>4. ASSUME NEW h \in Handlers, pc[h] \in {"revert", "await"}, awaited[h] = t
          PROVE  "cancel" \in commands'[t]
      BY <3>2, <3>4 DEF EagerInv, Asked
    <3> HIDE DEF Active, Wired
    <3> QED
      BY <1>1, <1>3, <3>1, <3>3, <3>4, EagerThreadMoves DEF Refusing, VpnTags
  <2>7. ~ (RequestDrop(t) \/ DropHandle(t) \/ SignalEnd(t))
    BY <1>3 DEF RequestDrop, DropHandle, SignalEnd
  <2> QED
    BY <2>2, <2>3, <2>4, <2>5, <2>6, <2>7 DEF ThreadAction
<1> QED
  BY <1>2, <1>3

\* Neither a disconnect nor a resume moves a thread or takes a command back.
LEMMA ThreadsLeftAlone ==
  ASSUME TypeInv, MonitorAction \/ \E p \in Handlers \cup {Main} : DisconnectAction(p)
  PROVE  /\ UNCHANGED <<tpc, vpnHandle, cmdPipe, onConnected>>
         /\ \A t \in Threads : commands[t] \subseteq commands'[t]
<1>1. UNCHANGED <<tpc, vpnHandle, cmdPipe, onConnected>>
  BY DEF MonitorAction, Resume, AnnounceReconnecting, Repinned, PauseTunnel, DisconnectAction,
     RequestDisconnect, TakeReceiver, RevertDns, TornDown, SkipDisconnect, CancelTunnel,
     ForceDisconnected, ctxVars, threadVars, ocVars
<1>2. commands' = commands \/ \E cmd \in {"cancel", "pause"} : SendCommand(cmd)
  BY DEF MonitorAction, Resume, AnnounceReconnecting, Repinned, PauseTunnel, DisconnectAction,
     RequestDisconnect, TakeReceiver, RevertDns, TornDown, SkipDisconnect, CancelTunnel,
     ForceDisconnected, ocVars
<1> QED
  BY <1>1, <1>2 DEF SendCommand

LEMMA EagerMonitor ==
  ASSUME TypeInv, EagerInv, MonitorAction
  PROVE  EagerInv'
<1> USE VpnTaskAssumption DEF TypeInv, TypeOK, Procs
<1>1. UNCHANGED <<awaited, disconnectRx, rxGuard, userDisconnect>>
      /\ \A p \in Procs \ {Monitor} : pc'[p] = pc[p]
  BY DEF MonitorAction, Resume, AnnounceReconnecting, Repinned, PauseTunnel, ctxVars
<1>2. vpnState' = vpnState \/ vpnState'.tag = "Reconnecting"
  BY DEF MonitorAction, Resume, AnnounceReconnecting, Repinned, PauseTunnel, ctxVars, Publish, State
<1>3. /\ UNCHANGED <<tpc, vpnHandle, cmdPipe, onConnected>>
      /\ \A t \in Threads : commands[t] \subseteq commands'[t]
  BY ThreadsLeftAlone
<1>4. \A t \in Threads : Active(t)' = Active(t) /\ Wired(t)' = Wired(t)
  BY <1>3 DEF Active, Wired
<1>5. ASSUME NEW h \in Handlers PROVE Asked(h)'
  <2>1. pc'[h] = pc[h] /\ Asked(h)
    BY <1>1 DEF EagerInv
  <2> QED
    BY <1>1, <1>3, <2>1 DEF Asked, InDisconnect, Awaiting
<1>6. Guarded => Guarded'
  <2>1. vpnState.tag \in Refusing => vpnState'.tag \in Refusing
    BY <1>2 DEF Refusing, VpnTags
  <2>2. disconnectRx' = disconnectRx /\ \A h \in Handlers : pc'[h] = pc[h] /\ awaited'[h] = awaited[h]
    BY <1>1
  <2>3. \A t \in Threads : Active(t)' <=> Active(t)
    BY <1>4
  <2> QED
    BY <2>1, <2>2, <2>3 DEF Guarded
<1>7. \A t \in Threads : Active(t)' <=> Active(t)
  BY <1>4
<1>8. \A s, t \in Threads : Active(s)' /\ Active(t)' => s = t
  BY <1>7 DEF EagerInv
<1>9. ASSUME NEW h \in Handlers, pc'[h] \in Connecting, NEW t \in Threads PROVE ~ Active(t)'
  <2>1. pc'[h] = pc[h]
    BY <1>1
  <2> QED
    BY <1>7, <1>9, <2>1 DEF EagerInv
<1>10. ASSUME NEW t \in Threads, Active(t)' PROVE Wired(t)'
  BY <1>4, <1>7, <1>10 DEF EagerInv
<1>11. pc'[Main] = "running" => Guarded'
  <2>1. pc'[Main] = pc[Main]
    BY <1>1
  <2> QED
    BY <1>6, <2>1 DEF EagerInv
<1> HIDE VpnTaskAssumption DEF TypeInv, TypeOK, Procs
<1> QED
  BY <1>5, <1>8, <1>9, <1>10, <1>11 DEF EagerInv, Connecting

\* The main task ends the service: from here on the guard no longer matters.
LEMMA EagerMain ==
  ASSUME TypeInv, EagerInv, DisconnectAction(Main)
  PROVE  EagerInv'
<1> USE VpnTaskAssumption DEF TypeInv, TypeOK, Procs
<1>1. pc'[Main] # "running" /\ \A h \in Handlers : pc'[h] = pc[h] /\ awaited'[h] = awaited[h]
  BY DEF DisconnectAction, RequestDisconnect, TakeReceiver, RevertDns, TornDown, SkipDisconnect,
     CancelTunnel, ForceDisconnected, Return
<1>2. /\ userDisconnect' = userDisconnect \/ userDisconnect' = TRUE
      /\ rxGuard' # rxGuard => rxGuard \in {NoProc, Main}
      /\ disconnectRx' # disconnectRx => rxGuard = NoProc
  BY DEF DisconnectAction, RequestDisconnect, TakeReceiver, RevertDns, TornDown, SkipDisconnect,
     CancelTunnel, ForceDisconnected, Return, ctxVars
<1>3. /\ UNCHANGED <<tpc, vpnHandle, cmdPipe, onConnected>>
      /\ \A t \in Threads : commands[t] \subseteq commands'[t]
  BY ThreadsLeftAlone
<1>4. \A t \in Threads : Active(t)' = Active(t) /\ Wired(t)' = Wired(t)
  BY <1>3 DEF Active, Wired
<1>5. ASSUME NEW h \in Handlers PROVE Asked(h)'
  <2>1. pc'[h] = pc[h] /\ awaited'[h] = awaited[h] /\ Asked(h)
    BY <1>1 DEF EagerInv
  <2>2. rxGuard = h => rxGuard' = rxGuard /\ disconnectRx' = disconnectRx
    BY <1>2
  <2> QED
    BY <1>2, <1>3, <2>1, <2>2 DEF Asked, InDisconnect, Awaiting
<1> QED
  BY <1>1, <1>4, <1>5 DEF EagerInv, Connecting

\* disconnect() gives up on no thread that can still enter a session.
LEMMA NoForceWhileActive ==
  ASSUME Eager, TypeInv, EagerInv, NEW h \in Handlers, ForceDisconnected(h)
  PROVE  ~ Active(awaited[h])
<1> DEFINE t == awaited[h]
<1> SUFFICES ASSUME Active(t) PROVE FALSE
  OBVIOUS
<1>1. /\ pc[h] = "await" /\ ~ AskedToEnd(t) /\ Asked(h)
  BY DEF ForceDisconnected, Eager, EagerInv
<1>2. t \in Threads /\ userDisconnect /\ (tpc[t] \in {"announce", "up"} => "cancel" \in commands[t])
  BY <1>1 DEF Asked, InDisconnect, Awaiting
<1>3. tpc[t] \in {"enter", "store", "take"} => Readers = {}
  BY <1>2, ReaderActive DEF EagerInv, Readers, InSession
<1> QED
  BY <1>1, <1>2, <1>3 DEF AskedToEnd

LEMMA EagerDisconnect ==
  ASSUME Eager, TypeInv, EagerInv, NEW h \in Handlers, DisconnectAction(h)
  PROVE  EagerInv'
<1> USE VpnTaskAssumption DEF TypeInv, TypeOK, Procs
<1>1. (\A g \in Handlers : g = h) /\ h # Main /\ h \in Procs
  BY DEF Eager, OneHandler
<1>2. /\ UNCHANGED <<tpc, vpnHandle, cmdPipe, onConnected>>
      /\ \A t \in Threads : commands[t] \subseteq commands'[t]
  BY ThreadsLeftAlone
<1>3. \A t \in Threads : Active(t)' = Active(t) /\ Wired(t)' = Wired(t)
  BY <1>2 DEF Active, Wired
<1>4. pc'[Main] = pc[Main] /\ pc'[h] \notin Connecting
  BY <1>1 DEF DisconnectAction, RequestDisconnect, TakeReceiver, RevertDns, TornDown,
     SkipDisconnect, CancelTunnel, ForceDisconnected, Return, Connecting
<1>5. SUFFICES /\ Asked(h)'
               /\ pc[Main] = "running" => Guarded'
  BY <1>1, <1>3, <1>4 DEF EagerInv
<1>6. Asked(h) /\ (pc[Main] = "running" => Guarded)
  BY DEF EagerInv
<1>7. CASE RequestDisconnect(h)
  <2>1. pc[h] = "idle" /\ pc'[h] = "take" /\ userDisconnect' = TRUE
        /\ UNCHANGED <<vpnState, disconnectRx>>
    BY <1>1, <1>7 DEF RequestDisconnect, Accepts
  <2>2. ASSUME NEW t \in Threads, pc[Main] = "running", Active(t)
        PROVE  vpnState.tag \in Refusing /\ disconnectRx = t
    <3>1. \A g \in Handlers : pc[g] \notin Awaiting
      BY <1>1, <2>1 DEF Awaiting
    <3> HIDE DEF TypeInv, TypeOK
    <3> QED
      BY <1>6, <2>2, <3>1 DEF Guarded
  <2> QED
    BY <1>1, <1>3, <2>1, <2>2 DEF Asked, Awaiting, Guarded
<1>8. CASE TakeReceiver(h)
  <2>1. pc[h] = "take" /\ UNCHANGED <<vpnState, userDisconnect>> /\ userDisconnect
    BY <1>6, <1>8 DEF TakeReceiver, Asked, InDisconnect
  <2>2. ASSUME NEW t \in Threads, pc[Main] = "running", Active(t)
        PROVE  vpnState.tag \in Refusing /\ disconnectRx = t
    <3>1. \A g \in Handlers : pc[g] \notin Awaiting
      BY <1>1, <1>8 DEF TakeReceiver, Awaiting
    <3> HIDE DEF TypeInv, TypeOK
    <3> QED
      BY <1>6, <2>2, <3>1 DEF Guarded
  <2>3. CASE disconnectRx = NoThread
    <3>1. pc'[h] = "skip" /\ UNCHANGED <<disconnectRx, rxGuard, awaited>>
      BY <1>8, <2>3 DEF TakeReceiver
    <3> QED
      BY <1>1, <1>3, <2>1, <2>2, <2>3, <3>1 DEF Asked, Awaiting, InDisconnect, Guarded
  <2>4. CASE disconnectRx # NoThread
    <3>1. /\ pc'[h] = "cancel" /\ disconnectRx' = NoThread /\ rxGuard' = h
          /\ awaited'[h] = disconnectRx /\ disconnectRx \in Threads
      BY <1>8, <2>4 DEF TakeReceiver
    <3> QED
      BY <1>1, <1>3, <2>1, <2>2, <3>1 DEF Asked, Awaiting, InDisconnect, Guarded
  <2> QED
    BY <2>3, <2>4
<1>9. CASE CancelTunnel(h) \/ RevertDns(h)
  <2>1. /\ pc[h] \in {"cancel", "revert"} /\ pc'[h] \in {"revert", "await"}
        /\ UNCHANGED <<disconnectRx, rxGuard, awaited, userDisconnect>>
        /\ vpnState' = vpnState \/ vpnState'.tag = "Disconnecting"
    BY <1>9 DEF CancelTunnel, RevertDns, Publish, State, ctxVars
  <2>2. awaited[h] \in Threads /\ tpc'[awaited[h]] \in {"announce", "up"} =>
          "cancel" \in commands'[awaited[h]]
    <3>1. CASE RevertDns(h)
      BY <1>2, <1>6, <3>1 DEF RevertDns, Asked
    <3>2. CASE CancelTunnel(h)
      <4> DEFINE t == awaited[h]
      <4>1. SUFFICES ASSUME t \in Threads, tpc[t] \in {"announce", "up"}
                     PROVE  "cancel" \in commands'[t]
        BY <1>2
      <4>2. vpnHandle # NoRequest /\ cmdPipe = t
        BY <4>1 DEF EagerInv, Active, Ended, Wired, InSession
      <4> QED
        BY <3>2, <4>1, <4>2 DEF CancelTunnel, SendCommand
    <3> QED
      BY <1>9, <3>1, <3>2
  <2>3. Asked(h)'
    BY <1>6, <2>1, <2>2 DEF Asked, Awaiting, InDisconnect
  <2>4. Guarded => Guarded'
    BY <1>1, <1>3, <2>1 DEF Guarded, Awaiting, Refusing, VpnTags
  <2> QED
    BY <1>6, <2>3, <2>4
<1>10. CASE SkipDisconnect(h) \/ TornDown(h) \/ ForceDisconnected(h)
  <2>1. pc'[h] = "idle"
    BY <1>1, <1>10 DEF SkipDisconnect, TornDown, ForceDisconnected, Return
  <2>2. \A t \in Threads : pc[Main] = "running" => ~ Active(t)
    <3>1. CASE SkipDisconnect(h)
      BY <1>6, <3>1 DEF SkipDisconnect, Guarded
    <3>2. CASE TornDown(h) \/ ForceDisconnected(h)
      <4>1. pc[h] = "await" /\ ~ Active(awaited[h])
        BY <3>2, NoForceWhileActive DEF TornDown, ForceDisconnected, Live, Active, Ended
      <4>2. pc[Main] = "running" => Guarded
        BY <1>6
      <4>3. disconnectRx = NoThread /\ awaited[h] \in Threads
        BY <1>6, <4>1 DEF Asked, Awaiting
      <4>4. ASSUME NEW t \in Threads, pc[Main] = "running", Active(t) PROVE FALSE
        <5>1. disconnectRx = t \/ \E g \in Handlers : awaited[g] = t /\ pc[g] \in Awaiting
          BY <4>2, <4>4 DEF Guarded
        <5> QED
          BY <1>1, <4>1, <4>3, <4>4, <5>1
      <4> QED
        BY <4>4
    <3> QED
      BY <1>10, <3>1, <3>2
  <2> QED
    BY <1>1, <1>3, <2>1, <2>2 DEF Asked, Awaiting, InDisconnect, Guarded
<1> QED
  BY <1>7, <1>8, <1>9, <1>10 DEF DisconnectAction

LEMMA EagerStep ==
  ASSUME Eager
  PROVE  TypeInv /\ EagerInv /\ [Next]_vars => EagerInv'
<1> SUFFICES ASSUME TypeInv, EagerInv, [Next]_vars PROVE EagerInv'
  OBVIOUS
<1>1. CASE UNCHANGED vars
  BY <1>1 DEF vars, ctxVars, procVars, threadVars, ocVars, EagerInv, Active, Wired, Asked, Guarded,
              InDisconnect
<1> QED
  BY <1>1, NextByActor, EagerConnect, EagerMonitor, EagerMain, EagerDisconnect, EagerThread

LEMMA EagerInvariant ==
  ASSUME Eager
  PROVE  Spec => []EagerInv
<1>1. Init => EagerInv
  BY VpnTaskAssumption DEF Init, EagerInv, Active, Ended, Asked, Guarded, Awaiting, InDisconnect,
     Connecting, Procs
<1> QED
  BY <1>1, EagerStep, TypeInvariant, PTL DEF Spec

(* Two openconnect sessions never run at the same time, although connect() *)
(* relies on nothing but the published state: for a client that does not   *)
(* wait, as long as the service handles one request at a time and a        *)
(* teardown ends within DISCONNECT_TIMEOUT.                                *)
THEOREM AtMostOneTunnelAlways ==
  ASSUME Eager
  PROVE  Spec => []AtMostOneTunnel
<1>1. EagerInv => AtMostOneTunnel
  BY ReaderActive DEF EagerInv, AtMostOneTunnel, Readers
<1> QED
  BY <1>1, EagerInvariant, PTL

-----------------------------------------------------------------------------
(* The refinement of VpnGuard.  A thread is active from its Spawn to its   *)
(* PublishEnd; what is shown meanwhile is what EagerInv says of the state  *)
(* after the step.                                                         *)

GuardNext == [Guard!Next]_<<vpnState.tag, {t \in Threads : tpc[t] \notin Ended}, pc[Main] # "running">>

Busy == {t \in Threads : Active(t)}

\* What a step that starts and ends no thread may show.
LEMMA GuardReport ==
  ASSUME TypeInv', EagerInv', Busy' = Busy, pc'[Main] = "running" => pc[Main] = "running"
  PROVE  GuardNext
<1>1. vpnState'.tag \in VpnTags
  BY DEF TypeInv, TypeOK, VpnStates
<1>2. Busy' # {} /\ pc'[Main] = "running" => vpnState'.tag \in Refusing
  BY DEF EagerInv, Guarded, Busy
<1> QED
  BY <1>1, <1>2 DEF GuardNext, Guard!Next, Guard!Report, Guard!Held, Busy, Active, Refusing

LEMMA GuardStep ==
  ASSUME Eager, TypeInv, TypeInv', EagerInv, EagerInv', [Next]_vars
  PROVE  GuardNext
<1> USE VpnTaskAssumption DEF TypeInv, TypeOK, Procs
<1>1. ASSUME NEW h \in Handlers, HandlerAction(h) PROVE GuardNext
  <2>1. pc'[Main] = pc[Main]
    BY <1>1 DEF HandlerAction, Connect, ConnectAuth, ShowPrompt, Authenticated, LoginFails, Arm,
       BuildVpn, BuildFails, ReplaceHandle, PublishConnecting, Spawn, procVars
  <2>2. CASE \E t \in Threads : Spawn(h, t)
    <3>1. PICK t \in Threads : Spawn(h, t)
      BY <2>2
    <3>2. Busy = {} /\ (pc[Main] = "running" => vpnState.tag \in Refusing)
      BY <3>1 DEF Spawn, EagerInv, Connecting, Guarded, Busy
    <3>3. Busy' = {t} /\ vpnState' = vpnState
      <4>1. tpc' = [tpc EXCEPT ![t] = "top"] /\ vpnState' = vpnState
        BY <3>1 DEF Spawn
      <4> QED
        BY <3>2, <4>1 DEF Busy, Active, Ended
    <3>4. Guard!Open(t)
      BY <2>1, <3>2, <3>3 DEF Guard!Open, Busy, Active, Refusing
    <3> QED
      BY <3>4 DEF GuardNext, Guard!Next
  <2>3. CASE ~ \E t \in Threads : Spawn(h, t)
    <3>1. tpc' = tpc
      BY <1>1, <2>3 DEF HandlerAction, Connect, ConnectAuth, ShowPrompt, Authenticated,
         LoginFails, Arm, BuildVpn, BuildFails, ReplaceHandle, PublishConnecting, threadVars
    <3> QED
      BY <2>1, <3>1, GuardReport DEF Busy, Active
  <2> QED
    BY <2>2, <2>3
<1>2. ASSUME MonitorAction \/ \E p \in Handlers \cup {Main} : DisconnectAction(p) PROVE GuardNext
  <2>1. tpc' = tpc
    BY <1>2, ThreadsLeftAlone
  <2>2. pc'[Main] = "running" => pc[Main] = "running"
    BY <1>2 DEF MonitorAction, Resume, AnnounceReconnecting, Repinned, PauseTunnel,
       DisconnectAction, RequestDisconnect, TakeReceiver, RevertDns, TornDown, SkipDisconnect,
       CancelTunnel, ForceDisconnected, Return
  <2> QED
    BY <2>1, <2>2, GuardReport DEF Busy, Active
<1>3. ASSUME NEW t \in Threads, ThreadAction(t) PROVE GuardNext
  <2>1. pc' = pc
    BY <1>3 DEF ThreadAction, Reestablished, TunnelLost, LoopTop, EnterSession, SessionOver,
       StartRetry, NetworkWaited, Rebuild, StoreRebuilt, RevertAtEnd, PublishEnd, RequestDrop,
       DropHandle, SignalEnd, OpenPipe, TunnelUp, DialFailed, Announce, Paused, Cancelled,
       LeaveSession, procVars
  <2>2. CASE PublishEnd(t)
    <3>1. t \in Busy /\ \A s \in Busy : s = t
      BY <2>2 DEF PublishEnd, EagerInv, Busy, Active, Ended
    <3>2. Busy' = {} /\ vpnState'.tag = "Disconnected"
      BY <2>2, <3>1 DEF PublishEnd, Publish, Disconnected, State, Busy, Active, Ended
    <3> QED
      BY <2>1, <3>1, <3>2 DEF GuardNext, Guard!Next, Guard!Close, Busy, Active
  <2>3. CASE ~ PublishEnd(t)
    <3>1. Active(t)' <=> Active(t)
      BY <1>3, <2>3 DEF Active, Ended, ThreadAction, Reestablished, TunnelLost, LoopTop,
         EnterSession, SessionOver, StartRetry, NetworkWaited, Rebuild, StoreRebuilt, RevertAtEnd,
         RequestDrop, DropHandle, SignalEnd, OpenPipe, TunnelUp, DialFailed, Announce, Paused,
         Cancelled, LeaveSession, threadVars
    <3>2. \A s \in Threads : s # t => tpc'[s] = tpc[s]
      BY <1>3 DEF ThreadAction, Reestablished, TunnelLost, LoopTop, EnterSession, SessionOver,
         StartRetry, NetworkWaited, Rebuild, StoreRebuilt, RevertAtEnd, PublishEnd, RequestDrop,
         DropHandle, SignalEnd, OpenPipe, TunnelUp, DialFailed, Announce, Paused, Cancelled,
         LeaveSession, threadVars
    <3>3. Busy' = Busy
      BY <3>1, <3>2 DEF Busy, Active
    <3> QED
      BY <2>1, <3>3, GuardReport
  <2> QED
    BY <2>2, <2>3
<1>4. CASE UNCHANGED vars
  BY <1>4 DEF vars, ctxVars, procVars, threadVars, GuardNext
<1> QED
  BY <1>1, <1>2, <1>3, <1>4, NextByActor

(* VpnTask implements VpnGuard under the same hypothesis: the published    *)
(* state, which connect() reads and forgets, is a lock.  A state that it   *)
(* lets pass is shown when no thread can reach a session any more, and a   *)
(* thread is only started while another state is shown.                    *)
THEOREM ImplementsGuard ==
  ASSUME Eager
  PROVE  Spec => GuardSpec
<1>1. Init => Guard!Init
  BY VpnTaskAssumption DEF Init, Guard!Init, Ended, Disconnected, State, Procs
<1>2. TypeInv /\ TypeInv' /\ EagerInv /\ EagerInv' /\ [Next]_vars => GuardNext
  BY GuardStep
<1> QED
  BY <1>1, <1>2, TypeInvariant, EagerInvariant, PTL DEF Spec, GuardSpec, Guard!Spec, GuardNext

-----------------------------------------------------------------------------
(* The log-in of an eager client.  While it runs no thread is active, so   *)
(* that nobody but its own prompters, and a resume that saw the session    *)
(* before, has published since it began.                                   *)

OwnStates == {"Disconnected", "GatewaySelect", "MfaChallenge", "Reconnecting"}

LoginShown ==
  pc[Main] = "running" => \A h \in Handlers : pc[h] = "login" => vpnState.tag \in OwnStates

LEMMA LoginShownStep ==
  ASSUME Eager, TypeInv, EagerInv, LoginShown, [Next]_vars
  PROVE  LoginShown'
<1> USE VpnTaskAssumption DEF TypeInv, TypeOK, Procs, OwnStates, LoginShown
<1>1. ASSUME NEW h \in Handlers, HandlerAction(h) PROVE LoginShown'
  <2>1. \A g \in Handlers : g = h
    BY DEF Eager, OneHandler
  <2>2. CASE ConnectAuth(h)
    BY <2>1, <2>2 DEF Eager, ConnectAuth, ctxVars
  <2>3. CASE ShowPrompt(h)
    BY <2>1, <2>3 DEF ShowPrompt, Publish, State
  <2>4. CASE ~ (ConnectAuth(h) \/ ShowPrompt(h))
    <3>1. pc'[h] # "login"
      BY <1>1, <2>4 DEF HandlerAction, Connect, Authenticated, LoginFails, Arm, BuildVpn,
         BuildFails, ReplaceHandle, PublishConnecting, Spawn
    <3> QED
      BY <2>1, <3>1
  <2> QED
    BY <2>2, <2>3, <2>4
<1>2. ASSUME NEW p \in Handlers \cup {Main}, DisconnectAction(p) PROVE LoginShown'
  <2>1. pc'[p] \notin {"login", "running"}
    BY <1>2 DEF DisconnectAction, RequestDisconnect, TakeReceiver, RevertDns, TornDown,
       SkipDisconnect, CancelTunnel, ForceDisconnected, Return
  <2>2. \A g \in Handlers : p # Main => g = p
    BY DEF Eager, OneHandler
  <2> QED
    BY <2>1, <2>2
<1>3. CASE MonitorAction
  <2>1. \A p \in Procs \ {Monitor} : pc'[p] = pc[p]
    BY <1>3 DEF MonitorAction, Resume, AnnounceReconnecting, Repinned, PauseTunnel
  <2>2. vpnState' = vpnState \/ vpnState'.tag = "Reconnecting"
    BY <1>3 DEF MonitorAction, Resume, AnnounceReconnecting, Repinned, PauseTunnel, ctxVars,
       Publish, State
  <2> QED
    BY <2>1, <2>2
<1>4. ASSUME NEW t \in Threads, ThreadAction(t) PROVE LoginShown'
  <2>1. pc' = pc
    BY <1>4 DEF ThreadAction, Reestablished, TunnelLost, LoopTop, EnterSession, SessionOver,
       StartRetry, NetworkWaited, Rebuild, StoreRebuilt, RevertAtEnd, PublishEnd, RequestDrop,
       DropHandle, SignalEnd, OpenPipe, TunnelUp, DialFailed, Announce, Paused, Cancelled,
       LeaveSession, procVars
  <2>2. ASSUME NEW h \in Handlers, pc[h] = "login" PROVE vpnState' = vpnState
    <3>1. ~ Active(t)
      BY <2>2 DEF EagerInv, Connecting
    <3> QED
      BY <1>4, <3>1 DEF Active, Ended, ThreadAction, Reestablished, TunnelLost, LoopTop,
         EnterSession, SessionOver, StartRetry, NetworkWaited, Rebuild, StoreRebuilt, RevertAtEnd,
         PublishEnd, RequestDrop, DropHandle, SignalEnd, OpenPipe, TunnelUp, DialFailed, Announce,
         Paused, Cancelled, LeaveSession, ctxVars
  <2> QED
    BY <2>1, <2>2
<1>5. CASE UNCHANGED vars
  BY <1>5 DEF vars, ctxVars, procVars
<1> QED
  BY <1>1, <1>2, <1>3, <1>4, <1>5, NextByActor

\* What the end of a log-in finds or leaves.
LoginStays ==
  \A h \in Handlers :
    pc[h] = "login" /\ pc'[h] = "idle" /\ pc[Main] = "running" =>
      vpnState'.tag \in {"Disconnected", "MfaChallenge", "Reconnecting"}

LEMMA LoginStaysStep ==
  ASSUME Eager, TypeInv, LoginShown, [Next]_vars
  PROVE  LoginStays
<1> SUFFICES ASSUME NEW h \in Handlers, pc[h] = "login", pc'[h] = "idle", pc[Main] = "running"
             PROVE  vpnState'.tag \in {"Disconnected", "MfaChallenge", "Reconnecting"}
  BY DEF LoginStays
<1> USE VpnTaskAssumption DEF TypeInv, TypeOK, Procs
<1>1. LoginFails(h) \/ \E r \in Requests : Authenticated(h, r)
  <2>1. ASSUME NEW g \in Handlers, HandlerAction(g)
        PROVE  LoginFails(h) \/ \E r \in Requests : Authenticated(h, r)
    <3>1. g = h
      BY DEF Eager, OneHandler
    <3> QED
      BY <2>1, <3>1 DEF HandlerAction, Connect, ConnectAuth, ShowPrompt, Accepts, Arm, BuildVpn,
         BuildFails, ReplaceHandle, PublishConnecting, Spawn, procVars
  <2>2. ASSUME NEW p \in Handlers \cup {Main}, DisconnectAction(p) PROVE FALSE
    <3>1. p # h
      BY <2>2 DEF DisconnectAction, RequestDisconnect, Accepts, TakeReceiver, RevertDns, TornDown,
         SkipDisconnect, CancelTunnel, ForceDisconnected
    <3> QED
      BY <2>2, <3>1 DEF DisconnectAction, RequestDisconnect, TakeReceiver, RevertDns, TornDown,
         SkipDisconnect, CancelTunnel, ForceDisconnected, Return
  <2>3. CASE MonitorAction
    BY <2>3 DEF MonitorAction, Resume, AnnounceReconnecting, Repinned, PauseTunnel
  <2>4. ASSUME NEW t \in Threads, ThreadAction(t) PROVE FALSE
    BY <2>4 DEF ThreadAction, Reestablished, TunnelLost, LoopTop, EnterSession, SessionOver,
       StartRetry, NetworkWaited, Rebuild, StoreRebuilt, RevertAtEnd, PublishEnd, RequestDrop,
       DropHandle, SignalEnd, OpenPipe, TunnelUp, DialFailed, Announce, Paused, Cancelled,
       LeaveSession, procVars
  <2>5. CASE UNCHANGED vars
    BY <2>5 DEF vars, procVars
  <2> QED
    BY <2>1, <2>2, <2>3, <2>4, <2>5, NextByActor
<1>2. CASE LoginFails(h)
  BY <1>2 DEF LoginFails, Publish, Disconnected, State
<1>3. ASSUME NEW r \in Requests, Authenticated(h, r)
      PROVE  vpnState'.tag \in {"Disconnected", "MfaChallenge", "Reconnecting"}
  <2>1. vpnState' = vpnState /\ ~ Admits
    BY <1>3 DEF Authenticated, ctxVars
  <2>2. vpnState.tag \in OwnStates
    BY DEF LoginShown
  <2> QED
    BY <2>1, <2>2 DEF Admits, OwnStates
<1> QED
  BY <1>1, <1>2, <1>3

(* A log-in begun at Disconnected is only given up at Disconnected, at the *)
(* MfaChallenge of its own challenge or at the Reconnecting of a late      *)
(* resume; never because another task's state is shown, nor after a pick.  *)
THEOREM LoginNotLostAlways ==
  ASSUME Eager
  PROVE  Spec => LoginNotLost
<1>1. Init => LoginShown
  BY VpnTaskAssumption DEF Init, LoginShown, Procs
<1>2. TypeInv /\ EagerInv /\ LoginShown /\ [Next]_vars => LoginShown'
  BY LoginShownStep
<1>3. Spec => []LoginShown
  BY <1>1, <1>2, TypeInvariant, EagerInvariant, PTL DEF Spec
<1>4. TypeInv /\ LoginShown /\ [Next]_vars => LoginStays
  BY LoginStaysStep
<1>5. TypeInv /\ LoginShown /\ [Next]_vars => [LoginStays]_vars
  BY <1>4
<1> QED
  BY <1>3, <1>5, TypeInvariant, PTL DEF Spec, LoginNotLost, LoginStays

-----------------------------------------------------------------------------
(* The two locks, for every client.  Whoever waits for vpn_handle is in    *)
(* its queue, once: the queue and the places of the tasks and threads move *)
(* together.                                                               *)

Lined ==
  /\ \A a \in Procs \cup Threads :
       a \in Waiters <=> \E i \in DOMAIN handleQueue : handleQueue[i] = a
  /\ \A i, j \in DOMAIN handleQueue : handleQueue[i] = handleQueue[j] => i = j

(* A step that moves nobody to or from the lock keeps the line.            *)
LEMMA LineKept ==
  ASSUME Lined, UNCHANGED handleQueue, Waiters' = Waiters
  PROVE  Lined'
BY DEF Lined

(* One who was not waiting and asks for the lock is the last of the line.  *)
LEMMA LineJoined ==
  ASSUME TypeOK, Lined, NEW a \in Procs \cup Threads, a \notin Waiters, Enqueue(a),
         Waiters' = Waiters \cup {a}
  PROVE  Lined'
<1> DEFINE q == handleQueue
           n == Len(handleQueue)
<1>1. q \in Seq(Procs \cup Threads) /\ n \in Nat /\ DOMAIN q = 1..n
  BY DEF TypeOK
<1>2. /\ DOMAIN q' = 1..(n + 1)
      /\ \A i \in 1..n : q'[i] = q[i]
      /\ q'[n + 1] = a
  BY <1>1, AppendProperties DEF Enqueue
<1>3. \A i \in 1..n : q[i] # a
  BY <1>1 DEF Lined
<1>4. ASSUME NEW b \in Procs \cup Threads
      PROVE  b \in Waiters' <=> \E i \in DOMAIN q' : q'[i] = b
  <2>1. (\E i \in DOMAIN q' : q'[i] = b) <=> b = a \/ \E i \in 1..n : q[i] = b
    BY <1>1, <1>2
  <2> QED
    BY <1>1, <2>1 DEF Lined
<1>5. ASSUME NEW i \in 1..(n + 1), NEW j \in 1..(n + 1), q'[i] = q'[j]
      PROVE  i = j
  BY <1>1, <1>2, <1>3, <1>5 DEF Lined
<1> QED
  BY <1>2, <1>4, <1>5 DEF Lined

(* One whose turn it is leaves the line, and nobody else does.             *)
LEMMA LineLeft ==
  ASSUME TypeOK, Lined, NEW a \in Procs \cup Threads, Granted(a), Waiters' = Waiters \ {a}
  PROVE  Lined'
<1> DEFINE q == handleQueue
           n == Len(handleQueue)
<1>1. q \in Seq(Procs \cup Threads) /\ n \in Nat /\ DOMAIN q = 1..n /\ q # <<>>
  BY DEF TypeOK, Granted
<1>2. /\ n # 0 /\ q[1] = a
      /\ DOMAIN q' = 1..(n - 1)
      /\ \A i \in 1..(n - 1) : q'[i] = q[i + 1]
  BY <1>1, HeadTailProperties DEF Granted
<1>3. \A i, j \in 1..n : q[i] = q[j] => i = j
  BY <1>1 DEF Lined
<1>4. ASSUME NEW b \in Procs \cup Threads
      PROVE  b \in Waiters' <=> \E i \in DOMAIN q' : q'[i] = b
  <2>1. ASSUME NEW i \in DOMAIN q', q'[i] = b PROVE b \in Waiters'
    <3>1. i + 1 \in 1..n /\ q[i + 1] = b /\ 1 \in 1..n /\ i + 1 # 1
      BY <1>1, <1>2, <2>1
    <3>2. b # a
      BY <1>2, <1>3, <3>1
    <3> QED
      BY <1>1, <3>1, <3>2 DEF Lined
  <2>2. ASSUME b \in Waiters' PROVE \E i \in DOMAIN q' : q'[i] = b
    <3>1. b # a /\ b \in Waiters
      BY <2>2
    <3>2. PICK i \in 1..n : q[i] = b
      BY <1>1, <3>1 DEF Lined
    <3>3. i - 1 \in 1..(n - 1) /\ (i - 1) + 1 = i
      BY <1>1, <1>2, <3>1, <3>2
    <3> QED
      BY <1>2, <3>2, <3>3
  <2> QED
    BY <2>1, <2>2
<1>5. ASSUME NEW i \in 1..(n - 1), NEW j \in 1..(n - 1), q'[i] = q'[j]
      PROVE  i = j
  <2>1. i + 1 \in 1..n /\ j + 1 \in 1..n /\ q[i + 1] = q[j + 1]
    BY <1>1, <1>2, <1>5
  <2> QED
    BY <1>3, <2>1
<1> QED
  BY <1>2, <1>4, <1>5 DEF Lined

(* Where a task, and where a connection thread, waits for vpn_handle.      *)
TaskWaits == {"replace", "cancel", "pause"}
ThreadWaits == {"enter", "store", "take"}

(* What a step of one task does to those who wait.                         *)
LEMMA TaskMoves ==
  ASSUME TypeOK, NEW p \in Procs, NEW place, pc' = [pc EXCEPT ![p] = place], UNCHANGED tpc
  PROVE  /\ p \in Waiters <=> pc[p] \in TaskWaits
         /\ Waiters' = IF place \in TaskWaits THEN Waiters \cup {p} ELSE Waiters \ {p}
<1>1. p \notin Threads
  BY VpnTaskAssumption DEF Procs
<1> QED
  BY <1>1 DEF Waiters, TypeOK, TaskWaits

(* What a step of one thread does to those who wait.                       *)
LEMMA ThreadMoves ==
  ASSUME TypeOK, NEW t \in Threads, NEW place, tpc' = [tpc EXCEPT ![t] = place], UNCHANGED pc
  PROVE  /\ t \in Waiters <=> tpc[t] \in ThreadWaits
         /\ Waiters' = IF place \in ThreadWaits THEN Waiters \cup {t} ELSE Waiters \ {t}
<1>1. t \notin Procs
  BY VpnTaskAssumption DEF Procs
<1> QED
  BY <1>1 DEF Waiters, TypeOK, ThreadWaits

(* A task that joins, leaves or stays away from the lock keeps the line.   *)
LEMMA LineTask ==
  ASSUME TypeOK, Lined, NEW p \in Procs, NEW place, pc' = [pc EXCEPT ![p] = place], UNCHANGED tpc,
         \/ place \in TaskWaits /\ pc[p] \notin TaskWaits /\ Enqueue(p)
         \/ place \notin TaskWaits /\ pc[p] \in TaskWaits /\ Granted(p)
         \/ place \notin TaskWaits /\ pc[p] \notin TaskWaits /\ UNCHANGED handleQueue
  PROVE  Lined'
<1>1. CASE place \in TaskWaits /\ pc[p] \notin TaskWaits /\ Enqueue(p)
  BY <1>1, TaskMoves, LineJoined
<1>2. CASE place \notin TaskWaits /\ pc[p] \in TaskWaits /\ Granted(p)
  BY <1>2, TaskMoves, LineLeft
<1>3. CASE place \notin TaskWaits /\ pc[p] \notin TaskWaits /\ UNCHANGED handleQueue
  <2>1. Waiters' = Waiters
    BY <1>3, TaskMoves
  <2> QED
    BY <1>3, <2>1, LineKept
<1> QED
  BY <1>1, <1>2, <1>3

(* The same for a connection thread.                                       *)
LEMMA LineThread ==
  ASSUME TypeOK, Lined, NEW t \in Threads, NEW place, tpc' = [tpc EXCEPT ![t] = place], UNCHANGED pc,
         \/ place \in ThreadWaits /\ tpc[t] \notin ThreadWaits /\ Enqueue(t)
         \/ place \notin ThreadWaits /\ tpc[t] \in ThreadWaits /\ Granted(t)
         \/ place \notin ThreadWaits /\ tpc[t] \notin ThreadWaits /\ UNCHANGED handleQueue
  PROVE  Lined'
<1>1. CASE place \in ThreadWaits /\ tpc[t] \notin ThreadWaits /\ Enqueue(t)
  BY <1>1, ThreadMoves, LineJoined
<1>2. CASE place \notin ThreadWaits /\ tpc[t] \in ThreadWaits /\ Granted(t)
  BY <1>2, ThreadMoves, LineLeft
<1>3. CASE place \notin ThreadWaits /\ tpc[t] \notin ThreadWaits /\ UNCHANGED handleQueue
  <2>1. Waiters' = Waiters
    BY <1>3, ThreadMoves
  <2> QED
    BY <1>3, <2>1, LineKept
<1> QED
  BY <1>1, <1>2, <1>3

(* Every step of the supervisor joins or leaves the line as it asks for    *)
(* the lock or gets it.                                                    *)
LEMMA LinedStep ==
  ASSUME TypeOK, Lined, [Next]_vars
  PROVE  Lined'
<1> USE VpnTaskAssumption DEF TaskWaits, ThreadWaits, Procs
<1> HIDE DEF Lined
<1>1. ASSUME NEW h \in Handlers, HandlerAction(h) PROVE Lined'
  <2>1. CASE Arm(h)
    BY <2>1, LineTask DEF Arm, threadVars
  <2>2. CASE BuildVpn(h)
    BY <2>2, LineTask DEF BuildVpn, threadVars
  <2>3. CASE BuildFails(h)
    BY <2>3, LineTask DEF BuildFails, threadVars
  <2>4. CASE ReplaceHandle(h)
    BY <2>4, LineTask DEF ReplaceHandle, GrantedWrite, threadVars
  <2>5. CASE PublishConnecting(h)
    BY <2>5, LineTask DEF PublishConnecting, threadVars
  <2>6. ASSUME NEW r \in Requests, Connect(h, r) PROVE Lined'
    BY <2>6, LineTask DEF Connect, Accepts, ctxVars, threadVars
  <2>7. ASSUME NEW t \in Threads, Spawn(h, t) PROVE Lined'
    <3>1. Waiters' = Waiters
      BY <2>7 DEF Spawn, Live, Waiters, TypeOK
    <3> QED
      BY <2>7, <3>1, LineKept DEF Spawn
  <2>8. CASE ConnectAuth(h) \/ LoginFails(h)
    BY <2>8, LineTask DEF ConnectAuth, LoginFails, Accepts, ctxVars, threadVars
  <2>9. CASE ShowPrompt(h)
    BY <2>9, LineKept DEF ShowPrompt, Waiters, procVars, threadVars
  <2>10. ASSUME NEW r \in Requests, Authenticated(h, r) PROVE Lined'
    <3>1. \E place \in {"arm", "idle"} : pc' = [pc EXCEPT ![h] = place]
      BY <2>10 DEF Authenticated
    <3> QED
      BY <2>10, <3>1, LineTask DEF Authenticated, ctxVars, threadVars
  <2> QED
    BY <1>1, <2>1, <2>2, <2>3, <2>4, <2>5, <2>6, <2>7, <2>8, <2>9, <2>10 DEF HandlerAction
<1>2. ASSUME NEW p \in Handlers \cup {Main}, DisconnectAction(p) PROVE Lined'
  <2>0. p \in Procs
    OBVIOUS
  <2>1. CASE RequestDisconnect(p)
    BY <2>0, <2>1, LineTask DEF RequestDisconnect, Accepts, threadVars
  <2>2. CASE TakeReceiver(p)
    <3>1. CASE pc' = [pc EXCEPT ![p] = "skip"] /\ UNCHANGED handleQueue
      BY <2>0, <2>2, <3>1, LineTask DEF TakeReceiver, threadVars
    <3>2. CASE pc' = [pc EXCEPT ![p] = "cancel"] /\ Enqueue(p)
      BY <2>0, <2>2, <3>2, LineTask DEF TakeReceiver, threadVars
    <3> QED
      BY <2>2, <3>1, <3>2 DEF TakeReceiver
  <2>3. CASE SkipDisconnect(p)
    BY <2>0, <2>3, LineTask DEF SkipDisconnect, Return, threadVars
  <2>4. CASE CancelTunnel(p)
    BY <2>0, <2>4, LineTask DEF CancelTunnel, GrantedRead, threadVars
  <2>5. CASE RevertDns(p)
    BY <2>0, <2>5, LineTask DEF RevertDns, ctxVars, threadVars
  <2>6. CASE TornDown(p)
    BY <2>0, <2>6, LineTask DEF TornDown, Return, threadVars
  <2>7. CASE ForceDisconnected(p)
    BY <2>0, <2>7, LineTask DEF ForceDisconnected, Return, threadVars
  <2> QED
    BY <1>2, <2>1, <2>2, <2>3, <2>4, <2>5, <2>6, <2>7 DEF DisconnectAction
<1>3. CASE MonitorAction
  <2>0. Monitor \in Procs
    OBVIOUS
  <2>1. CASE Resume
    BY <2>0, <2>1, LineTask DEF Resume, ctxVars, threadVars
  <2>2. CASE AnnounceReconnecting
    BY <2>0, <2>2, LineTask DEF AnnounceReconnecting, threadVars
  <2>3. CASE Repinned
    BY <2>0, <2>3, LineTask DEF Repinned, threadVars
  <2>4. CASE PauseTunnel
    BY <2>0, <2>4, LineTask DEF PauseTunnel, GrantedRead, threadVars
  <2> QED
    BY <1>3, <2>1, <2>2, <2>3, <2>4 DEF MonitorAction
<1>4. ASSUME NEW t \in Threads, ThreadAction(t) PROVE Lined'
  <2>1. CASE LoopTop(t)
    BY <2>1, LineThread DEF LoopTop, procVars
  <2>2. CASE EnterSession(t)
    BY <2>2, LineThread DEF EnterSession, GrantedRead, procVars
  <2>3. CASE SessionOver(t)
    BY <2>3, LineThread DEF SessionOver, ctxVars, procVars
  <2>4. CASE NetworkWaited(t)
    BY <2>4, LineThread DEF NetworkWaited, ctxVars, procVars
  <2>5. CASE Rebuild(t)
    BY <2>5, LineThread DEF Rebuild, procVars
  <2>6. CASE StoreRebuilt(t)
    BY <2>6, LineThread DEF StoreRebuilt, GrantedWrite, procVars
  <2>7. CASE DropHandle(t)
    BY <2>7, LineThread DEF DropHandle, GrantedWrite, procVars
  <2>8. CASE RequestDrop(t)
    BY <2>8, LineThread DEF RequestDrop, procVars
  <2>9. CASE StartRetry(t) \/ RevertAtEnd(t) \/ PublishEnd(t) \/ SignalEnd(t)
    BY <2>9, LineThread DEF StartRetry, RevertAtEnd, PublishEnd, SignalEnd, ctxVars, procVars
  <2>10. CASE OpenPipe(t)
    BY <2>10, LineThread DEF OpenPipe, ctxVars, procVars
  <2>11. CASE TunnelUp(t)
    BY <2>11, LineThread DEF TunnelUp, ctxVars, procVars
  <2>12. CASE DialFailed(t) \/ TunnelLost(t) \/ Cancelled(t)
    BY <2>12, LineThread DEF DialFailed, TunnelLost, Cancelled, LeaveSession, ctxVars, procVars
  <2>13. CASE Announce(t)
    BY <2>13, LineThread DEF Announce, procVars
  <2>14. CASE Reestablished(t) \/ Paused(t)
    BY <2>14, LineKept DEF Reestablished, Paused, Waiters, threadVars, procVars
  <2> QED
    BY <1>4, <2>1, <2>2, <2>3, <2>4, <2>5, <2>6, <2>7, <2>8, <2>9, <2>10, <2>11,
       <2>12, <2>13, <2>14 DEF ThreadAction
<1>5. CASE UNCHANGED vars
  BY <1>5, LineKept DEF vars, ctxVars, procVars, threadVars, Waiters
<1> QED
  BY <1>1, <1>2, <1>3, <1>4, <1>5, NextByActor

(* disconnect_rx is held by the disconnect() that is past it, and by       *)
(* nobody else.                                                            *)
Held == \A p \in Procs : rxGuard = p <=> pc[p] \in Awaiting

(* A step that neither takes nor returns disconnect_rx leaves it held.     *)
LEMMA HeldKept ==
  ASSUME TypeOK, Held, NEW p \in Procs, NEW place, pc' = [pc EXCEPT ![p] = place],
         UNCHANGED rxGuard, pc[p] \in Awaiting <=> place \in Awaiting
  PROVE  Held'
BY DEF Held, TypeOK

(* A disconnect() that returns gives disconnect_rx back, if it had it.     *)
LEMMA HeldReturn ==
  ASSUME TypeOK, Held, NEW p \in Procs, Return(p)
  PROVE  Held'
<1>1. NoProc \notin Procs
  BY VpnTaskAssumption DEF Procs
<1>2. \A q \in Procs : pc'[q] = IF q = p THEN IF p = Main THEN "exited" ELSE "idle" ELSE pc[q]
  BY DEF Return, TypeOK
<1>3. rxGuard' = IF rxGuard = p THEN NoProc ELSE rxGuard
  BY DEF Return
<1> QED
  BY <1>1, <1>2, <1>3 DEF Held, Awaiting

(* disconnect_rx is taken where it is free and given back on every way out *)
(* of disconnect().                                                        *)
LEMMA HeldStep ==
  ASSUME TypeOK, Held, [Next]_vars
  PROVE  Held'
<1> USE VpnTaskAssumption DEF Procs, Awaiting
<1>1. ASSUME NEW h \in Handlers, HandlerAction(h) PROVE Held'
  <2>1. h \in Procs
    OBVIOUS
  <2>2. CASE ShowPrompt(h)
    BY <2>2 DEF ShowPrompt, procVars, Held
  <2>3. CASE LoginFails(h) \/ ConnectAuth(h) \/ \E r \in Requests : Authenticated(h, r)
    BY <2>1, <2>3, HeldKept DEF LoginFails, ConnectAuth, Authenticated, Accepts, ctxVars
  <2>4. CASE ~ (ShowPrompt(h) \/ LoginFails(h) \/ ConnectAuth(h)
                \/ \E r \in Requests : Authenticated(h, r))
    BY <1>1, <2>1, <2>4, HeldKept DEF HandlerAction, Arm, BuildVpn, BuildFails, ReplaceHandle,
       PublishConnecting, Spawn, Connect, Accepts, ctxVars
  <2> QED
    BY <2>2, <2>3, <2>4
<1>2. ASSUME NEW p \in Handlers \cup {Main}, DisconnectAction(p) PROVE Held'
  <2>0. p \in Procs
    OBVIOUS
  <2>1. CASE RequestDisconnect(p)
    BY <2>0, <2>1, HeldKept DEF RequestDisconnect, Accepts
  <2>2. CASE TakeReceiver(p)
    <3>1. CASE pc' = [pc EXCEPT ![p] = "skip"] /\ UNCHANGED rxGuard
      BY <2>0, <2>2, <3>1, HeldKept DEF TakeReceiver
    <3>2. CASE pc' = [pc EXCEPT ![p] = "cancel"] /\ rxGuard' = p
      <4>1. \A q \in Procs : rxGuard # q
        BY <2>2 DEF TakeReceiver
      <4> QED
        BY <2>0, <3>2, <4>1 DEF Held, TypeOK
    <3> QED
      BY <2>2, <3>1, <3>2 DEF TakeReceiver
  <2>3. CASE SkipDisconnect(p) \/ TornDown(p) \/ ForceDisconnected(p)
    BY <2>0, <2>3, HeldReturn DEF SkipDisconnect, TornDown, ForceDisconnected
  <2>4. CASE CancelTunnel(p)
    BY <2>0, <2>4, HeldKept DEF CancelTunnel
  <2>5. CASE RevertDns(p)
    BY <2>0, <2>5, HeldKept DEF RevertDns, ctxVars
  <2> QED
    BY <1>2, <2>1, <2>2, <2>3, <2>4, <2>5 DEF DisconnectAction
<1>3. CASE MonitorAction
  <2>1. Monitor \in Procs
    OBVIOUS
  <2> QED
    BY <1>3, <2>1, HeldKept DEF MonitorAction, Resume, AnnounceReconnecting, Repinned,
       PauseTunnel, ctxVars
<1>4. ASSUME NEW t \in Threads, ThreadAction(t) PROVE Held'
  <2>1. UNCHANGED <<rxGuard, pc>>
    BY <1>4 DEF ThreadAction, LoopTop, EnterSession, SessionOver, StartRetry, NetworkWaited, Rebuild,
       StoreRebuilt, RevertAtEnd, PublishEnd, RequestDrop, DropHandle, SignalEnd, OpenPipe,
       TunnelUp, DialFailed, Announce, Paused, Cancelled, Reestablished, TunnelLost,
       LeaveSession, ctxVars, procVars
  <2> QED
    BY <2>1 DEF Held
<1>5. CASE UNCHANGED vars
  BY <1>5 DEF vars, ctxVars, procVars, Held
<1> QED
  BY <1>1, <1>2, <1>3, <1>4, <1>5, NextByActor

(* The two locks of the supervisor lose nobody, whatever the client sends  *)
(* and however the teardown goes: the queue of vpn_handle holds exactly    *)
(* those who wait for it, each once, and disconnect_rx is held exactly by  *)
(* a disconnect() that is still to give it back.                           *)
THEOREM NobodyForgottenAlways == Spec => []NobodyForgotten
<1>1. Init => Lined /\ Held
  <2> SUFFICES ASSUME Init PROVE Lined /\ Held
    OBVIOUS
  <2>1. Waiters = {} /\ DOMAIN handleQueue = {}
    BY DEF Init, Waiters
  <2> QED
    BY VpnTaskAssumption, <2>1 DEF Init, Lined, Held, Awaiting, Procs
<1>2. Lined /\ Held => NobodyForgotten
  BY DEF Lined, Held, Awaiting, NobodyForgotten
<1> QED
  BY <1>1, <1>2, LinedStep, HeldStep, TypeCorrect, PTL DEF Spec

=============================================================================
