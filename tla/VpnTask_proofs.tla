--------------------------- MODULE VpnTask_proofs ---------------------------
(***************************************************************************)
(* Theorems about VpnTask, for every set of handlers, threads and requests *)
(* and every number of attempts.                                           *)
(***************************************************************************)
EXTENDS VpnTask, TLAPS, SequenceTheorems

-----------------------------------------------------------------------------
(* Next, one action at a time. *)

HandlerAction(h) ==
  \/ \E r \in Requests : Connect(h, r)
  \/ ConnectAuth(h) \/ ShowPrompt(h) \/ LoginFails(h)
  \/ \E r \in Requests : Authenticated(h, r)
  \/ Arm(h) \/ BuildVpn(h) \/ BuildFails(h) \/ ReplaceHandle(h)
  \/ PublishConnecting(h) \/ \E t \in Threads : Spawn(h, t)

DisconnectAction(p) ==
  \/ RequestDisconnect(p) \/ TakeReceiver(p) \/ SkipDisconnect(p)
  \/ CancelTunnel(p) \/ RevertDns(p) \/ TornDown(p) \/ ForceDisconnected(p)

MonitorAction ==
  \/ Resume \/ AnnounceReconnecting \/ Repinned \/ PauseTunnel

ThreadAction(t) ==
  \/ Reestablished(t) \/ TunnelLost(t)
  \/ LoopTop(t) \/ EnterSession(t) \/ SessionOver(t) \/ StartRetry(t)
  \/ NetworkWaited(t) \/ Rebuild(t) \/ StoreRebuilt(t) \/ RevertAtEnd(t)
  \/ PublishEnd(t) \/ RequestDrop(t) \/ DropHandle(t) \/ SignalEnd(t)
  \/ OpenPipe(t) \/ TunnelUp(t) \/ DialFailed(t) \/ Announce(t) \/ Paused(t)
  \/ Cancelled(t)

LEMMA NextByActor ==
  ASSUME [Next]_vars
  PROVE  \/ \E h \in Handlers : HandlerAction(h)
         \/ \E p \in Handlers \cup {Main} : DisconnectAction(p)
         \/ MonitorAction
         \/ \E t \in Threads : ThreadAction(t)
         \/ UNCHANGED vars
  BY DEF Next, Step, Stopped, Environment, LoginStep, ConnectStep,
         DisconnectStep, ReconnectStep, LoopStep, SessionStep, HandlerAction,
         DisconnectAction, MonitorAction, ThreadAction

(* The waiters of the lock stay a sequence of tasks and threads. *)
LEMMA EnqueueType ==
  ASSUME handleQueue \in Seq(Procs \cup Threads), NEW a \in Procs \cup Threads,
         Enqueue(a)
  PROVE  handleQueue' \in Seq(Procs \cup Threads)
  BY AppendProperties DEF Enqueue

LEMMA GrantedType ==
  ASSUME handleQueue \in Seq(Procs \cup Threads), NEW a, Granted(a)
  PROVE  handleQueue' \in Seq(Procs \cup Threads)
  BY HeadTailProperties DEF Granted

(* A published state is one of the VpnStates. *)
LEMMA StateType ==
  ASSUME NEW tag \in VpnTags, NEW r \in Requests \cup {NoRequest}
  PROVE  State(tag, r) \in VpnStates
  BY DEF State, VpnStates

LEMMA SendCommandType ==
  ASSUME commands \in [Threads -> SUBSET {"cancel", "pause"}],
         NEW cmd \in {"cancel", "pause"}, SendCommand(cmd)
  PROVE  commands' \in [Threads -> SUBSET {"cancel", "pause"}]
  BY DEF SendCommand

-----------------------------------------------------------------------------
(* Type correctness is not inductive: the connected closure publishes the  *)
(* request of the thread that stored it, so that thread must still have    *)
(* one.  It does, because a thread drops its handle, and with it every     *)
(* stored closure, before it ends, and cannot do so during a session.      *)

Over == {"signal", "done"}

ClosureAlive ==
  /\ onConnected # NoThread => tpc[onConnected] \notin Over
  /\ \A t \in Threads :
       tpc[t] = "announce" => closure[t] \in Threads /\ tpc[closure[t]] \notin Over

RequestKnown ==
  /\ \A t \in Threads : Live(t) => request[t] \in Requests
  /\ \A h \in Handlers :
       pc[h] \in {"arm", "resolve", "replace", "connecting", "spawn"}
         => req[h] \in Requests

TypeInv == TypeOK /\ ClosureAlive /\ RequestKnown

(* The initial state. *)
LEMMA InitTypeInv == Init => TypeInv
<1> SUFFICES ASSUME Init PROVE TypeInv
  OBVIOUS
<1> USE VpnTaskAssumption DEF Init
<1>1. vpnState \in VpnStates
  BY StateType DEF Disconnected, VpnTags
<1>2. handleQueue \in Seq(Procs \cup Threads)
  BY EmptySeq
<1>3. pc \in [Procs -> TaskPcs] /\ tpc \in [Threads -> ThreadPcs]
  BY DEF TaskPcs, ThreadPcs
<1>4. attempt \in [Threads -> 0 .. MaxReconnectAttempts]
  OBVIOUS
<1>5. TypeOK
  BY <1>1, <1>2, <1>3, <1>4 DEF TypeOK
<1>6. ClosureAlive /\ RequestKnown
  BY DEF ClosureAlive, RequestKnown, Live, Procs
<1>. QED
  BY <1>5, <1>6 DEF TypeInv

LEMMA ConnectTypeInv ==
  ASSUME TypeInv, NEW h \in Handlers, NEW r \in Requests, Connect(h, r)
  PROVE  TypeInv'
<1> USE VpnTaskAssumption DEF TypeInv, Connect, Disconnected, ctxVars,
        threadVars, ocVars
<1>1. TypeOK'
  BY DEF TypeOK, Procs, TaskPcs, ThreadPcs, InSession
<1>2. ClosureAlive'
  BY DEF TypeOK, ClosureAlive, RequestKnown, Over, InSession
<1>3. RequestKnown'
  BY DEF TypeOK, RequestKnown, Procs, Live, InSession
<1>. QED
  BY <1>1, <1>2, <1>3

LEMMA ConnectAuthTypeInv ==
  ASSUME TypeInv, NEW h \in Handlers, ConnectAuth(h)
  PROVE  TypeInv'
<1> USE VpnTaskAssumption DEF TypeInv, ConnectAuth, ctxVars, threadVars, ocVars
<1>1. TypeOK'
  BY DEF TypeOK, Procs, TaskPcs, ThreadPcs, InSession
<1>2. ClosureAlive'
  BY DEF TypeOK, ClosureAlive, RequestKnown, Over, InSession
<1>3. RequestKnown'
  BY DEF TypeOK, RequestKnown, Procs, Live, InSession
<1>. QED
  BY <1>1, <1>2, <1>3

LEMMA ShowPromptTypeInv ==
  ASSUME TypeInv, NEW h \in Handlers, ShowPrompt(h)
  PROVE  TypeInv'
<1> USE VpnTaskAssumption DEF TypeInv, ShowPrompt, Publish, procVars,
        threadVars, ocVars
<1>1. vpnState' \in VpnStates
  BY StateType DEF TypeOK, VpnTags, Procs
<1>2. TypeOK'
  BY <1>1 DEF TypeOK, Procs, TaskPcs, ThreadPcs, InSession
<1>3. ClosureAlive'
  BY DEF TypeOK, ClosureAlive, RequestKnown, Over, InSession
<1>4. RequestKnown'
  BY DEF TypeOK, RequestKnown, Procs, Live, InSession
<1>. QED
  BY <1>2, <1>3, <1>4

LEMMA AuthenticatedTypeInv ==
  ASSUME TypeInv, NEW h \in Handlers, NEW r \in Requests, Authenticated(h, r)
  PROVE  TypeInv'
<1> USE VpnTaskAssumption DEF TypeInv, Authenticated, threadVars, ocVars
<1>1. \/ pc' = [pc EXCEPT ![h] = "arm"] /\ req' = [req EXCEPT ![h] = r]
      \/ pc' = [pc EXCEPT ![h] = "idle"] /\ UNCHANGED req
  OBVIOUS
<1>2. UNCHANGED <<ctxVars, awaited, iface, threadVars, ocVars>>
  OBVIOUS
<1> HIDE DEF Authenticated
<1>3. /\ pc' \in [Procs -> TaskPcs]
      /\ req' \in [Procs -> Requests \cup {NoRequest}]
  <2>1. pc' \in [Procs -> TaskPcs]
    BY <1>1 DEF TypeOK, TaskPcs
  <2>2. req' \in [Procs -> Requests \cup {NoRequest}]
    BY <1>1 DEF TypeOK
  <2>. QED
    BY <2>1, <2>2
<1>4. TypeOK'
  BY <1>2, <1>3 DEF TypeOK, ctxVars
<1>5. ClosureAlive'
  BY <1>2 DEF ClosureAlive
<1>6. RequestKnown'
  BY <1>1, <1>2 DEF TypeOK, RequestKnown, Procs, Live
<1>. QED
  BY <1>4, <1>5, <1>6

LEMMA LoginFailsTypeInv ==
  ASSUME TypeInv, NEW h \in Handlers, LoginFails(h)
  PROVE  TypeInv'
<1> USE VpnTaskAssumption DEF TypeInv, LoginFails, Publish, Disconnected,
        threadVars, ocVars
<1>1. vpnState' \in VpnStates
  BY StateType DEF TypeOK, VpnTags, Procs
<1>2. TypeOK'
  BY <1>1 DEF TypeOK, Procs, TaskPcs, ThreadPcs, InSession
<1>3. ClosureAlive'
  BY DEF TypeOK, ClosureAlive, RequestKnown, Over, InSession
<1>4. RequestKnown'
  BY DEF TypeOK, RequestKnown, Procs, Live, InSession
<1>. QED
  BY <1>2, <1>3, <1>4

LEMMA RequestDisconnectTypeInv ==
  ASSUME TypeInv, NEW p \in Handlers \cup {Main}, RequestDisconnect(p)
  PROVE  TypeInv'
<1> USE VpnTaskAssumption DEF TypeInv, RequestDisconnect, threadVars, ocVars
<1>1. TypeOK'
  BY DEF TypeOK, Procs, TaskPcs, ThreadPcs, InSession
<1>2. ClosureAlive'
  BY DEF TypeOK, ClosureAlive, RequestKnown, Over, InSession
<1>3. RequestKnown'
  BY DEF TypeOK, RequestKnown, Procs, Live, InSession
<1>. QED
  BY <1>1, <1>2, <1>3

LEMMA ResumeTypeInv ==
  ASSUME TypeInv, Resume
  PROVE  TypeInv'
<1> USE VpnTaskAssumption DEF TypeInv, Resume, ctxVars, threadVars, ocVars
<1>1. TypeOK'
  BY DEF TypeOK, Procs, TaskPcs, ThreadPcs, InSession, VpnStates
<1>2. ClosureAlive'
  BY DEF TypeOK, ClosureAlive, RequestKnown, Over, InSession
<1>3. RequestKnown'
  BY DEF TypeOK, RequestKnown, Procs, Live, InSession
<1>. QED
  BY <1>1, <1>2, <1>3

LEMMA ReestablishedTypeInv ==
  ASSUME TypeInv, NEW t \in Threads, Reestablished(t)
  PROVE  TypeInv'
<1> USE VpnTaskAssumption DEF TypeInv, Reestablished, OnReconnected, Publish,
        procVars, threadVars, ocVars
<1>1. vpnState' \in VpnStates
  BY StateType DEF TypeOK, VpnTags, Procs
<1>2. TypeOK'
  BY <1>1 DEF TypeOK, Procs, TaskPcs, ThreadPcs, InSession
<1>3. ClosureAlive'
  BY DEF TypeOK, ClosureAlive, RequestKnown, Over, InSession
<1>4. RequestKnown'
  BY DEF TypeOK, RequestKnown, Procs, Live, InSession
<1>. QED
  BY <1>2, <1>3, <1>4

LEMMA TunnelLostTypeInv ==
  ASSUME TypeInv, NEW t \in Threads, TunnelLost(t)
  PROVE  TypeInv'
<1> USE VpnTaskAssumption DEF TypeInv, TunnelLost, LeaveSession, ctxVars,
        procVars
<1>1. TypeOK'
  BY DEF TypeOK, Procs, TaskPcs, ThreadPcs, InSession
<1>2. ClosureAlive'
  BY DEF TypeOK, ClosureAlive, RequestKnown, Over, InSession
<1>3. RequestKnown'
  BY DEF TypeOK, RequestKnown, Procs, Live, InSession
<1>. QED
  BY <1>1, <1>2, <1>3

LEMMA ArmTypeInv ==
  ASSUME TypeInv, NEW h \in Handlers, Arm(h)
  PROVE  TypeInv'
<1> USE VpnTaskAssumption DEF TypeInv, Arm, threadVars, ocVars
<1>1. TypeOK'
  BY DEF TypeOK, Procs, TaskPcs, ThreadPcs, InSession
<1>2. ClosureAlive'
  BY DEF TypeOK, ClosureAlive, RequestKnown, Over, InSession
<1>3. RequestKnown'
  BY DEF TypeOK, RequestKnown, Procs, Live, InSession
<1>. QED
  BY <1>1, <1>2, <1>3

LEMMA BuildVpnTypeInv ==
  ASSUME TypeInv, NEW h \in Handlers, BuildVpn(h)
  PROVE  TypeInv'
<1> USE VpnTaskAssumption DEF TypeInv, BuildVpn, threadVars, ocVars
<1>1. handleQueue' \in Seq(Procs \cup Threads)
  BY EnqueueType DEF TypeOK, Procs
<1>2. TypeOK'
  BY <1>1 DEF TypeOK, Procs, TaskPcs, ThreadPcs, InSession
<1>3. ClosureAlive'
  BY DEF TypeOK, ClosureAlive, RequestKnown, Over, InSession
<1>4. RequestKnown'
  BY DEF TypeOK, RequestKnown, Procs, Live, InSession
<1>. QED
  BY <1>2, <1>3, <1>4

LEMMA BuildFailsTypeInv ==
  ASSUME TypeInv, NEW h \in Handlers, BuildFails(h)
  PROVE  TypeInv'
<1> USE VpnTaskAssumption DEF TypeInv, BuildFails, Publish, Disconnected,
        threadVars, ocVars
<1>1. vpnState' \in VpnStates
  BY StateType DEF TypeOK, VpnTags, Procs
<1>2. TypeOK'
  BY <1>1 DEF TypeOK, Procs, TaskPcs, ThreadPcs, InSession
<1>3. ClosureAlive'
  BY DEF TypeOK, ClosureAlive, RequestKnown, Over, InSession
<1>4. RequestKnown'
  BY DEF TypeOK, RequestKnown, Procs, Live, InSession
<1>. QED
  BY <1>2, <1>3, <1>4

LEMMA ReplaceHandleTypeInv ==
  ASSUME TypeInv, NEW h \in Handlers, ReplaceHandle(h)
  PROVE  TypeInv'
<1> USE VpnTaskAssumption DEF TypeInv, ReplaceHandle, threadVars
<1>1. handleQueue' \in Seq(Procs \cup Threads)
  BY GrantedType DEF TypeOK, Procs, GrantedWrite
<1>2. TypeOK'
  BY <1>1 DEF TypeOK, Procs, TaskPcs, ThreadPcs, InSession
<1>3. ClosureAlive'
  BY DEF TypeOK, ClosureAlive, RequestKnown, Over, InSession
<1>4. RequestKnown'
  BY DEF TypeOK, RequestKnown, Procs, Live, InSession
<1>. QED
  BY <1>2, <1>3, <1>4

LEMMA PublishConnectingTypeInv ==
  ASSUME TypeInv, NEW h \in Handlers, PublishConnecting(h)
  PROVE  TypeInv'
<1> USE VpnTaskAssumption DEF TypeInv, PublishConnecting, Publish, threadVars,
        ocVars
<1>1. vpnState' \in VpnStates
  BY StateType DEF TypeOK, VpnTags, Procs
<1>2. TypeOK'
  BY <1>1 DEF TypeOK, Procs, TaskPcs, ThreadPcs, InSession
<1>3. ClosureAlive'
  BY DEF TypeOK, ClosureAlive, RequestKnown, Over, InSession
<1>4. RequestKnown'
  BY DEF TypeOK, RequestKnown, Procs, Live, InSession
<1>. QED
  BY <1>2, <1>3, <1>4

LEMMA SpawnTypeInv ==
  ASSUME TypeInv, NEW h \in Handlers, NEW t \in Threads, Spawn(h, t)
  PROVE  TypeInv'
<1> USE VpnTaskAssumption DEF TypeInv, Spawn, Live, ocVars
<1>1. TypeOK'
  BY DEF TypeOK, Procs, TaskPcs, ThreadPcs, InSession
<1>2. ClosureAlive'
  BY DEF TypeOK, ClosureAlive, RequestKnown, Over, InSession
<1>3. RequestKnown'
  BY DEF TypeOK, RequestKnown, Procs, Live, InSession
<1>. QED
  BY <1>1, <1>2, <1>3

LEMMA TakeReceiverTypeInv ==
  ASSUME TypeInv, NEW p \in Handlers \cup {Main}, TakeReceiver(p)
  PROVE  TypeInv'
<1> USE VpnTaskAssumption DEF TypeInv, TakeReceiver, threadVars, ocVars
<1>1. handleQueue' \in Seq(Procs \cup Threads)
  BY EnqueueType DEF TypeOK, Procs
<1>2. pc' \in [Procs -> TaskPcs]
  <2>1. CASE pc' = [pc EXCEPT ![p] = "skip"]
    BY <2>1 DEF TypeOK, TaskPcs
  <2>2. CASE pc' = [pc EXCEPT ![p] = "cancel"]
    BY <2>2 DEF TypeOK, TaskPcs
  <2>. QED
    BY <2>1, <2>2
<1>3. /\ awaited' \in [Procs -> Threads \cup {NoThread}]
      /\ iface' \in [Procs -> Threads \cup {NoThread}]
  <2>1. CASE disconnectRx = NoThread
    BY <2>1 DEF TypeOK
  <2>2. CASE disconnectRx # NoThread
    <3>1. (IF connectedInfo = NoInfo THEN NoThread ELSE connectedInfo.tun)
            \in Threads \cup {NoThread}
      BY DEF TypeOK
    <3>2. iface' \in [Procs -> Threads \cup {NoThread}]
      BY <2>2, <3>1 DEF TypeOK
    <3>3. awaited' \in [Procs -> Threads \cup {NoThread}]
      <4>1. awaited' = [awaited EXCEPT ![p] = disconnectRx]
        BY <2>2
      <4>. HIDE DEF TakeReceiver
      <4>. QED
        BY <4>1 DEF TypeOK
    <3>. QED
      BY <3>2, <3>3
  <2>. QED
    BY <2>1, <2>2
<1>4. rxGuard' \in Procs \cup {NoProc} /\ disconnectRx' \in Threads \cup {NoThread}
  BY DEF TypeOK, Procs
<1>5. TypeOK'
  BY <1>1, <1>2, <1>3, <1>4 DEF TypeOK
<1>6. ClosureAlive'
  BY DEF TypeOK, ClosureAlive
<1>7. RequestKnown'
  BY DEF TypeOK, RequestKnown, Procs, Live
<1>. QED
  BY <1>5, <1>6, <1>7

LEMMA SkipDisconnectTypeInv ==
  ASSUME TypeInv, NEW p \in Handlers \cup {Main}, SkipDisconnect(p)
  PROVE  TypeInv'
<1> USE VpnTaskAssumption DEF TypeInv, SkipDisconnect, Publish, Disconnected,
        Return, threadVars, ocVars
<1>1. vpnState' \in VpnStates
  BY StateType DEF TypeOK, VpnTags, Procs
<1>2. TypeOK'
  BY <1>1 DEF TypeOK, Procs, TaskPcs, ThreadPcs, InSession
<1>3. ClosureAlive'
  BY DEF TypeOK, ClosureAlive, RequestKnown, Over, InSession
<1>4. RequestKnown'
  BY DEF TypeOK, RequestKnown, Procs, Live, InSession
<1>. QED
  BY <1>2, <1>3, <1>4

LEMMA CancelTunnelTypeInv ==
  ASSUME TypeInv, NEW p \in Handlers \cup {Main}, CancelTunnel(p)
  PROVE  TypeInv'
<1> USE VpnTaskAssumption DEF TypeInv, CancelTunnel, Publish, threadVars
<1>1. handleQueue' \in Seq(Procs \cup Threads)
  BY GrantedType DEF TypeOK, Procs, GrantedRead
<1>2. vpnState' \in VpnStates
  BY StateType DEF TypeOK, VpnTags, Procs
<1>3. commands' \in [Threads -> SUBSET {"cancel", "pause"}]
  BY SendCommandType DEF TypeOK
<1>4. TypeOK'
  BY <1>1, <1>2, <1>3 DEF TypeOK, Procs, TaskPcs, ThreadPcs, InSession
<1>5. ClosureAlive'
  BY DEF TypeOK, ClosureAlive, RequestKnown, Over, InSession
<1>6. RequestKnown'
  BY DEF TypeOK, RequestKnown, Procs, Live, InSession
<1>. QED
  BY <1>4, <1>5, <1>6

LEMMA RevertDnsTypeInv ==
  ASSUME TypeInv, NEW p \in Handlers \cup {Main}, RevertDns(p)
  PROVE  TypeInv'
<1> USE VpnTaskAssumption DEF TypeInv, RevertDns, ctxVars, threadVars
<1>1. TypeOK'
  BY DEF TypeOK, Procs, TaskPcs, ThreadPcs, InSession
<1>2. ClosureAlive'
  BY DEF TypeOK, ClosureAlive, RequestKnown, Over, InSession
<1>3. RequestKnown'
  BY DEF TypeOK, RequestKnown, Procs, Live, InSession
<1>. QED
  BY <1>1, <1>2, <1>3

LEMMA TornDownTypeInv ==
  ASSUME TypeInv, NEW p \in Handlers \cup {Main}, TornDown(p)
  PROVE  TypeInv'
<1> USE VpnTaskAssumption DEF TypeInv, TornDown, Live, Return, threadVars,
        ocVars
<1>1. TypeOK'
  BY DEF TypeOK, Procs, TaskPcs, ThreadPcs, InSession
<1>2. ClosureAlive'
  BY DEF TypeOK, ClosureAlive, RequestKnown, Over, InSession
<1>3. RequestKnown'
  BY DEF TypeOK, RequestKnown, Procs, Live, InSession
<1>. QED
  BY <1>1, <1>2, <1>3

LEMMA ForceDisconnectedTypeInv ==
  ASSUME TypeInv, NEW p \in Handlers \cup {Main}, ForceDisconnected(p)
  PROVE  TypeInv'
<1> USE VpnTaskAssumption DEF TypeInv, ForceDisconnected, Publish,
        Disconnected, Live, Return, threadVars, ocVars
<1>1. vpnState' \in VpnStates
  BY StateType DEF TypeOK, VpnTags, Procs
<1>2. TypeOK'
  BY <1>1 DEF TypeOK, Procs, TaskPcs, ThreadPcs, InSession
<1>3. ClosureAlive'
  BY DEF TypeOK, ClosureAlive, RequestKnown, Over, InSession
<1>4. RequestKnown'
  BY DEF TypeOK, RequestKnown, Procs, Live, InSession
<1>. QED
  BY <1>2, <1>3, <1>4

LEMMA AnnounceReconnectingTypeInv ==
  ASSUME TypeInv, AnnounceReconnecting
  PROVE  TypeInv'
<1> USE VpnTaskAssumption DEF TypeInv, AnnounceReconnecting, Publish,
        threadVars, ocVars
<1>1. vpnState' \in VpnStates
  BY StateType DEF TypeOK, VpnTags, Procs
<1>2. TypeOK'
  BY <1>1 DEF TypeOK, Procs, TaskPcs, ThreadPcs, InSession
<1>3. ClosureAlive'
  BY DEF TypeOK, ClosureAlive, RequestKnown, Over, InSession
<1>4. RequestKnown'
  BY DEF TypeOK, RequestKnown, Procs, Live, InSession
<1>. QED
  BY <1>2, <1>3, <1>4

LEMMA RepinnedTypeInv ==
  ASSUME TypeInv, Repinned
  PROVE  TypeInv'
<1> USE VpnTaskAssumption DEF TypeInv, Repinned, threadVars, ocVars
<1>1. handleQueue' \in Seq(Procs \cup Threads)
  BY EnqueueType DEF TypeOK, Procs
<1>2. TypeOK'
  BY <1>1 DEF TypeOK, Procs, TaskPcs, ThreadPcs, InSession
<1>3. ClosureAlive'
  BY DEF TypeOK, ClosureAlive, RequestKnown, Over, InSession
<1>4. RequestKnown'
  BY DEF TypeOK, RequestKnown, Procs, Live, InSession
<1>. QED
  BY <1>2, <1>3, <1>4

LEMMA PauseTunnelTypeInv ==
  ASSUME TypeInv, PauseTunnel
  PROVE  TypeInv'
<1> USE VpnTaskAssumption DEF TypeInv, PauseTunnel, threadVars
<1>1. handleQueue' \in Seq(Procs \cup Threads)
  BY GrantedType DEF TypeOK, Procs, GrantedRead
<1>2. commands' \in [Threads -> SUBSET {"cancel", "pause"}]
  BY SendCommandType DEF TypeOK
<1>3. TypeOK'
  BY <1>1, <1>2 DEF TypeOK, Procs, TaskPcs, ThreadPcs, InSession
<1>4. ClosureAlive'
  BY DEF TypeOK, ClosureAlive, RequestKnown, Over, InSession
<1>5. RequestKnown'
  BY DEF TypeOK, RequestKnown, Procs, Live, InSession
<1>. QED
  BY <1>3, <1>4, <1>5

LEMMA LoopTopTypeInv ==
  ASSUME TypeInv, NEW t \in Threads, LoopTop(t)
  PROVE  TypeInv'
<1> USE VpnTaskAssumption DEF TypeInv, LoopTop, procVars, ocVars
<1>1. handleQueue' \in Seq(Procs \cup Threads)
  BY EnqueueType DEF TypeOK, Procs
<1>2. tpc' \in [Threads -> ThreadPcs]
  <2>1. CASE tpc' = [tpc EXCEPT ![t] = "revert"]
    BY <2>1 DEF TypeOK, ThreadPcs
  <2>2. CASE tpc' = [tpc EXCEPT ![t] = "enter"]
    BY <2>2 DEF TypeOK, ThreadPcs
  <2>. QED
    BY <2>1, <2>2
<1>3. TypeOK'
  BY <1>1, <1>2 DEF TypeOK
<1>4. ClosureAlive'
  BY DEF TypeOK, ClosureAlive, Over
<1>5. RequestKnown'
  BY DEF TypeOK, RequestKnown, Procs, Live
<1>. QED
  BY <1>3, <1>4, <1>5

LEMMA EnterSessionTypeInv ==
  ASSUME TypeInv, NEW t \in Threads, EnterSession(t)
  PROVE  TypeInv'
<1> USE VpnTaskAssumption DEF TypeInv, EnterSession, procVars
<1>1. handleQueue' \in Seq(Procs \cup Threads)
  BY GrantedType DEF TypeOK, GrantedRead
<1>2. tpc' \in [Threads -> ThreadPcs] /\ onConnected' \in Threads \cup {NoThread}
  <2>1. CASE tpc' = [tpc EXCEPT ![t] = "starting"] /\ onConnected' = t
    BY <2>1 DEF TypeOK, ThreadPcs, InSession
  <2>2. CASE tpc' = [tpc EXCEPT ![t] = "exited"] /\ onConnected' = onConnected
    BY <2>2 DEF TypeOK, ThreadPcs, InSession
  <2>. QED
    BY <2>1, <2>2
<1>3. TypeOK'
  BY <1>1, <1>2 DEF TypeOK
<1>4. ASSUME NEW s \in Threads PROVE tpc'[s] \in Over <=> tpc[s] \in Over
  BY DEF TypeOK, Over
<1>5. ASSUME NEW s \in Threads
      PROVE  tpc'[s] = "announce" <=> tpc[s] = "announce"
  BY DEF TypeOK
<1>6. ClosureAlive'
  <2>1. CASE onConnected' = t
    BY <1>4, <1>5, <2>1 DEF TypeOK, ClosureAlive, Over
  <2>2. CASE onConnected' = onConnected
    BY <1>4, <1>5, <2>2 DEF TypeOK, ClosureAlive
  <2>. QED
    BY <2>1, <2>2
<1>7. RequestKnown'
  BY DEF TypeOK, RequestKnown, Procs, Live
<1>. QED
  BY <1>3, <1>6, <1>7

LEMMA SessionOverTypeInv ==
  ASSUME TypeInv, NEW t \in Threads, SessionOver(t)
  PROVE  TypeInv'
<1> USE VpnTaskAssumption DEF TypeInv, SessionOver, ctxVars, procVars, ocVars
<1>1. attempt' \in [Threads -> 0 .. MaxReconnectAttempts]
  <2>1. CASE attempt' = attempt
    BY <2>1 DEF TypeOK
  <2>2. CASE /\ attempt[t] < MaxReconnectAttempts
             /\ attempt' = [attempt EXCEPT ![t] = @ + 1]
    <3>1. attempt[t] + 1 \in 0 .. MaxReconnectAttempts
      BY <2>2 DEF TypeOK
    <3>. QED
      BY <2>2, <3>1 DEF TypeOK
  <2>. QED
    BY <2>1, <2>2
<1>2. tpc' \in [Threads -> ThreadPcs]
  <2>1. CASE tpc' = [tpc EXCEPT ![t] = "revert"]
    BY <2>1 DEF TypeOK, ThreadPcs
  <2>2. CASE tpc' = [tpc EXCEPT ![t] = "retry"]
    BY <2>2 DEF TypeOK, ThreadPcs
  <2>. QED
    BY <2>1, <2>2
<1>3. TypeOK'
  BY <1>1, <1>2 DEF TypeOK
<1>4. ASSUME NEW s \in Threads
      PROVE  /\ tpc'[s] \in Over <=> tpc[s] \in Over
             /\ tpc'[s] = "announce" <=> tpc[s] = "announce"
  BY DEF TypeOK, Over
<1>5. ClosureAlive'
  BY <1>4 DEF TypeOK, ClosureAlive
<1>6. RequestKnown'
  BY DEF TypeOK, RequestKnown, Procs, Live
<1>. QED
  BY <1>3, <1>5, <1>6

LEMMA StartRetryTypeInv ==
  ASSUME TypeInv, NEW t \in Threads, StartRetry(t)
  PROVE  TypeInv'
<1> USE VpnTaskAssumption DEF TypeInv, StartRetry, Publish, procVars, ocVars
<1>1. vpnState' \in VpnStates
  BY StateType DEF TypeOK, VpnTags, Procs
<1>2. TypeOK'
  BY <1>1 DEF TypeOK, Procs, TaskPcs, ThreadPcs, InSession
<1>3. ClosureAlive'
  BY DEF TypeOK, ClosureAlive, RequestKnown, Over, InSession
<1>4. RequestKnown'
  BY DEF TypeOK, RequestKnown, Procs, Live, InSession
<1>. QED
  BY <1>2, <1>3, <1>4

LEMMA NetworkWaitedTypeInv ==
  ASSUME TypeInv, NEW t \in Threads, NetworkWaited(t)
  PROVE  TypeInv'
<1> USE VpnTaskAssumption DEF TypeInv, NetworkWaited, ctxVars, procVars,
        ocVars
<1>1. TypeOK'
  BY DEF TypeOK, Procs, TaskPcs, ThreadPcs, InSession
<1>2. ClosureAlive'
  BY DEF TypeOK, ClosureAlive, RequestKnown, Over, InSession
<1>3. RequestKnown'
  BY DEF TypeOK, RequestKnown, Procs, Live, InSession
<1>. QED
  BY <1>1, <1>2, <1>3

LEMMA RebuildTypeInv ==
  ASSUME TypeInv, NEW t \in Threads, Rebuild(t)
  PROVE  TypeInv'
<1> USE VpnTaskAssumption DEF TypeInv, Rebuild, procVars, ocVars
<1>1. handleQueue' \in Seq(Procs \cup Threads)
  BY EnqueueType DEF TypeOK, Procs
<1>2. tpc' \in [Threads -> ThreadPcs]
  BY DEF TypeOK, ThreadPcs
<1>3. rebuilt' \in [Threads -> Requests \cup {NoRequest}]
  <2>1. rebuilt' = rebuilt \/ rebuilt' = [rebuilt EXCEPT ![t] = lastRequest]
    OBVIOUS
  <2>2. CASE rebuilt' = rebuilt
    BY <2>2 DEF TypeOK
  <2>3. CASE rebuilt' = [rebuilt EXCEPT ![t] = lastRequest]
    <3>. HIDE DEF Rebuild
    <3>. QED
      BY <2>3 DEF TypeOK
  <2>. QED
    BY <2>1, <2>2, <2>3
<1>4. TypeOK'
  BY <1>1, <1>2, <1>3 DEF TypeOK
<1>5. ClosureAlive'
  BY DEF TypeOK, ClosureAlive, Over
<1>6. RequestKnown'
  BY DEF TypeOK, RequestKnown, Procs, Live
<1>. QED
  BY <1>4, <1>5, <1>6

LEMMA StoreRebuiltTypeInv ==
  ASSUME TypeInv, NEW t \in Threads, StoreRebuilt(t)
  PROVE  TypeInv'
<1> USE VpnTaskAssumption DEF TypeInv, StoreRebuilt, procVars
<1>1. handleQueue' \in Seq(Procs \cup Threads)
  BY GrantedType DEF TypeOK, Procs, GrantedWrite
<1>2. TypeOK'
  BY <1>1 DEF TypeOK, Procs, TaskPcs, ThreadPcs, InSession
<1>3. ClosureAlive'
  BY DEF TypeOK, ClosureAlive, RequestKnown, Over, InSession
<1>4. RequestKnown'
  BY DEF TypeOK, RequestKnown, Procs, Live, InSession
<1>. QED
  BY <1>2, <1>3, <1>4

LEMMA RevertAtEndTypeInv ==
  ASSUME TypeInv, NEW t \in Threads, RevertAtEnd(t)
  PROVE  TypeInv'
<1> USE VpnTaskAssumption DEF TypeInv, RevertAtEnd, procVars
<1>1. TypeOK'
  BY DEF TypeOK, Procs, TaskPcs, ThreadPcs, InSession
<1>2. ClosureAlive'
  BY DEF TypeOK, ClosureAlive, RequestKnown, Over, InSession
<1>3. RequestKnown'
  BY DEF TypeOK, RequestKnown, Procs, Live, InSession
<1>. QED
  BY <1>1, <1>2, <1>3

LEMMA PublishEndTypeInv ==
  ASSUME TypeInv, NEW t \in Threads, PublishEnd(t)
  PROVE  TypeInv'
<1> USE VpnTaskAssumption DEF TypeInv, PublishEnd, Publish, Disconnected,
        procVars, ocVars
<1>1. vpnState' \in VpnStates
  BY StateType DEF TypeOK, VpnTags, Procs
<1>2. TypeOK'
  BY <1>1 DEF TypeOK, Procs, TaskPcs, ThreadPcs, InSession
<1>3. ClosureAlive'
  BY DEF TypeOK, ClosureAlive, RequestKnown, Over, InSession
<1>4. RequestKnown'
  BY DEF TypeOK, RequestKnown, Procs, Live, InSession
<1>. QED
  BY <1>2, <1>3, <1>4

LEMMA RequestDropTypeInv ==
  ASSUME TypeInv, NEW t \in Threads, RequestDrop(t)
  PROVE  TypeInv'
<1> USE VpnTaskAssumption DEF TypeInv, RequestDrop, procVars, ocVars
<1>1. handleQueue' \in Seq(Procs \cup Threads)
  BY EnqueueType DEF TypeOK, Procs
<1>2. TypeOK'
  BY <1>1 DEF TypeOK, Procs, TaskPcs, ThreadPcs, InSession
<1>3. ClosureAlive'
  BY DEF TypeOK, ClosureAlive, RequestKnown, Over, InSession
<1>4. RequestKnown'
  BY DEF TypeOK, RequestKnown, Procs, Live, InSession
<1>. QED
  BY <1>2, <1>3, <1>4

LEMMA DropHandleTypeInv ==
  ASSUME TypeInv, NEW t \in Threads, DropHandle(t)
  PROVE  TypeInv'
<1> USE VpnTaskAssumption DEF TypeInv, DropHandle, procVars
<1>1. handleQueue' \in Seq(Procs \cup Threads)
  BY GrantedType DEF TypeOK, Procs, GrantedWrite
<1>2. TypeOK'
  BY <1>1 DEF TypeOK, Procs, TaskPcs, ThreadPcs, InSession
<1>3. ClosureAlive'
  BY DEF TypeOK, ClosureAlive, GrantedWrite, Readers, InSession
<1>4. RequestKnown'
  BY DEF TypeOK, RequestKnown, Procs, Live, InSession
<1>. QED
  BY <1>2, <1>3, <1>4

LEMMA SignalEndTypeInv ==
  ASSUME TypeInv, NEW t \in Threads, SignalEnd(t)
  PROVE  TypeInv'
<1> USE VpnTaskAssumption DEF TypeInv, SignalEnd, ctxVars, procVars, ocVars
<1>1. TypeOK'
  BY DEF TypeOK, Procs, TaskPcs, ThreadPcs, InSession
<1>2. ClosureAlive'
  BY DEF TypeOK, ClosureAlive, RequestKnown, Over, InSession
<1>3. RequestKnown'
  BY DEF TypeOK, RequestKnown, Procs, Live, InSession
<1>. QED
  BY <1>1, <1>2, <1>3

LEMMA OpenPipeTypeInv ==
  ASSUME TypeInv, NEW t \in Threads, OpenPipe(t)
  PROVE  TypeInv'
<1> USE VpnTaskAssumption DEF TypeInv, OpenPipe, ctxVars, procVars
<1>1. tpc' \in [Threads -> ThreadPcs] /\ cmdPipe' \in Threads \cup {NoThread}
  <2>1. CASE cmdPipe' = t /\ tpc' = [tpc EXCEPT ![t] = "dialing"]
    BY <2>1 DEF TypeOK, ThreadPcs, InSession
  <2>2. CASE cmdPipe' = NoThread /\ tpc' = [tpc EXCEPT ![t] = "exited"]
    BY <2>2 DEF TypeOK, ThreadPcs, InSession
  <2>. QED
    BY <2>1, <2>2
<1>2. TypeOK'
  BY <1>1 DEF TypeOK
<1>3. ASSUME NEW s \in Threads
      PROVE  /\ tpc'[s] \in Over <=> tpc[s] \in Over
             /\ tpc'[s] = "announce" <=> tpc[s] = "announce"
  BY DEF TypeOK, Over
<1>4. ClosureAlive'
  BY <1>3 DEF TypeOK, ClosureAlive
<1>5. RequestKnown'
  BY DEF TypeOK, RequestKnown, Procs, Live
<1>. QED
  BY <1>2, <1>4, <1>5

LEMMA TunnelUpTypeInv ==
  ASSUME TypeInv, NEW t \in Threads, TunnelUp(t)
  PROVE  TypeInv'
<1> USE VpnTaskAssumption DEF TypeInv, TunnelUp, ctxVars, procVars
<1>1. commands' \in [Threads -> SUBSET {"cancel", "pause"}]
  BY SendCommandType DEF TypeOK
<1>2. tpc' \in [Threads -> ThreadPcs]
  <2>1. CASE tpc' = [tpc EXCEPT ![t] = "up"]
    BY <2>1 DEF TypeOK, ThreadPcs, InSession
  <2>2. CASE tpc' = [tpc EXCEPT ![t] = "announce"]
    BY <2>2 DEF TypeOK, ThreadPcs, InSession
  <2>. QED
    BY <2>1, <2>2
<1>3. closure' \in [Threads -> Threads \cup {NoThread}]
  <2>1. CASE closure' = closure
    BY <2>1 DEF TypeOK
  <2>2. CASE closure' = [closure EXCEPT ![t] = onConnected]
    BY <2>2 DEF TypeOK
  <2>. QED
    BY <2>1, <2>2
<1>4. TypeOK'
  BY <1>1, <1>2, <1>3 DEF TypeOK
<1>5. ASSUME NEW s \in Threads PROVE tpc'[s] \in Over <=> tpc[s] \in Over
  BY DEF TypeOK, Over
<1>6. ASSUME NEW s \in Threads, tpc'[s] = "announce"
      PROVE  closure'[s] \in Threads /\ tpc'[closure'[s]] \notin Over
  <2>1. CASE s # t
    BY <1>5, <1>6, <2>1 DEF TypeOK, ClosureAlive
  <2>2. CASE s = t
    <3>1. closure'[t] = onConnected /\ onConnected \in Threads
      BY <1>6, <2>2 DEF TypeOK
    <3>. QED
      BY <1>5, <2>2, <3>1 DEF ClosureAlive
  <2>. QED
    BY <2>1, <2>2
<1>7. ClosureAlive'
  BY <1>6 DEF ClosureAlive
<1>8. RequestKnown'
  BY DEF TypeOK, RequestKnown, Procs, Live
<1>. QED
  BY <1>4, <1>7, <1>8

LEMMA DialFailedTypeInv ==
  ASSUME TypeInv, NEW t \in Threads, DialFailed(t)
  PROVE  TypeInv'
<1> USE VpnTaskAssumption DEF TypeInv, DialFailed, LeaveSession, ctxVars,
        procVars
<1>1. TypeOK'
  BY DEF TypeOK, Procs, TaskPcs, ThreadPcs, InSession
<1>2. ClosureAlive'
  BY DEF TypeOK, ClosureAlive, RequestKnown, Over, InSession
<1>3. RequestKnown'
  BY DEF TypeOK, RequestKnown, Procs, Live, InSession
<1>. QED
  BY <1>1, <1>2, <1>3

LEMMA AnnounceTypeInv ==
  ASSUME TypeInv, NEW t \in Threads, Announce(t)
  PROVE  TypeInv'
<1> USE VpnTaskAssumption DEF TypeInv, Announce, procVars
<1> DEFINE r == request[closure[t]]
<1>1. r \in Requests
  BY DEF TypeOK, ClosureAlive, RequestKnown, Live, Over
<1>2. vpnState' \in VpnStates
  BY <1>1, StateType DEF VpnTags, Publish
<1>3. connectedInfo' \in [request : Requests, tun : Threads]
  BY <1>1
<1>4. /\ tpc' \in [Threads -> ThreadPcs]
      /\ closure' \in [Threads -> Threads \cup {NoThread}]
  BY DEF TypeOK, ThreadPcs, InSession
<1>5. TypeOK'
  BY <1>2, <1>3, <1>4 DEF TypeOK
<1>6. ClosureAlive'
  BY DEF TypeOK, ClosureAlive, Over
<1>7. RequestKnown'
  BY DEF TypeOK, RequestKnown, Procs, Live
<1>. QED
  BY <1>5, <1>6, <1>7

LEMMA PausedTypeInv ==
  ASSUME TypeInv, NEW t \in Threads, Paused(t)
  PROVE  TypeInv'
<1> USE VpnTaskAssumption DEF TypeInv, Paused, OnReconnected, Publish,
        procVars, threadVars
<1>1. vpnState' \in VpnStates
  BY StateType DEF TypeOK, VpnTags, Procs
<1>2. TypeOK'
  BY <1>1 DEF TypeOK, Procs, TaskPcs, ThreadPcs, InSession
<1>3. ClosureAlive'
  BY DEF TypeOK, ClosureAlive, RequestKnown, Over, InSession
<1>4. RequestKnown'
  BY DEF TypeOK, RequestKnown, Procs, Live, InSession
<1>. QED
  BY <1>2, <1>3, <1>4

LEMMA CancelledTypeInv ==
  ASSUME TypeInv, NEW t \in Threads, Cancelled(t)
  PROVE  TypeInv'
<1> USE VpnTaskAssumption DEF TypeInv, Cancelled, LeaveSession, ctxVars,
        procVars
<1>1. TypeOK'
  BY DEF TypeOK, Procs, TaskPcs, ThreadPcs, InSession
<1>2. ClosureAlive'
  BY DEF TypeOK, ClosureAlive, RequestKnown, Over, InSession
<1>3. RequestKnown'
  BY DEF TypeOK, RequestKnown, Procs, Live, InSession
<1>. QED
  BY <1>1, <1>2, <1>3

LEMMA NextTypeInv == TypeInv /\ [Next]_vars => TypeInv'
<1> SUFFICES ASSUME TypeInv, [Next]_vars PROVE TypeInv'
  OBVIOUS
<1>1. ASSUME NEW h \in Handlers, HandlerAction(h) PROVE TypeInv'
  BY <1>1, ConnectTypeInv, ConnectAuthTypeInv, ShowPromptTypeInv,
     AuthenticatedTypeInv, LoginFailsTypeInv, ArmTypeInv, BuildVpnTypeInv,
     BuildFailsTypeInv, ReplaceHandleTypeInv, PublishConnectingTypeInv, SpawnTypeInv
     DEF HandlerAction
<1>2. ASSUME NEW p \in Handlers \cup {Main}, DisconnectAction(p) PROVE TypeInv'
  BY <1>2, RequestDisconnectTypeInv, TakeReceiverTypeInv, SkipDisconnectTypeInv,
     CancelTunnelTypeInv, RevertDnsTypeInv, TornDownTypeInv,
     ForceDisconnectedTypeInv
     DEF DisconnectAction
<1>3. CASE MonitorAction
  BY <1>3, ResumeTypeInv, AnnounceReconnectingTypeInv, RepinnedTypeInv,
     PauseTunnelTypeInv
     DEF MonitorAction
<1>4. ASSUME NEW t \in Threads, ThreadAction(t) PROVE TypeInv'
  BY <1>4, ReestablishedTypeInv, TunnelLostTypeInv, LoopTopTypeInv,
     EnterSessionTypeInv, SessionOverTypeInv, StartRetryTypeInv,
     NetworkWaitedTypeInv, RebuildTypeInv, StoreRebuiltTypeInv,
     RevertAtEndTypeInv, PublishEndTypeInv, RequestDropTypeInv,
     DropHandleTypeInv, SignalEndTypeInv, OpenPipeTypeInv, TunnelUpTypeInv,
     DialFailedTypeInv, AnnounceTypeInv, PausedTypeInv, CancelledTypeInv
     DEF ThreadAction
<1>5. CASE UNCHANGED vars
  BY <1>5 DEF TypeInv, TypeOK, ClosureAlive, RequestKnown, Live, vars, ctxVars,
              procVars, threadVars, ocVars
<1>. QED
  BY <1>1, <1>2, <1>3, <1>4, <1>5, NextByActor

LEMMA TypeInvariant == Spec => []TypeInv
  BY InitTypeInv, NextTypeInv, PTL DEF Spec

(* Every variable keeps its type in every behaviour, whatever tasks,       *)
(* threads and openconnect sessions are interleaved.                       *)
THEOREM TypeCorrect == Spec => []TypeOK
<1>1. TypeInv => TypeOK
  BY DEF TypeInv
<1>. QED
  BY <1>1, TypeInvariant, PTL

=============================================================================
