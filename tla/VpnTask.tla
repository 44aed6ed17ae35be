------------------------------ MODULE VpnTask ------------------------------
(***************************************************************************)
(* The tunnel supervisor of gpservice (apps/gpservice/src/vpn_task.rs)     *)
(* together with the part of the openconnect crate it drives               *)
(* (crates/openconnect/src/vpn.rs and ffi/vpn.c).                          *)
(*                                                                         *)
(* Four kinds of actors share one VpnTaskContext:                          *)
(*   - handlers: one tokio task per queued request (connect, a log-in that *)
(*     ends in connect, disconnect);                                       *)
(*   - Main: the service task, which calls disconnect once, on shutdown;   *)
(*   - Monitor: the sleep monitor, which calls reconnect on resume;        *)
(*   - connection threads: one std thread per accepted connect, looping    *)
(*     over blocking openconnect sessions.                                 *)
(* The runtime is multi-threaded, so any two steps of different actors may *)
(* interleave.  One action is one access to shared state, or several that  *)
(* no other actor can tell apart.                                          *)
(***************************************************************************)
EXTENDS Naturals, Sequences, FiniteSets

CONSTANTS
  Handlers,             \* request-handling tasks that may run at the same time
  Main,                 \* the service's main task
  Monitor,              \* the sleep-monitor task
  Threads,              \* connection threads that may be alive at the same time
  Requests,             \* connect requests; each names its own gateway
  MaxReconnectAttempts, \* MAX_RECONNECT_ATTEMPTS (10 in the code)
  TeardownMayHang,      \* may a teardown outlast DISCONNECT_TIMEOUT, or hang?
  PatientClient,        \* does the client wait until the service is quiet?
  LoginsBesideTunnel,   \* does the client log in when not shown Disconnected?
  OutsideEvents,        \* which of "resume" (from sleep) and "stop" may happen
  NoProc, NoThread, NoRequest, NoInfo

Procs == Handlers \cup {Main, Monitor}

ASSUME VpnTaskAssumption ==
  /\ Main \notin Handlers /\ Monitor \notin Handlers /\ Main # Monitor
  /\ Threads \cap (Handlers \cup {Main, Monitor}) = {}
  /\ NoProc \notin Procs
  /\ NoThread \notin Threads
  /\ NoRequest \notin Requests
  /\ NoInfo \notin [request : Requests, tun : Threads]
  /\ MaxReconnectAttempts \in Nat
  /\ TeardownMayHang \in BOOLEAN
  /\ PatientClient \in BOOLEAN /\ LoginsBesideTunnel \in BOOLEAN
  /\ OutsideEvents \subseteq {"resume", "stop"}

VARIABLES
  (* VpnTaskContext *)
  vpnState,       \* the watch channel: the VpnState last published
  vpnHandle,      \* the request the stored Vpn dials, or NoRequest for None
  handleQueue,    \* waiters of the fair RwLock around vpnHandle, in order
  disconnectRx,   \* the thread whose end the stored receiver reports, or NoThread
  rxGuard,        \* the disconnect() holding the disconnect_rx write guard
  connectedInfo,  \* ConnectedInfo of the last announced session
  lastRequest,    \* the request a dead tunnel is rebuilt from
  userDisconnect, \* the last call was a disconnect
  (* the tasks *)
  pc,             \* where each task is
  req,            \* the request (or info) a task carries
  awaited,        \* the thread whose teardown a disconnect() waits for
  iface,          \* the tun a disconnect() has to revert DNS on
  (* the connection threads *)
  tpc,            \* where each thread is
  attempt,        \* re-establishments so far
  request,        \* the request its closure captured
  rebuilt,        \* the Vpn it is about to store
  (* openconnect *)
  onConnected,    \* whose closure the stored Vpn will call once the tunnel is up
  closure,        \* the closure a session is running
  cmdPipe,        \* the session behind g_cmd_pipe_fd, NoThread if it is stale
  commands,       \* unread command bytes of each session's pipe
  tunDns          \* tunnel links whose pushed DNS is still in resolved

ctxVars == <<vpnState, vpnHandle, handleQueue, disconnectRx, rxGuard,
             connectedInfo, lastRequest, userDisconnect>>
procVars == <<pc, req, awaited, iface>>
threadVars == <<tpc, attempt, request, rebuilt>>
ocVars == <<onConnected, closure, cmdPipe, commands, tunDns>>
vars == <<ctxVars, procVars, threadVars, ocVars>>

-----------------------------------------------------------------------------
(* Published states.  The last two are published by the prompters.         *)

VpnTags == {"Disconnected", "Connecting", "Connected", "Reconnecting",
            "Disconnecting", "GatewaySelect", "MfaChallenge"}

VpnStates == [tag : VpnTags, request : Requests \cup {NoRequest}]

State(tag, r) == [tag |-> tag, request |-> r]

Disconnected == State("Disconnected", NoRequest)

Publish(s) == vpnState' = s

(* The RwLock of vpn_handle is a FIFO semaphore: a request queues behind   *)
(* every earlier one, a write is granted once no reader is left.  Only a   *)
(* thread inside openconnect keeps its read guard across steps.            *)

InSession == {"starting", "dialing", "announce", "up"}

Readers == {t \in Threads : tpc[t] \in InSession}

Enqueue(a) == handleQueue' = Append(handleQueue, a)

Granted(a) ==
  /\ handleQueue # <<>> /\ Head(handleQueue) = a
  /\ handleQueue' = Tail(handleQueue)

GrantedRead(a) == Granted(a)

(* Mutant: a write that does not wait for the session to give up its read. *)
GrantedWriteDespiteReaders(a) == Granted(a)

GrantedWrite(a) == Granted(a) /\ Readers = {}

Live(t) == tpc[t] # "done"

(* Past the epilogue's last publication. *)
Ended == {"ended", "take", "signal", "done"}

(* Nothing but openconnect and the scheduler stands between t and its end. *)
AskedToEnd(t) ==
  /\ tpc[t] \in {"enter", "store", "take"} => Readers = {}
  /\ \/ "cancel" \in commands[t]
     \/ userDisconnect /\ tpc[t] \notin {"announce", "up"}
     \/ tpc[t] \in Ended \cup {"revert", "publish"}

Quiet ==
  /\ \A h \in Handlers : pc[h] = "idle"
  /\ \A t \in Threads : ~ Live(t)

Exited == pc[Main] = "exited"

(* The receive loop takes requests until the service is told to stop. *)
Accepts(h) ==
  /\ pc[Main] = "running"
  /\ pc[h] = "idle"
  /\ PatientClient => \A g \in Handlers : pc[g] = "idle"

-----------------------------------------------------------------------------
Init ==
  /\ vpnState = Disconnected
  /\ vpnHandle = NoRequest
  /\ handleQueue = <<>>
  /\ disconnectRx = NoThread
  /\ rxGuard = NoProc
  /\ connectedInfo = NoInfo
  /\ lastRequest = NoRequest
  /\ userDisconnect = FALSE
  /\ pc = [p \in Procs |-> IF p = Main THEN "running" ELSE "idle"]
  /\ req = [p \in Procs |-> NoRequest]
  /\ awaited = [p \in Procs |-> NoThread]
  /\ iface = [p \in Procs |-> NoThread]
  /\ tpc = [t \in Threads |-> "done"]
  /\ attempt = [t \in Threads |-> 0]
  /\ request = [t \in Threads |-> NoRequest]
  /\ rebuilt = [t \in Threads |-> NoRequest]
  /\ onConnected = NoThread
  /\ closure = [t \in Threads |-> NoThread]
  /\ cmdPipe = NoThread
  /\ commands = [t \in Threads |-> {}]
  /\ tunDns = {}

-----------------------------------------------------------------------------
(* openconnect, as far as the service can observe it.                      *)

(* A byte written to g_cmd_pipe_fd reaches the session whose pipe it is;   *)
(* before the first session, and once that session is over, the descriptor *)
(* is stale and the command is lost.                                       *)
SendCommand(cmd) ==
  commands' = [t \in Threads |->
                 IF t = cmdPipe THEN commands[t] \cup {cmd} ELSE commands[t]]

(* Vpn::connect: the closure is stored in the Vpn, vpn_connect begins.  A  *)
(* handle that is None skips the session altogether.                       *)
EnterSession(t) ==
  /\ tpc[t] = "enter"
  /\ GrantedRead(t)
  /\ \/ /\ vpnHandle # NoRequest
        /\ tpc' = [tpc EXCEPT ![t] = "starting"]
        /\ onConnected' = t
     \/ /\ vpnHandle = NoRequest
        /\ tpc' = [tpc EXCEPT ![t] = "exited"]
        /\ UNCHANGED onConnected
  /\ UNCHANGED <<vpnState, vpnHandle, disconnectRx, rxGuard, connectedInfo,
                 lastRequest, userDisconnect, procVars, attempt, request,
                 rebuilt, closure, cmdPipe, commands, tunDns>>

(* openconnect_setup_cmd_pipe: commands written from now on reach t, or no *)
(* session at all if it fails.                                             *)
OpenPipe(t) ==
  /\ tpc[t] = "starting"
  /\ \/ cmdPipe' = t /\ tpc' = [tpc EXCEPT ![t] = "dialing"]
     \/ cmdPipe' = NoThread /\ tpc' = [tpc EXCEPT ![t] = "exited"]
  /\ UNCHANGED <<ctxVars, procVars, attempt, request, rebuilt, onConnected,
                 closure, commands, tunDns>>

(* Mutant: the connected closure does not repeat a disconnect.             *)
TunnelUpUncancelled(t) ==
  /\ tpc[t] = "dialing"
  /\ tunDns' = tunDns \cup {t}
  /\ onConnected' = NoThread
  /\ IF onConnected = NoThread \/ userDisconnect
       THEN tpc' = [tpc EXCEPT ![t] = "up"] /\ UNCHANGED closure
       ELSE /\ tpc' = [tpc EXCEPT ![t] = "announce"]
            /\ closure' = [closure EXCEPT ![t] = onConnected]
  /\ UNCHANGED <<ctxVars, procVars, attempt, request, rebuilt, cmdPipe, commands>>

(* setup_tun_handler: the script has configured the link and pushed DNS,   *)
(* then the connected closure runs, at most once per stored Vpn.  A        *)
(* disconnect that was lost on the previous session's pipe is repeated     *)
(* here on the live one.                                                   *)
TunnelUp(t) ==
  /\ tpc[t] = "dialing"
  /\ tunDns' = tunDns \cup {t}
  /\ onConnected' = NoThread
  /\ \/ /\ onConnected = NoThread
        /\ tpc' = [tpc EXCEPT ![t] = "up"]
        /\ UNCHANGED <<closure, commands>>
     \/ /\ onConnected # NoThread /\ userDisconnect
        /\ tpc' = [tpc EXCEPT ![t] = "up"]
        /\ SendCommand("cancel")
        /\ UNCHANGED closure
     \/ /\ onConnected # NoThread /\ ~ userDisconnect
        /\ tpc' = [tpc EXCEPT ![t] = "announce"]
        /\ closure' = [closure EXCEPT ![t] = onConnected]
        /\ UNCHANGED commands
  /\ UNCHANGED <<ctxVars, procVars, attempt, request, rebuilt, cmdPipe>>

(* The rest of the connected closure. *)
Announce(t) ==
  /\ tpc[t] = "announce"
  /\ LET r == request[closure[t]] IN
       /\ connectedInfo' = [request |-> r, tun |-> t]
       /\ Publish(State("Connected", r))
  /\ tpc' = [tpc EXCEPT ![t] = "up"]
  /\ closure' = [closure EXCEPT ![t] = NoThread]
  /\ UNCHANGED <<vpnHandle, handleQueue, disconnectRx, rxGuard, lastRequest,
                 userDisconnect, procVars, attempt, request, rebuilt,
                 onConnected, cmdPipe, commands, tunDns>>

(* The reconnected closure that build_vpn installs. *)
OnReconnected ==
  IF connectedInfo = NoInfo THEN UNCHANGED vpnState
  ELSE Publish(State("Connected", connectedInfo.request))

(* openconnect re-established the tunnel by itself (DPD, rekey, ...). *)
Reestablished(t) ==
  /\ tpc[t] = "up"
  /\ OnReconnected
  /\ UNCHANGED <<vpnHandle, handleQueue, disconnectRx, rxGuard, connectedInfo,
                 lastRequest, userDisconnect, procVars, threadVars, ocVars>>

(* A pause makes the main loop return 0; vpn_connect notifies, re-enters. *)
Paused(t) ==
  /\ tpc[t] = "up"
  /\ "pause" \in commands[t]
  /\ commands' = [commands EXCEPT ![t] = @ \ {"pause"}]
  /\ OnReconnected
  /\ UNCHANGED <<vpnHandle, handleQueue, disconnectRx, rxGuard, connectedInfo,
                 lastRequest, userDisconnect, procVars, threadVars,
                 onConnected, closure, cmdPipe, tunDns>>

LeaveSession(t) ==
  /\ tpc' = [tpc EXCEPT ![t] = "exited"]
  /\ commands' = [commands EXCEPT ![t] = {}]
  /\ cmdPipe' = IF cmdPipe = t THEN NoThread ELSE cmdPipe
  /\ UNCHANGED <<ctxVars, procVars, attempt, request, rebuilt, onConnected,
                 closure>>

(* The main loop obeys a cancel: logout, and the script reverts the link. *)
Cancelled(t) ==
  /\ tpc[t] \in {"dialing", "up"}
  /\ "cancel" \in commands[t]
  /\ tunDns' = tunDns \ {t}
  /\ LeaveSession(t)

(* The session could not be set up. *)
DialFailed(t) ==
  /\ tpc[t] \in {"starting", "dialing"}
  /\ LeaveSession(t)
  /\ UNCHANGED tunDns

(* An established tunnel died, with or without running the script. *)
TunnelLost(t) ==
  /\ tpc[t] = "up"
  /\ tunDns' \in {tunDns, tunDns \ {t}}
  /\ LeaveSession(t)

-----------------------------------------------------------------------------
(* VpnTaskContext::connect, run by handler h.                              *)

(* Mutant: the picker counts as a tunnel, too.                             *)
AdmitsIdleOnly == vpnState.tag = "Disconnected"

(* The guard of connect(), on a snapshot of the published state.           *)
Admits == vpnState.tag \in {"Disconnected", "GatewaySelect"}

(* Mutant: no guard on the published state.                                *)
ConnectUnguarded(h, r) ==
  /\ Accepts(h)
  /\ PatientClient => Quiet
  /\ pc' = [pc EXCEPT ![h] = "arm"]
  /\ req' = [req EXCEPT ![h] = r]
  /\ UNCHANGED <<ctxVars, awaited, iface, threadVars, ocVars>>

(* A request that fails the guard is dropped, which changes nothing.       *)
Connect(h, r) ==
  /\ Accepts(h)
  /\ PatientClient => Quiet
  /\ Admits
  /\ pc' = [pc EXCEPT ![h] = "arm"]
  /\ req' = [req EXCEPT ![h] = r]
  /\ UNCHANGED <<ctxVars, awaited, iface, threadVars, ocVars>>

(* A log-in: the pipeline of auth_flow.rs, seen from the state channel.  A *)
(* client with LoginsBesideTunnel = FALSE logs in when shown Disconnected. *)
ConnectAuth(h) ==
  /\ Accepts(h)
  /\ PatientClient => Quiet
  /\ LoginsBesideTunnel \/ vpnState.tag = "Disconnected"
  /\ pc' = [pc EXCEPT ![h] = "login"]
  /\ UNCHANGED <<ctxVars, req, awaited, iface, threadVars, ocVars>>

(* A prompter shows its prompt; any number of prompts may follow.          *)
ShowPrompt(h) ==
  /\ pc[h] = "login"
  /\ \E tag \in {"GatewaySelect", "MfaChallenge"} : Publish(State(tag, NoRequest))
  /\ UNCHANGED <<vpnHandle, handleQueue, disconnectRx, rxGuard, connectedInfo,
                 lastRequest, userDisconnect, procVars, threadVars, ocVars>>

(* The request the log-in has built goes through connect() like any other. *)
Authenticated(h, r) ==
  /\ pc[h] = "login"
  /\ IF Admits THEN /\ pc' = [pc EXCEPT ![h] = "arm"]
                    /\ req' = [req EXCEPT ![h] = r]
     ELSE /\ pc' = [pc EXCEPT ![h] = "idle"]
          /\ UNCHANGED req
  /\ UNCHANGED <<ctxVars, awaited, iface, threadVars, ocVars>>

(* fail_connect. *)
LoginFails(h) ==
  /\ pc[h] = "login"
  /\ Publish(Disconnected)
  /\ pc' = [pc EXCEPT ![h] = "idle"]
  /\ UNCHANGED <<vpnHandle, handleQueue, disconnectRx, rxGuard, connectedInfo,
                 lastRequest, userDisconnect, req, awaited, iface, threadVars,
                 ocVars>>

(* Mutant: only the first request is remembered.                           *)
ArmKeepsRequest(h) ==
  /\ pc[h] = "arm"
  /\ userDisconnect' = FALSE
  /\ lastRequest' = IF lastRequest = NoRequest THEN req[h] ELSE lastRequest
  /\ pc' = [pc EXCEPT ![h] = "resolve"]
  /\ UNCHANGED <<vpnState, vpnHandle, handleQueue, disconnectRx, rxGuard,
                 connectedInfo, req, awaited, iface, threadVars, ocVars>>

Arm(h) ==
  /\ pc[h] = "arm"
  /\ userDisconnect' = FALSE
  /\ lastRequest' = req[h]
  /\ pc' = [pc EXCEPT ![h] = "resolve"]
  /\ UNCHANGED <<vpnState, vpnHandle, handleQueue, disconnectRx, rxGuard,
                 connectedInfo, req, awaited, iface, threadVars, ocVars>>

(* Resolve the gateway, build the Vpn, ask for the write lock. *)
BuildVpn(h) ==
  /\ pc[h] = "resolve"
  /\ Enqueue(h)
  /\ pc' = [pc EXCEPT ![h] = "replace"]
  /\ UNCHANGED <<vpnState, vpnHandle, disconnectRx, rxGuard, connectedInfo,
                 lastRequest, userDisconnect, req, awaited, iface, threadVars,
                 ocVars>>

BuildFails(h) ==
  /\ pc[h] = "resolve"
  /\ Publish(Disconnected)
  /\ pc' = [pc EXCEPT ![h] = "idle"]
  /\ req' = [req EXCEPT ![h] = NoRequest]
  /\ UNCHANGED <<vpnHandle, handleQueue, disconnectRx, rxGuard, connectedInfo,
                 lastRequest, userDisconnect, awaited, iface, threadVars,
                 ocVars>>

ReplaceHandle(h) ==
  /\ pc[h] = "replace"
  /\ GrantedWrite(h)
  /\ vpnHandle' = req[h]
  /\ onConnected' = NoThread
  /\ pc' = [pc EXCEPT ![h] = "connecting"]
  /\ UNCHANGED <<vpnState, disconnectRx, rxGuard, connectedInfo, lastRequest,
                 userDisconnect, req, awaited, iface, threadVars, closure,
                 cmdPipe, commands, tunDns>>

(* Mutant: the thread is started first.                                    *)
PublishConnectingLate(h) ==
  /\ pc[h] = "connecting"
  /\ pc' = [pc EXCEPT ![h] = "spawn"]
  /\ UNCHANGED <<ctxVars, req, awaited, iface, threadVars, ocVars>>

PublishConnecting(h) ==
  /\ pc[h] = "connecting"
  /\ Publish(State("Connecting", req[h]))
  /\ pc' = [pc EXCEPT ![h] = "spawn"]
  /\ UNCHANGED <<vpnHandle, handleQueue, disconnectRx, rxGuard, connectedInfo,
                 lastRequest, userDisconnect, req, awaited, iface, threadVars,
                 ocVars>>

(* Store the receiver once no disconnect() holds its lock, start thread t. *)
Spawn(h, t) ==
  /\ pc[h] = "spawn"
  /\ rxGuard = NoProc
  /\ ~ Live(t)
  /\ disconnectRx' = t
  /\ tpc' = [tpc EXCEPT ![t] = "top"]
  /\ request' = [request EXCEPT ![t] = req[h]]
  /\ pc' = [pc EXCEPT ![h] = "idle"]
  /\ req' = [req EXCEPT ![h] = NoRequest]
  /\ UNCHANGED <<vpnState, vpnHandle, handleQueue, rxGuard, connectedInfo,
                 lastRequest, userDisconnect, awaited, iface, attempt, rebuilt,
                 ocVars>>

-----------------------------------------------------------------------------
(* VpnTaskContext::disconnect, run by a handler or, on shutdown, by Main.  *)

RequestDisconnect(p) ==
  /\ \/ p \in Handlers /\ Accepts(p)
     \/ p = Main /\ pc[p] = "running" /\ "stop" \in OutsideEvents
  /\ userDisconnect' = TRUE
  /\ pc' = [pc EXCEPT ![p] = "take"]
  /\ UNCHANGED <<vpnState, vpnHandle, handleQueue, disconnectRx, rxGuard,
                 connectedInfo, lastRequest, req, awaited, iface, threadVars,
                 ocVars>>

(* The write guard taken for the receiver lives as long as the branch that *)
(* found one: until this disconnect() returns.                             *)
TakeReceiver(p) ==
  /\ pc[p] = "take"
  /\ rxGuard = NoProc
  /\ \/ /\ disconnectRx = NoThread
        /\ pc' = [pc EXCEPT ![p] = "skip"]
        /\ UNCHANGED <<handleQueue, disconnectRx, rxGuard, awaited, iface>>
     \/ /\ disconnectRx # NoThread
        /\ awaited' = [awaited EXCEPT ![p] = disconnectRx]
        /\ disconnectRx' = NoThread
        /\ rxGuard' = p
        /\ iface' = [iface EXCEPT
             ![p] = IF connectedInfo = NoInfo THEN NoThread ELSE connectedInfo.tun]
        /\ Enqueue(p)
        /\ pc' = [pc EXCEPT ![p] = "cancel"]
  /\ UNCHANGED <<vpnState, vpnHandle, connectedInfo, lastRequest,
                 userDisconnect, req, threadVars, ocVars>>

Return(p) ==
  /\ pc' = [pc EXCEPT ![p] = IF p = Main THEN "exited" ELSE "idle"]
  /\ rxGuard' = IF rxGuard = p THEN NoProc ELSE rxGuard
  /\ awaited' = [awaited EXCEPT ![p] = NoThread]
  /\ iface' = [iface EXCEPT ![p] = NoThread]

(* Nothing to tear down. *)
SkipDisconnect(p) ==
  /\ pc[p] = "skip"
  /\ Publish(Disconnected)
  /\ Return(p)
  /\ UNCHANGED <<vpnHandle, handleQueue, disconnectRx, connectedInfo,
                 lastRequest, userDisconnect, req, threadVars, ocVars>>

CancelTunnel(p) ==
  /\ pc[p] = "cancel"
  /\ GrantedRead(p)
  /\ \/ /\ vpnHandle # NoRequest
        /\ Publish(State("Disconnecting", NoRequest))
        /\ SendCommand("cancel")
     \/ /\ vpnHandle = NoRequest
        /\ UNCHANGED <<vpnState, commands>>
  /\ pc' = [pc EXCEPT ![p] = "revert"]
  /\ UNCHANGED <<vpnHandle, disconnectRx, rxGuard, connectedInfo, lastRequest,
                 userDisconnect, req, awaited, iface, threadVars, onConnected,
                 closure, cmdPipe, tunDns>>

RevertDns(p) ==
  /\ pc[p] = "revert"
  /\ tunDns' = tunDns \ {iface[p]}
  /\ pc' = [pc EXCEPT ![p] = "await"]
  /\ UNCHANGED <<ctxVars, req, awaited, iface, threadVars, onConnected,
                 closure, cmdPipe, commands>>

TornDown(p) ==
  /\ pc[p] = "await"
  /\ ~ Live(awaited[p])
  /\ Return(p)
  /\ UNCHANGED <<vpnState, vpnHandle, handleQueue, disconnectRx, connectedInfo,
                 lastRequest, userDisconnect, req, threadVars, ocVars>>

(* Mutant: the wait has no timeout.                                        *)
ForceDisconnectedNever(p) ==
  /\ pc[p] = "await"
  /\ ~ Live(awaited[p])
  /\ Publish(Disconnected)
  /\ Return(p)
  /\ UNCHANGED <<vpnHandle, handleQueue, disconnectRx, connectedInfo,
                 lastRequest, userDisconnect, req, threadVars, ocVars>>

(* DISCONNECT_TIMEOUT elapsed: force the state and move on.  Unless        *)
(* teardowns may hang, one that was asked for ends in time.                *)
ForceDisconnected(p) ==
  /\ pc[p] = "await"
  /\ Live(awaited[p])
  /\ TeardownMayHang \/ ~ AskedToEnd(awaited[p])
  /\ Publish(Disconnected)
  /\ Return(p)
  /\ UNCHANGED <<vpnHandle, handleQueue, disconnectRx, connectedInfo,
                 lastRequest, userDisconnect, req, threadVars, ocVars>>

-----------------------------------------------------------------------------
(* VpnTaskContext::reconnect, run by the sleep monitor on resume.          *)

Resume ==
  /\ "resume" \in OutsideEvents
  /\ pc[Monitor] = "idle"
  /\ vpnState.tag = "Connected"
  /\ pc' = [pc EXCEPT ![Monitor] = "announce"]
  /\ req' = [req EXCEPT ![Monitor] = vpnState.request]
  /\ UNCHANGED <<ctxVars, awaited, iface, threadVars, ocVars>>

AnnounceReconnecting ==
  /\ pc[Monitor] = "announce"
  /\ Publish(State("Reconnecting", req[Monitor]))
  /\ pc' = [pc EXCEPT ![Monitor] = "repin"]
  /\ req' = [req EXCEPT ![Monitor] = NoRequest]
  /\ UNCHANGED <<vpnHandle, handleQueue, disconnectRx, rxGuard, connectedInfo,
                 lastRequest, userDisconnect, awaited, iface, threadVars,
                 ocVars>>

(* The gateway route is re-pinned, or ten seconds have passed. *)
Repinned ==
  /\ pc[Monitor] = "repin"
  /\ Enqueue(Monitor)
  /\ pc' = [pc EXCEPT ![Monitor] = "pause"]
  /\ UNCHANGED <<vpnState, vpnHandle, disconnectRx, rxGuard, connectedInfo,
                 lastRequest, userDisconnect, req, awaited, iface, threadVars,
                 ocVars>>

PauseTunnel ==
  /\ pc[Monitor] = "pause"
  /\ GrantedRead(Monitor)
  /\ \/ vpnHandle # NoRequest /\ SendCommand("pause")
     \/ vpnHandle = NoRequest /\ UNCHANGED commands
  /\ pc' = [pc EXCEPT ![Monitor] = "idle"]
  /\ UNCHANGED <<vpnState, vpnHandle, disconnectRx, rxGuard, connectedInfo,
                 lastRequest, userDisconnect, req, awaited, iface, threadVars,
                 onConnected, closure, cmdPipe, tunDns>>

-----------------------------------------------------------------------------
(* The loop of connection thread t, around its sessions.                   *)

(* A disconnect that arrived during a rebuild must not resurrect the       *)
(* tunnel.                                                                 *)
LoopTop(t) ==
  /\ tpc[t] = "top"
  /\ \/ /\ userDisconnect
        /\ tpc' = [tpc EXCEPT ![t] = "revert"]
        /\ UNCHANGED handleQueue
     \/ /\ ~ userDisconnect
        /\ tpc' = [tpc EXCEPT ![t] = "enter"]
        /\ Enqueue(t)
  /\ UNCHANGED <<vpnState, vpnHandle, disconnectRx, rxGuard, connectedInfo,
                 lastRequest, userDisconnect, procVars, attempt, request,
                 rebuilt, ocVars>>

(* Mutant: one attempt too many.                                           *)
SessionOverOffByOne(t) ==
  /\ tpc[t] = "exited"
  /\ \/ /\ userDisconnect \/ attempt[t] > MaxReconnectAttempts
        /\ tpc' = [tpc EXCEPT ![t] = "revert"]
        /\ UNCHANGED attempt
     \/ /\ ~ userDisconnect /\ attempt[t] <= MaxReconnectAttempts
        /\ tpc' = [tpc EXCEPT ![t] = "retry"]
        /\ attempt' = [attempt EXCEPT ![t] = @ + 1]
  /\ UNCHANGED <<ctxVars, procVars, request, rebuilt, ocVars>>

(* Mutant: attempts are not counted.                                       *)
SessionOverUncounted(t) ==
  /\ tpc[t] = "exited"
  /\ tpc' = [tpc EXCEPT ![t] = IF userDisconnect THEN "revert" ELSE "retry"]
  /\ UNCHANGED <<ctxVars, procVars, attempt, request, rebuilt, ocVars>>

(* Intentional exit, retries exhausted, or one more attempt. *)
SessionOver(t) ==
  /\ tpc[t] = "exited"
  /\ \/ /\ userDisconnect \/ attempt[t] = MaxReconnectAttempts
        /\ tpc' = [tpc EXCEPT ![t] = "revert"]
        /\ UNCHANGED attempt
     \/ /\ ~ userDisconnect /\ attempt[t] < MaxReconnectAttempts
        /\ tpc' = [tpc EXCEPT ![t] = "retry"]
        /\ attempt' = [attempt EXCEPT ![t] = @ + 1]
  /\ UNCHANGED <<ctxVars, procVars, request, rebuilt, ocVars>>

StartRetry(t) ==
  /\ tpc[t] = "retry"
  /\ \/ connectedInfo = NoInfo /\ UNCHANGED vpnState
     \/ /\ connectedInfo # NoInfo
        /\ Publish(State("Reconnecting", connectedInfo.request))
  /\ tpc' = [tpc EXCEPT ![t] = "wait"]
  /\ UNCHANGED <<vpnHandle, handleQueue, disconnectRx, rxGuard, connectedInfo,
                 lastRequest, userDisconnect, procVars, attempt, request,
                 rebuilt, ocVars>>

(* wait_for_network is over, reachable or not. *)
NetworkWaited(t) ==
  /\ tpc[t] = "wait"
  /\ tpc' = [tpc EXCEPT ![t] = IF userDisconnect THEN "revert" ELSE "rebuild"]
  /\ UNCHANGED <<ctxVars, procVars, attempt, request, rebuilt, ocVars>>

(* Build a new Vpn from the last request, or fail to. *)
Rebuild(t) ==
  /\ tpc[t] = "rebuild"
  /\ \/ /\ lastRequest # NoRequest
        /\ rebuilt' = [rebuilt EXCEPT ![t] = lastRequest]
        /\ tpc' = [tpc EXCEPT ![t] = "store"]
        /\ Enqueue(t)
     \/ /\ tpc' = [tpc EXCEPT ![t] = "revert"]
        /\ UNCHANGED <<rebuilt, handleQueue>>
  /\ UNCHANGED <<vpnState, vpnHandle, disconnectRx, rxGuard, connectedInfo,
                 lastRequest, userDisconnect, procVars, attempt, request,
                 ocVars>>

StoreRebuilt(t) ==
  /\ tpc[t] = "store"
  /\ GrantedWrite(t)
  /\ vpnHandle' = rebuilt[t]
  /\ onConnected' = NoThread
  /\ rebuilt' = [rebuilt EXCEPT ![t] = NoRequest]
  /\ tpc' = [tpc EXCEPT ![t] = "top"]
  /\ UNCHANGED <<vpnState, disconnectRx, rxGuard, connectedInfo, lastRequest,
                 userDisconnect, procVars, attempt, request, closure, cmdPipe,
                 commands, tunDns>>

(* Mutant: the epilogue reads ConnectedInfo without taking it.             *)
RevertAtEndKeepsInfo(t) ==
  /\ tpc[t] = "revert"
  /\ \/ connectedInfo = NoInfo /\ UNCHANGED tunDns
     \/ connectedInfo # NoInfo /\ tunDns' = tunDns \ {connectedInfo.tun}
  /\ tpc' = [tpc EXCEPT ![t] = "publish"]
  /\ UNCHANGED <<ctxVars, procVars, attempt, request, rebuilt, onConnected,
                 closure, cmdPipe, commands>>

(* The epilogue: revert the DNS of the announced tunnel, publish, drop the *)
(* handle, report the end.                                                 *)
RevertAtEnd(t) ==
  /\ tpc[t] = "revert"
  /\ \/ connectedInfo = NoInfo /\ UNCHANGED tunDns
     \/ connectedInfo # NoInfo /\ tunDns' = tunDns \ {connectedInfo.tun}
  /\ connectedInfo' = NoInfo
  /\ tpc' = [tpc EXCEPT ![t] = "publish"]
  /\ UNCHANGED <<vpnState, vpnHandle, handleQueue, disconnectRx, rxGuard,
                 lastRequest, userDisconnect, procVars, attempt, request,
                 rebuilt, onConnected, closure, cmdPipe, commands>>

(* Mutant: the end of a user disconnect is left to disconnect().           *)
PublishEndUnlessAsked(t) ==
  /\ tpc[t] = "publish"
  /\ IF userDisconnect THEN UNCHANGED vpnState ELSE Publish(Disconnected)
  /\ tpc' = [tpc EXCEPT ![t] = "ended"]
  /\ UNCHANGED <<vpnHandle, handleQueue, disconnectRx, rxGuard, connectedInfo,
                 lastRequest, userDisconnect, procVars, attempt, request,
                 rebuilt, ocVars>>

PublishEnd(t) ==
  /\ tpc[t] = "publish"
  /\ Publish(Disconnected)
  /\ tpc' = [tpc EXCEPT ![t] = "ended"]
  /\ UNCHANGED <<vpnHandle, handleQueue, disconnectRx, rxGuard, connectedInfo,
                 lastRequest, userDisconnect, procVars, attempt, request,
                 rebuilt, ocVars>>

RequestDrop(t) ==
  /\ tpc[t] = "ended"
  /\ Enqueue(t)
  /\ tpc' = [tpc EXCEPT ![t] = "take"]
  /\ UNCHANGED <<vpnState, vpnHandle, disconnectRx, rxGuard, connectedInfo,
                 lastRequest, userDisconnect, procVars, attempt, request,
                 rebuilt, ocVars>>

DropHandle(t) ==
  /\ tpc[t] = "take"
  /\ GrantedWrite(t)
  /\ vpnHandle' = NoRequest
  /\ onConnected' = NoThread
  /\ tpc' = [tpc EXCEPT ![t] = "signal"]
  /\ UNCHANGED <<vpnState, disconnectRx, rxGuard, connectedInfo, lastRequest,
                 userDisconnect, procVars, attempt, request, rebuilt, closure,
                 cmdPipe, commands, tunDns>>

SignalEnd(t) ==
  /\ tpc[t] = "signal"
  /\ tpc' = [tpc EXCEPT ![t] = "done"]
  /\ attempt' = [attempt EXCEPT ![t] = 0]
  /\ request' = [request EXCEPT ![t] = NoRequest]
  /\ UNCHANGED <<ctxVars, procVars, rebuilt, ocVars>>

-----------------------------------------------------------------------------
(* Servers and users decide how a log-in goes on, and whether it does. *)
LoginStep(h) ==
  \/ ShowPrompt(h) \/ LoginFails(h) \/ \E r \in Requests : Authenticated(h, r)

ConnectStep(h) ==
  \/ Arm(h) \/ BuildVpn(h) \/ BuildFails(h) \/ ReplaceHandle(h)
  \/ PublishConnecting(h) \/ \E t \in Threads : Spawn(h, t)

DisconnectStep(p) ==
  \/ TakeReceiver(p) \/ SkipDisconnect(p) \/ CancelTunnel(p) \/ RevertDns(p)
  \/ TornDown(p) \/ ForceDisconnected(p)

ReconnectStep == AnnounceReconnecting \/ Repinned \/ PauseTunnel

LoopStep(t) ==
  \/ LoopTop(t) \/ EnterSession(t) \/ SessionOver(t) \/ StartRetry(t)
  \/ NetworkWaited(t) \/ Rebuild(t) \/ StoreRebuilt(t) \/ RevertAtEnd(t)
  \/ PublishEnd(t) \/ RequestDrop(t) \/ DropHandle(t) \/ SignalEnd(t)

SessionStep(t) ==
  \/ OpenPipe(t) \/ TunnelUp(t) \/ DialFailed(t) \/ Announce(t) \/ Paused(t)

(* The client, the operating system and the network act on their own. *)
Environment ==
  \/ \E h \in Handlers, r \in Requests : Connect(h, r)
  \/ \E h \in Handlers : ConnectAuth(h) \/ LoginStep(h)
  \/ \E p \in Handlers \cup {Main} : RequestDisconnect(p)
  \/ Resume
  \/ \E t \in Threads : Reestablished(t) \/ TunnelLost(t)

Step ==
  /\ ~ Exited
  /\ \/ Environment
     \/ \E h \in Handlers : ConnectStep(h)
     \/ \E p \in Handlers \cup {Main} : DisconnectStep(p)
     \/ ReconnectStep
     \/ \E t \in Threads : LoopStep(t) \/ SessionStep(t) \/ Cancelled(t)

(* The process is gone. *)
Stopped == Exited /\ UNCHANGED vars

Next == Step \/ Stopped

Spec == Init /\ [][Next]_vars

(* Every task and thread the runtime and the kernel schedule makes         *)
(* progress, and the lock of disconnect_rx is handed out in turn; a dial   *)
(* ends one way or the other; a session obeys a pause and, unless a        *)
(* teardown may hang, a cancel.  Clients, resumes and the loss of a tunnel *)
(* are never forced.                                                       *)
Fairness ==
  /\ \A h \in Handlers :
       /\ WF_vars(~ Exited /\ ConnectStep(h))
       /\ SF_vars(~ Exited /\ \E t \in Threads : Spawn(h, t))
  /\ \A p \in Handlers \cup {Main} :
       /\ WF_vars(~ Exited /\ DisconnectStep(p))
       /\ SF_vars(~ Exited /\ TakeReceiver(p))
  /\ WF_vars(~ Exited /\ ReconnectStep)
  /\ \A t \in Threads :
       /\ WF_vars(~ Exited /\ LoopStep(t))
       /\ WF_vars(~ Exited /\ SessionStep(t))
       /\ WF_vars(~ Exited /\ ~ TeardownMayHang /\ Cancelled(t))

FairSpec == Spec /\ Fairness

-----------------------------------------------------------------------------
TaskPcs == {"idle", "login", "arm", "resolve", "replace", "connecting", "spawn",
            "take", "skip", "cancel", "revert", "await", "announce", "repin",
            "pause", "running", "exited"}

ThreadPcs == {"top", "enter", "exited", "retry", "wait", "rebuild", "store",
              "revert", "publish", "ended", "take", "signal", "done"}
             \cup InSession

(* The variables have the types the code gives them. *)
TypeOK ==
  /\ vpnState \in VpnStates
  /\ vpnHandle \in Requests \cup {NoRequest}
  /\ handleQueue \in Seq(Procs \cup Threads)
  /\ disconnectRx \in Threads \cup {NoThread}
  /\ rxGuard \in Procs \cup {NoProc}
  /\ connectedInfo \in [request : Requests, tun : Threads] \cup {NoInfo}
  /\ lastRequest \in Requests \cup {NoRequest}
  /\ userDisconnect \in BOOLEAN
  /\ pc \in [Procs -> TaskPcs]
  /\ req \in [Procs -> Requests \cup {NoRequest}]
  /\ awaited \in [Procs -> Threads \cup {NoThread}]
  /\ iface \in [Procs -> Threads \cup {NoThread}]
  /\ tpc \in [Threads -> ThreadPcs]
  /\ attempt \in [Threads -> 0 .. MaxReconnectAttempts]
  /\ request \in [Threads -> Requests \cup {NoRequest}]
  /\ rebuilt \in [Threads -> Requests \cup {NoRequest}]
  /\ onConnected \in Threads \cup {NoThread}
  /\ closure \in [Threads -> Threads \cup {NoThread}]
  /\ cmdPipe \in Threads \cup {NoThread}
  /\ commands \in [Threads -> SUBSET {"cancel", "pause"}]
  /\ tunDns \in SUBSET Threads

(* The GUI is never told Connected while no connection thread is left that *)
(* could take it back: whatever ends the last thread (lib exit, retries    *)
(* exhausted, failed rebuild, disconnect), its epilogue has the last word  *)
(* over the Connected that it or openconnect's callbacks published.        *)
ConnectedHasThread ==
  vpnState.tag = "Connected" => \E t \in Threads : tpc[t] \notin Ended

(* The remembered ConnectedInfo never outlives the threads that could      *)
(* still revert its DNS: no later reconnect callback can resurrect         *)
(* Connected, and no disconnect can revert DNS, from a dead session's info.*)
InfoHasThread ==
  connectedInfo # NoInfo =>
    \E t \in Threads : tpc[t] \notin Ended \cup {"publish"}

(* Two openconnect sessions never run at the same time; they would share   *)
(* one command pipe, one Vpn and one set of C globals.  connect() relies   *)
(* on its state guard: any state but Disconnected "means a tunnel is       *)
(* already active/connecting, so we still ignore the request".             *)
AtMostOneTunnel == \A s, t \in Readers : s = t

(* The gateway shown as Connected is the gateway the running session       *)
(* dials, also after the tunnel was rebuilt from the last request and      *)
(* after a switch to another request.                                      *)
ConnectedIsDialed ==
  vpnState.tag = "Connected" /\ Readers # {} => vpnState.request = vpnHandle

Idle == Quiet /\ pc[Monitor] = "idle" /\ pc[Main] = "running"

(* When every task has returned and every thread is gone, the state is not *)
(* left at Disconnecting, where connect() would ignore every request: the  *)
(* epilogue is to "notify the VPN is disconnected, whatever ended the      *)
(* session".                                                               *)
NotStuckDisconnecting == Idle => vpnState.tag # "Disconnecting"

(* Nor at Reconnecting: reconnect() is a "no-op unless Connected".         *)
NotStuckReconnecting == Idle => vpnState.tag # "Reconnecting"

(* Once every thread is gone no dead resolver is left on a tunnel link:    *)
(* "whatever ended the session", the epilogue drops the per-link DNS.      *)
DnsReverted == Quiet /\ ~ Exited => tunDns = {}

InDisconnect(p) == pc[p] \in {"take", "skip", "cancel", "revert", "await"}

(* connect() never clears the flag of a disconnect() that is still at      *)
(* work: "mark this exit intentional so the connection thread does not     *)
(* retry".                                                                 *)
FlagNotErased ==
  [][userDisconnect /\ ~ userDisconnect'
       => \A p \in Procs : ~ InDisconnect(p)]_vars

(* Those who have asked for vpn_handle and cannot go on without it. *)
Waiters ==
  {p \in Procs : pc[p] \in {"replace", "cancel", "pause"}}
  \cup {t \in Threads : tpc[t] \in {"enter", "store", "take"}}

(* The two locks lose nobody: the queue of vpn_handle holds those who wait *)
(* for it, each once, so that whoever has its turn is there to take it;    *)
(* and disconnect_rx is held by nobody but a disconnect() that will return *)
(* it, also when it gave up on a hung teardown or the service shuts down.  *)
NobodyForgotten ==
  /\ \A a \in Procs \cup Threads :
       a \in Waiters <=> \E i \in DOMAIN handleQueue : handleQueue[i] = a
  /\ \A i, j \in DOMAIN handleQueue : handleQueue[i] = handleQueue[j] => i = j
  /\ \A p \in Procs : rxGuard = p <=> pc[p] \in {"cancel", "revert", "await"}

(* The promise the lock makes to openconnect. *)
Slot == INSTANCE VpnSlot WITH
  Users <- Threads, Vpns <- Requests, Empty <- NoRequest,
  slot <- vpnHandle, inUse <- Readers

(* The Vpn a session runs on is neither replaced nor dropped under it, by  *)
(* a connect, a rebuild or an epilogue, however they are interleaved.      *)
SlotSpec == Slot!Spec

(* The promise the published state makes to connect(). *)
Guard == INSTANCE VpnGuard WITH
  Users <- Threads, Tags <- VpnTags,
  Refusing <- VpnTags \ {"Disconnected", "GatewaySelect"}, Free <- "Disconnected",
  shown <- vpnState.tag,
  busy <- {t \in Threads : tpc[t] \notin Ended},
  closing <- pc[Main] # "running"

(* While requests are taken, no state that connect() lets pass is shown    *)
(* before the thread has published its end, and no thread is started       *)
(* before another's: two steps of a task, two of a thread and a disconnect *)
(* that finds no receiver, or gives up, must not come in another order.    *)
GuardSpec == Guard!Spec

(* While the service is not told to stop, a log-in is not lost whose       *)
(* client was shown Disconnected: it leads to a connect, ends at           *)
(* Disconnected, or finds MfaChallenge, the state of its own challenge, or *)
(* Reconnecting, which a resume publishes late.  Above all a pick is not   *)
(* dropped, or "a picked gateway never connects".                          *)
LoginNotLost ==
  [][\A h \in Handlers :
       pc[h] = "login" /\ pc'[h] = "idle" /\ pc[Main] = "running" =>
         vpnState'.tag \in {"Disconnected", "MfaChallenge", "Reconnecting"}]_vars

(* "The backend authenticates (prelogin + gateway login, including any     *)
(* interactive MFA challenge) then starts the tunnel via the normal        *)
(* connect path": a log-in that does not fail is not dropped.              *)
LoginStartsTunnel ==
  [][\A h \in Handlers :
       pc[h] = "login" /\ pc'[h] = "idle" => vpnState'.tag = "Disconnected"]_vars

(* A user disconnect that no later connect revokes ends every connection   *)
(* thread, wherever the thread was: before its session, between two        *)
(* sessions, or dialling with a command pipe that is not open yet.         *)
DisconnectEndsTunnel ==
  <>[]userDisconnect => <>[](Exited \/ \A t \in Threads : ~ Live(t))

(* disconnect() returns, whatever openconnect does: "neither a user        *)
(* disconnect nor a service shutdown may block on it".                     *)
DisconnectReturns ==
  \A p \in Handlers \cup {Main} :
    pc[p] = "take" ~> Exited \/ ~ InDisconnect(p)

(* What ConnectingEnds rests on: who is shown Connecting has a thread that  *)
(* will publish its end, or a connect() that is about to start one, also    *)
(* when older threads, disconnects and forced ends publish in between.      *)
ConnectingHasThread ==
  vpnState.tag = "Connecting" =>
    \/ \E t \in Threads : tpc[t] \notin Ended
    \/ \E h \in Handlers : pc[h] = "spawn"

(* Connecting is never shown for ever. *)
ConnectingEnds ==
  vpnState.tag = "Connecting" ~> Exited \/ vpnState.tag # "Connecting"

=============================================================================
