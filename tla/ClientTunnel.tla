---------------------------- MODULE ClientTunnel ----------------------------
(***************************************************************************)
(* The tunnels of `gpclient connect' processes on one machine: the PID     *)
(* file that keeps a second client out and tells `gpclient disconnect' whom *)
(* to interrupt (apps/gpclient/src/cli.rs, connect.rs, disconnect.rs), the *)
(* signal listener (crates/gpapi/src/utils/shutdown_signal.rs), and the    *)
(* session runtime that warns and extends while the tunnel is up           *)
(* (session.rs).  The log-in itself is ClientConnect's.                    *)
(***************************************************************************)
EXTENDS Naturals, FiniteSets

CONSTANTS
  Clients,        \* the PIDs that clients get
  OneByOne,       \* TRUE: a client is started when no other one is logging in, dialling or ending
  EarlySignals,   \* TRUE: a client may be interrupted before its tunnel is up
  WriteMayFail,   \* TRUE: the PID file may fail to be written
  Infos,          \* the session data a gateway can send with a tunnel
  None,           \* Option::None, and no PID file
  MaxTime         \* bound: the clock stops there

ASSUME ClientTunnelAssumption ==
  /\ None \notin Clients
  /\ OneByOne \in BOOLEAN /\ EarlySignals \in BOOLEAN /\ WriteMayFail \in BOOLEAN
  /\ MaxTime \in Nat
  /\ Infos \subseteq [prior : (Nat \ {0}) \cup {None}, expires : Nat \cup {None},
                      lifetime : Nat \cup {None}, extend : BOOLEAN]

VARIABLES
  pc,         \* where each process is
  proc,       \* what it holds, see Fresh
  pidFile,    \* the PID in /var/run/gpclient.lock
  command,    \* `gpclient disconnect': "idle" or the PID it has read
  now         \* the wall clock, while there are tunnels

vars == <<pc, proc, pidFile, command, now>>

\* A process as it starts, and what is left of it when it is gone.
Fresh ==
  [listener |-> "none",  \* its shutdown_signal task: "spawned", "armed", "fired"
   pipe |-> FALSE,       \* openconnect has its command pipe
   cancel |-> FALSE,     \* OC_CMD_CANCEL is in the pipe
   runtime |-> "off",    \* run_session_runtime: "sleeping", "extending", "done"
   info |-> None,        \* the SessionInfo it works from
   wake |-> 0,           \* when it wakes up, unless the machine is suspended
   late |-> 0,           \* for how long the machine was suspended since it went to sleep
   warned |-> FALSE,     \* it has warned of the end of the current lifetime
   ending |-> None]      \* when the gateway will end the session

Alive(p) == pc[p] \notin {"free", "foreign", "gpclient"}
Goto(p, where) == pc' = [pc EXCEPT ![p] = where]
Gone(p) == Goto(p, "free") /\ proc' = [proc EXCEPT ![p] = Fresh]

-----------------------------------------------------------------------------
(* One client at a time *)

IsRunning_Never(p) == FALSE

\* Cli::is_running, asked by process p: the file names a process whose program is a
\* gpclient, of whatever command, p itself included.
IsRunning(p) ==
  pidFile # None /\ (pidFile = p \/ Alive(pidFile) \/ pc[pidFile] = "gpclient")

\* Cli::run up to the handler of `connect', under a PID that is free; one that
\* `gpclient disconnect' is about to signal would be an early signal.
Start(p) ==
  /\ pc[p] = "free" /\ (EarlySignals \/ command # p)
  /\ OneByOne => \A q \in Clients : pc[q] \notin {"login", "dialling", "down", "removing"}
  /\ Goto(p, IF IsRunning(p) THEN "refused" ELSE "login")
  /\ UNCHANGED <<proc, pidFile, command, now>>

Refused(p) == pc[p] = "refused" /\ Gone(p) /\ UNCHANGED <<pidFile, command, now>>

LoginFails(p) == pc[p] = "login" /\ Gone(p) /\ UNCHANGED <<pidFile, command, now>>

\* connect_gateway: spawn the listener and call Vpn::connect.
Dial(p) ==
  /\ pc[p] = "login"
  /\ Goto(p, "dialling")
  /\ proc' = [proc EXCEPT ![p].listener = "spawned"]
  /\ UNCHANGED <<pidFile, command, now>>

\* shutdown_signal was polled: the handlers replace the default action, for good.
ArmListener(p) ==
  /\ proc[p].listener = "spawned"
  /\ proc' = [proc EXCEPT ![p].listener = "armed"]
  /\ UNCHANGED <<pc, pidFile, command, now>>

\* openconnect_setup_cmd_pipe.
OpenPipe(p) ==
  /\ pc[p] = "dialling" /\ ~proc[p].pipe
  /\ proc' = [proc EXCEPT ![p].pipe = TRUE]
  /\ UNCHANGED <<pc, pidFile, command, now>>

-----------------------------------------------------------------------------
(* The session runtime *)

Minus(a, b) == IF a >= b THEN a - b ELSE 0   \* saturating_sub

Delay_Absolute(i) == IF i.expires # None THEN Minus(i.expires, i.prior) ELSE Minus(i.lifetime, i.prior)

\* build_session_warning_schedule: until prior seconds before user_expires or,
\* without it, before the end of the lifetime.
Delay(i) ==
  IF i.expires # None THEN Minus(Minus(i.expires, i.prior), now)
  ELSE Minus(i.lifetime, i.prior)

Scheduled(i) == i.prior # None /\ (i.expires # None \/ i.lifetime # None)

\* The top of run_session_runtime's loop: process state r goes to sleep on info i.
Sleeping(r, i) ==
  [r EXCEPT !.info = i, !.warned = FALSE, !.late = 0,
            !.runtime = IF Scheduled(i) THEN "sleeping" ELSE "done",
            !.wake = IF Scheduled(i) THEN now + Delay(i) ELSE 0]

\* What SessionInfo holds of the gateway's data: expires arrives as a point in time.
Received(i) == [i EXCEPT !.expires = IF @ = None THEN None ELSE now + @]

\* When the gateway ends a session it describes by i.
Ending(i) ==
  IF i.expires # None THEN i.expires ELSE IF i.lifetime # None THEN now + i.lifetime ELSE None

\* The connected closure: write the PID file, where a failure is only logged, and
\* start the session runtime.
TunnelUp(p) ==
  /\ pc[p] = "dialling" /\ proc[p].pipe
  /\ Goto(p, "up")
  /\ pidFile' \in IF WriteMayFail THEN {p, pidFile} ELSE {p}
  /\ \E i \in Infos : LET got == Received(i)
       IN  proc' = [proc EXCEPT ![p] = [Sleeping(@, got) EXCEPT !.ending = Ending(got)]]
  /\ UNCHANGED <<command, now>>

Due(p) == proc[p].runtime = "sleeping" /\ proc[p].wake <= now

\* The runtime wakes up: it warns and, where the portal allows it, extends.
Warn(p) ==
  /\ Due(p)
  /\ proc' = [proc EXCEPT ![p].warned = TRUE,
                         ![p].runtime = IF proc[p].info.extend THEN "extending" ELSE "done"]
  /\ UNCHANGED <<pc, pidFile, command, now>>

\* SessionInfo::rescheduled_after_extension: only the lifetime counts from now on.
Rescheduled(i) == [i EXCEPT !.expires = None]

\* extend_session: the gateway starts a new lifetime and the loop goes on with it.
Extended(p) ==
  /\ proc[p].runtime = "extending"
  /\ LET next == Rescheduled(proc[p].info)
     IN  proc' = [proc EXCEPT ![p] =
           IF next.lifetime = None THEN [@ EXCEPT !.runtime = "done", !.ending = None]
           ELSE [Sleeping(@, next) EXCEPT !.ending = Ending(next)]]
  /\ UNCHANGED <<pc, pidFile, command, now>>

ExtensionFails(p) ==
  /\ proc[p].runtime = "extending"
  /\ proc' = [proc EXCEPT ![p].runtime = "done"]
  /\ UNCHANGED <<pc, pidFile, command, now>>

TunnelStands == \E p \in Clients : pc[p] = "up"

\* Time passes while tunnels stand; timers are served some time after they are due.
Tick ==
  /\ now < MaxTime /\ TunnelStands
  /\ now' = now + 1
  /\ UNCHANGED <<pc, proc, pidFile, command>>

Postponed(r) == [r EXCEPT !.wake = @ + 1, !.late = @ + 1]

\* The machine is suspended: the wall clock goes on, tokio's timers do not.
Suspend ==
  /\ now < MaxTime /\ TunnelStands
  /\ now' = now + 1
  /\ proc' = [p \in Clients |->
       IF proc[p].runtime = "sleeping" /\ ~Due(p) THEN Postponed(proc[p]) ELSE proc[p]]
  /\ UNCHANGED <<pc, pidFile, command>>

-----------------------------------------------------------------------------
(* The end of a tunnel *)

\* The dial failed, or the tunnel was lost or ended by the gateway.
TunnelFails(p) ==
  /\ pc[p] \in {"dialling", "up"}
  /\ Goto(p, "down")
  /\ UNCHANGED <<proc, pidFile, command, now>>

\* Cancelled through the pipe.
Cancelled(p) == proc[p].cancel /\ TunnelFails(p)

\* connect_gateway after Vpn::connect: abort the session task, look for the file.
AbortSession(p) ==
  /\ pc[p] = "down"
  /\ Goto(p, "removing")
  /\ proc' = [proc EXCEPT ![p].runtime = "off"]
  /\ UNCHANGED <<pidFile, command, now>>

\* Remove it, whoever wrote it.
RemovePidFile(p) ==
  /\ pc[p] = "removing"
  /\ pidFile' = None
  /\ Gone(p)
  /\ UNCHANGED <<command, now>>

\* SIGKILL, a panic or the OOM killer: nothing is cleaned up.
Crash(p) == Alive(p) /\ Gone(p) /\ UNCHANGED <<pidFile, command, now>>

\* The system gives a free PID to another program or to a gpclient with another
\* command, and takes it back.
ReusePid(p) ==
  /\ \/ pc[p] = "free" /\ \E program \in {"foreign", "gpclient"} : Goto(p, program)
     \/ pc[p] \in {"foreign", "gpclient"} /\ Goto(p, "free")
  /\ UNCHANGED <<proc, pidFile, command, now>>

-----------------------------------------------------------------------------
(* Interrupting *)

Fired_Deaf(r) == [r EXCEPT !.listener = "fired"]

\* The listener runs, once: vpn.disconnect() puts a byte into the command pipe,
\* which is lost while there is none.
Fired(r) == [r EXCEPT !.listener = "fired", !.cancel = r.pipe]

\* SIGINT or SIGTERM reaches a client: the default action, the listener, or a
\* handler nobody listens to any more.
Signal(p) ==
  IF proc[p].listener \in {"none", "spawned"} THEN Gone(p)
  ELSE /\ proc' = [proc EXCEPT ![p] = IF @.listener = "armed" THEN Fired(@) ELSE @]
       /\ UNCHANGED pc

\* The user presses Ctrl-C.
CtrlC(p) ==
  /\ Alive(p)
  /\ EarlySignals \/ pc[p] = "up"
  /\ Signal(p)
  /\ UNCHANGED <<pidFile, command, now>>

\* DisconnectHandler::handle: read the PID file ...
DisconnectReads ==
  /\ command = "idle" /\ pidFile # None
  /\ command' = pidFile
  /\ UNCHANGED <<pc, proc, pidFile, now>>

\* ... and send_signal, if there is such a process.
DisconnectSignals ==
  /\ command # "idle"
  /\ command' = "idle"
  /\ IF Alive(command) THEN Signal(command) ELSE UNCHANGED <<pc, proc>>
  /\ UNCHANGED <<pidFile, now>>

-----------------------------------------------------------------------------
Init ==
  /\ pc = [p \in Clients |-> "free"]
  /\ proc = [p \in Clients |-> Fresh]
  /\ pidFile = None /\ command = "idle" /\ now = 0

\* What a process does by itself once it is scheduled.
Step(p) == Refused(p) \/ ArmListener(p) \/ Cancelled(p) \/ AbortSession(p) \/ RemovePidFile(p)

Next ==
  \/ \E p \in Clients :
       \/ Start(p) \/ Refused(p) \/ LoginFails(p) \/ Dial(p) \/ ArmListener(p)
       \/ OpenPipe(p) \/ TunnelUp(p) \/ TunnelFails(p) \/ AbortSession(p)
       \/ RemovePidFile(p) \/ Crash(p) \/ ReusePid(p) \/ CtrlC(p)
       \/ Warn(p) \/ Extended(p) \/ ExtensionFails(p)
  \/ Tick \/ Suspend \/ DisconnectReads \/ DisconnectSignals

Spec == Init /\ [][Next]_vars
FairSpec == Spec /\ WF_vars(DisconnectSignals) /\ \A p \in Clients : WF_vars(Step(p))

-----------------------------------------------------------------------------
(* Properties *)

TypeOK ==
  /\ pc \in [Clients -> {"free", "refused", "login", "dialling", "up", "down",
                         "removing", "foreign", "gpclient"}]
  /\ pidFile \in Clients \cup {None} /\ command \in Clients \cup {"idle"} /\ now \in 0..MaxTime
  /\ \A p \in Clients :
       /\ proc[p].listener \in {"none", "spawned", "armed", "fired"}
       /\ proc[p].runtime \in {"off", "sleeping", "extending", "done"}
       /\ proc[p].wake \in Nat /\ proc[p].late \in Nat
       /\ proc[p].cancel => proc[p].pipe

\* A client whose tunnel is up is the one the PID file names: it keeps every other
\* client out, `gpclient disconnect' finds it, and no client that failed, ended or
\* crashed before has left its own PID there or taken the file away.
PidFileNamesTunnel == \A p \in Clients : pc[p] = "up" => pidFile = p

\* `gpclient disconnect' ends the tunnel whose client it has read from the file,
\* whatever the listener has done by then.
DisconnectEnds ==
  \A p \in Clients : (command = p /\ pc[p] = "up") ~> ~Alive(p)

\* What DisconnectEnds rests on: an interrupt that has used up the listener of a
\* tunnel, which fires once, is in the command pipe and not lost.
InterruptKept ==
  \A p \in Clients : pc[p] = "up" /\ proc[p].listener = "fired" => proc[p].cancel

\* The user hears of the end of the session prior seconds before it comes, or as soon
\* as there is time for it, also after extensions; late by no more than the machine was
\* suspended since the runtime went to sleep.
WarnedInTime ==
  \A p \in Clients :
    LET r == proc[p]
    IN  (/\ pc[p] = "up" /\ r.info.prior # None /\ r.ending # None
         /\ now + r.info.prior > r.ending + r.late)
          => r.warned \/ Due(p)

=============================================================================
