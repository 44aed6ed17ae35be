------------------------- MODULE ClientTunnel_proofs -------------------------
(***************************************************************************)
(* What the PID file guarantees for any number of clients, session data    *)
(* and crashes, as long as clients are started one by one and the file can *)
(* be written.                                                             *)
(***************************************************************************)
EXTENDS ClientTunnel, TLAPS

USE ClientTunnelAssumption

Places == {"free", "refused", "login", "dialling", "up", "down", "removing",
           "foreign", "gpclient"}

\* A client that another one may still collide with over the PID file.
Active == {"login", "dialling", "up", "down", "removing"}

Located ==
  /\ pc \in [Clients -> Places]
  /\ pidFile \in Clients \cup {None}
  /\ command \in Clients \cup {"idle"}

OneActive == \A p, q \in Clients : pc[p] \in Active /\ pc[q] \in Active => p = q

(* PidFileNamesTunnel alone is not inductive: a second client could dial   *)
(* beside a tunnel, and the file a first one removes could be another's.   *)
PidInv == Located /\ OneActive /\ PidFileNamesTunnel

(* What one process does leaves every other where it is.                   *)
LEMMA Moves ==
  ASSUME PidInv, NEW p \in Clients, NEW where \in Places,
         pc' = [pc EXCEPT ![p] = where],
         where \in Active => pc[p] \in Active \/ \A q \in Clients : pc[q] \notin Active,
         pidFile' \in Clients \cup {None}, command' \in Clients \cup {"idle"},
         \A q \in Clients \ {p} : pc[q] = "up" => pidFile' = q,
         where = "up" => pidFile' = p
  PROVE  PidInv'
BY DEF PidInv, Located, OneActive, PidFileNamesTunnel, Places, Active

(* A client that starts finds the tunnel of another in the PID file.       *)
LEMMA StartStep ==
  ASSUME OneByOne, PidInv, NEW p \in Clients, Start(p)
  PROVE  PidInv'
<1>1. CASE IsRunning(p)
  BY <1>1, Moves DEF Start, Goto, PidInv, Located, PidFileNamesTunnel, Places, Active
<1>2. CASE ~IsRunning(p)
  <2>1. \A q \in Clients : pc[q] \notin Active
    BY <1>2 DEF Start, IsRunning, Alive, PidInv, Located, PidFileNamesTunnel, Active
  <2> QED
    BY <1>2, <2>1, Moves DEF Start, Goto, PidInv, Located, PidFileNamesTunnel, Places, Active
<1> QED
  BY <1>1, <1>2

(* One case for every action; what a signal does is Signal's.              *)
LEMMA PidStep ==
  ASSUME OneByOne, ~WriteMayFail
  PROVE  PidInv /\ [Next]_vars => PidInv'
<1> SUFFICES ASSUME PidInv, [Next]_vars PROVE PidInv'
  OBVIOUS
<1> USE DEF PidInv, Located, OneActive, PidFileNamesTunnel, Places, Active
<1>1. ASSUME NEW p \in Clients, Signal(p), UNCHANGED pidFile,
             command' \in Clients \cup {"idle"}
     PROVE  PidInv'
  BY <1>1 DEF Signal, Gone, Goto
<1>2. ASSUME NEW p \in Clients,
             \/ Start(p) \/ Refused(p) \/ LoginFails(p) \/ Dial(p) \/ ArmListener(p)
             \/ OpenPipe(p) \/ TunnelUp(p) \/ TunnelFails(p) \/ AbortSession(p)
             \/ RemovePidFile(p) \/ Crash(p) \/ ReusePid(p) \/ CtrlC(p)
             \/ Warn(p) \/ Extended(p) \/ ExtensionFails(p)
     PROVE  PidInv'
  <2>1. CASE Start(p)
    BY <2>1, StartStep
  <2>2. CASE Refused(p) \/ LoginFails(p)
    BY <2>2 DEF Refused, LoginFails, Gone, Goto
  <2>3. CASE Dial(p)
    BY <2>3 DEF Dial, Goto
  <2>4. CASE ArmListener(p) \/ OpenPipe(p)
    BY <2>4 DEF ArmListener, OpenPipe
  <2>5. CASE TunnelUp(p)
    BY <2>5 DEF TunnelUp, Goto
  <2>6. CASE TunnelFails(p)
    BY <2>6 DEF TunnelFails, Goto
  <2>7. CASE AbortSession(p)
    BY <2>7 DEF AbortSession, Goto
  <2>8. CASE RemovePidFile(p)
    BY <2>8 DEF RemovePidFile, Gone, Goto
  <2>9. CASE Crash(p)
    BY <2>9 DEF Crash, Gone, Goto
  <2>10. CASE ReusePid(p)
    BY <2>10 DEF ReusePid, Goto
  <2>11. CASE CtrlC(p)
    BY <2>11, <1>1 DEF CtrlC
  <2>12. CASE Warn(p) \/ Extended(p) \/ ExtensionFails(p)
    BY <2>12 DEF Warn, Extended, ExtensionFails
  <2> QED
    BY <1>2, <2>1, <2>2, <2>3, <2>4, <2>5, <2>6, <2>7, <2>8, <2>9, <2>10, <2>11, <2>12
<1>3. CASE Tick \/ Suspend
  BY <1>3 DEF Tick, Suspend
<1>4. CASE DisconnectReads
  BY <1>4 DEF DisconnectReads
<1>5. CASE DisconnectSignals
  <2>1. CASE Alive(command)
    BY <1>5, <2>1, <1>1 DEF DisconnectSignals
  <2>2. CASE ~Alive(command)
    BY <1>5, <2>2 DEF DisconnectSignals
  <2> QED
    BY <2>1, <2>2
<1>6. CASE UNCHANGED vars
  BY <1>6 DEF vars
<1> QED
  BY <1>2, <1>3, <1>4, <1>5, <1>6 DEF Next

LEMMA PidInvariant ==
  ASSUME OneByOne, ~WriteMayFail
  PROVE  Spec => []PidInv
<1>1. Init => PidInv
  BY DEF Init, PidInv, Located, OneActive, PidFileNamesTunnel, Places, Active
<1> QED
  BY <1>1, PidStep, PTL DEF Spec

(* The PID file names the client whose tunnel is up, whatever crashed,     *)
(* ended or was interrupted before.                                        *)
THEOREM PidFileNamesTunnelAlways ==
  ASSUME OneByOne, ~WriteMayFail
  PROVE  Spec => []PidFileNamesTunnel
<1>1. PidInv => PidFileNamesTunnel
  BY DEF PidInv
<1> QED
  BY <1>1, PidInvariant, PTL

(* The Located part alone needs no assumption on how clients are started.  *)
LEMMA LocatedStep == Located /\ [Next]_vars => Located'
<1> SUFFICES ASSUME Located, [Next]_vars PROVE Located'
  OBVIOUS
<1> USE DEF Located, Places
<1>1. ASSUME NEW p \in Clients, Signal(p), UNCHANGED pidFile,
             command' \in Clients \cup {"idle"}
     PROVE  Located'
  BY <1>1 DEF Signal, Gone, Goto
<1>2. ASSUME NEW p \in Clients,
             \/ Start(p) \/ Refused(p) \/ LoginFails(p) \/ Dial(p) \/ ArmListener(p)
             \/ OpenPipe(p) \/ TunnelUp(p) \/ TunnelFails(p) \/ AbortSession(p)
             \/ RemovePidFile(p) \/ Crash(p) \/ ReusePid(p) \/ CtrlC(p)
             \/ Warn(p) \/ Extended(p) \/ ExtensionFails(p)
     PROVE  Located'
  <2>1. CASE CtrlC(p)
    BY <2>1, <1>1 DEF CtrlC
  <2>2. CASE ArmListener(p) \/ OpenPipe(p) \/ Warn(p) \/ Extended(p) \/ ExtensionFails(p)
    BY <2>2 DEF ArmListener, OpenPipe, Warn, Extended, ExtensionFails
  <2>3. CASE \/ Start(p) \/ Refused(p) \/ LoginFails(p) \/ Dial(p) \/ TunnelUp(p)
             \/ TunnelFails(p) \/ AbortSession(p) \/ RemovePidFile(p) \/ Crash(p) \/ ReusePid(p)
    BY <2>3 DEF Start, Refused, LoginFails, Dial, TunnelUp, TunnelFails, AbortSession,
                RemovePidFile, Crash, ReusePid, Gone, Goto
  <2> QED
    BY <1>2, <2>1, <2>2, <2>3
<1>3. CASE Tick \/ Suspend \/ DisconnectReads
  BY <1>3 DEF Tick, Suspend, DisconnectReads
<1>4. CASE DisconnectSignals
  <2>1. CASE Alive(command)
    BY <1>4, <2>1, <1>1 DEF DisconnectSignals, Alive
  <2>2. CASE ~Alive(command)
    BY <1>4, <2>2 DEF DisconnectSignals
  <2> QED
    BY <2>1, <2>2
<1>5. CASE UNCHANGED vars
  BY <1>5 DEF vars
<1> QED
  BY <1>2, <1>3, <1>4, <1>5 DEF Next

-----------------------------------------------------------------------------
(* The session runtime.                                                    *)

Sessions == [prior : (Nat \ {0}) \cup {None}, expires : Nat \cup {None},
             lifetime : Nat \cup {None}, extend : BOOLEAN]

Processes == [listener : {"none", "spawned", "armed", "fired"}, pipe : BOOLEAN, cancel : BOOLEAN,
              runtime : {"off", "sleeping", "extending", "done"}, info : Sessions \cup {None},
              wake : Nat, late : Nat, warned : BOOLEAN, ending : Nat \cup {None}]

(* What a runtime r holds at time t.  One that has not warned of an end    *)
(* sleeps, and its timer is due already or is set for the lead time before *)
(* that end at the latest, but for the time suspended since; one that      *)
(* extends has warned.                                                     *)
OnTime(r, t) ==
  r.runtime # "off" =>
    /\ r.info \in Sessions
    /\ r.runtime = "extending" => r.warned
    /\ r.info.prior # None /\ r.ending # None /\ ~r.warned =>
         /\ r.runtime = "sleeping"
         /\ r.wake <= t \/ r.wake + r.info.prior <= r.ending + r.late

(* WarnedInTime alone says nothing of the timer of a session whose end is  *)
(* still far.                                                              *)
RuntimeInv ==
  /\ Located
  /\ now \in Nat
  /\ proc \in [Clients -> Processes]
  /\ \A p \in Clients : pc[p] = "up" => proc[p].runtime # "off"
  /\ \A p \in Clients : OnTime(proc[p], now)

LEMMA ProcessType ==
  ASSUME NEW r \in Processes, NEW i \in Sessions, NEW w \in Nat,
         NEW t \in {"sleeping", "done"}, NEW e \in Nat \cup {None}
  PROVE  [r EXCEPT !.info = i, !.warned = FALSE, !.late = 0, !.runtime = t, !.wake = w,
                   !.ending = e] \in Processes
<1>1. PICK r1 \in Processes : r1 = [r EXCEPT !.info = i]
  BY DEF Processes
<1>0. PICK r0 \in Processes : r0 = [r1 EXCEPT !.warned = FALSE]
  BY DEF Processes
<1>2. PICK r2 \in Processes : r2 = [r0 EXCEPT !.late = 0]
  BY DEF Processes
<1>3. PICK r3 \in Processes : r3 = [r2 EXCEPT !.runtime = t]
  BY DEF Processes
<1>4. PICK r4 \in Processes : r4 = [r3 EXCEPT !.wake = w]
  BY DEF Processes
<1>5. PICK r5 \in Processes : r5 = [r4 EXCEPT !.ending = e]
  BY DEF Processes
<1> QED
  BY <1>0, <1>1, <1>2, <1>3, <1>4, <1>5

(* A runtime that goes to sleep on what the gateway has sent is on time,   *)
(* whether the end is given as a point in time, as a lifetime or not at    *)
(* all, and also when it is nearer than the lead time.                     *)
LEMMA SleepingOnTime ==
  ASSUME NEW r \in Processes, NEW i \in Sessions, now \in Nat
  PROVE  LET s == [Sleeping(r, i) EXCEPT !.ending = Ending(i)]
         IN  s \in Processes /\ s.runtime # "off" /\ OnTime(s, now)
<1> DEFINE s == [Sleeping(r, i) EXCEPT !.ending = Ending(i)]
<1>1. Ending(i) \in Nat \cup {None}
  BY DEF Ending, Sessions
<1>2. CASE Scheduled(i)
  <2>1. Delay(i) \in Nat
    BY <1>2 DEF Delay, Scheduled, Minus, Sessions
  <2>2. Ending(i) # None => Delay(i) = 0 \/ now + Delay(i) + i.prior <= Ending(i)
    BY <1>2 DEF Delay, Scheduled, Minus, Ending, Sessions
  <2>3. Sleeping(r, i) = [r EXCEPT !.info = i, !.warned = FALSE, !.late = 0,
                                   !.runtime = "sleeping", !.wake = now + Delay(i)]
    BY <1>2 DEF Sleeping
  <2>4. s = [r EXCEPT !.info = i, !.warned = FALSE, !.late = 0, !.runtime = "sleeping",
                      !.wake = now + Delay(i), !.ending = Ending(i)]
    BY <2>3 DEF Processes
  <2>5. s \in Processes
    <3>1. now + Delay(i) \in Nat
      BY <2>1
    <3> QED
      BY <1>1, <2>4, <3>1, ProcessType
  <2>6. /\ s.info = i /\ s.warned = FALSE /\ s.runtime = "sleeping"
        /\ s.wake = now + Delay(i) /\ s.late = 0 /\ s.ending = Ending(i)
    BY <2>4 DEF Processes
  <2>7. i.prior \in Nat
    BY <1>2 DEF Scheduled, Sessions
  <2>8. OnTime(s, now)
    BY <1>1, <2>1, <2>2, <2>6, <2>7 DEF OnTime
  <2> QED
    BY <2>5, <2>6, <2>8
<1>3. CASE ~Scheduled(i)
  <2>1. i.prior = None \/ Ending(i) = None
    BY <1>3 DEF Scheduled, Ending
  <2>2. s = [r EXCEPT !.info = i, !.warned = FALSE, !.late = 0, !.runtime = "done",
                      !.wake = 0, !.ending = Ending(i)]
    BY <1>3 DEF Sleeping, Processes
  <2>3. s.info = i /\ s.runtime = "done" /\ s.ending = Ending(i)
    BY <1>1, <2>2 DEF Processes
  <2>4. s \in Processes
    BY <1>1, <2>2, ProcessType
  <2> QED
    BY <2>1, <2>3, <2>4 DEF OnTime
<1> QED
  BY <1>2, <1>3

LEMMA ReceivedSession ==
  ASSUME NEW i \in Sessions, now \in Nat
  PROVE  Received(i) \in Sessions /\ Rescheduled(i) \in Sessions
BY DEF Received, Rescheduled, Sessions

(* The updates of one field, or of two, that the other actions make.       *)
LEMMA Updates ==
  ASSUME NEW r \in Processes, NEW l \in {"spawned", "armed"},
         NEW t \in {"off", "extending", "done"}
  PROVE  /\ [r EXCEPT !.listener = l] \in Processes
         /\ [r EXCEPT !.pipe = TRUE] \in Processes
         /\ [r EXCEPT !.runtime = t] \in Processes
         /\ [r EXCEPT !.warned = TRUE, !.runtime = t] \in Processes
         /\ [r EXCEPT !.runtime = t, !.ending = None] \in Processes
<1>1. [r EXCEPT !.listener = l] \in Processes /\ [r EXCEPT !.pipe = TRUE] \in Processes
  BY DEF Processes
<1>2. [r EXCEPT !.runtime = t] \in Processes
  BY DEF Processes
<1>3. PICK r1 \in Processes : r1 = [r EXCEPT !.warned = TRUE]
  BY DEF Processes
<1>4. [r1 EXCEPT !.runtime = t] \in Processes
  BY DEF Processes
<1>5. PICK r2 \in Processes : r2 = [r EXCEPT !.runtime = t]
  BY <1>2
<1>6. [r2 EXCEPT !.ending = None] \in Processes
  BY DEF Processes
<1> QED
  BY <1>1, <1>2, <1>3, <1>4, <1>5, <1>6

(* A suspend postpones a timer and changes nothing else.                   *)
LEMMA PostponedFields ==
  ASSUME NEW r \in Processes
  PROVE  LET s == Postponed(r)
         IN  /\ s \in Processes
             /\ s.runtime = r.runtime /\ s.info = r.info /\ s.warned = r.warned
             /\ s.ending = r.ending /\ s.wake = r.wake + 1 /\ s.late = r.late + 1
             /\ s.listener = r.listener /\ (s.pipe <=> r.pipe) /\ (s.cancel <=> r.cancel)
<1>1. r.wake + 1 \in Nat /\ r.late + 1 \in Nat
  BY DEF Processes
<1>2. PICK w \in Nat : w = r.wake + 1
  BY <1>1
<1>3. PICK l \in Nat : l = r.late + 1
  BY <1>1
<1>4. PICK r1 \in Processes : r1 = [r EXCEPT !.wake = w]
  BY DEF Processes
<1>5. Postponed(r) = [r1 EXCEPT !.late = l]
  BY <1>2, <1>3, <1>4 DEF Postponed, Processes
<1>6. [r1 EXCEPT !.late = l] \in Processes
  BY DEF Processes
<1>7. Postponed(r) = [r EXCEPT !.wake = w, !.late = l]
  BY <1>4, <1>5 DEF Processes
<1> QED
  BY <1>2, <1>3, <1>5, <1>6, <1>7 DEF Processes

(* What a suspend leaves as it is.                                         *)
LEMMA SuspendFrame ==
  ASSUME Suspend
  PROVE  /\ now' = now + 1 /\ now < MaxTime
         /\ pc' = pc /\ pidFile' = pidFile /\ command' = command
         /\ DOMAIN proc' = Clients
         /\ \A p \in Clients : proc'[p] = Postponed(proc[p]) \/ proc'[p] = proc[p]
BY DEF Suspend

(* What a step does to one process, and to no other, is enough.            *)
LEMMA RuntimeMoves ==
  ASSUME RuntimeInv, Located', NEW p \in Clients, NEW r \in Processes,
         proc' = [proc EXCEPT ![p] = r], now' = now,
         \A q \in Clients \ {p} : pc'[q] = "up" => pc[q] = "up",
         pc'[p] = "up" => r.runtime # "off",
         OnTime(r, now)
  PROVE  RuntimeInv'
BY DEF RuntimeInv

LEMMA RuntimeGone ==
  ASSUME RuntimeInv, Located', NEW p \in Clients, Gone(p), now' = now
  PROVE  RuntimeInv'
<1>1. Fresh \in Processes
  BY DEF Fresh, Processes
<1>2. OnTime(Fresh, now)
  BY DEF Fresh, OnTime
<1> QED
  BY <1>1, <1>2, RuntimeMoves DEF Gone, Goto, RuntimeInv, Located

LEMMA RuntimeSignal ==
  ASSUME RuntimeInv, Located', NEW p \in Clients, Signal(p), now' = now
  PROVE  RuntimeInv'
<1>1. CASE proc[p].listener \in {"none", "spawned"}
  BY <1>1, RuntimeGone DEF Signal
<1>2. CASE proc[p].listener \notin {"none", "spawned"}
  <2> DEFINE r == IF proc[p].listener = "armed" THEN Fired(proc[p]) ELSE proc[p]
  <2>1. pc' = pc /\ proc' = [proc EXCEPT ![p] = r]
    BY <1>2 DEF Signal, RuntimeInv
  <2>2. proc[p] \in Processes
    BY DEF RuntimeInv
  <2>3. r \in Processes /\ r.runtime = proc[p].runtime /\ r.info = proc[p].info
        /\ r.warned = proc[p].warned /\ r.ending = proc[p].ending /\ r.wake = proc[p].wake
             /\ r.late = proc[p].late
    BY <2>2 DEF Fired, Processes
  <2>4. OnTime(r, now)
    BY <2>3 DEF OnTime, RuntimeInv
  <2> HIDE DEF r
  <2> QED
    BY <2>1, <2>3, <2>4, RuntimeMoves DEF RuntimeInv, Located
<1> QED
  BY <1>1, <1>2

LEMMA RuntimeStep == RuntimeInv /\ [Next]_vars => RuntimeInv'
<1> SUFFICES ASSUME RuntimeInv, [Next]_vars PROVE RuntimeInv'
  OBVIOUS
<1>1. Located'
  BY LocatedStep DEF RuntimeInv
<1>2. ASSUME NEW p \in Clients,
             \/ Start(p) \/ Refused(p) \/ LoginFails(p) \/ Dial(p) \/ ArmListener(p)
             \/ OpenPipe(p) \/ TunnelUp(p) \/ TunnelFails(p) \/ AbortSession(p)
             \/ RemovePidFile(p) \/ Crash(p) \/ ReusePid(p) \/ CtrlC(p)
             \/ Warn(p) \/ Extended(p) \/ ExtensionFails(p)
     PROVE  RuntimeInv'
  <2>0. proc[p] \in Processes /\ OnTime(proc[p], now)
    BY DEF RuntimeInv
  <2>1. CASE Refused(p) \/ LoginFails(p) \/ RemovePidFile(p) \/ Crash(p)
    BY <1>1, <2>1, RuntimeGone DEF Refused, LoginFails, RemovePidFile, Crash
  <2>2. CASE Start(p) \/ TunnelFails(p) \/ ReusePid(p)
    <3>1. \A q \in Clients : pc'[q] = "up" => pc[q] = "up"
      BY <2>2 DEF Start, TunnelFails, ReusePid, Goto, RuntimeInv, Located
    <3>2. proc' = proc /\ now' = now
      BY <2>2 DEF Start, TunnelFails, ReusePid
    <3> QED
      BY <1>1, <3>1, <3>2 DEF RuntimeInv
  <2>3. CASE Dial(p) \/ ArmListener(p) \/ OpenPipe(p)
    <3>1. PICK r \in Processes : proc' = [proc EXCEPT ![p] = r] /\ now' = now
             /\ r.runtime = proc[p].runtime /\ r.info = proc[p].info
             /\ r.warned = proc[p].warned /\ r.ending = proc[p].ending /\ r.wake = proc[p].wake
             /\ r.late = proc[p].late
      <4>1. CASE Dial(p) \/ ArmListener(p)
        <5>1. PICK l \in {"spawned", "armed"} : proc' = [proc EXCEPT ![p].listener = l] /\ now' = now
          BY <4>1 DEF Dial, ArmListener
        <5>2. PICK r \in Processes : r = [proc[p] EXCEPT !.listener = l]
          BY <2>0, Updates
        <5> QED
          BY <2>0, <5>1, <5>2 DEF RuntimeInv, Processes
      <4>2. CASE OpenPipe(p)
        <5>1. PICK r \in Processes : r = [proc[p] EXCEPT !.pipe = TRUE]
          BY <2>0, Updates
        <5> QED
          BY <2>0, <4>2, <5>1 DEF OpenPipe, RuntimeInv, Processes
      <4> QED
        BY <2>3, <4>1, <4>2
    <3>2. \A q \in Clients : pc'[q] = "up" => pc[q] = "up"
      BY <2>3 DEF Dial, ArmListener, OpenPipe, Goto, RuntimeInv, Located
    <3>3. OnTime(r, now)
      BY <2>0, <3>1 DEF OnTime
    <3> QED
      BY <1>1, <3>1, <3>2, <3>3, RuntimeMoves DEF RuntimeInv
  <2>4. CASE TunnelUp(p)
    <3>1. PICK i \in Infos :
            proc' = [proc EXCEPT ![p] =
                       [Sleeping(proc[p], Received(i)) EXCEPT !.ending = Ending(Received(i))]]
      BY <2>4 DEF TunnelUp
    <3>2. Received(i) \in Sessions /\ now \in Nat
      BY ReceivedSession DEF RuntimeInv, Sessions
    <3> DEFINE r == [Sleeping(proc[p], Received(i)) EXCEPT !.ending = Ending(Received(i))]
    <3>3. r \in Processes /\ r.runtime # "off" /\ OnTime(r, now)
      BY <2>0, <3>2, SleepingOnTime
    <3>4. proc' = [proc EXCEPT ![p] = r]
      BY <3>1
    <3> HIDE DEF r
    <3> QED
      BY <1>1, <2>4, <3>3, <3>4, RuntimeMoves DEF TunnelUp, Goto, RuntimeInv, Located
  <2>5. CASE AbortSession(p)
    <3>1. PICK r \in Processes : proc' = [proc EXCEPT ![p] = r] /\ r.runtime = "off"
      <4>1. PICK r \in Processes : r = [proc[p] EXCEPT !.runtime = "off"]
        BY <2>0, Updates
      <4> QED
        BY <2>0, <2>5, <4>1 DEF AbortSession, RuntimeInv, Processes
    <3> QED
      BY <1>1, <2>5, <3>1, RuntimeMoves DEF AbortSession, Goto, OnTime, RuntimeInv, Located
  <2>6. CASE CtrlC(p)
    BY <1>1, <2>6, RuntimeSignal DEF CtrlC
  <2>7. CASE Warn(p)
    <3>1. PICK r \in Processes : proc' = [proc EXCEPT ![p] = r] /\ r.runtime # "off"
             /\ r.warned = TRUE /\ r.info = proc[p].info
      <4>1. PICK t \in {"extending", "done"} : proc' = [proc EXCEPT ![p].warned = TRUE, ![p].runtime = t]
        BY <2>7 DEF Warn
      <4>2. PICK r \in Processes : r = [proc[p] EXCEPT !.warned = TRUE, !.runtime = t]
        BY <2>0, Updates
      <4> QED
        BY <2>0, <4>1, <4>2 DEF RuntimeInv, Processes
    <3>2. OnTime(r, now)
      BY <2>0, <2>7, <3>1 DEF OnTime, Warn, Due
    <3> QED
      BY <1>1, <2>7, <3>1, <3>2, RuntimeMoves DEF Warn, RuntimeInv
  <2>8. CASE Extended(p)
    <3> DEFINE next == Rescheduled(proc[p].info)
    <3>1. proc[p].info \in Sessions /\ next \in Sessions /\ now \in Nat
      BY <2>0, <2>8, ReceivedSession DEF Extended, OnTime, RuntimeInv
    <3>2. CASE next.lifetime = None
      <4>1. PICK r \in Processes : proc' = [proc EXCEPT ![p] = r] /\ r.runtime = "done"
               /\ r.ending = None /\ r.info = proc[p].info
        <5>1. PICK r \in Processes : r = [proc[p] EXCEPT !.runtime = "done", !.ending = None]
          BY <2>0, Updates
        <5>2. proc' = [proc EXCEPT ![p] = r]
          BY <2>8, <3>2, <5>1 DEF Extended, RuntimeInv
        <5> QED
          BY <2>0, <5>1, <5>2 DEF Processes
      <4> QED
        BY <1>1, <2>8, <3>1, <4>1, RuntimeMoves DEF Extended, OnTime, RuntimeInv
    <3>3. CASE next.lifetime # None
      <4> DEFINE r == [Sleeping(proc[p], next) EXCEPT !.ending = Ending(next)]
      <4>1. r \in Processes /\ r.runtime # "off" /\ OnTime(r, now)
        BY <2>0, <3>1, SleepingOnTime
      <4>2. proc' = [proc EXCEPT ![p] = r]
        BY <2>8, <3>3 DEF Extended, RuntimeInv
      <4> HIDE DEF r, next
      <4> QED
        BY <1>1, <2>8, <4>1, <4>2, RuntimeMoves DEF Extended, RuntimeInv
    <3> QED
      BY <3>2, <3>3
  <2>9. CASE ExtensionFails(p)
    <3>1. PICK r \in Processes : proc' = [proc EXCEPT ![p] = r] /\ r.runtime = "done"
             /\ r.warned = proc[p].warned /\ r.info = proc[p].info
      <4>1. PICK r \in Processes : r = [proc[p] EXCEPT !.runtime = "done"]
        BY <2>0, Updates
      <4> QED
        BY <2>0, <2>9, <4>1 DEF ExtensionFails, RuntimeInv, Processes
    <3>2. OnTime(r, now)
      BY <2>0, <2>9, <3>1 DEF OnTime, ExtensionFails
    <3> QED
      BY <1>1, <2>9, <3>1, <3>2, RuntimeMoves DEF ExtensionFails, RuntimeInv
  <2> QED
    BY <1>2, <2>1, <2>2, <2>3, <2>4, <2>5, <2>6, <2>7, <2>8, <2>9
<1>3. CASE Tick
  <2>1. now' = now + 1 /\ UNCHANGED <<pc, proc>> /\ now' \in Nat
    BY <1>3 DEF Tick, RuntimeInv
  <2>2. ASSUME NEW p \in Clients PROVE OnTime(proc[p], now + 1)
    BY DEF OnTime, RuntimeInv, Processes
  <2> QED
    BY <1>1, <2>1, <2>2 DEF RuntimeInv
<1>7. CASE Suspend
  <2>1. now' = now + 1 /\ now' \in Nat /\ pc' = pc
    BY <1>7, SuspendFrame DEF RuntimeInv
  <2>2. ASSUME NEW p \in Clients
        PROVE  proc'[p] \in Processes /\ proc'[p].runtime = proc[p].runtime /\ OnTime(proc'[p], now + 1)
    <3>1. proc[p] \in Processes /\ OnTime(proc[p], now)
      BY DEF RuntimeInv
    <3>2. CASE proc'[p] = Postponed(proc[p])
      <4>1. proc[p].wake \in Nat /\ proc[p].late \in Nat /\ now \in Nat
        BY <3>1 DEF Processes, RuntimeInv
      <4>2. proc[p].info # None => proc[p].info \in Sessions
        BY <3>1 DEF Processes
      <4>3. OnTime(Postponed(proc[p]), now + 1)
        BY <3>1, <4>1, PostponedFields DEF OnTime, Sessions, Processes
      <4> QED
        BY <3>1, <3>2, <4>3, PostponedFields
    <3>3. CASE proc'[p] = proc[p]
      <4>1. OnTime(proc[p], now + 1)
        BY <3>1 DEF OnTime, RuntimeInv, Processes
      <4> QED
        BY <3>1, <3>3, <4>1
    <3> QED
      BY <1>7, <3>2, <3>3, SuspendFrame
  <2>3. proc' \in [Clients -> Processes]
    BY <1>7, <2>2 DEF Suspend
  <2> QED
    BY <1>1, <2>1, <2>2, <2>3 DEF RuntimeInv
<1>4. CASE DisconnectReads
  BY <1>1, <1>4 DEF DisconnectReads, RuntimeInv
<1>5. CASE DisconnectSignals
  <2>1. CASE Alive(command)
    <3>1. command \in Clients
      BY <1>5 DEF DisconnectSignals, RuntimeInv, Located
    <3> QED
      BY <1>1, <1>5, <2>1, <3>1, RuntimeSignal DEF DisconnectSignals
  <2>2. CASE ~Alive(command)
    BY <1>1, <1>5, <2>2 DEF DisconnectSignals, RuntimeInv
  <2> QED
    BY <2>1, <2>2
<1>6. CASE UNCHANGED vars
  BY <1>1, <1>6 DEF vars, RuntimeInv
<1> QED
  BY <1>2, <1>3, <1>4, <1>5, <1>6, <1>7 DEF Next

(* Whatever the gateway sends with a tunnel, the user hears of its end the *)
(* lead time before it comes or as soon as there is time for it, also      *)
(* after extensions, and late by no more than the machine slept meanwhile. *)
THEOREM WarnedInTimeAlways == Spec => []WarnedInTime
<1>1. Init => RuntimeInv
  BY DEF Init, RuntimeInv, Located, Places, Fresh, Processes, OnTime
<1>2. RuntimeInv => WarnedInTime
  <2> SUFFICES ASSUME RuntimeInv, NEW p \in Clients, pc[p] = "up",
                      proc[p].info.prior # None, proc[p].ending # None,
                      now + proc[p].info.prior > proc[p].ending + proc[p].late, ~proc[p].warned
               PROVE  Due(p)
    BY DEF WarnedInTime
  <2>1. proc[p].info \in Sessions /\ proc[p].runtime = "sleeping"
        /\ (proc[p].wake <= now \/ proc[p].wake + proc[p].info.prior <= proc[p].ending + proc[p].late)
    BY DEF RuntimeInv, OnTime
  <2>2. proc[p].info.prior \in Nat /\ proc[p].ending \in Nat /\ proc[p].wake \in Nat
        /\ proc[p].late \in Nat /\ now \in Nat
    BY <2>1 DEF RuntimeInv, Processes, Sessions
  <2> QED
    BY <2>1, <2>2 DEF Due
<1> QED
  BY <1>1, <1>2, RuntimeStep, PTL DEF Spec

-----------------------------------------------------------------------------
(* Interrupts.                                                             *)

(* A runtime's data has its types in every state.                          *)
LEMMA RuntimeInvariant == Spec => []RuntimeInv
<1>1. Init => RuntimeInv
  BY DEF Init, RuntimeInv, Located, Places, Fresh, Processes, OnTime
<1> QED
  BY <1>1, RuntimeStep, PTL DEF Spec

(* Where a client has no tunnel yet, and where a PID has no listener.      *)
Before == {"login", "dialling"}
Idle == {"free", "refused", "foreign", "gpclient"}

(* A process at place with data r: its listener is unused until the tunnel *)
(* is up, and by then there is a pipe for the byte that it sends.          *)
Interruptible(place, r) ==
  /\ place \in Idle => r.listener = "none"
  /\ place \in Before => r.listener # "fired"
  /\ place = "up" => r.pipe /\ (r.listener = "fired" => r.cancel)

\* Nobody can signal the process that has PID p.
Unnamed(p) == pidFile # p /\ (command = p => command = "idle")

(* InterruptKept is not inductive: it takes that nobody finds the PID of a *)
(* client without a tunnel in the file, or still holds it.                 *)
InterruptInv ==
  \A p \in Clients : Interruptible(pc[p], proc[p]) /\ (pc[p] \in Before => Unnamed(p))

(* One process moves on, or stays; nobody learns of it before its tunnel   *)
(* is up.                                                                  *)
LEMMA InterruptMoves ==
  ASSUME RuntimeInv, InterruptInv, NEW p \in Clients, NEW place, NEW r,
         pc' = [pc EXCEPT ![p] = place], proc' = [proc EXCEPT ![p] = r],
         Interruptible(place, r), place \in Before => pc[p] \in Before \/ Unnamed(p),
         pidFile' \in {pidFile, None} \/ (pidFile' = p /\ place \notin Before),
         command' \in {command, "idle"}
  PROVE  InterruptInv'
<1>1. \A q \in Clients : pc'[q] = (IF q = p THEN place ELSE pc[q])
                          /\ proc'[q] = (IF q = p THEN r ELSE proc[q])
  BY DEF RuntimeInv, Located
<1> QED
  BY <1>1 DEF InterruptInv, Unnamed

LEMMA InterruptGone ==
  ASSUME RuntimeInv, InterruptInv, NEW p \in Clients, Gone(p), pidFile' \in {pidFile, None}, command' \in {command, "idle"}
  PROVE  InterruptInv'
BY InterruptMoves DEF Gone, Goto, Fresh, Interruptible, Before, Idle

(* The signal comes when the tunnel is up, or after it.                    *)
LEMMA InterruptSignal ==
  ASSUME RuntimeInv, InterruptInv, NEW p \in Clients, pc[p] \notin Before, Signal(p),
         pidFile' = pidFile, command' \in {command, "idle"}
  PROVE  InterruptInv'
<1>1. CASE proc[p].listener \in {"none", "spawned"}
  BY <1>1, InterruptGone DEF Signal
<1>2. CASE proc[p].listener \notin {"none", "spawned"}
  <2> DEFINE r == IF proc[p].listener = "armed" THEN Fired(proc[p]) ELSE proc[p]
  <2>1. pc' = [pc EXCEPT ![p] = pc[p]] /\ proc' = [proc EXCEPT ![p] = r]
    BY <1>2 DEF Signal, RuntimeInv, Located
  <2>2. proc[p] \in Processes /\ Interruptible(pc[p], proc[p])
    BY DEF RuntimeInv, InterruptInv
  <2>3. r.pipe = proc[p].pipe /\ (r.listener = "fired" => r.cancel = r.pipe \/ r = proc[p])
    BY <2>2 DEF Fired, Processes
  <2>4. Interruptible(pc[p], r)
    <3>1. pc[p] \notin Idle
      BY <1>2, <2>2 DEF Interruptible
    <3> QED
      BY <2>2, <2>3, <3>1 DEF Interruptible
  <2> HIDE DEF r
  <2> QED
    BY <2>1, <2>4, InterruptMoves
<1> QED
  BY <1>1, <1>2

(* What the session runtime changes of a process is not its listener.      *)
Same(r, s) == r.listener = s.listener /\ (r.pipe <=> s.pipe) /\ (r.cancel <=> s.cancel)

LEMMA SleepingSame ==
  ASSUME NEW r \in Processes, NEW i, NEW e
  PROVE  Same([Sleeping(r, i) EXCEPT !.ending = e], r)
<1>1. PICK t, w : Sleeping(r, i) = [r EXCEPT !.info = i, !.warned = FALSE, !.late = 0,
                                               !.runtime = t, !.wake = w]
  BY DEF Sleeping
<1>2. [Sleeping(r, i) EXCEPT !.ending = e]
        = [r EXCEPT !.info = i, !.warned = FALSE, !.late = 0, !.runtime = t, !.wake = w, !.ending = e]
  BY <1>1 DEF Processes
<1> QED
  BY <1>2 DEF Same, Processes

LEMMA RuntimeSame ==
  ASSUME RuntimeInv, NEW p \in Clients,
         Warn(p) \/ Extended(p) \/ ExtensionFails(p) \/ AbortSession(p)
  PROVE  \E r : proc' = [proc EXCEPT ![p] = r] /\ Same(r, proc[p])
<1>0. proc[p] \in Processes
  BY DEF RuntimeInv
<1>1. CASE Warn(p)
  <2>1. PICK t : proc' = [proc EXCEPT ![p] = [proc[p] EXCEPT !.warned = TRUE, !.runtime = t]]
    BY <1>1 DEF Warn, RuntimeInv
  <2>2. Same([proc[p] EXCEPT !.warned = TRUE, !.runtime = t], proc[p])
    BY <1>0 DEF Same, Processes
  <2> QED
    BY <2>1, <2>2
<1>2. CASE ExtensionFails(p) \/ AbortSession(p)
  <2>1. PICK t : proc' = [proc EXCEPT ![p] = [proc[p] EXCEPT !.runtime = t]]
    BY <1>2 DEF ExtensionFails, AbortSession, RuntimeInv
  <2>2. Same([proc[p] EXCEPT !.runtime = t], proc[p])
    BY <1>0 DEF Same, Processes
  <2> QED
    BY <2>1, <2>2
<1>3. CASE Extended(p)
  <2> DEFINE next == Rescheduled(proc[p].info)
  <2>1. CASE next.lifetime = None
    <3>1. proc' = [proc EXCEPT ![p] = [proc[p] EXCEPT !.runtime = "done", !.ending = None]]
      BY <1>3, <2>1 DEF Extended, RuntimeInv
    <3>2. Same([proc[p] EXCEPT !.runtime = "done", !.ending = None], proc[p])
      BY <1>0 DEF Same, Processes
    <3> QED
      BY <3>1, <3>2
  <2>2. CASE next.lifetime # None
    <3>1. proc' = [proc EXCEPT ![p] = [Sleeping(proc[p], next) EXCEPT !.ending = Ending(next)]]
      BY <1>3, <2>2 DEF Extended, RuntimeInv
    <3> HIDE DEF next
    <3> QED
      BY <1>0, <3>1, SleepingSame
  <2> QED
    BY <2>1, <2>2
<1> QED
  BY <1>1, <1>2, <1>3

LEMMA InterruptStep ==
  ASSUME ~EarlySignals
  PROVE  RuntimeInv /\ InterruptInv /\ [Next]_vars => InterruptInv'
<1> SUFFICES ASSUME RuntimeInv, InterruptInv, [Next]_vars PROVE InterruptInv'
  OBVIOUS
<1>1. ASSUME NEW p \in Clients,
             \/ Start(p) \/ Refused(p) \/ LoginFails(p) \/ Dial(p) \/ ArmListener(p)
             \/ OpenPipe(p) \/ TunnelUp(p) \/ TunnelFails(p) \/ AbortSession(p)
             \/ RemovePidFile(p) \/ Crash(p) \/ ReusePid(p) \/ CtrlC(p)
             \/ Warn(p) \/ Extended(p) \/ ExtensionFails(p)
     PROVE  InterruptInv'
  <2>0. proc[p] \in Processes /\ Interruptible(pc[p], proc[p])
    BY DEF RuntimeInv, InterruptInv
  <2>1. CASE Refused(p) \/ LoginFails(p) \/ RemovePidFile(p) \/ Crash(p)
    BY <2>1, InterruptGone DEF Refused, LoginFails, RemovePidFile, Crash
  <2>2. CASE CtrlC(p)
    BY <2>2, InterruptSignal DEF CtrlC, Before
  <2>3. ASSUME NEW place, NEW r, pc' = [pc EXCEPT ![p] = place], proc' = [proc EXCEPT ![p] = r],
               Same(r, proc[p]), UNCHANGED <<pidFile, command>>,
               \/ place \in Before /\ (pc[p] \in Before \/ (pc[p] \in Idle /\ Unnamed(p)))
               \/ place \in Idle /\ pc[p] \in Idle
               \/ place = "up" /\ pc[p] = "up"
               \/ place \notin Before \cup Idle \cup {"up"}
        PROVE  InterruptInv'
    <3>1. Interruptible(place, r)
      BY <2>0, <2>3 DEF Same, Interruptible, Before, Idle
    <3> QED
      BY <2>3, <3>1, InterruptMoves DEF Before, Idle
  <2>4. CASE Start(p) \/ TunnelFails(p) \/ ReusePid(p)
    <3>1. proc' = [proc EXCEPT ![p] = proc[p]] /\ Same(proc[p], proc[p])
      BY <2>4 DEF Start, TunnelFails, ReusePid, RuntimeInv, Same
    <3>2. CASE Start(p) /\ ~IsRunning(p)
      <4>1. Unnamed(p)
        BY <3>2 DEF Start, IsRunning, Unnamed
      <4> QED
        BY <2>3, <3>1, <3>2, <4>1 DEF Start, Goto, Before, Idle
    <3>3. CASE (Start(p) /\ IsRunning(p)) \/ TunnelFails(p) \/ ReusePid(p)
      BY <2>3, <3>1, <3>3 DEF Start, TunnelFails, ReusePid, Goto, Before, Idle
    <3> QED
      BY <2>4, <3>2, <3>3
  <2>5. CASE Warn(p) \/ Extended(p) \/ ExtensionFails(p)
    <3>1. PICK r : proc' = [proc EXCEPT ![p] = r] /\ Same(r, proc[p])
      BY <2>5, RuntimeSame
    <3>2. pc' = [pc EXCEPT ![p] = pc[p]] /\ UNCHANGED <<pidFile, command>>
      BY <2>5 DEF Warn, Extended, ExtensionFails, RuntimeInv, Located
    <3> QED
      BY <2>3, <3>1, <3>2
  <2>6. CASE AbortSession(p)
    <3>1. PICK r : proc' = [proc EXCEPT ![p] = r] /\ Same(r, proc[p])
      BY <2>6, RuntimeSame
    <3> QED
      BY <2>3, <2>6, <3>1 DEF AbortSession, Goto, Before, Idle
  <2>7. CASE Dial(p)
    <3> DEFINE r == [proc[p] EXCEPT !.listener = "spawned"]
    <3>1. proc' = [proc EXCEPT ![p] = r] /\ r.listener = "spawned"
      BY <2>0, <2>7 DEF Dial, Processes, RuntimeInv
    <3> HIDE DEF r
    <3> QED
      BY <2>7, <3>1, InterruptMoves DEF Dial, Goto, Before, Idle, Interruptible
  <2>8. CASE ArmListener(p)
    <3> DEFINE r == [proc[p] EXCEPT !.listener = "armed"]
    <3>1. proc' = [proc EXCEPT ![p] = r] /\ r.listener = "armed" /\ (r.pipe <=> proc[p].pipe)
      BY <2>0, <2>8 DEF ArmListener, Processes, RuntimeInv
    <3>2. Interruptible(pc[p], r)
      BY <2>0, <2>8, <3>1 DEF Interruptible, ArmListener
    <3>3. pc' = [pc EXCEPT ![p] = pc[p]] /\ UNCHANGED <<pidFile, command>>
      BY <2>8 DEF ArmListener, RuntimeInv, Located
    <3> HIDE DEF r
    <3> QED
      BY <3>1, <3>2, <3>3, InterruptMoves
  <2>9. CASE OpenPipe(p)
    <3> DEFINE r == [proc[p] EXCEPT !.pipe = TRUE]
    <3>1. proc' = [proc EXCEPT ![p] = r] /\ r.listener = proc[p].listener
      BY <2>0, <2>9 DEF OpenPipe, Processes, RuntimeInv
    <3>2. pc' = [pc EXCEPT ![p] = "dialling"] /\ pc[p] = "dialling" /\ UNCHANGED <<pidFile, command>>
      BY <2>9 DEF OpenPipe, RuntimeInv, Located
    <3>3. Interruptible("dialling", r)
      BY <2>0, <3>1, <3>2 DEF Interruptible, Before, Idle
    <3> HIDE DEF r
    <3> QED
      BY <3>1, <3>2, <3>3, InterruptMoves DEF Before
  <2>10. CASE TunnelUp(p)
    <3>1. PICK r : proc' = [proc EXCEPT ![p] = r] /\ Same(r, proc[p])
      <4>1. PICK i : proc' = [proc EXCEPT ![p] = [Sleeping(proc[p], i) EXCEPT !.ending = Ending(i)]]
        BY <2>10 DEF TunnelUp
      <4> QED
        BY <2>0, <4>1, SleepingSame
    <3>2. Interruptible("up", r)
      BY <2>0, <2>10, <3>1 DEF TunnelUp, Same, Interruptible, Before, Idle
    <3> QED
      BY <2>10, <3>1, <3>2, InterruptMoves DEF TunnelUp, Goto, Before
  <2> QED
    BY <1>1, <2>1, <2>2, <2>4, <2>5, <2>6, <2>7, <2>8, <2>9, <2>10
<1>2. CASE DisconnectReads
  BY <1>2 DEF DisconnectReads, InterruptInv, Unnamed
<1>3. CASE DisconnectSignals
  <2>1. CASE Alive(command)
    <3>1. command \in Clients /\ pc[command] \notin Before
      BY <1>3, <2>1 DEF DisconnectSignals, RuntimeInv, Located, InterruptInv, Unnamed
    <3> QED
      BY <1>3, <2>1, <3>1, InterruptSignal DEF DisconnectSignals
  <2>2. CASE ~Alive(command)
    BY <1>3, <2>2 DEF DisconnectSignals, InterruptInv, Unnamed
  <2> QED
    BY <2>1, <2>2
<1>4. CASE Tick \/ UNCHANGED vars
  BY <1>4 DEF Tick, vars, InterruptInv, Unnamed
<1>5. CASE Suspend
  <2>1. UNCHANGED <<pc, pidFile, command>>
    BY <1>5, SuspendFrame
  <2>2. ASSUME NEW p \in Clients PROVE Same(proc'[p], proc[p])
    <3>1. proc[p] \in Processes
      BY DEF RuntimeInv
    <3> QED
      BY <1>5, <3>1, SuspendFrame, PostponedFields DEF Same
  <2> QED
    BY <2>1, <2>2 DEF InterruptInv, Interruptible, Same, Unnamed
<1> QED
  BY <1>1, <1>2, <1>3, <1>4, <1>5 DEF Next

(* An interrupt of a tunnel is not lost, whoever sends it and however the  *)
(* PID file and its readers have got out of step, as long as nobody        *)
(* interrupts a client that is still logging in or dialling.               *)
THEOREM InterruptKeptAlways ==
  ASSUME ~EarlySignals
  PROVE  Spec => []InterruptKept
<1>1. Init => InterruptInv
  BY DEF Init, InterruptInv, Interruptible, Before, Idle, Fresh
<1>2. InterruptInv => InterruptKept
  BY DEF InterruptInv, Interruptible, InterruptKept
<1> QED
  BY <1>1, <1>2, InterruptStep, RuntimeInvariant, PTL DEF Spec

-----------------------------------------------------------------------------
(* Types: what the two invariants above leave open is the bound of the     *)
(* clock, and that a byte needs a pipe to be in.                           *)
Piped == \A p \in Clients : proc[p].cancel => proc[p].pipe

LEMMA PipedMoves ==
  ASSUME RuntimeInv, Piped, NEW p \in Clients, NEW r,
         proc' = [proc EXCEPT ![p] = r], r.cancel => r.pipe
  PROVE  Piped'
BY DEF RuntimeInv, Piped

LEMMA PipedSame ==
  ASSUME RuntimeInv, Piped, NEW p \in Clients, NEW r,
         proc' = [proc EXCEPT ![p] = r], Same(r, proc[p])
  PROVE  Piped'
BY PipedMoves DEF Piped, Same

LEMMA PipedSignal ==
  ASSUME RuntimeInv, Piped, NEW p \in Clients, Signal(p)
  PROVE  Piped'
<1>1. CASE proc[p].listener \in {"none", "spawned"}
  BY <1>1, PipedMoves DEF Signal, Gone, Fresh
<1>2. CASE proc[p].listener \notin {"none", "spawned"}
  <2> DEFINE r == IF proc[p].listener = "armed" THEN Fired(proc[p]) ELSE proc[p]
  <2>1. proc' = [proc EXCEPT ![p] = r]
    BY <1>2 DEF Signal, RuntimeInv
  <2>2. proc[p] \in Processes
    BY DEF RuntimeInv
  <2>3. r.cancel => r.pipe
    BY <2>2 DEF Fired, Processes, Piped
  <2> HIDE DEF r
  <2> QED
    BY <2>1, <2>3, PipedMoves
<1> QED
  BY <1>1, <1>2

LEMMA PipedStep == RuntimeInv /\ Piped /\ [Next]_vars => Piped'
<1> SUFFICES ASSUME RuntimeInv, Piped, [Next]_vars PROVE Piped'
  OBVIOUS
<1>1. ASSUME NEW p \in Clients, Refused(p) \/ LoginFails(p) \/ RemovePidFile(p) \/ Crash(p)
      PROVE  Piped'
  BY <1>1, PipedMoves DEF Refused, LoginFails, RemovePidFile, Crash, Gone, Fresh
<1>2. ASSUME NEW p \in Clients, CtrlC(p) PROVE Piped'
  BY <1>2, PipedSignal DEF CtrlC
<1>3. CASE DisconnectSignals
  <2>1. CASE Alive(command)
    BY <1>3, <2>1, PipedSignal DEF DisconnectSignals, RuntimeInv, Located
  <2>2. CASE ~Alive(command)
    BY <1>3, <2>2 DEF DisconnectSignals, Piped
  <2> QED
    BY <2>1, <2>2
<1>4. ASSUME NEW p \in Clients, Warn(p) \/ Extended(p) \/ ExtensionFails(p) \/ AbortSession(p)
      PROVE  Piped'
  BY <1>4, RuntimeSame, PipedSame
<1>5. ASSUME NEW p \in Clients, Dial(p) \/ ArmListener(p) PROVE Piped'
  <2>1. PICK l : proc' = [proc EXCEPT ![p] = [proc[p] EXCEPT !.listener = l]]
    BY <1>5 DEF Dial, ArmListener, RuntimeInv
  <2>2. [proc[p] EXCEPT !.listener = l].cancel <=> proc[p].cancel
    BY DEF RuntimeInv, Processes
  <2>3. [proc[p] EXCEPT !.listener = l].pipe <=> proc[p].pipe
    BY DEF RuntimeInv, Processes
  <2> QED
    BY <2>1, <2>2, <2>3, PipedMoves DEF Piped
<1>6. ASSUME NEW p \in Clients, OpenPipe(p) PROVE Piped'
  <2>1. proc' = [proc EXCEPT ![p] = [proc[p] EXCEPT !.pipe = TRUE]]
    BY <1>6 DEF OpenPipe, RuntimeInv
  <2>2. [proc[p] EXCEPT !.pipe = TRUE].pipe
    BY DEF RuntimeInv, Processes
  <2> QED
    BY <2>1, <2>2, PipedMoves
<1>7. ASSUME NEW p \in Clients, TunnelUp(p) PROVE Piped'
  <2>1. PICK i : proc' = [proc EXCEPT ![p] = [Sleeping(proc[p], i) EXCEPT !.ending = Ending(i)]]
    BY <1>7 DEF TunnelUp
  <2>2. proc[p] \in Processes
    BY DEF RuntimeInv
  <2> QED
    BY <2>1, <2>2, SleepingSame, PipedSame
<1>8. ASSUME NEW p \in Clients, Start(p) \/ TunnelFails(p) \/ ReusePid(p) PROVE Piped'
  BY <1>8 DEF Start, TunnelFails, ReusePid, Piped
<1>9. CASE Tick \/ DisconnectReads \/ UNCHANGED vars
  BY <1>9 DEF Tick, DisconnectReads, vars, Piped
<1>10. CASE Suspend
  <2>1. UNCHANGED <<pc, pidFile, command>>
    BY <1>10, SuspendFrame
  <2>2. ASSUME NEW p \in Clients PROVE Same(proc'[p], proc[p])
    <3>1. proc[p] \in Processes
      BY DEF RuntimeInv
    <3> QED
      BY <1>10, <3>1, SuspendFrame, PostponedFields DEF Same
  <2> QED
    BY <2>2 DEF Piped, Same
<1> QED
  BY <1>1, <1>2, <1>3, <1>4, <1>5, <1>6, <1>7, <1>8, <1>9, <1>10 DEF Next

Clocked == now \in 0..MaxTime

LEMMA ClockStep == Clocked /\ [Next]_vars => Clocked'
<1> SUFFICES ASSUME Clocked, [Next]_vars PROVE Clocked'
  OBVIOUS
<1> USE DEF Clocked
<1>1. CASE Tick \/ Suspend
  BY <1>1, SuspendFrame DEF Tick
<1>2. CASE ~Tick /\ ~Suspend
  <2>1. now' = now
    BY <1>2 DEF Next, Start, Refused, LoginFails, Dial, ArmListener, OpenPipe, TunnelUp,
                TunnelFails, AbortSession, RemovePidFile, Crash, ReusePid, CtrlC, Warn,
                Extended, ExtensionFails, DisconnectReads, DisconnectSignals, vars
  <2> QED
    BY <2>1
<1> QED
  BY <1>1, <1>2

(* The types hold for any clients and session data, crashes and signals at *)
(* any time; nothing is written into a command pipe that is not there.     *)
THEOREM TypeCorrect == Spec => []TypeOK
<1>1. Init => Piped /\ Clocked
  BY DEF Init, Piped, Fresh, Clocked
<1>2. RuntimeInv /\ Piped /\ Clocked => TypeOK
  BY DEF Clocked, RuntimeInv, Located, Places, Processes, Piped, TypeOK
<1> QED
  BY <1>1, <1>2, PipedStep, ClockStep, RuntimeInvariant, PTL DEF Spec

=============================================================================
