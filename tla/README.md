# Verification of GlobalProtect-openconnect

TLA+ models of the VPN service with its log-in pipeline and front-end, of the
command-line client, of SAML sign-in and of the client certificates of this
repository, the TLC configurations that check them on small instances, and
proofs, checked by TLAPS, of theorems about them. `PROJECT.json` lists the
runs, the source lines behind each definition and the hazards.

To check a run: `tlc -config VpnTask_race.cfg MCVpnTask.tla`; to check the
proofs of a module: `tlapm VpnTask_proofs.tla`.

## 1. The system and its parts

`gpservice` is a D-Bus system service that owns the tunnel. A GUI talks to it
over the bus; `gpclient` is a command-line program that logs in and runs
openconnect in its own process; `gpauth` does the SAML sign-in. `gpapi` has
the protocol clients and helpers, `openconnect` the C binding.

| Component | State it keeps | Operations | Correct when |
|---|---|---|---|
| Tunnel supervisor `vpn_task.rs` | published `VpnState`, stored `Vpn` behind a fair `RwLock`, end-of-thread receiver, `ConnectedInfo`, last request, `user_disconnect` | `connect`, `disconnect`, `reconnect`, the connection thread and its callbacks | one tunnel; a disconnect ends it and returns; the state shown is the tunnel's; DNS never survives the tunnel |
| openconnect binding `vpn.rs`, `ffi/vpn.c` | one command pipe in C globals, a raw pointer to the `Vpn` in use | session, connected and reconnected callbacks, cancel, pause | the `Vpn` outlives its session; commands reach the session meant |
| Log-in pipeline `auth_flow.rs` | two slots with the sender of a prompt | `ConnectAuth`, `submit_mfa`, `select_gateway`, cancellation by `Disconnect` | every wait can end; a log-in goes to a gateway of its portal; one that authenticates connects |
| D-Bus front-end `dbus_service.rs`, life cycle `cli.rs` | controller, request queue, shutdown channel, process | methods, controller watchdog, receive loop, shutdown, activation | the tunnel of a dead GUI is dropped; an accepted request is handled |
| Gateway pinning `gateway_pin.rs` | host route of the gateway | capture, re-assert | the gateway stays reachable outside its tunnel |
| CLI connect `connect.rs`, `cookie_store.rs` | cached cookie, last passphrase, line of standard input | log-in with fall-backs, prompts, tunnel | a command ends if nobody leaves it waiting; a secret is read once and sent only where it belongs; a cookie that failed is gone |
| CLI session runtime `session.rs` | session data, warning schedule | warn, extend, abort | the warning comes in time, also after extensions |
| CLI single instance `gpclient/cli.rs`, `disconnect.rs`, `shutdown_signal.rs` | PID file, signal listener | instance check, signals, removal | the file names the client with the tunnel; disconnect ends the tunnel |
| Browser sign-in `auth/browser`, `gpauth/cli.rs`, `launch_gui.rs` | one-shot server, port file | serve, callback, wait | the request is served once; the waiting gpauth is answered, with its own data |
| Webview sign-in `auth/webview` | event channel, two timers, cancel token, window | load, read, raise, retry | a sign-in that hangs is shown; navigating can call every raise off that sleeps |
| Portal and gateway clients `gpapi/portal`, `gpapi/gateway`, `credential.rs`, `gp_params.rs` | the `GpParams` of an exchange | exchanges, challenges, gateway order | the answer is to the latest challenge; the region's best gateway is first |
| PKCS#11 and client certificates `pkcs11.rs` | process-wide context, sessions and login of the token | initialise, rescan, log in, sign | never finalised under a tunnel; a client can sign until it is dropped |
| HIP report, utilities, packaging | none that matters here | formatting, environment, files | |

**Interaction.** A D-Bus method authorises its caller, may record it as the
controller and sends a request to a bounded channel. The supervisor's receive
loop starts one task per request, so requests that were queued in order are
handled in any. A `ConnectAuth` task runs the log-in pipeline, which publishes
prompts on the same watch channel as the supervisor publishes the tunnel's
states, and ends in `connect`. `connect` starts a connection thread, which is
inside openconnect for as long as the tunnel is up and rebuilds it when it is
lost. `disconnect` reaches the thread through openconnect's command pipe and
waits for it, but not for longer than `DISCONNECT_TIMEOUT`. The sleep monitor
calls `reconnect` on resume.

`gpclient connect` uses the same protocol clients in one process: it tries the
cached cookie, then the portal, and takes a portal error as a sign that the
server is a gateway. It starts `gpauth` for SAML, which talks to a browser
through a port file and a second process; the `auth` crate offers GUIs an
embedded webview as well. With the tunnel
up it writes the PID file that the next client and `gpclient disconnect` read.
Every HTTP client with a certificate on a token opens a session on one
process-wide PKCS#11 context, which openconnect's GnuTLS shares.

**What is hard.** All of the service's actors run at the same time and share seven
cells of state without a common lock; the published state is both what the GUI
sees and the guard of `connect`; a session holds a read lock for hours; a
teardown may hang; a GUI dies at any moment. Tests cover the pure functions
only. In the client the difficulties are sequences (fall-backs, prompts and
challenges that start each other over, with secrets that must survive or must
not) and state shared by processes: the cookie file, the PID file, the port
file, the token. `PROJECT.json` lists the hazards with their lines.

## 2. Modules

    VpnSlot             the promise of the vpn_handle lock, without a lock
    VpnGuard            what connect() takes the published state for: the lock of the tunnel
    VpnTask             supervisor, log-ins as it sees them, connection threads, openconnect; implements both
    VpnTask_proofs      type invariant of VpnTask
    VpnSafety_proofs    safety invariants of VpnTask, both refinements
    Prompt              what a prompter promises, without slots and channels
    AuthFlow            log-in pipeline and its prompts; implements Prompt twice
    AuthFlow_proofs     types and safety of AuthFlow, both refinements
    DbusService         methods, controller, watchdog, queue, process life cycle
    DbusService_proofs  types of DbusService, the controller's watch
    ClientConnect       log-in of gpclient commands, portal and gateway exchanges, cookie file
    ClientConnect_proofs  secrets, cookies, sign-ins, challenges, the gateway order and the way to the end
    ClientTunnel        tunnels of several gpclient processes: PID file, signals, session runtime
    ClientTunnel_proofs   what the PID file guarantees, the session runtime's warning, interrupts
    BrowserSignIn       gpauth with a browser: one-shot server, port file, callback
    WebviewSignIn       the embedded webview of the auth crate: event loop, timers, window
    SignIn              either of the two, as the caller of `authenticate` sees it
    SignIn_proofs       types and safety of both
    Pkcs11              the context, sessions and login of a token, shared with the tunnel
    Pkcs11_proofs       types and safety of Pkcs11
    MC*                 the above for TLC: symmetries and sets of inputs

VpnTask implements VpnSlot and, for some clients, VpnGuard by refinement
mappings, AuthFlow implements Prompt with each of its prompters, and SignIn
composes the two sign-ins with INSTANCE. ClientConnect ends where ClientTunnel begins: at
`connect_gateway`, which is `TunnelEnds`/`ConnectFails` in the one and `Dial` to
`RemovePidFile` in the other.

Operators whose comment begins with "Mutant", and in the newer modules those
named `Definition_Suffix` just before a `Definition`, are plausible bugs:
definitions a property must be able to tell from the real one. No
specification uses them.

### VpnTask

Each task (`Handlers`, `Main`, `Monitor`) and each connection thread
(`Threads`) has a program counter, `pc` and `tpc`. One action is one access to
shared state, named for what it does:

- `connect()`: `Connect` (the guard on the published state, `Admits`), `Arm` (clear the
  flag, remember the request), `BuildVpn`/`BuildFails` (after the DNS look-up),
  `ReplaceHandle` (the write lock), `PublishConnecting`, `Spawn`.
- a log-in: `ConnectAuth` occupies its handler; `ShowPrompt` publishes
  `MfaChallenge` or `GatewaySelect`, as often as there are prompts; then
  `Authenticated` runs the guard of `connect()` and goes on with it or drops the
  request, or `LoginFails` publishes `Disconnected`, whoever has a tunnel.
- `disconnect()`: `RequestDisconnect` (set the flag), `TakeReceiver` or
  `SkipDisconnect`, `CancelTunnel` (the read lock, `Disconnecting`, the command
  byte), `RevertDns`, then `TornDown` or `ForceDisconnected`.
- `reconnect()`: `Resume`, `AnnounceReconnecting`, `Repinned`, `PauseTunnel`.
- the connection thread: `LoopTop`, `EnterSession`, `SessionOver`,
  `StartRetry`, `NetworkWaited`, `Rebuild`, `StoreRebuilt`, and the epilogue
  `RevertAtEnd`, `PublishEnd`, `RequestDrop`, `DropHandle`, `SignalEnd`.
- a session: `OpenPipe`, `TunnelUp`, `DialFailed`, `Announce` (the connected
  closure), `Reestablished` (the reconnected callback), `Paused`, `Cancelled`,
  `TunnelLost`.

`handleQueue` is tokio's fair lock: waiters are served in order, a write once no
session holds its read. `cmdPipe` is the C global `g_cmd_pipe_fd`, which is
stale between two sessions. `tunDns` is the one effect of the vpnc-script that
the service cleans up. Data are abstracted: a request is its gateway, an
interface is its thread. What a log-in exchanges and whom its prompts wait for
is AuthFlow's. A finished thread may be started again for a new connect, so that
two identities stand for any number of threads of which at most two are alive.

### AuthFlow

A flow is the task of one `ConnectAuth`. Each HTTP exchange is one action with
all its outcomes (error, challenge, success); `Challenged` and `CodeEntered`
are the loop of `gateway_login_mfa` and `retrieve_config_mfa`. `ParkMfa`,
`ShowMfa`, `ParkGateway`, `ShowGateways` are the two steps of each prompt:
parking a sender, which drops the sender parked before, and publishing. A flow
that is through leaves by `HandOver`; what it publishes and how `connect` takes it
are steps of VpnTask. A Disconnect is handled in the code's order, MFA slot and
then gateway slot, one such handler being under way at a time; the tunnel, which
comes third, is VpnTask's too. For Prompt, a flow asks from the step that parks its
sender until it goes on, and it was told what its oneshot channel holds. The prompt that
is open is the one asked last, whichever is on the screen.

### DbusService

A GUI is a unique bus name: it appears with its first call, dies once and never
comes back; a relaunched GUI is another name. A call goes from authorisation
over the controller to the queue (`Authorised`, `Claim` or `Release`, `Send`).
The watchdog reads released names one by one (`HearRelease`), sends a
Disconnect, forgets the controller, waits (`GraceOver`; the two seconds may be
shorter than any other step, as nothing in the code waits for the teardown)
and asks for the end. `Cancel`, `FinalDisconnect`, `Exit` are the end of
`Cli::run`; everything in the process is then lost, and the next call activates
a new one. The supervisor is reduced to `tunnel`: a handler takes effect at
some time after its request was received, and `Disconnected`, the end of a
`disconnect()`, may leave the thread alive (`ending`), as it times out, or finds
the receiver gone. A watchdog whose subscription fails (`failed`) is over.

### ClientConnect

`flow` is the function that runs (`try_cached_cookie`, the portal workflow, the
gateway workflow under its three callers) and `pc` the exchange or prompt it is
at. An exchange is one action per kind of outcome; the errors are those that the
code tells apart: a `PortalError` at the root, an identity that needs a
passphrase, anything else. `HandleImpl` is the order of attempts, `Propagate`,
`PortalFlowError` and `Return` are the `?`s of the call stack. A credential is a
record of its kind and source, of the server it was asked for (for the portal's
cookie, of the portal; for the line of standard input, of the server whose
log-in had it read, whoever gets it now) and of the command; a cookie file that
was to be removed and could not is `stuck`; `LoginForm` says which parameter
carries it and which the answer to a challenge overrides. `Preferred` is
`find_preferred_gateway` with its loops: `ScanGateways` over the list,
`ScanRules` over the rules of one gateway, each carrying the best index and
priority so far; `Sorted` and `Named` put the result first. `BestGatewayFirst`
compares them with a definition by minimum. Several commands share the cookie
file.

### ClientTunnel

A client goes from `Start` (the instance check) over `Dial`, `OpenPipe` and
`TunnelUp` (which writes the PID file and starts the session runtime) to
`AbortSession` and `RemovePidFile`, or crashes. The signal listener is a task of
its own: spawned, armed when first polled, fired once. The session runtime is
`Sleeping`, `Warn`, `Extended`, `ExtensionFails`. `now` is the wall clock, of which
the session data speak; `Tick` moves it on with the timers, which are served any
time after they are due, and `Suspend` without them. `IsRunning` is true for any
process of the program under the PID in the file: a client, another command
that got the PID (`ReusePid`), or the process that asks. `gpclient disconnect`
reads the file and signals later.

### BrowserSignIn, WebviewSignIn, SignIn

A gpauth and its browser tab share an id. `Launch` is everything up to the
browser; `Bind`, `WritePort`, `Receive`, `Finish` are `wait_auth_data` and
`WaitFails` its errors. `Serve` hands the request to any GET that knows the URL.
The callback is `gpclient launch-gui`: `ReadPort`, `Feed`; like any gpclient it is
turned down while a client is connected, and as root (`barred`).

In the webview every signal, callback and timer appends an event to the channel
and `Handle*` takes one. `SetUp` is the awaited prelogin of `setup_auth_window`, and
`HandleInvalid` and `Retried` bracket the one of a retry; events queue up behind
both. A scheduled raise is a task with a token: `TakeToken` calls the stored one
off, a task that wakes cancels its own (`Wake`) before it sends (`SendRaise`), one
that was called off may do either (`CalledOff`), and `MaySchedule` looks at the
stored token only. The task of the setup has no token (`first`). A raise may fail,
which leaves the window `unraised`. `is_retrying` is set and reset around a call
that is awaited in the loop, so it is never seen set and left out.

### Pkcs11

`ctx` and `builder` are the `OnceLock`: `Build`, `LookForToken`, `Drop` and
`Rebuild` are the initialiser with its second scan. What the module does is
external: `C_Initialize` is a no-op when it is up and reads the readers once,
`C_Finalize` ends every session, a login belongs to the process and ends with
its last session. A log-in is refused for a wrong PIN and for
any other error of the token, which the code does not tell apart. `TunnelStarts`
and `TunnelEnds` are GnuTLS on the same module.

## 3. What is checked

Runs that pass:

| Run | Shows | Bounds |
|---|---|---|
| `VpnTask_race` | types; `ConnectedHasThread`; `InfoHasThread`; `SlotSpec` (VpnTask implements VpnSlot) | 2 handlers, 2 threads, 1 request, no retry, teardowns that hang, log-ins at any time |
| `VpnTask_eager` | for a client that sends its next request as soon as the last was handled, if teardowns do not outlast the timeout: `AtMostOneTunnel`; `GuardSpec` (VpnTask implements VpnGuard: the published state is a lock); `ConnectedIsDialed`; `LoginNotLost` | 1 handler, 2 threads, 2 requests, 1 retry, resume, stop; log-ins only while `Disconnected` is shown |
| `VpnTask_patient` | `ConnectedIsDialed`: the gateway shown is the gateway dialled, through losses, rebuilds, forced disconnects and switches; `DisconnectReturns`, though openconnect may hang for ever | 1 handler, 2 threads, 2 requests, 1 retry, stop, hanging teardowns, a client that waits until all is quiet |
| `VpnTask_live` | `DisconnectEndsTunnel`, `ConnectingEnds` | 1 handler, 2 threads, 1 request, 1 retry, resume, stop |
| `AuthFlow_overlap` | `PromptSpec` (AuthFlow implements Prompt, for either prompter); `PromptAnswerable`; `LoginToOffered`; `DisconnectUnblocks` | 2 overlapping log-ins, 3 gateways, challenges |
| `DbusService_quiet` | `TunnelWatched` | 3 GUIs that act while nothing else goes on |
| `DbusService_live` | types and the capacity of the queue; `DisconnectServed`, `DeadControllerDropped` | 2 GUIs, queue of 1, overlapping calls, deaths between calls, SIGTERM |
| `ClientConnect` | `StdinOnce`, `TwoSignIns`, `ChallengeAnswered`, `CredentialBelongs`, `FailedCookieForgotten`, `BestGatewayFirst`; `Onward`, `LoginEnds` | 2 commands, 2 servers, 31 combinations of options, 2 challenges, 2 regions, lists of up to 3 of 4 gateways |
| `ClientTunnel` | `PidFileNamesTunnel`, `WarnedInTime`; `DisconnectEnds` | 3 clients started one by one, crashes, reused PIDs, a suspended machine, 4 kinds of session data, 3 ticks |
| `SignIn` | `ServedOnce`, `RaiseRevocable`; `Answered`, `HangingShown` | 2 gpauths one after the other; 2 pages, 2 scheduled raises at a time, 3 events that wait |
| `Pkcs11` | `NeverTornAway`, `ReadyMeansLoggedIn`, `ScannedTwice` | 3 HTTP clients, a tunnel, a reader that is busy at times |

One run is there for a disagreement of the code with its own comment:
`VpnTask_mfa` finds `LoginStartsTunnel` violated, see section 4.

The type invariants of AuthFlow, ClientConnect, ClientTunnel, SignIn and Pkcs11
are proved (section 5) and so left out of the runs.

**Why the bounds are enough.** The races are between two of a kind: two
handlers, an old thread and a new one, the owner of a slot and its successor,
the GUI that died and the one that came. One retry reaches each state of the
retry loop (`MaxReconnectAttempts` is 10 in the code and only compared with);
no retry is enough where only the number of threads matters. Two requests show
a switch of gateways. A queue of one is full as soon as it is used. In
DbusService, `MaxPending` bounds the GUIs' requests, not the watchdog's.

A second command is the first that reads a cookie file, and a second server the
first that may find another portal's; two challenges tell the latest from the
one before. The options cross every source of a secret with every kind of
certificate and passphrase, and the gateway lists have ties, rules of another
region, priorities of `u32::MAX` and equal names. Of three clients one crashed,
one runs and one starts. The sessions are one with a lifetime shorter than the
lead time of its warning, one that is extended, one that may not be and one
that says nothing; three ticks reach past an extension. Two pages are the window's own
or a form and what follows it; three events are a raise and what the reads of a
page send; two scheduled raises are one that was called off and its successor. Three
HTTP clients are one that builds, one that waits and one that closes.

**What the clients are assumed to do** is a constant of each module, since many
of the promises hold for some clients only: `PatientClient` (next request when
the service is quiet), one or two `Handlers` (one: the next request follows the
handling of the last; two: it does not wait), `LoginsBesideTunnel`, `QuietGuis`,
`DiesInCall`, `OneByOne`, `EarlySignals`, `Overlapping`, `TabsStayOpen`.
`TeardownMayHang`, `WriteMayFail` and `Racing` are what else may go wrong.
`OutsideEvents` and `Sigterm` say which other events happen.

**Fairness.** The tokio runtime and the kernel run every task and thread that
is ready: weak fairness of each actor's own steps. Where an actor competes for
a lock or a channel that tokio hands out in order of arrival (`disconnect_rx`,
the request queue) and the model keeps no queue for it, strong fairness stands
for that order. A dial ends one way or the other (openconnect has timeouts),
and a session obeys pause and, unless `TeardownMayHang`, cancel. Nothing makes
a client call, a user answer, a server answer, a tunnel end, a GUI die or the
machine resume.

The HTTP client that `gp_params.rs` builds (239-264) sets no timeout, so no
exchange is taken to return. In ClientConnect only the steps that wait for nobody
are fair (`Own`: the choice of a workflow, an identity that cannot be built, a
gateway that needs no prompt), and `LoginEnds` says that a command ends unless it
is left waiting at one place for ever, or its user keeps giving wrong
passphrases. In ClientTunnel a process does its own next step (`Step`) and
`gpclient disconnect` sends its signal; nothing else is fair, and openconnect obeys
a cancel. In the browser sign-in gpauth and launch-gui run, the tab fetches its
page unless somebody else has, and a user whose gpauth still waits tries the
callback link again, which is what the page tells him to do; `Answered` excepts
callbacks that connected clients keep turning down and pages that somebody else
has fetched. In the webview the loop and the first timer run; pages need not
load and no prelogin need return, so `HangingShown` excepts a process stuck in
one. Pkcs11 states safety only.

The client's commands, gpauth and the webview end, and so may the clock: their
runs do not check for deadlock, nor do those of DbusService. The process that
has exited, or the service all of whose GUIs have died, does stop.

## 4. Where the code does not do what its comments say

One finding has a run of its own, `VpnTask_mfa`: after an MFA challenge the
published state is still `MfaChallenge`, which the guard of `connect` takes for an
active tunnel, so the authenticated request is dropped and the challenge stays
up (`vpn_task.rs:609`, `82-92`); the comment at `vpn_task.rs:603` says that the log-in
"then starts the tunnel". `LoginNotLost` says what is left without a challenge.

The following were met while modelling. The properties are in the modules; each
is violated with the constants named here, the others being those of the run in
brackets, and no run is kept for them.

| Property | Constants | What happens |
|---|---|---|
| `AtMostOneTunnel` | 2 handlers [`VpnTask_eager`] | two connects handled at once pass the guard: two sessions on one set of C globals (`vpn_task.rs:89`) |
| `NotStuckDisconnecting` | [`VpnTask_live`] | a disconnect between the epilogue's `Disconnected` and its taking of the handle publishes `Disconnecting` last; every later connect is ignored |
| `FlagNotErased` | [`VpnTask_race`] | a connect clears the flag a concurrent disconnect has just set (`vpn_task.rs:96`) |
| `DisconnectReturns` | `PatientClient = FALSE` [`VpnTask_live`] | a disconnect waits for ever for its read of `vpn_handle`, behind a queued writer that waits for a session, before its timeout is armed (`vpn_task.rs:315`) |
| `NotStuckReconnecting` | [`VpnTask_live`] | a resume that read `Connected` publishes `Reconnecting` after the tunnel's end (`vpn_task.rs:256`) |
| `DnsReverted` | [`VpnTask_live`] | a tunnel cancelled in its connected closure and then lost leaves its DNS (`vpn_task.rs:160`) |
| `AtMostOneTunnel`, `GuardSpec` | `LoginsBesideTunnel = TRUE` [`VpnTask_eager`] | a log-in next to a tunnel publishes over its state: one that fails shows `Disconnected`, one with a choice the picker, and both open the guard for a second session (`vpn_task.rs:299`, `auth_flow.rs:77`) |
| `ClaimKept` | 2 GUIs, `QuietGuis = FALSE` [`DbusService_quiet`] | the watchdog erases the claim of a GUI that came while it sent its Disconnect (`dbus_service.rs:303`) |
| `ExitLosesNoConnect` | the same | a service that is ending accepts a Connect that nobody receives (`cli.rs:85`) |
| `TunnelWatched` | 1 GUI, `QuietGuis = FALSE` [`DbusService_quiet`] | a Disconnect overtakes the Connect it should undo: a tunnel with no controller (`dbus_service.rs:119`) |
| `DeadControllerDropped` | `DiesInCall = TRUE` [`DbusService_live`] | a GUI that dies after its authorisation is recorded afterwards and stays the controller (`dbus_service.rs:103`) |
| `PidFileNamesTunnel` | `OneByOne = FALSE` [`ClientTunnel`] | two clients find no PID file, which is only written when a tunnel is up; the one whose dial fails removes the other's (`gpclient/cli.rs:88`, `connect.rs:630`) |
| `PidFileNamesTunnel` | `WriteMayFail = TRUE` [`ClientTunnel`] | a PID file that cannot be written is only logged: the tunnel is up without it, or beside a stale one (`connect.rs:772`) |
| `DisconnectEnds` | `EarlySignals = TRUE` [`ClientTunnel`] | an interrupt before openconnect has its command pipe is lost, and the listener has fired: a later `gpclient disconnect` does nothing (`connect.rs:607`) |
| `NeverTornAway` | `Racing = TRUE` [`Pkcs11`] | a tunnel dialled between our `C_Initialize` and the rescan has the module finalised under it, against the comment at `pkcs11.rs:321` |
| `BrowserSignIn!OwnData` | `Overlapping` or `TabsStayOpen` true | the tab of one gpauth feeds another, or a later one, through the shared port file (`browser_auth.rs:162`) |

Exceptions that properties of the runs make, because the code does:

- `WarnedInTime`: the timer of the session runtime stands still while the machine
  is suspended, so the warning is late by that (`session.rs:82`).
- `FailedCookieForgotten`: a cookie file that cannot be removed is offered again
  (`cookie_store.rs:74`).
- `CredentialBelongs`: the line of standard input, read for one server, is sent to
  another in the nested and fallback workflows (`connect.rs:700`).
- `Answered`: any GET uses up the one serving, and while a client is connected, or
  as root, launch-gui turns the callback down (`gpclient/cli.rs:117`,
  `launch_gui.rs:34`).
- `HangingShown`: a raise that fails is not tried again, and a prelogin that hangs
  leaves the window hidden, although the comment at `webview_auth.rs:178` shows it
  "so that the user can see the window if the auth process is stuck".
- `DeadControllerDropped`: a watchdog whose subscription failed ends with a line
  in the log (`dbus_service.rs:253`).
- `PromptSpec`: an answer goes to whoever asked last; two log-ins that park in one
  order and show in the other get each other's answers (`auth_flow.rs:46`).

Noted while reading, without a property: a PID that was reused by any command of
gpclient, or by the very client that asks, keeps that client out
(`gpclient/cli.rs:101`); a disconnect that comes between two prompts of a log-in
finds both slots empty, and the log-in goes on (`vpn_task.rs:587`); a log-in that
outlives the final disconnect starts a tunnel in a process that exits, and a
teardown that hangs is cut short by the exit (`vpn_task.rs:551`, `334`); any error of a cached log-in clears
the cookie, an identity that needs a passphrase included (`connect.rs:359`); the
guard of the webview's retry is never seen set, so queued invalid answers retry
one after the other (`webview_auth.rs:233`); the preferred gateway is found again
by its name, so that of two with one name the first is shown (`config.rs:77`); an
extension sends the OTP and inputStr of the log-in once more
(`gateway/session.rs:111`); a PID that was given away is signalled
(`disconnect.rs:55`); the service lock that `disconnect.rs:36` reads is written by
nobody; the attempt counter is not reset by a re-established tunnel
(`vpn_task.rs:198`); on a token that is logged in any PIN is accepted, an error of
the context is cached for good, and an empty slot list that GnuTLS brought about
is never rescanned (`pkcs11.rs`).

## 5. What is proved

For every set of handlers, threads, requests, flows and gateways and every
number of attempts, from the assumptions named in the modules only:

- `VpnTask_proofs!TypeCorrect`: `Spec => []TypeOK`. `TypeOK` alone is not
  inductive: `Announce` and `Reestablished` make a `ConnectedInfo` from what a
  closure captured, so the invariant `TypeInv` adds that a stored or running
  closure belongs to a thread that is not over (`ClosureAlive`) and that such a
  thread still has its request (`RequestKnown`). One lemma per action.
- `VpnSafety_proofs!ConnectedHasThreadAlways`: whoever published `Connected`
  last, a thread is left that will still publish its end.
- `VpnSafety_proofs!InfoHasThreadAlways`: a remembered `ConnectedInfo` never
  outlives the threads that revert its DNS.
- `VpnSafety_proofs!ImplementsSlot`: `Spec => SlotSpec`. Each action maps to
  `Use`, `Leave`, `Swap` or a stutter; a swap needs a granted write, and a write
  is granted when no thread is in a session.
- `VpnSafety_proofs!ConnectingHasThreadAlways`: nor is `Connecting` shown without a
  thread that will publish its end, or a `connect()` about to start one.
- `VpnSafety_proofs!NobodyForgottenAlways`: whoever waits for `vpn_handle` is in its
  queue, once, and the queue holds nobody else; `disconnect_rx` is held by a
  disconnect that returns it. It holds for any client, also with teardowns that
  hang.
- `VpnSafety_proofs!ConnectedIsDialedAlways`, assuming `PatientClient`: one thread
  exists, and the request it was started with is the last one, the one in the
  slot, in `ConnectedInfo` and in any Vpn it rebuilds (`PatientInv`, `Follows`).
  Teardowns may hang: a forced disconnect leaves the thread, and the client
  waits for it.
- `VpnSafety_proofs!AtMostOneTunnelAlways`, assuming `Eager`: requests are
  handled one at a time, a teardown ends within `DISCONNECT_TIMEOUT` and log-ins
  come while `Disconnected` is shown (`~LoginsBesideTunnel`); the client need
  not wait. This is the guard of `connect` at work, and the invariant
  (`EagerInv`) says why it suffices. A thread that has not published its end is
  *active*. While one is, a state is shown that the guard refuses, and its
  receiver is stored or held by the disconnect that waits for it (`Guarded`), so
  that no disconnect finds nothing to tear down and publishes `Disconnected`.
  And a disconnect that waits has its cancel in the thread's pipe or its flag
  set where the thread reads it next (`Asked`, `Wired`), so that it does not
  give up either (`NoForceWhileActive`). A thread on its way out may still drop
  the next one's Vpn before its session: `Wired` knows of a full slot in a
  session only. Shutting down, `Main` publishes what it likes, and `Guarded` is
  claimed only before.
- `VpnSafety_proofs!LoginNotLostAlways`, assuming `Eager`: while a log-in runs no
  thread is active, so that what is shown is its own prompt's, `Disconnected`, or a
  `Reconnecting` that came late (`LoginShown`).
- `VpnSafety_proofs!ImplementsGuard`, assuming `Eager`: VpnTask implements VpnGuard,
  where starting a thread (`Open`) needs a state that the guard refuses, such a
  state is shown until the end (`Report`), and the end frees it (`Close`). Each
  step follows from `EagerInv` before and after it.
- `AuthFlow_proofs!TypeCorrect`, `PromptAnswerableAlways`: inductive as they
  stand, given the types.
- `AuthFlow_proofs!LoginToOfferedAlways`: strengthened by `ResumeOffered`, as a
  challenged log-in leaves the gateway and comes back to it with the code.
- `AuthFlow_proofs!ImplementsPrompt`: `Spec => PromptSpec`, for overlapping log-ins
  and disconnects at any time. Parking a sender maps to `Ask`, which calls off
  the prompt before; a `submit_mfa`, `select_gateway` or cancel that finds a sender
  maps to `Answer`. That this sender belongs to the prompt that is open, and to a
  flow that was told nothing yet, is the strengthening `SlotLive`, together with
  `PromptAnswerable`.
- `DbusService_proofs!TypeCorrect`: inductive as it stands; the part that is not
  about types is that no sender gets past the capacity of the queue.
- `DbusService_proofs!TunnelWatchedAlways`, assuming
  `QuietService` (GUIs act while nothing else goes on, and nobody stops the
  service). The tunnel comes some time after the claim, and the claim goes before
  the disconnect is handled, so the invariant (`QuietInv`) follows a request: one
  piece of work at a time (`OneWork`), a request that may start a tunnel has its
  claim and an attentive watchdog until it is handled (`Occupied`, `Attended`),
  and a watchdog past its disconnect has left no tunnel or the disconnect under
  way (`Stations`).
- `DbusService_proofs!DeadControllerHeardAlways`, assuming `~DiesInCall`: the name of a
  controller that died is in the watchdog's stream, or the watchdog is about to
  forget the controller, or could not subscribe. `DeadInv` adds that only the living call, and that a
  service that is down has no controller.
- `ClientConnect_proofs!TypeCorrect`: strengthened by the stages that only the
  portal workflow has (`StageInv`).
- `ClientConnect_proofs!PreferredIsFirst`: for every list of gateways and rules,
  `find_preferred_gateway` returns the first gateway with the lowest priority for
  the region or, if no rule is for it, the first with the lowest priority. The
  loops are recursive functions; a loop invariant is proved by taking the least
  round at which it fails, which the well-founded order of the naturals provides.
- `ClientConnect_proofs!BestGatewayFirstAlways`: the menu is a permutation of the
  portal's list, its first entry that gateway. `MenuInv` carries what the menu is
  made from to the step that shows it.
- `ClientConnect_proofs!OnwardAlways`: each step of a log-in lowers the variant
  `ToGo`, except a new challenge of the same exchange and what follows a
  passphrase prompt: through its fall-backs a command does not come back to
  where it was.
- `ClientConnect_proofs!StdinOnceAlways`: strengthened by the line being kept as
  soon as it was read (`StdinInv`).
- `ClientConnect_proofs!CredentialBelongsAlways`: strengthened by what the cookie
  file holds (`CookieOfServer`) and by what follows a line of standard input that
  was read: only the nested and fallback workflows ask for a credential again
  (`KeptInv`); an error never leads into an exchange that
  carries a credential (`PropagateBelongs`).
- `ClientConnect_proofs!FailedCookieForgottenAlways`: a cookie is known by the
  command that saved it, and a command might fail with its own, clear the file
  and save it again. `FailedInv` rules that out: only a passphrase prompt leads
  back to the file, only an error of the client identity to the prompt, and a
  command that has saved a cookie has built its client.
- `ClientConnect_proofs!TwoSignInsAlways`: strengthened by how many sign-ins each
  workflow has behind it at each place (`SignInInv`); the fallback starts where
  at most one was made (`PropagateSignIns`).
- `ClientConnect_proofs!ChallengeAnsweredAlways`: the parameters hold the answer to
  the challenge the server waits for, and the credential is of a kind with a
  parameter of its own in the form (`AnswerInv`, `FormOf`).
- `ClientTunnel_proofs!PidFileNamesTunnelAlways`, assuming `OneByOne` and `~WriteMayFail`: inductive
  together with at most one client between its log-in and its removal of the
  file (`OneActive`), which in turn rests on the file naming the tunnel.
- `ClientTunnel_proofs!WarnedInTimeAlways`, without them and for any session data: a
  runtime that has not warned of an end sleeps, and its timer is due or set for
  the lead time before that end at the latest, later by what the machine was
  suspended (`OnTime`).
- `ClientTunnel_proofs!TypeCorrect`, for any session data.
- `ClientTunnel_proofs!InterruptKeptAlways`, assuming `~EarlySignals`: under a tunnel a
  listener that has fired has left its interrupt in the command pipe.
  `InterruptInv` adds that a client without a tunnel is neither in the PID file
  nor about to be signalled, so that its listener is unused.
- `SignIn_proofs!TypeCorrect`, for both authenticators.
- `SignIn_proofs!OwnDataAlways`, assuming `~Overlapping` and `~TabsStayOpen`: a gpauth
  returns the data of its own tab. One sign-in is under way at a time, where
  delivering its callback counts, and what is in a socket came from its owner's
  tab (`OwnDataInv`).
- `SignIn_proofs!AnswerableAlways`, assuming `~Overlapping`: until it is answered, a
  gpauth's page can be fetched or has been, and once it waits the port file
  names it.
- `SignIn_proofs!RaiseToComeAlways`: a window that nobody tried to raise has the
  first task or a raise in the queue before it.
- `SignIn_proofs!RaiseRevocableAlways`: a task that sleeps, and was not called off,
  is the one whose token is stored.
- `SignIn_proofs!ServedOnceAlways`: strengthened by a server that still serves
  having handed out nothing (`ServerInv`).
- `Pkcs11_proofs`: `TypeCorrect`; `ReadyMeansLoggedInAlways`, where a
  `C_Finalize`, which ends every session, must come before any request has a
  context (`BeforeContext`); `NeverTornAwayAlways`, assuming `~Racing`, with no
  tunnel while the context is built (`TunnelInv`); `ScannedTwiceAlways`, with who
  can have brought the module up at each point (`ScanInv`).

The assumptions on the client are those of the runs: without them the
properties do not hold (section 4). `PatientClient`, `LoginsBesideTunnel`,
`QuietGuis`, `Sigterm`, `DiesInCall`, `OneByOne`, `EarlySignals`, `WriteMayFail`,
`Overlapping`, `TabsStayOpen`, `Racing` and `TeardownMayHang` have both values in the
models, so that each theorem's hypothesis is met by a run. The inductive
invariants of the restricted clients were checked by TLC on the runs of their
properties before they were proved.

Only model-checked: liveness (`DisconnectReturns`, `DisconnectEndsTunnel`,
`ConnectingEnds`, `DisconnectUnblocks`, `DisconnectServed`, `DeadControllerDropped`,
`LoginEnds`, `DisconnectEnds`, `Answered`, `HangingShown`), since neither fairness nor
ENABLED is in reach of the prover. For most of them the proofs have the safety
half, that whoever is to act next is there to do it: `NobodyForgotten` for
`DisconnectReturns`, `ConnectingHasThread` for `ConnectingEnds`, `PromptSpec` with
`PromptAnswerable` for `DisconnectUnblocks`, `DeadControllerHeard` for
`DeadControllerDropped`, `Onward` for `LoginEnds`, `InterruptKept` for
`DisconnectEnds`, `Answerable` for `Answered`, `RaiseToCome` for `HangingShown`. These
are defined beside the liveness property each belongs to and were checked by
TLC with the constants of its run before they were proved. Each
invariant and action property of a passing run has its theorem, with one
reservation: `ConnectedIsDialed` is proved for a patient client, and only
model-checked for the eager one of `VpnTask_eager`.

## 6. What is not modelled

- In the supervisor: the route that `reconnect` re-pins (`gateway_pin.rs` reads
  and writes the routing table through commands), the contents of DNS filters,
  session metadata. In the binding: the marshalling of options and the parsing
  of session data, which a property about data would need.
- In the client: XML, the look-up behind internal host detection, the token a
  log-in returns, options that are only passed on to openconnect, the HIP
  check-in after the tunnel is up (its failure is logged), pasting the SAML data
  into a terminal.
- The macOS webview and the Windows signer `winsign.rs`, which starts a process
  per signature and keeps nothing.
- HIP reports, formatting, redaction, environment and packaging have no
  behaviour that a state machine would show; nothing takes the lock of
  `lock_file.rs`.

## 7. What is left

1. `GatewayPin`: capture and re-assert around suspend, composed with the
   `Repinned` step of VpnTask; the HIP check-in beside a tunnel that ends.
2. ClientConnect and ClientTunnel as one specification, with the SignIn answer
   instead of `ObtainCredential`, over an abstract log-in (`Asking`, `Trying`,
   `Up`, `Over`).
3. A watched tunnel as the abstract specification of DbusService, and the
   theorem that it implements it.
