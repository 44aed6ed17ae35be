---------------------------- MODULE BrowserSignIn ----------------------------
(***************************************************************************)
(* SAML sign-in in the user's own browser: gpauth serves the auth request  *)
(* once on a local URL, opens it, and waits on a port whose number it       *)
(* leaves in a file for `gpclient launch-gui', the handler of the callback *)
(* scheme (crates/auth/src/browser, apps/gpauth/src/cli.rs,                *)
(* apps/gpclient/src/launch_gui.rs, crates/gpapi/src/auth.rs).             *)
(***************************************************************************)
EXTENDS Naturals

CONSTANTS
  Auths,          \* the gpauth processes; each has a port and a browser tab
  Overlapping,    \* TRUE: a gpauth may start while another one, or a callback, is alive
  TabsStayOpen,   \* TRUE: the tab of a gpauth that is gone may still be completed
  None

VARIABLES
  auth,       \* where each gpauth is
  url,        \* its AuthServer: "none", "serving", "stopped"
  served,     \* how often the auth request has been handed out
  tab,        \* its browser tab: "closed", "open", "signing"
  portFile,   \* whose port is in the port file
  handler,    \* the launch-gui its tab started: None, "started", or the port read
  socket,     \* what arrived on its accepted connection
  result,     \* what it printed
  barred      \* launch-gui is turned down: a gpclient is connected, or by root

vars == <<auth, url, served, tab, portFile, handler, socket, result, barred>>

Running(a) == auth[a] \notin {"none", "done", "killed"}
Listening(a) == auth[a] \in {"bound", "waiting"}

\* What SamlAuthData::from_gpcallback makes of the data of tab d: the identity
\* provider may have refused the sign-in or sent something unreadable.
Parsed(d) == IF d.good THEN [kind |-> "Success", of |-> d.of] ELSE [kind |-> "Failure"]

Failure == [kind |-> "Failure"]
\* print_auth_result: gpauth ends and its servers end with it.
Report(a, r) ==
  /\ result' = [result EXCEPT ![a] = r]
  /\ auth' = [auth EXCEPT ![a] = "done"]
  /\ url' = [url EXCEPT ![a] = "stopped"]

\* Cli::run and authenticate up to the browser: the auth server is up before it.
Launch(a) ==
  /\ auth[a] = "none"
  /\ Overlapping \/ \A b \in Auths : ~Running(b) /\ handler[b] = None
  /\ auth' = [auth EXCEPT ![a] = "launched"]
  /\ url' = [url EXCEPT ![a] = "serving"]
  /\ tab' = [tab EXCEPT ![a] = "open"]
  /\ UNCHANGED <<served, portFile, handler, socket, result, barred>>

\* The auth server cannot be started, or the browser cannot be launched.
LaunchFails(a) ==
  /\ auth[a] = "launched" /\ tab[a] = "open"
  /\ Report(a, Failure)
  /\ tab' = [tab EXCEPT ![a] = "closed"]
  /\ UNCHANGED <<served, portFile, handler, socket, barred>>

Stops_Never(handedOut) == FALSE
Stops_Any(handedOut) == TRUE
\* serve_request leaves its loop after the first answer that hands the request out.
Stops(handedOut) == handedOut

\* AuthServer::serve_request: 403 for another path, an empty 200 for HEAD. A GET
\* hands the request out, if the answer can be sent, to whoever knows the URL: the
\* tab, or a program that looks at the link.
Serve(a) ==
  /\ url[a] = "serving"
  /\ \E handedOut, own \in BOOLEAN :
       /\ served' = [served EXCEPT ![a] = IF handedOut THEN @ + 1 ELSE @]
       /\ tab' = [tab EXCEPT ![a] = IF handedOut /\ own /\ @ = "open" THEN "signing" ELSE @]
       /\ url' = [url EXCEPT ![a] = IF Stops(handedOut) THEN "stopped" ELSE @]
  /\ served'[a] <= 2   \* bound
  /\ UNCHANGED <<auth, portFile, handler, socket, result, barred>>

\* The head of wait_auth_data: the port is open ...
Bind(a) ==
  /\ auth[a] = "launched"
  /\ auth' = [auth EXCEPT ![a] = "bound"]
  /\ UNCHANGED <<url, served, tab, portFile, handler, socket, result, barred>>

\* ... and then its number is written, over whatever is there.
WritePort(a) ==
  /\ auth[a] = "bound"
  /\ auth' = [auth EXCEPT ![a] = "waiting"]
  /\ portFile' = a
  /\ UNCHANGED <<url, served, tab, handler, socket, result, barred>>

\* wait_auth_data fails: there is no port, its file cannot be written (or be given
\* its permissions, once it is), or what arrives cannot be read.
WaitFails(a) ==
  /\ Listening(a) \/ auth[a] = "launched"
  /\ Report(a, Failure)
  /\ portFile' \in IF auth[a] = "bound" THEN {portFile, a} ELSE {portFile}
  /\ UNCHANGED <<served, tab, handler, socket, barred>>

\* The client of the machine connects or ends.
Client ==
  /\ barred' = ~barred
  /\ UNCHANGED <<auth, url, served, tab, portFile, handler, socket, result>>

\* The user has signed in, or tries the callback link again: the desktop starts
\* launch-gui with the callback URL. Like any gpclient it refuses to run beside one
\* that is connected, and as root.
Callback(a) ==
  /\ tab[a] = "signing" /\ handler[a] = None
  /\ Running(a) \/ TabsStayOpen
  /\ ~barred
  /\ handler' = [handler EXCEPT ![a] = "started"]
  /\ UNCHANGED <<auth, url, served, tab, portFile, socket, result, barred>>

\* feed_auth_data_cli reads the port; an error is only logged.
ReadPort(a) ==
  /\ handler[a] = "started"
  /\ handler' = [handler EXCEPT ![a] = portFile]
  /\ UNCHANGED <<auth, url, served, tab, portFile, socket, result, barred>>

\* It connects to that port and writes; without a listener there, it is over.
Feed(a) ==
  /\ handler[a] \in Auths
  /\ handler' = [handler EXCEPT ![a] = None]
  /\ LET b == handler[a]
     IN  IF Listening(b) /\ socket[b] = None
         THEN \E good \in BOOLEAN : socket' = [socket EXCEPT ![b] = [of |-> a, good |-> good]]
         ELSE UNCHANGED socket
  /\ UNCHANGED <<auth, url, served, tab, portFile, result, barred>>

\* accept and read_to_string.
Receive(a) ==
  /\ auth[a] = "waiting" /\ socket[a] # None
  /\ auth' = [auth EXCEPT ![a] = "received"]
  /\ UNCHANGED <<url, served, tab, portFile, handler, socket, result, barred>>

\* Remove the port file, which fails when it is gone, then parse what was read.
Finish(a) ==
  /\ auth[a] = "received"
  /\ portFile' = None
  /\ Report(a, IF portFile = None THEN Failure ELSE Parsed(socket[a]))
  /\ UNCHANGED <<served, tab, handler, socket, barred>>

\* The user gives up on gpauth (or gpclient, whose launcher kills it on drop): the
\* port file stays.
Killed(a) ==
  /\ Running(a)
  /\ auth' = [auth EXCEPT ![a] = "killed"]
  /\ url' = [url EXCEPT ![a] = "stopped"]
  /\ UNCHANGED <<served, tab, portFile, handler, socket, result, barred>>

Init ==
  /\ auth = [a \in Auths |-> "none"] /\ url = auth
  /\ served = [a \in Auths |-> 0]
  /\ tab = [a \in Auths |-> "closed"]
  /\ portFile = None
  /\ handler = [a \in Auths |-> None] /\ socket = handler /\ result = handler
  /\ barred \in BOOLEAN

Step(a) == Serve(a) \/ Bind(a) \/ WritePort(a) \/ ReadPort(a) \/ Feed(a) \/ Receive(a) \/ Finish(a)

Next ==
  \/ \E a \in Auths :
       Launch(a) \/ LaunchFails(a) \/ WaitFails(a) \/ Callback(a) \/ Killed(a) \/ Step(a)
  \/ Client

\* The tab fetches its page, unless somebody else did, and its user tries the
\* callback link again as long as gpauth waits.
Fairness ==
  \A a \in Auths :
    /\ WF_vars(Bind(a)) /\ WF_vars(WritePort(a)) /\ WF_vars(ReadPort(a)) /\ WF_vars(Feed(a))
    /\ WF_vars(Receive(a)) /\ WF_vars(Finish(a))
    /\ WF_vars(Callback(a)) /\ WF_vars(Serve(a) /\ tab' # tab)

-----------------------------------------------------------------------------
(* Properties *)

TypeOK ==
  /\ auth \in [Auths -> {"none", "launched", "bound", "waiting", "received", "done", "killed"}]
  /\ url \in [Auths -> {"none", "serving", "stopped"}]
  /\ served \in [Auths -> 0..2]
  /\ tab \in [Auths -> {"closed", "open", "signing"}]
  /\ portFile \in Auths \cup {None}
  /\ handler \in [Auths -> Auths \cup {None, "started"}]
  /\ socket \in [Auths -> [of : Auths, good : BOOLEAN] \cup {None}]
  /\ result \in [Auths -> [kind : {"Success"}, of : Auths] \cup {Failure, None}]
  /\ barred \in BOOLEAN

\* "Note that the URL is only valid for a single use" (browser_auth.rs 85): the
\* auth request is handed out once, and only to a request that asked for it.
ServedOnce == \A a \in Auths : served[a] <= 1

\* A gpauth that succeeds returns what its own tab brought back. Only the caller
\* can see to that, since every gpauth of the machine uses the same file: it fails
\* with Overlapping, and with TabsStayOpen.
OwnData ==
  \A a \in Auths : (result[a] # None /\ result[a].kind = "Success") => result[a].of = a

\* What Answered rests on: until a gpauth has been answered, its page can still be
\* fetched or has been, probes notwithstanding, and once it waits the port file
\* names it, whatever an earlier one has left there.
Answerable ==
  \A a \in Auths :
    /\ auth[a] \in {"launched", "bound", "waiting"} =>
         tab[a] # "closed" /\ (url[a] = "serving" \/ served[a] > 0)
    /\ auth[a] = "waiting" => portFile = a

\* Somebody else used the one serving up, and the tab came too late.
PageGone(a) == tab[a] = "open" /\ served[a] > 0

\* The callback finds its gpauth although the browser is opened before the port
\* file is written, a probe may come first, and an earlier gpauth may have left
\* its own port behind; unless clients that are connected keep turning it down.
Answered ==
  \/ []<>barred
  \/ \A a \in Auths : auth[a] = "launched" ~> ~Running(a) \/ PageGone(a)

=============================================================================
