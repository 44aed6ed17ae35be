---------------------------- MODULE SignIn_proofs ----------------------------
(***************************************************************************)
(* What SAML sign-in guarantees for any number of gpauth processes, pages  *)
(* and queued events.                                                      *)
(***************************************************************************)
EXTENDS SignIn, Sequences, TLAPS

USE SignInAssumption

-----------------------------------------------------------------------------
(* The browser.  ServedOnce rests on a server that has not answered yet.   *)
ServerInv ==
  /\ auth \in [Auths -> {"none", "launched", "bound", "waiting", "received", "done", "killed"}]
  /\ url \in [Auths -> {"none", "serving", "stopped"}]
  /\ served \in [Auths -> Nat]
  /\ \A a \in Auths :
       /\ auth[a] = "none" => url[a] = "none"
       /\ url[a] \in {"none", "serving"} => served[a] = 0
       /\ served[a] <= 1

(* Only Launch starts a server, and Serve stops it with the first answer.  *)
LEMMA ServerStep == ServerInv /\ Browser!Next => ServerInv'
<1>0. ASSUME ServerInv, Browser!Client PROVE ServerInv'
  BY <1>0 DEF Browser!Client, ServerInv
<1> SUFFICES ASSUME ServerInv, NEW a \in Auths,
                    \/ Browser!Launch(a) \/ Browser!LaunchFails(a) \/ Browser!WaitFails(a)
                    \/ Browser!Callback(a) \/ Browser!Killed(a) \/ Browser!Step(a)
            PROVE  ServerInv'
  BY <1>0 DEF Browser!Next
<1> USE DEF ServerInv
<1>1. CASE Browser!Launch(a)
  BY <1>1 DEF Browser!Launch
<1>2. CASE Browser!LaunchFails(a)
  BY <1>2 DEF Browser!LaunchFails, Browser!Report
<1>3. CASE Browser!Callback(a)
  BY <1>3 DEF Browser!Callback
<1>4. CASE Browser!Killed(a)
  BY <1>4 DEF Browser!Killed, Browser!Running
<1>5. CASE Browser!Serve(a)
  <2>1. PICK handedOut \in BOOLEAN, own \in BOOLEAN :
          /\ served' = [served EXCEPT ![a] = IF handedOut THEN @ + 1 ELSE @]
          /\ url' = [url EXCEPT ![a] = IF handedOut THEN "stopped" ELSE @]
    BY <1>5 DEF Browser!Serve, Browser!Stops
  <2>2. auth' = auth /\ url[a] = "serving"
    BY <1>5 DEF Browser!Serve
  <2> QED
    BY <2>1, <2>2
<1>6. CASE Browser!Bind(a) \/ Browser!WritePort(a) \/ Browser!Receive(a)
  BY <1>6 DEF Browser!Bind, Browser!WritePort, Browser!Receive
<1>7. CASE Browser!ReadPort(a) \/ Browser!Feed(a)
  BY <1>7 DEF Browser!ReadPort, Browser!Feed
<1>8. CASE Browser!Finish(a)
  BY <1>8 DEF Browser!Finish, Browser!Report
<1>9. CASE Browser!WaitFails(a)
  BY <1>9 DEF Browser!WaitFails, Browser!Report, Browser!Listening
<1> QED
  BY <1>1, <1>2, <1>3, <1>4, <1>5, <1>6, <1>7, <1>8, <1>9 DEF Browser!Step

(* The auth request of a gpauth is handed out once, whatever requests      *)
(* reach its server and whenever it ends.                                  *)
THEOREM ServedOnceAlways == Spec => []ServedOnce
<1>1. Init => ServerInv
  BY DEF Init, Browser!Init, ServerInv
<1>2. ServerInv /\ [Next]_vars => ServerInv'
  <2> SUFFICES ASSUME ServerInv, [Next]_vars PROVE ServerInv'
    OBVIOUS
  <2>1. CASE BrowserNext
    BY <2>1, ServerStep DEF BrowserNext
  <2>2. CASE WebviewNext \/ UNCHANGED vars
    BY <2>2 DEF WebviewNext, vars, browserVars, ServerInv
  <2> QED
    BY <2>1, <2>2 DEF Next
<1>3. ServerInv => ServedOnce
  BY DEF ServerInv, ServedOnce, Browser!ServedOnce
<1> QED
  BY <1>1, <1>2, <1>3, PTL DEF Spec

-----------------------------------------------------------------------------
(* Types.                                                                  *)

BrowserTypes ==
  /\ Browser!TypeOK
  /\ \A a \in Auths : auth[a] = "received" => socket[a] # None

LEMMA BrowserTypesStep == BrowserTypes /\ Browser!Next => BrowserTypes'
<1>0. ASSUME BrowserTypes, Browser!Client PROVE BrowserTypes'
  BY <1>0 DEF Browser!Client, BrowserTypes, Browser!TypeOK
<1> SUFFICES ASSUME BrowserTypes, NEW a \in Auths,
                    \/ Browser!Launch(a) \/ Browser!LaunchFails(a) \/ Browser!WaitFails(a)
                    \/ Browser!Callback(a) \/ Browser!Killed(a) \/ Browser!Step(a)
            PROVE  BrowserTypes'
  BY <1>0 DEF Browser!Next
<1> USE DEF BrowserTypes, Browser!TypeOK
<1>1. CASE Browser!Launch(a)
  BY <1>1 DEF Browser!Launch
<1>2. CASE Browser!LaunchFails(a)
  BY <1>2 DEF Browser!LaunchFails, Browser!Report
<1>3. CASE Browser!Callback(a)
  BY <1>3 DEF Browser!Callback
<1>4. CASE Browser!Killed(a)
  BY <1>4 DEF Browser!Killed
<1>5. CASE Browser!Serve(a)
  <2>1. PICK handedOut \in BOOLEAN, own \in BOOLEAN :
          /\ served' = [served EXCEPT ![a] = IF handedOut THEN @ + 1 ELSE @]
          /\ tab' = [tab EXCEPT ![a] = IF handedOut /\ own /\ @ = "open" THEN "signing" ELSE @]
          /\ url' = [url EXCEPT ![a] = IF handedOut THEN "stopped" ELSE @]
    BY <1>5 DEF Browser!Serve, Browser!Stops
  <2>2. served'[a] <= 2 /\ UNCHANGED <<auth, portFile, handler, socket, result, barred>>
    BY <1>5 DEF Browser!Serve
  <2>3. served' \in [Auths -> 0..2]
    BY <2>1, <2>2
  <2>4. tab' \in [Auths -> {"closed", "open", "signing"}]
    BY <2>1
  <2>5. url' \in [Auths -> {"none", "serving", "stopped"}]
    BY <2>1
  <2> QED
    BY <2>2, <2>3, <2>4, <2>5
<1>6. CASE Browser!Bind(a) \/ Browser!WritePort(a) \/ Browser!Receive(a)
  BY <1>6 DEF Browser!Bind, Browser!WritePort, Browser!Receive
<1>7. CASE Browser!ReadPort(a)
  BY <1>7 DEF Browser!ReadPort
<1>8. CASE Browser!Feed(a)
  <2>1. handler' \in [Auths -> Auths \cup {None, "started"}]
    BY <1>8 DEF Browser!Feed
  <2>2. \/ socket' = socket
        \/ \E good \in BOOLEAN : socket' = [socket EXCEPT ![handler[a]] = [of |-> a, good |-> good]]
    BY <1>8 DEF Browser!Feed
  <2>3. socket' \in [Auths -> [of : Auths, good : BOOLEAN] \cup {None}]
    BY <2>2
  <2>4. ASSUME NEW b \in Auths, auth[b] = "received" PROVE socket'[b] # None
    BY <1>8, <2>4 DEF Browser!Feed, Browser!Listening
  <2> QED
    BY <1>8, <2>1, <2>3, <2>4 DEF Browser!Feed
<1>9. CASE Browser!Finish(a)
  <2>1. PICK r : /\ r \in {Browser!Failure, Browser!Parsed(socket[a])}
                 /\ Browser!Report(a, r) /\ portFile' = None
                 /\ UNCHANGED <<served, tab, handler, socket, barred>>
    BY <1>9 DEF Browser!Finish
  <2>2. socket[a] \in [of : Auths, good : BOOLEAN]
    BY <1>9 DEF Browser!Finish
  <2>3. r \in [kind : {"Success"}, of : Auths] \cup {Browser!Failure}
    BY <2>1, <2>2 DEF Browser!Parsed, Browser!Failure
  <2> QED
    BY <2>1, <2>3 DEF Browser!Report
<1>10. CASE Browser!WaitFails(a)
  <2>1. portFile' \in Auths \cup {None}
    BY <1>10 DEF Browser!WaitFails
  <2>2. /\ UNCHANGED <<served, tab, handler, socket, barred>>
        /\ auth' = [auth EXCEPT ![a] = "done"] /\ url' = [url EXCEPT ![a] = "stopped"]
        /\ result' = [result EXCEPT ![a] = Browser!Failure]
    BY <1>10 DEF Browser!WaitFails, Browser!Report
  <2> QED
    BY <2>1, <2>2
<1> QED
  BY <1>1, <1>2, <1>3, <1>4, <1>5, <1>6, <1>7, <1>8, <1>9, <1>10 DEF Browser!Step

(* A page is read twice at most: when it starts and when it has loaded.    *)
Loads ==
  /\ loading \in BOOLEAN /\ reads \in 0..2 * MaxPages /\ pages \in 0..MaxPages
  /\ loading => reads + 1 <= 2 * pages
  /\ reads <= 2 * pages

Places ==
  /\ main \in {"setup", "loop", "retrying", "ended"}
  /\ outcome \in {None, "data", "cancelled", "tls", "error"}
  /\ page \in {"blank", "form", "good", "bad"}
  /\ window \in {"hidden", "shown", "unraised"}

Raises ==
  /\ stored \in Tasks \cup {None}
  /\ task \in [Tasks -> {"none", "asleep", "off", "due"}]

Flags == first \in BOOLEAN /\ closed \in BOOLEAN

Event == {"Data", "Invalid", "NotFound", "Tls", "Close", "Raise"}
Waiting == queue \in Seq(Event) /\ Len(queue) <= MaxQueue

LEMMA LoadsStep == Loads /\ Webview!Next => Loads'
<1> SUFFICES ASSUME Loads, Webview!Next PROVE Loads'
  OBVIOUS
<1>1. CASE Webview!Started
  <2>1. pages < MaxPages /\ pages' = pages + 1 /\ reads' = reads + 1 /\ loading' = TRUE
    BY <1>1 DEF Webview!Started
  <2>2. reads' \in 0..2 * MaxPages /\ pages' \in 0..MaxPages /\ reads' + 1 <= 2 * pages'
    BY <2>1 DEF Loads
  <2> QED
    BY <2>1, <2>2 DEF Loads
<1>2. CASE Webview!Finished
  <2>1. reads' = reads + 1 /\ loading /\ loading' = FALSE /\ pages' = pages
    BY <1>2 DEF Webview!Finished
  <2>2. reads' \in 0..2 * MaxPages /\ reads' <= 2 * pages'
    BY <2>1 DEF Loads
  <2> QED
    BY <2>1, <2>2 DEF Loads
<1>3. CASE Webview!HtmlRead
  <2>1. reads' = reads - 1 /\ reads > 0 /\ loading' = loading /\ pages' = pages
    BY <1>3 DEF Webview!HtmlRead
  <2>2. reads' \in 0..2 * MaxPages /\ reads' <= 2 * pages'
    BY <2>1 DEF Loads
  <2>3. loading => reads' + 1 <= 2 * pages'
    BY <2>1 DEF Loads
  <2> QED
    BY <2>1, <2>2, <2>3 DEF Loads
<1>4. ASSUME UNCHANGED <<loading, reads, pages>> PROVE Loads'
  BY <1>4, Zenon DEF Loads
<1>10. ASSUME loading' = FALSE, UNCHANGED <<reads, pages>> PROVE Loads'
  BY <1>10 DEF Loads
<1>5. CASE Webview!TlsFails
  BY <1>10, <1>5 DEF Webview!TlsFails
<1>6. CASE Webview!UserCloses \/ Webview!Timers
  BY <1>4, <1>6 DEF Webview!UserCloses, Webview!Timers, Webview!FirstTimer, Webview!Wake,
                    Webview!CalledOff, Webview!SendRaise, Webview!browser
<1>7. CASE Webview!HandleData \/ Webview!HandleClose \/ Webview!HandleTls
  BY <1>4, <1>7
     DEF Webview!HandleData, Webview!HandleClose, Webview!HandleTls, Webview!End, Webview!browser
<1>8. CASE Webview!HandleRaise \/ Webview!HandleNotFound \/ Webview!HandleInvalid
  BY <1>4, <1>8
     DEF Webview!HandleRaise, Webview!HandleNotFound, Webview!HandleInvalid, Webview!browser
<1>9. CASE Webview!SetUp \/ Webview!Retried
  BY <1>4, <1>9, <1>10 DEF Webview!SetUp, Webview!End, Webview!Retried, Webview!browser
<1> QED
  BY <1>1, <1>2, <1>3, <1>5, <1>6, <1>7, <1>8, <1>9 DEF Webview!Next, Webview!Handle

LEMMA PlacesStep == Places /\ Webview!Next => Places'
<1> USE DEF Places, Webview!seen
<1>1. ASSUME Places, Webview!Started PROVE Places'
  BY <1>1 DEF Webview!Started
<1>2. ASSUME Places, Webview!Finished \/ Webview!HtmlRead \/ Webview!TlsFails PROVE Places'
  BY <1>2 DEF Webview!Finished, Webview!HtmlRead, Webview!TlsFails
<1>3. ASSUME Places, Webview!UserCloses \/ Webview!Timers PROVE Places'
  BY <1>3 DEF Webview!UserCloses, Webview!Timers, Webview!FirstTimer, Webview!Wake,
              Webview!CalledOff, Webview!SendRaise, Webview!browser
<1>4. ASSUME Places, NEW r \in {"data", "cancelled", "tls", "error"}, Webview!End(r) PROVE Places'
  BY <1>4 DEF Webview!End, Webview!browser
<1>5. ASSUME Places, Webview!SetUp PROVE Places'
  BY <1>4, <1>5 DEF Webview!SetUp
<1>6. ASSUME Places, Webview!HandleData \/ Webview!HandleClose \/ Webview!HandleTls PROVE Places'
  BY <1>4, <1>6 DEF Webview!HandleData, Webview!HandleClose, Webview!HandleTls
<1>7. ASSUME Places, Webview!HandleRaise PROVE Places'
  BY <1>7 DEF Webview!HandleRaise, Webview!browser
<1>8. ASSUME Places, Webview!HandleNotFound PROVE Places'
  BY <1>8 DEF Webview!HandleNotFound, Webview!browser
<1>9. ASSUME Places, Webview!HandleInvalid \/ Webview!Retried PROVE Places'
  BY <1>9 DEF Webview!HandleInvalid, Webview!Retried, Webview!browser
<1> QED
  BY <1>1, <1>2, <1>3, <1>5, <1>6, <1>7, <1>8, <1>9 DEF Webview!Next, Webview!Handle

LEMMA RaisesStep == Raises /\ Webview!Next => Raises'
<1> SUFFICES ASSUME Raises, Webview!Next PROVE Raises'
  OBVIOUS
<1> USE DEF Raises
<1>1. ASSUME UNCHANGED <<stored, task>> PROVE Raises'
  BY <1>1
<1>2. CASE Webview!Started
  BY <1>1, <1>2 DEF Webview!Started, Webview!CancelRaise, Webview!TakeToken
<1>3. CASE Webview!Finished \/ Webview!HtmlRead \/ Webview!TlsFails \/ Webview!UserCloses
  BY <1>1, <1>3
     DEF Webview!Finished, Webview!HtmlRead, Webview!TlsFails, Webview!UserCloses, Webview!raises
<1>4. CASE Webview!FirstTimer
  BY <1>1, <1>4 DEF Webview!FirstTimer
<1>5. ASSUME NEW t \in Tasks, Webview!Wake(t) \/ Webview!CalledOff(t) \/ Webview!SendRaise(t)
      PROVE  Raises'
  BY <1>5 DEF Webview!Wake, Webview!CalledOff, Webview!SendRaise
<1>6. ASSUME NEW r, Webview!End(r) PROVE Raises'
  BY <1>6 DEF Webview!End
<1>7. CASE Webview!SetUp \/ Webview!HandleData \/ Webview!HandleClose \/ Webview!HandleTls
  BY <1>1, <1>6, <1>7
     DEF Webview!SetUp, Webview!HandleData, Webview!HandleClose, Webview!HandleTls, Webview!raises
<1>8. CASE Webview!HandleRaise \/ Webview!HandleInvalid \/ Webview!Retried
  BY <1>1, <1>8 DEF Webview!HandleRaise, Webview!HandleInvalid, Webview!Retried, Webview!raises
<1>9. CASE Webview!HandleNotFound
  BY <1>1, <1>9 DEF Webview!HandleNotFound, Webview!Schedule
<1> QED
  BY <1>2, <1>3, <1>4, <1>5, <1>7, <1>8, <1>9 DEF Webview!Next, Webview!Handle, Webview!Timers

LEMMA FlagsStep == Flags /\ Webview!Next => Flags'
<1> USE DEF Flags, Webview!seen, Webview!raises
<1>1. ASSUME Flags, Webview!Started \/ Webview!Finished \/ Webview!HtmlRead PROVE Flags'
  BY <1>1 DEF Webview!Started, Webview!CancelRaise, Webview!Finished, Webview!HtmlRead
<1>2. ASSUME Flags, Webview!TlsFails \/ Webview!UserCloses PROVE Flags'
  BY <1>2 DEF Webview!TlsFails, Webview!UserCloses
<1>3. ASSUME Flags, Webview!Timers PROVE Flags'
  BY <1>3 DEF Webview!Timers, Webview!FirstTimer, Webview!Wake, Webview!CalledOff, Webview!SendRaise
<1>4. ASSUME Flags, NEW r, Webview!End(r) PROVE Flags'
  BY <1>4 DEF Webview!End
<1>5. ASSUME Flags, Webview!SetUp PROVE Flags'
  BY <1>4, <1>5 DEF Webview!SetUp
<1>6. ASSUME Flags, Webview!HandleData \/ Webview!HandleClose \/ Webview!HandleTls PROVE Flags'
  BY <1>4, <1>6 DEF Webview!HandleData, Webview!HandleClose, Webview!HandleTls
<1>7. ASSUME Flags, Webview!HandleRaise \/ Webview!HandleNotFound PROVE Flags'
  BY <1>7 DEF Webview!HandleRaise, Webview!HandleNotFound
<1>8. ASSUME Flags, Webview!HandleInvalid \/ Webview!Retried PROVE Flags'
  BY <1>8 DEF Webview!HandleInvalid, Webview!Retried
<1> QED
  BY <1>1, <1>2, <1>3, <1>5, <1>6, <1>7, <1>8 DEF Webview!Next, Webview!Handle

(* A page that has loaded sends what its headers say, or nothing yet.      *)
LEMMA FinishedSends ==
  ASSUME Waiting, Webview!Finished
  PROVE  queue' = queue \/ \E e \in Event : Webview!Send(e)
<1>1. queue' = queue \o <<>> \/ \E e \in Event : queue' = queue \o <<e>>
  <2>1. PICK events \in {<<>>} \cup Webview!FromHeaders(page) : queue' = queue \o events
    BY DEF Webview!Finished
  <2>2. Webview!FromHeaders(page) \subseteq {<<>>, <<"Data">>, <<"NotFound">>, <<"Invalid">>}
    BY DEF Webview!FromHeaders
  <2> QED
    BY <2>1, <2>2 DEF Event
<1>2. CASE queue' = queue \o <<>>
  BY <1>2 DEF Waiting
<1>3. ASSUME NEW e \in Event, queue' = queue \o <<e>> PROVE Webview!Send(e)
  BY <1>3 DEF Waiting, Webview!Send
<1> QED
  BY <1>1, <1>2, <1>3

LEMMA WaitingStep == Waiting /\ Webview!Next => Waiting'
<1> SUFFICES ASSUME Waiting, Webview!Next PROVE Waiting'
  OBVIOUS
<1>1. ASSUME NEW e \in Event, Webview!Room, Webview!Send(e) PROVE Waiting'
  BY <1>1 DEF Waiting, Webview!Room, Webview!Send
<1>2. ASSUME NEW e, Webview!Take(e), Webview!Consume PROVE Waiting'
  BY <1>2 DEF Waiting, Webview!Take, Webview!Consume
<1>3. ASSUME queue' = queue PROVE Waiting'
  BY <1>3 DEF Waiting
<1>4. CASE Webview!Finished
  BY <1>1, <1>3, <1>4, FinishedSends DEF Webview!Finished
<1>5. CASE Webview!HtmlRead
  <2>1. Webview!FromHtml(page) \in Event
    BY DEF Webview!FromHtml, Event
  <2> QED
    BY <1>1, <1>3, <1>5, <2>1 DEF Webview!HtmlRead, Event
<1>6. CASE Webview!TlsFails \/ Webview!UserCloses \/ Webview!Timers
  BY <1>1, <1>3, <1>6
     DEF Webview!TlsFails, Webview!UserCloses, Webview!Timers, Webview!FirstTimer, Webview!Wake,
         Webview!CalledOff, Webview!SendRaise, Event
<1>7. ASSUME NEW r, Webview!End(r) PROVE Waiting'
  <2>1. queue' = <<>>
    BY <1>7 DEF Webview!End
  <2> QED
    BY <2>1 DEF Waiting
<1>8. CASE Webview!HandleRaise \/ Webview!HandleNotFound \/ Webview!HandleInvalid
  BY <1>2, <1>8 DEF Webview!HandleRaise, Webview!HandleNotFound, Webview!HandleInvalid
<1>9. CASE Webview!Started \/ Webview!Retried
  BY <1>3, <1>9 DEF Webview!Started, Webview!Retried
<1>10. CASE Webview!SetUp \/ Webview!HandleData \/ Webview!HandleClose \/ Webview!HandleTls
  BY <1>3, <1>7, <1>10
     DEF Webview!SetUp, Webview!HandleData, Webview!HandleClose, Webview!HandleTls
<1> QED
  BY <1>4, <1>5, <1>6, <1>8, <1>9, <1>10 DEF Webview!Next, Webview!Handle

WebviewTypes == Loads /\ Places /\ Raises /\ Flags /\ Waiting

(* Both authenticators keep their types, for any number of gpauth          *)
(* processes and any bounds on pages and waiting events.                   *)
THEOREM TypeCorrect == Spec => []TypeOK
<1>1. Init => BrowserTypes /\ WebviewTypes
  <2> SUFFICES ASSUME Init PROVE BrowserTypes /\ WebviewTypes
    OBVIOUS
  <2>1. BrowserTypes
    BY DEF Init, Browser!Init, BrowserTypes, Browser!TypeOK
  <2>3. Loads
    <3>1. loading = FALSE /\ reads = 0 /\ pages = 0
      BY DEF Init, Webview!Init
    <3>2. 0 \in 0..2 * MaxPages /\ 0 \in 0..MaxPages /\ 0 <= 2 * 0
      OBVIOUS
    <3> QED
      BY <3>1, <3>2 DEF Loads
  <2>5. Flags
    BY DEF Init, Webview!Init, Flags
  <2>4. Places /\ Raises /\ Waiting
    BY DEF Init, Webview!Init, Places, Raises, Waiting
  <2> QED
    BY <2>1, <2>3, <2>4, <2>5 DEF WebviewTypes
<1>2. BrowserTypes /\ WebviewTypes /\ [Next]_vars => BrowserTypes' /\ WebviewTypes'
  <2> SUFFICES ASSUME BrowserTypes, WebviewTypes, [Next]_vars
               PROVE  BrowserTypes' /\ WebviewTypes'
    OBVIOUS
  <2>1. ASSUME UNCHANGED browserVars PROVE BrowserTypes'
    BY <2>1 DEF browserVars, BrowserTypes, Browser!TypeOK
  <2>2. ASSUME UNCHANGED webviewVars PROVE WebviewTypes'
    <3>1. (Loads <=> Loads') /\ (Flags <=> Flags')
      BY <2>2 DEF webviewVars, Loads, Flags
    <3>2. Places' /\ Raises' /\ Waiting'
      BY <2>2 DEF webviewVars, WebviewTypes, Places, Raises, Waiting
    <3> QED
      BY <3>1, <3>2 DEF WebviewTypes
  <2>3. CASE BrowserNext
    BY <2>2, <2>3, BrowserTypesStep DEF BrowserNext
  <2>4. CASE WebviewNext
    BY <2>1, <2>4, LoadsStep, PlacesStep, RaisesStep, FlagsStep, WaitingStep
       DEF WebviewNext, WebviewTypes
  <2>5. CASE UNCHANGED vars
    BY <2>1, <2>2, <2>5 DEF vars
  <2> QED
    BY <2>3, <2>4, <2>5 DEF Next
<1>3. BrowserTypes /\ WebviewTypes => TypeOK
  BY DEF BrowserTypes, WebviewTypes, Loads, Places, Raises, Flags, Waiting, Event, TypeOK, Webview!TypeOK
<1> QED
  BY <1>1, <1>2, <1>3, PTL DEF Spec

-----------------------------------------------------------------------------
(* Whose data arrives.  A sign-in is under way while its gpauth runs or    *)
(* its callback is being delivered.  With one at a time, a socket holds    *)
(* data of the tab of its own gpauth.                                      *)
UnderWay(a) == Browser!Running(a) \/ handler[a] # None

OwnDataInv ==
  /\ \A a, b \in Auths : UnderWay(a) /\ UnderWay(b) => a = b
  /\ \A a \in Auths : socket[a] # None => socket[a].of = a
  /\ OwnData

LEMMA OwnDataStep ==
  ASSUME ~Overlapping, ~TabsStayOpen
  PROVE  BrowserTypes /\ OwnDataInv /\ Browser!Next => OwnDataInv'
<1>0. ASSUME OwnDataInv, Browser!Client PROVE OwnDataInv'
  BY <1>0 DEF Browser!Client, OwnDataInv, UnderWay, Browser!Running, OwnData, Browser!OwnData
<1> SUFFICES ASSUME BrowserTypes, OwnDataInv, NEW a \in Auths,
                    \/ Browser!Launch(a) \/ Browser!LaunchFails(a) \/ Browser!WaitFails(a)
                    \/ Browser!Callback(a) \/ Browser!Killed(a) \/ Browser!Step(a)
             PROVE  OwnDataInv'
  BY <1>0 DEF Browser!Next
<1> USE DEF BrowserTypes, Browser!TypeOK, OwnDataInv, UnderWay, Browser!Running, OwnData, Browser!OwnData
<1>1. CASE Browser!Launch(a)
  BY <1>1 DEF Browser!Launch
<1>2. CASE Browser!LaunchFails(a)
  BY <1>2 DEF Browser!LaunchFails, Browser!Report, Browser!Failure
<1>3. CASE Browser!Callback(a)
  BY <1>3 DEF Browser!Callback
<1>4. CASE Browser!Killed(a)
  BY <1>4 DEF Browser!Killed
<1>5. CASE Browser!Serve(a)
  BY <1>5 DEF Browser!Serve
<1>6. CASE Browser!Bind(a) \/ Browser!WritePort(a) \/ Browser!Receive(a)
  BY <1>6 DEF Browser!Bind, Browser!WritePort, Browser!Receive
<1>7. CASE Browser!ReadPort(a)
  BY <1>7 DEF Browser!ReadPort
<1>8. CASE Browser!Feed(a)
  <2>1. handler[a] # None /\ UnderWay(a)
    BY <1>8 DEF Browser!Feed
  <2>2. \A b \in Auths : UnderWay(b)' => UnderWay(b)
    BY <1>8 DEF Browser!Feed
  <2>3. socket' = socket \/ \E good \in BOOLEAN : socket' = [socket EXCEPT ![a] = [of |-> a, good |-> good]]
    BY <1>8, <2>1 DEF Browser!Feed, Browser!Listening
  <2>4. \A b \in Auths : socket'[b] # None => socket'[b].of = b
    BY <2>3
  <2> QED
    BY <1>8, <2>2, <2>4 DEF Browser!Feed
<1>9. CASE Browser!Finish(a)
  <2>1. PICK r : /\ r \in {Browser!Failure, Browser!Parsed(socket[a])}
                 /\ Browser!Report(a, r) /\ UNCHANGED <<handler, socket>>
    BY <1>9 DEF Browser!Finish
  <2>2. socket[a] # None /\ socket[a].of = a
    BY <1>9 DEF Browser!Finish
  <2>3. r.kind = "Success" => r.of = a
    BY <2>1, <2>2 DEF Browser!Parsed, Browser!Failure
  <2>4. \A b \in Auths : UnderWay(b)' => UnderWay(b)
    BY <2>1 DEF Browser!Report
  <2>5. \A b \in Auths : result'[b] # None /\ result'[b].kind = "Success" => result'[b].of = b
    BY <2>1, <2>3 DEF Browser!Report
  <2> QED
    BY <2>1, <2>4, <2>5
<1>10. CASE Browser!WaitFails(a)
  BY <1>10 DEF Browser!WaitFails, Browser!Report, Browser!Failure, Browser!Listening
<1> QED
  BY <1>1, <1>2, <1>3, <1>4, <1>5, <1>6, <1>7, <1>8, <1>9, <1>10 DEF Browser!Step

(* The types of the browser's half alone.                                  *)
LEMMA BrowserTypesAlways == Spec => []BrowserTypes
<1>1. Init => BrowserTypes
  BY DEF Init, Browser!Init, BrowserTypes, Browser!TypeOK
<1>2. BrowserTypes /\ [Next]_vars => BrowserTypes'
  <2> SUFFICES ASSUME BrowserTypes, [Next]_vars PROVE BrowserTypes'
    OBVIOUS
  <2>1. CASE BrowserNext
    BY <2>1, BrowserTypesStep DEF BrowserNext
  <2>2. CASE WebviewNext \/ UNCHANGED vars
    BY <2>2 DEF WebviewNext, vars, browserVars, BrowserTypes, Browser!TypeOK
  <2> QED
    BY <2>1, <2>2 DEF Next
<1> QED
  BY <1>1, <1>2, PTL DEF Spec

(* All gpauths of a machine write one port file and any callback reads it: *)
(* still a gpauth never returns another one's data, as long as sign-ins    *)
(* come one after the other and the tab of a gone one is not completed.    *)
THEOREM OwnDataAlways ==
  ASSUME ~Overlapping, ~TabsStayOpen
  PROVE  Spec => []OwnData
<1>1. Init => OwnDataInv
  BY DEF Init, Browser!Init, OwnDataInv, UnderWay, Browser!Running, OwnData, Browser!OwnData
<1>2. BrowserTypes /\ OwnDataInv /\ [Next]_vars => OwnDataInv'
  <2> SUFFICES ASSUME BrowserTypes, OwnDataInv, [Next]_vars PROVE OwnDataInv'
    OBVIOUS
  <2>1. CASE BrowserNext
    BY <2>1, OwnDataStep DEF BrowserNext
  <2>2. CASE WebviewNext \/ UNCHANGED vars
    BY <2>2 DEF WebviewNext, vars, browserVars, OwnDataInv, UnderWay, Browser!Running,
                OwnData, Browser!OwnData
  <2> QED
    BY <2>1, <2>2 DEF Next
<1>3. OwnDataInv => OwnData
  BY DEF OwnDataInv
<1> QED
  BY <1>1, <1>2, <1>3, BrowserTypesAlways, PTL DEF Spec

-----------------------------------------------------------------------------
(* Who can be answered.  One gpauth runs at a time, and its page can be    *)
(* fetched or has been.                                                    *)
AnswerInv ==
  /\ \A a, b \in Auths : Browser!Running(a) /\ Browser!Running(b) => a = b
  /\ \A a \in Auths : auth[a] = "none" => tab[a] = "closed"
  /\ Answerable

LEMMA AnswerStep ==
  ASSUME ~Overlapping
  PROVE  BrowserTypes /\ AnswerInv /\ Browser!Next => AnswerInv'
<1>0. ASSUME AnswerInv, Browser!Client PROVE AnswerInv'
  BY <1>0 DEF Browser!Client, AnswerInv, Browser!Running, Answerable, Browser!Answerable
<1> SUFFICES ASSUME BrowserTypes, AnswerInv, NEW a \in Auths,
                    \/ Browser!Launch(a) \/ Browser!LaunchFails(a) \/ Browser!WaitFails(a)
                    \/ Browser!Callback(a) \/ Browser!Killed(a) \/ Browser!Step(a)
             PROVE  AnswerInv'
  BY <1>0 DEF Browser!Next
<1> USE DEF BrowserTypes, Browser!TypeOK, AnswerInv, Browser!Running, Answerable, Browser!Answerable
<1>1. CASE Browser!Launch(a)
  BY <1>1 DEF Browser!Launch
<1>2. CASE Browser!LaunchFails(a)
  BY <1>2 DEF Browser!LaunchFails, Browser!Report
<1>3. CASE Browser!Callback(a)
  BY <1>3 DEF Browser!Callback
<1>4. CASE Browser!Killed(a)
  BY <1>4 DEF Browser!Killed
<1>5. CASE Browser!Serve(a)
  <2>1. PICK handedOut \in BOOLEAN, own \in BOOLEAN :
          /\ served' = [served EXCEPT ![a] = IF handedOut THEN @ + 1 ELSE @]
          /\ tab' = [tab EXCEPT ![a] = IF handedOut /\ own /\ @ = "open" THEN "signing" ELSE @]
          /\ url' = [url EXCEPT ![a] = IF handedOut THEN "stopped" ELSE @]
    BY <1>5 DEF Browser!Serve, Browser!Stops
  <2>2. UNCHANGED <<auth, portFile>>
    BY <1>5 DEF Browser!Serve
  <2>3. ASSUME NEW b \in Auths, url[b] = "serving" \/ served[b] > 0
        PROVE  url'[b] = "serving" \/ served'[b] > 0
    BY <2>1, <2>3
  <2>4. ASSUME NEW b \in Auths PROVE tab[b] = "closed" <=> tab'[b] = "closed"
    BY <2>1
  <2> QED
    BY <2>2, <2>3, <2>4
<1>6. CASE Browser!Bind(a)
  BY <1>6 DEF Browser!Bind
<1>7. CASE Browser!WritePort(a)
  BY <1>7 DEF Browser!WritePort
<1>8. CASE Browser!Receive(a) \/ Browser!ReadPort(a) \/ Browser!Feed(a)
  BY <1>8 DEF Browser!Receive, Browser!ReadPort, Browser!Feed
<1>9. CASE Browser!Finish(a)
  BY <1>9 DEF Browser!Finish, Browser!Report
<1>10. CASE Browser!WaitFails(a)
  BY <1>10 DEF Browser!WaitFails, Browser!Report, Browser!Listening
<1> QED
  BY <1>1, <1>2, <1>3, <1>4, <1>5, <1>6, <1>7, <1>8, <1>9, <1>10 DEF Browser!Step

(* Until a gpauth is answered its page is there to be fetched or has been, *)
(* by its tab or another, and the port file names it once it waits: neither *)
(* probes nor the port files of dead ones get in between. The safety half  *)
(* of Answered.                                                            *)
THEOREM AnswerableAlways ==
  ASSUME ~Overlapping
  PROVE  Spec => []Answerable
<1>1. Init => AnswerInv
  BY DEF Init, Browser!Init, AnswerInv, Browser!Running, Answerable, Browser!Answerable
<1>2. BrowserTypes /\ AnswerInv /\ [Next]_vars => AnswerInv'
  <2> SUFFICES ASSUME BrowserTypes, AnswerInv, [Next]_vars PROVE AnswerInv'
    OBVIOUS
  <2>1. CASE BrowserNext
    BY <2>1, AnswerStep DEF BrowserNext
  <2>2. CASE WebviewNext \/ UNCHANGED vars
    BY <2>2 DEF WebviewNext, vars, browserVars, AnswerInv, Browser!Running,
                Answerable, Browser!Answerable
  <2> QED
    BY <2>1, <2>2 DEF Next
<1>3. AnswerInv => Answerable
  BY DEF AnswerInv
<1> QED
  BY <1>1, <1>2, <1>3, BrowserTypesAlways, PTL DEF Spec

-----------------------------------------------------------------------------
(* A raise of the webview that sleeps can be called off.                   *)

(* Whatever tasks are about, the one that can still be called off is the    *)
(* one whose token is stored.                                              *)
LEMMA RevocableStep == Raises /\ RaiseRevocable /\ Webview!Next => RaiseRevocable'
<1> SUFFICES ASSUME Raises, RaiseRevocable, Webview!Next PROVE RaiseRevocable'
  OBVIOUS
<1> USE DEF RaiseRevocable, Webview!RaiseRevocable
<1>1. ASSUME UNCHANGED <<stored, task>> PROVE RaiseRevocable'
  BY <1>1
<1>2. CASE Webview!Started
  <2>1. Webview!TakeToken \/ UNCHANGED <<stored, task>>
    BY <1>2 DEF Webview!Started, Webview!CancelRaise
  <2>2. ASSUME Webview!TakeToken PROVE \A t \in Tasks : task'[t] # "asleep"
    BY <2>2 DEF Webview!TakeToken
  <2> QED
    BY <1>1, <2>1, <2>2
<1>3. CASE Webview!Finished \/ Webview!HtmlRead \/ Webview!TlsFails \/ Webview!UserCloses
  BY <1>1, <1>3
     DEF Webview!Finished, Webview!HtmlRead, Webview!TlsFails, Webview!UserCloses, Webview!raises
<1>4. CASE Webview!FirstTimer
  BY <1>1, <1>4 DEF Webview!FirstTimer
<1>5. ASSUME NEW t \in Tasks, Webview!Wake(t) \/ Webview!CalledOff(t) \/ Webview!SendRaise(t)
      PROVE  RaiseRevocable'
  <2>1. stored' = stored /\ \E to \in {"due", "none"} : task' = [task EXCEPT ![t] = to]
    BY <1>5 DEF Webview!Wake, Webview!CalledOff, Webview!SendRaise
  <2>2. task \in [Tasks -> {"none", "asleep", "off", "due"}]
    BY DEF Raises
  <2> QED
    BY <2>1, <2>2
<1>6. ASSUME NEW r, Webview!End(r) PROVE RaiseRevocable'
  BY <1>6 DEF Webview!End
<1>7. CASE Webview!SetUp \/ Webview!HandleData \/ Webview!HandleClose \/ Webview!HandleTls
  BY <1>1, <1>6, <1>7
     DEF Webview!SetUp, Webview!HandleData, Webview!HandleClose, Webview!HandleTls, Webview!raises
<1>8. CASE Webview!HandleRaise \/ Webview!HandleInvalid \/ Webview!Retried
  BY <1>1, <1>8 DEF Webview!HandleRaise, Webview!HandleInvalid, Webview!Retried, Webview!raises
<1>9. CASE Webview!HandleNotFound
  <2>1. ASSUME NEW t \in Tasks, Webview!MaySchedule, Webview!Schedule(t) PROVE RaiseRevocable'
    <3>1. \A u \in Tasks : task[u] # "asleep"
      BY <2>1 DEF Webview!MaySchedule
    <3>2. stored' = t /\ task' = [task EXCEPT ![t] = "asleep"]
      BY <2>1 DEF Webview!Schedule
    <3> QED
      BY <3>1, <3>2
  <2> QED
    BY <1>1, <1>9, <2>1 DEF Webview!HandleNotFound
<1> QED
  BY <1>2, <1>3, <1>4, <1>5, <1>7, <1>8, <1>9 DEF Webview!Next, Webview!Handle, Webview!Timers

(* A raise that sleeps is called off by the next navigation: no newer task *)
(* ever takes the place of its token, for any number of pages, events that *)
(* wait and tasks that woke or were called off and are not gone yet.       *)
THEOREM RaiseRevocableAlways == Spec => []RaiseRevocable
<1>1. Init => Raises /\ RaiseRevocable
  BY DEF Init, Webview!Init, Raises, RaiseRevocable, Webview!RaiseRevocable
<1>2. Raises /\ RaiseRevocable /\ [Next]_vars => Raises' /\ RaiseRevocable'
  <2> SUFFICES ASSUME Raises, RaiseRevocable, [Next]_vars PROVE Raises' /\ RaiseRevocable'
    OBVIOUS
  <2>1. CASE WebviewNext
    BY <2>1, RaisesStep, RevocableStep DEF WebviewNext
  <2>2. CASE BrowserNext \/ UNCHANGED vars
    BY <2>2 DEF BrowserNext, vars, webviewVars, Raises, RaiseRevocable, Webview!RaiseRevocable
  <2> QED
    BY <2>1, <2>2 DEF Next
<1> QED
  BY <1>1, <1>2, PTL DEF Spec

-----------------------------------------------------------------------------
(* A hidden window has a raise to come.                                    *)

LEMMA RaiseKept ==
  ASSUME Waiting, NEW e, e # "Raise", Webview!Take(e), Webview!Consume,
         \E i \in DOMAIN queue : queue[i] = "Raise"
  PROVE  \E i \in DOMAIN queue' : queue'[i] = "Raise"
<1>1. PICK i \in 1..Len(queue) : queue[i] = "Raise"
  BY DEF Waiting
<1>2. i # 1 /\ Len(queue) \in Nat /\ queue # <<>>
  BY <1>1 DEF Waiting, Webview!Take
<1>3. Len(queue') = Len(queue) - 1 /\ DOMAIN queue' = 1..Len(queue')
  BY <1>2 DEF Waiting, Webview!Consume
<1>4. i - 1 \in 1..Len(queue') /\ queue'[i - 1] = queue[i]
  BY <1>1, <1>2, <1>3 DEF Waiting, Webview!Consume
<1> QED
  BY <1>1, <1>3, <1>4

LEMMA RaiseSent ==
  ASSUME Waiting, NEW e \in Event, Webview!Send(e)
  PROVE  /\ e = "Raise" => \E i \in DOMAIN queue' : queue'[i] = "Raise"
         /\ (\E i \in DOMAIN queue : queue[i] = "Raise") =>
              \E i \in DOMAIN queue' : queue'[i] = "Raise"
<1>1. Len(queue) \in Nat /\ DOMAIN queue = 1..Len(queue)
  BY DEF Waiting
<1>2. DOMAIN queue' = 1..(Len(queue) + 1) /\ queue'[Len(queue) + 1] = e
  BY <1>1 DEF Waiting, Webview!Send
<1>3. \A i \in DOMAIN queue : i \in DOMAIN queue' /\ queue'[i] = queue[i]
  BY <1>1, <1>2 DEF Waiting, Webview!Send
<1> QED
  BY <1>1, <1>2, <1>3

LEMMA RaiseStep == Waiting /\ RaiseToCome /\ Webview!Next => RaiseToCome'
<1> SUFFICES ASSUME Waiting, RaiseToCome, Webview!Next PROVE RaiseToCome'
  OBVIOUS
<1> DEFINE Raise == \E i \in DOMAIN queue : queue[i] = "Raise"
<1>0. main = "ended" \/ window # "hidden" \/ closed \/ first \/ Raise
  BY DEF RaiseToCome, Webview!RaiseToCome
<1>1. ASSUME Raise' PROVE RaiseToCome'
  BY <1>1 DEF RaiseToCome, Webview!RaiseToCome
<1>2. ASSUME main # "ended", UNCHANGED <<window, closed, first>>, Raise => Raise' PROVE RaiseToCome'
  BY <1>0, <1>2, Zenon DEF RaiseToCome, Webview!RaiseToCome
<1>3. ASSUME UNCHANGED <<main, window, closed, first>>, Raise => Raise' PROVE RaiseToCome'
  BY <1>0, <1>3, Zenon DEF RaiseToCome, Webview!RaiseToCome
<1>4. ASSUME NEW e \in Event, Webview!Send(e) PROVE Raise => Raise'
  BY <1>4, RaiseSent
<1>5. ASSUME NEW e, e # "Raise", Webview!Take(e), Webview!Consume PROVE Raise => Raise'
  BY <1>5, RaiseKept
<1>6. ASSUME queue' = queue PROVE Raise => Raise'
  BY <1>6
<1>7. ASSUME Webview!Send("Raise") PROVE Raise'
  BY <1>7, RaiseSent DEF Event
<1> HIDE DEF Raise
<1>8. CASE Webview!Started
  BY <1>3, <1>6, <1>8 DEF Webview!Started, Webview!CancelRaise, Webview!seen
<1>9. CASE Webview!Finished
  BY <1>3, <1>4, <1>6, <1>9, FinishedSends DEF Webview!Finished, Webview!seen, Webview!raises
<1>10. CASE Webview!HtmlRead
  <2>1. Webview!FromHtml(page) \in Event /\ "NotFound" \in Event
    BY DEF Webview!FromHtml, Event
  <2>2. queue' = queue \/ \E e \in Event : Webview!Send(e)
    BY <1>10, <2>1 DEF Webview!HtmlRead
  <2> QED
    BY <1>3, <1>4, <1>6, <1>10, <2>2 DEF Webview!HtmlRead, Webview!seen, Webview!raises
<1>11. CASE Webview!TlsFails
  BY <1>3, <1>4, <1>11 DEF Webview!TlsFails, Webview!seen, Webview!raises, Event
<1>12. CASE Webview!UserCloses
  BY <1>12 DEF Webview!UserCloses, RaiseToCome, Webview!RaiseToCome
<1>13. CASE Webview!FirstTimer
  BY <1>1, <1>7, <1>13 DEF Webview!FirstTimer
<1>14. ASSUME NEW t \in Tasks, Webview!Wake(t) \/ Webview!CalledOff(t) \/ Webview!SendRaise(t)
       PROVE  RaiseToCome'
  BY <1>1, <1>3, <1>6, <1>7, <1>14
     DEF Webview!Wake, Webview!CalledOff, Webview!SendRaise, Webview!seen
<1>15. ASSUME NEW r, Webview!End(r) PROVE RaiseToCome'
  BY <1>15 DEF Webview!End, RaiseToCome, Webview!RaiseToCome
<1>16. CASE Webview!SetUp
  <2>1. ASSUME main = "setup", UNCHANGED <<queue, first, window, closed>> PROVE RaiseToCome'
    BY <1>2, <1>6, <2>1
  <2> QED
    BY <1>15, <1>16, <2>1 DEF Webview!SetUp, Webview!seen, Webview!raises
<1>17. CASE Webview!HandleData \/ Webview!HandleClose \/ Webview!HandleTls
  BY <1>15, <1>17 DEF Webview!HandleData, Webview!HandleClose, Webview!HandleTls
<1>18. CASE Webview!HandleRaise
  <2>1. closed' = closed /\ (closed \/ window' # "hidden")
    BY <1>18 DEF Webview!HandleRaise
  <2> QED
    BY <2>1, Zenon DEF RaiseToCome, Webview!RaiseToCome
<1>19. CASE Webview!HandleNotFound
  BY <1>3, <1>5, <1>19 DEF Webview!HandleNotFound, Webview!seen
<1>20. CASE Webview!HandleInvalid
  <2>1. main = "loop" /\ UNCHANGED <<first, window, closed>>
    BY <1>20 DEF Webview!HandleInvalid, Webview!Take, Webview!seen, Webview!raises
  <2>2. Raise => Raise'
    BY <1>5, <1>20 DEF Webview!HandleInvalid
  <2> QED
    BY <1>2, <2>1, <2>2
<1>21. CASE Webview!Retried
  <2>1. main = "retrying" /\ UNCHANGED <<queue, first, window, closed>>
    BY <1>21 DEF Webview!Retried, Webview!seen, Webview!raises
  <2> QED
    BY <1>2, <1>6, <2>1
<1> QED
  BY <1>8, <1>9, <1>10, <1>11, <1>12, <1>13, <1>14, <1>16, <1>17, <1>18, <1>19, <1>20, <1>21
     DEF Webview!Next, Webview!Handle, Webview!Timers

(* Raises are scheduled, skipped and called off in any number, and events  *)
(* wait behind a prelogin: while nobody tried to raise a hidden window one *)
(* raise is still to come; one that fails was tried. The safety half of    *)
(* HangingShown.                                                           *)
THEOREM RaiseToComeAlways == Spec => []RaiseToCome
<1>1. Init => Waiting /\ RaiseToCome
  BY DEF Init, Webview!Init, Waiting, RaiseToCome, Webview!RaiseToCome
<1>2. Waiting /\ RaiseToCome /\ [Next]_vars => Waiting' /\ RaiseToCome'
  <2> SUFFICES ASSUME Waiting, RaiseToCome, [Next]_vars PROVE Waiting' /\ RaiseToCome'
    OBVIOUS
  <2>1. CASE WebviewNext
    BY <2>1, WaitingStep, RaiseStep DEF WebviewNext
  <2>2. CASE BrowserNext \/ UNCHANGED vars
    <3>1. UNCHANGED <<main, queue, first, window, closed>>
      BY <2>2 DEF BrowserNext, vars, webviewVars
    <3>2. Waiting'
      BY <3>1 DEF Waiting
    <3>3. RaiseToCome'
      BY <3>1, Zenon DEF RaiseToCome, Webview!RaiseToCome
    <3> QED
      BY <3>2, <3>3
  <2> QED
    BY <2>1, <2>2 DEF Next
<1> QED
  BY <1>1, <1>2, PTL DEF Spec

=============================================================================
