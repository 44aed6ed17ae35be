---------------------------- MODULE WebviewSignIn ----------------------------
(***************************************************************************)
(* SAML sign-in in an embedded window (crates/auth/src/webview): the pages *)
(* the webview loads, its response and TLS signals, timers and the window  *)
(* button send events to one unbounded channel; authenticate reads them one *)
(* after the other and shows the window only when the user is needed.      *)
(***************************************************************************)
EXTENDS Naturals, Sequences

CONSTANTS
  Tasks,       \* bound: scheduled raises alive at a time
  MaxPages,    \* bound: pages loaded in one sign-in
  MaxQueue,    \* bound: events that wait in the channel
  None

VARIABLES
  main,      \* authenticate: "setup", "loop", "retrying" (inside retry_auth), "ended"
  result,    \* what it returned: None, "data", "cancelled", "tls", "error"
  page,      \* the page in the webview: "blank", "form", "good", "bad"
  loading,   \* it has started and not finished loading
  reads,     \* get_html callbacks that have yet to run
  pages,     \* pages loaded so far
  queue,     \* the channel of AuthMessenger
  first,     \* the RaiseWindow task of setup_auth_window sleeps
  stored,    \* whose token is in raise_window_cancel_token
  task,      \* the scheduled ones: "none", "asleep", "off" (asleep, its token
             \* cancelled), "due" (about to send); all but "asleep" are cancelled
  window,    \* "hidden", "shown", "unraised" (hidden still, a raise having failed)
  closed     \* the user has closed it

vars == <<main, result, page, loading, reads, pages, queue, first, stored, task, window, closed>>
browser == <<page, loading, reads, pages>>
raises == <<first, stored, task>>
seen == <<window, closed>>

Room == Len(queue) < MaxQueue
Send(event) == queue' = Append(queue, event)

\* read_from_html: what the document gives, auth data, a bad status or nothing.
FromHtml(p) == CASE p = "good" -> "Data" [] p = "bad" -> "Invalid" [] OTHER -> "NotFound"

\* read_from_response: no SAML header, data in the headers, or a header whose data
\* is not valid, which is left to the body; a page that failed has no URI.
FromHeaders(p) ==
  CASE p = "good" -> {<<"Data">>, <<"NotFound">>}
    [] p = "bad" -> {<<>>, <<"NotFound">>}
    [] OTHER -> {<<"NotFound">>, <<"Invalid">>}

-----------------------------------------------------------------------------
(* The webview *)

Take(event) == main = "loop" /\ queue # <<>> /\ Head(queue) = event

TakeToken ==
  /\ stored' = None
  /\ task' = [t \in Tasks |-> IF t = stored /\ task[t] = "asleep" THEN "off" ELSE task[t]]

CancelRaise_First == TakeToken /\ first' = FALSE
\* cancel_raise_window takes the token and cancels it, unless schedule_raise_window
\* holds the lock; the first task has none.
CancelRaise ==
  /\ TakeToken \/ (Take("NotFound") /\ UNCHANGED <<stored, task>>)
  /\ UNCHANGED first

\* PageLoadEvent::Started: the page is read now and again when it has finished. The
\* window is built with a page of its own.
Started ==
  /\ main # "ended" /\ ~loading /\ pages < MaxPages
  /\ page' \in IF main = "setup" THEN {"blank"} ELSE {"form", "good", "bad"}
  /\ loading' = TRUE /\ pages' = pages + 1 /\ reads' = reads + 1
  /\ CancelRaise
  /\ UNCHANGED <<main, result, queue, seen>>

\* PageLoadEvent::Finished, and LoadEvent::Finished once on_response is connected.
Finished ==
  /\ main # "ended" /\ loading /\ Room
  /\ loading' = FALSE /\ reads' = reads + 1
  /\ \E events \in IF main = "setup" THEN {<<>>} ELSE FromHeaders(page) :
       queue' = queue \o events
  /\ UNCHANGED <<main, result, page, pages, raises, seen>>

\* The callback of get_html gets the document as it is by then; while it loads it
\* may still be empty, and the script may fail.
HtmlRead ==
  /\ main # "ended" /\ reads > 0 /\ Room
  /\ reads' = reads - 1
  /\ \/ Send(FromHtml(page))
     \/ loading /\ Send("NotFound")
     \/ UNCHANGED queue
  /\ UNCHANGED <<main, result, page, loading, pages, raises, seen>>

\* connect_load_failed_with_tls_errors.
TlsFails ==
  /\ main \in {"loop", "retrying"} /\ loading /\ Room
  /\ loading' = FALSE
  /\ Send("Tls")
  /\ UNCHANGED <<main, result, page, reads, pages, raises, seen>>

\* The user closes the window: WindowEvent::CloseRequested.
UserCloses ==
  /\ window = "shown" /\ main # "ended" /\ Room
  /\ closed' = TRUE /\ window' = "hidden"
  /\ Send("Close")
  /\ UNCHANGED <<main, result, browser, raises>>

-----------------------------------------------------------------------------
(* The raises that sleep *)

\* The task of setup_auth_window, ten seconds after the window was built.
FirstTimer ==
  /\ first /\ Room
  /\ first' = FALSE
  /\ Send("Raise")
  /\ UNCHANGED <<main, result, browser, stored, task, seen>>

\* A scheduled task cancels its own token, so that another one can follow. When it
\* was called off as its sleep ended, select! takes either branch.
Wake(t) ==
  /\ task[t] \in {"asleep", "off"}
  /\ task' = [task EXCEPT ![t] = "due"]
  /\ UNCHANGED <<main, result, browser, queue, first, stored, seen>>

\* The other branch.
CalledOff(t) ==
  /\ task[t] = "off"
  /\ task' = [task EXCEPT ![t] = "none"]
  /\ UNCHANGED <<main, result, browser, queue, first, stored, seen>>

\* Nothing can call it off between its token and its event.
SendRaise(t) ==
  /\ task[t] = "due" /\ Room
  /\ task' = [task EXCEPT ![t] = "none"]
  /\ Send("Raise")
  /\ UNCHANGED <<main, result, browser, first, stored, seen>>

Timers == FirstTimer \/ \E t \in Tasks : Wake(t) \/ CalledOff(t) \/ SendRaise(t)

-----------------------------------------------------------------------------
(* authenticate *)

\* The messenger goes, and what the tasks that are left send goes nowhere.
End(r) ==
  /\ main' = "ended" /\ result' = r
  /\ queue' = <<>> /\ first' = FALSE /\ stored' = None
  /\ task' = [t \in Tasks |-> "none"]
  /\ window' = "hidden"
  /\ UNCHANGED <<browser, closed>>

Consume == queue' = Tail(queue)

\* setup_auth_window from its prelogin to its end: on_response is connected and the
\* auth request loaded, or an error ends the sign-in. Events wait until then.
SetUp ==
  /\ main = "setup"
  /\ \/ /\ main' = "loop"
        /\ page' = "form" /\ loading' = FALSE
        /\ UNCHANGED <<result, reads, pages, queue, raises, seen>>
     \/ End("error")

\* Closing the window may fail.
HandleData == Take("Data") /\ (End("data") \/ End("error"))
HandleClose == Take("Close") /\ End("cancelled")
HandleTls == Take("Tls") /\ End("tls")

\* raise_window: a raise that fails is only logged.
HandleRaise ==
  /\ Take("Raise") /\ Consume
  /\ window' \in IF window = "shown" \/ closed THEN {window} ELSE {"shown", "unraised"}
  /\ UNCHANGED <<main, result, browser, raises, closed>>

MaySchedule_Always == TRUE
\* schedule_raise_window returns while the task of the last token is on its way.
MaySchedule == \A t \in Tasks : stored = t => task[t] # "asleep"

Schedule(t) ==
  /\ task[t] = "none"
  /\ task' = [task EXCEPT ![t] = "asleep"] /\ stored' = t

\* handle_not_found. A page that starts to load holds the lock for a moment.
HandleNotFound ==
  /\ Take("NotFound") /\ Consume
  /\ \/ window # "shown" /\ MaySchedule /\ \E t \in Tasks : Schedule(t)
     \/ /\ window = "shown" \/ ~MaySchedule \/ loading \/ \A t \in Tasks : task[t] # "none"
        /\ UNCHANGED <<stored, task>>
  /\ UNCHANGED <<main, result, browser, first, seen>>

\* retry_auth up to its prelogin; events queue up behind it.
HandleInvalid ==
  /\ Take("Invalid") /\ Consume
  /\ main' = "retrying"
  /\ UNCHANGED <<result, browser, raises, seen>>

\* retry_auth_impl has its answer: the new auth request replaces the page, or not;
\* an error, a closed window included, is only logged.
Retried ==
  /\ main = "retrying"
  /\ main' = "loop"
  /\ \/ page' = "form" /\ loading' = FALSE /\ UNCHANGED <<reads, pages>>
     \/ UNCHANGED browser
  /\ UNCHANGED <<result, queue, raises, seen>>

\* The window is built, visible with --clean, and its first task spawned.
Init ==
  /\ main = "setup" /\ result = None
  /\ page = "blank" /\ loading = FALSE /\ reads = 0 /\ pages = 0
  /\ queue = <<>>
  /\ first = TRUE /\ stored = None /\ task = [t \in Tasks |-> "none"]
  /\ window \in {"hidden", "shown"} /\ closed = FALSE

Handle == HandleData \/ HandleClose \/ HandleTls \/ HandleRaise \/ HandleNotFound \/ HandleInvalid

Next ==
  \/ Started \/ Finished \/ HtmlRead \/ TlsFails \/ UserCloses
  \/ Timers \/ SetUp \/ Handle \/ Retried

\* Nothing bounds the prelogin of SetUp and Retried.
Fairness == WF_vars(Handle) /\ WF_vars(FirstTimer)

-----------------------------------------------------------------------------
(* Properties *)

TypeOK ==
  /\ main \in {"setup", "loop", "retrying", "ended"}
  /\ result \in {None, "data", "cancelled", "tls", "error"}
  /\ page \in {"blank", "form", "good", "bad"}
  /\ loading \in BOOLEAN /\ reads \in 0..2 * MaxPages /\ pages \in 0..MaxPages
  /\ queue \in Seq({"Data", "Invalid", "NotFound", "Tls", "Close", "Raise"}) /\ Len(queue) <= MaxQueue
  /\ first \in BOOLEAN /\ stored \in Tasks \cup {None}
  /\ task \in [Tasks -> {"none", "asleep", "off", "due"}]
  /\ window \in {"hidden", "shown", "unraised"} /\ closed \in BOOLEAN

\* Navigating can call off every raise that sleeps: tasks that woke, were called off
\* or have yet to notice may be about in any number, but the one still to come is
\* the one whose token is stored. Otherwise the window comes up over a page that
\* needs nobody.
RaiseRevocable == \A t \in Tasks : task[t] = "asleep" => stored = t

\* What HangingShown rests on: while nobody tried to raise a hidden window there is
\* a raise that nothing calls off, the one of the first task, however many others were.
RaiseToCome ==
  main = "ended" \/ window # "hidden" \/ closed \/ first
  \/ \E i \in DOMAIN queue : queue[i] = "Raise"

\* "so that the user can see the window if the auth process is stuck"
\* (webview_auth.rs 178): a webview that brings no data is raised in the end,
\* whichever events got lost, were skipped or called off, if the window system lets
\* it, unless the process is stuck in a prelogin of its own.
HangingShown ==
  \/ <>[](main \in {"setup", "retrying"})
  \/ []<>(window # "hidden" \/ closed \/ main = "ended")

=============================================================================
