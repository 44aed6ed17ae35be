------------------------------- MODULE SignIn -------------------------------
(***************************************************************************)
(* SAML sign-in as its callers see it: authenticate of either              *)
(* authenticator.  kind says which one this sign-in uses.                  *)
(***************************************************************************)
EXTENDS Naturals

CONSTANTS Auths, Overlapping, TabsStayOpen, Tasks, MaxPages, MaxQueue, None

ASSUME SignInAssumption ==
  /\ None \notin Auths \cup Tasks \cup {"started"} /\ Overlapping \in BOOLEAN /\ TabsStayOpen \in BOOLEAN
  /\ MaxPages \in Nat \ {0} /\ MaxQueue \in Nat \ {0}

VARIABLES
  kind,
  auth, url, served, tab, portFile, handler, socket, result, barred,
  main, outcome, page, loading, reads, pages, queue, first, stored, task, window, closed

Browser == INSTANCE BrowserSignIn
Webview == INSTANCE WebviewSignIn WITH result <- outcome

browserVars == <<auth, url, served, tab, portFile, handler, socket, result, barred>>
webviewVars == <<main, outcome, page, loading, reads, pages, queue, first, stored, task, window, closed>>
vars == <<kind, browserVars, webviewVars>>

Init == kind \in {"browser", "webview"} /\ Browser!Init /\ Webview!Init

BrowserNext == kind = "browser" /\ Browser!Next /\ UNCHANGED <<kind, webviewVars>>
WebviewNext == kind = "webview" /\ Webview!Next /\ UNCHANGED <<kind, browserVars>>
Next == BrowserNext \/ WebviewNext

Spec == Init /\ [][Next]_vars
FairSpec ==
  /\ Spec
  /\ (kind = "browser") => Browser!Fairness
  /\ (kind = "webview") => Webview!Fairness

-----------------------------------------------------------------------------
\* One type invariant for both authenticators.
TypeOK == Browser!TypeOK /\ Webview!TypeOK
\* The auth URL is "only valid for a single use" (browser_auth.rs 85).
ServedOnce == Browser!ServedOnce
\* No tab feeds another's gpauth when sign-ins neither overlap nor leave tabs open.
OwnData == Browser!OwnData
\* The browser's callback reaches the gpauth that waits for it.
Answerable == Browser!Answerable
\* A gpauth whose browser was opened is answered, whatever races with the port file,
\* unless its page went to somebody else or a connected client bars its callback.
Answered == kind = "browser" => Browser!Answered
\* Navigating can call off every raise of the window that sleeps.
RaiseRevocable == Webview!RaiseRevocable
\* A hidden window that nobody tried to raise has a raise to come.
RaiseToCome == Webview!RaiseToCome
\* A sign-in in the webview that brings nothing is raised, once its prelogin is back.
HangingShown == kind = "webview" => Webview!HangingShown
=============================================================================
