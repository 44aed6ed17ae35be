------------------------------- MODULE Pkcs11 -------------------------------
(***************************************************************************)
(* Client certificates on a smart card (crates/gpapi/src/utils/pkcs11.rs): *)
(* every HTTP client opens a session of its own on one process-wide context *)
(* of the PKCS#11 module, which the tunnel's GnuTLS uses as well. What the *)
(* module itself does (slots cached by C_Initialize, a login that belongs  *)
(* to the process and ends with its last session) is external.             *)
(***************************************************************************)
EXTENDS Naturals

CONSTANTS
  Requests,   \* HTTP clients that may be alive together
  Racing,     \* TRUE: a tunnel may be dialled while the context is being built
  None

ASSUME Pkcs11Assumption ==
  Racing \in BOOLEAN /\ None \notin Requests /\ "tunnel" \notin Requests

VARIABLES
  ctx,        \* the OnceLock: "unset", "ok", "error"
  builder,    \* the request inside get_or_init
  scans,      \* C_Initialize calls of ours that scanned the readers
  lib,        \* the module: "off", or who initialised it, "us" or "gnutls"
  sees,       \* its list of slots has the token
  card,       \* the reader: "busy", "ready"
  sessions,   \* open sessions of the process
  login,      \* the token is logged in for the process
  tunnel,     \* GnuTLS uses the token
  pc,         \* where each request is
  pin         \* the PIN it was given

context == <<ctx, builder, scans>>
module == <<lib, sees>>
token == <<sessions, login>>
request == <<pc, pin>>
vars == <<context, module, card, token, tunnel, request>>

Step(r, from, to) == pc[r] = from /\ pc' = [pc EXCEPT ![r] = to]
Fails(r) == pc' = [pc EXCEPT ![r] = "idle"]

Close_LogsOut(s) == sessions' = sessions \ {s} /\ login' = FALSE
\* The session of s is closed: the login ends with the last one.
Close(s) ==
  /\ sessions' = sessions \ {s}
  /\ login' = (login /\ sessions \ {s} # {})

-----------------------------------------------------------------------------
(* The context *)

\* C_Initialize by `who', a no-op on a module that is up.
Initialize(who) ==
  IF lib = "off" THEN lib' = who /\ sees' = (card = "ready") ELSE UNCHANGED module

\* create_pkcs11_client_config up to the context: without a PIN it is over.
Call(r) ==
  /\ Step(r, "idle", "context")
  /\ \E p \in {"right", "wrong"} : pin' = [pin EXCEPT ![r] = p]
  /\ UNCHANGED <<context, module, card, token, tunnel>>

\* get_or_init returns what was cached: an error stays one for good.
Cached(r) ==
  /\ pc[r] = "context" /\ ctx # "unset"
  /\ IF ctx = "ok" THEN Step(r, "context", "slots") ELSE Fails(r)
  /\ UNCHANGED <<context, module, card, token, tunnel, pin>>

\* The result of get_or_init is set, and this request goes on.
Set(r, value) ==
  /\ ctx' = value /\ builder' = None
  /\ pc' = [pc EXCEPT ![r] = "context"]

WeInitialized_Always == TRUE
\* Whether it is our C_Initialize that brings the module up.
WeInitialized == lib = "off"

\* build_pkcs11_context in init_pkcs11_context, the others wait: no module, a
\* module that does not initialise, one that is already up, or our own.
Build(r) ==
  /\ pc[r] = "context" /\ ctx = "unset" /\ builder = None
  /\ \/ Set(r, "error") /\ UNCHANGED <<module, scans>>
     \/ /\ Initialize("us")
        /\ scans' = IF lib = "off" THEN 1 ELSE 0
        /\ IF WeInitialized THEN Step(r, "context", "built") /\ builder' = r /\ UNCHANGED ctx
           ELSE Set(r, "ok")
  /\ UNCHANGED <<card, token, tunnel, pin>>

Rescan_IfUnread(error) == error
\* No slot has a token, or the slots cannot be read.
Rescan(error) == error \/ ~sees

\* The slots decide whether the module is dropped and built again.
LookForToken(r) ==
  /\ pc[r] = "built"
  /\ \E error \in BOOLEAN :
     IF Rescan(error) THEN Step(r, "built", "drop") /\ UNCHANGED context
     ELSE Set(r, "ok") /\ UNCHANGED scans
  /\ UNCHANGED <<module, card, token, tunnel, pin>>

\* drop: C_Finalize, which ends every session of the process.
Drop(r) ==
  /\ Step(r, "drop", "dropped")
  /\ lib' = "off" /\ sees' = FALSE
  /\ sessions' = {} /\ login' = FALSE
  /\ UNCHANGED <<context, card, tunnel, pin>>

\* The second build_pkcs11_context: whatever its scan has seen is kept.
Rebuild(r) ==
  /\ pc[r] = "dropped"
  /\ \/ Set(r, "error") /\ UNCHANGED <<module, scans>>
     \/ /\ Initialize("us")
        /\ scans' = IF lib = "off" THEN 2 ELSE scans
        /\ Set(r, "ok")
  /\ UNCHANGED <<card, token, tunnel, pin>>

-----------------------------------------------------------------------------
(* One client *)

\* The first slot whose token has the label of the URI, and a session on it.
OpenSession(r) ==
  /\ IF sees THEN Step(r, "slots", "opened") /\ sessions' = sessions \cup {r}
     ELSE pc[r] = "slots" /\ Fails(r) /\ UNCHANGED sessions
  /\ UNCHANGED <<context, module, card, login, tunnel, pin>>

\* C_Login: UserAlreadyLoggedIn counts as success, whatever the PIN.
Accepts(r) == login \/ pin[r] = "right"

\* Any other error (a wrong or locked PIN, the device) ends the call and drops the
\* session.
Login(r) ==
  /\ \/ Step(r, "opened", "loggedIn") /\ Accepts(r) /\ login' = TRUE /\ UNCHANGED sessions
     \/ pc[r] = "opened" /\ Fails(r) /\ Close(r)
  /\ UNCHANGED <<context, module, card, tunnel, pin>>

\* The certificate, its value, the private key and its type; an object that is missing
\* or of an unsupported type ends the call and drops the session.
FindObjects(r) ==
  /\ \/ Step(r, "loggedIn", "ready") /\ UNCHANGED token
     \/ pc[r] = "loggedIn" /\ Fails(r) /\ Close(r)
  /\ UNCHANGED <<context, module, card, tunnel, pin>>

\* The handshake: the resolver's key signs with the first scheme it shares with the
\* server, or the client sends no signature.
Sign(r) ==
  /\ Step(r, "ready", "sent")
  /\ UNCHANGED <<context, module, card, token, tunnel, pin>>

\* The HTTP client is dropped at the end of the call that built it.
DropClient(r) ==
  /\ pc[r] \in {"ready", "sent"} /\ pc' = [pc EXCEPT ![r] = "idle"]
  /\ Close(r)
  /\ UNCHANGED <<context, module, card, tunnel, pin>>

-----------------------------------------------------------------------------
(* The others on the token *)

\* openconnect is given pkcs11: URIs; its GnuTLS initialises the module itself and
\* gets a session if the token is there and the PIN is right.
TunnelStarts ==
  /\ ~tunnel /\ (Racing \/ builder = None)
  /\ Initialize("gnutls")
  /\ \/ /\ sees' /\ tunnel' = TRUE
        /\ sessions' = sessions \cup {"tunnel"} /\ login' = TRUE
     \/ UNCHANGED <<tunnel, token>>
  /\ UNCHANGED <<context, card, request>>

TunnelEnds ==
  /\ tunnel /\ tunnel' = FALSE
  /\ Close("tunnel")
  /\ UNCHANGED <<context, module, card, request>>

\* Another process takes or leaves the reader.
Contend ==
  /\ card' = IF card = "busy" THEN "ready" ELSE "busy"
  /\ UNCHANGED <<context, module, token, tunnel, request>>

Init ==
  /\ ctx = "unset" /\ builder = None /\ scans = 0
  /\ lib = "off" /\ sees = FALSE /\ card \in {"busy", "ready"}
  /\ sessions = {} /\ login = FALSE /\ tunnel = FALSE
  /\ pc = [r \in Requests |-> "idle"]
  /\ pin = [r \in Requests |-> "right"]

Proceed(r) ==
  \/ Cached(r) \/ Build(r) \/ LookForToken(r) \/ Drop(r) \/ Rebuild(r)
  \/ OpenSession(r) \/ Login(r) \/ FindObjects(r)

Next ==
  \/ \E r \in Requests : Call(r) \/ Proceed(r) \/ Sign(r) \/ DropClient(r)
  \/ TunnelStarts \/ TunnelEnds \/ Contend

Spec == Init /\ [][Next]_vars

-----------------------------------------------------------------------------
(* Properties *)

\* Types, and the builder is the request inside get_or_init.
TypeOK ==
  /\ ctx \in {"unset", "ok", "error"} /\ builder \in Requests \cup {None} /\ scans \in 0..2
  /\ lib \in {"off", "us", "gnutls"} /\ sees \in BOOLEAN /\ card \in {"busy", "ready"}
  /\ sessions \subseteq Requests \cup {"tunnel"} /\ login \in BOOLEAN /\ tunnel \in BOOLEAN
  /\ pc \in [Requests -> {"idle", "context", "built", "drop", "dropped", "slots", "opened",
                          "loggedIn", "ready", "sent"}]
  /\ pin \in [Requests -> {"right", "wrong"}]
  /\ \A r \in Requests : builder = r <=> pc[r] \in {"built", "drop", "dropped"}

\* "the finalise never tears the module out from under GnuTLS" (pkcs11.rs 322): a
\* tunnel keeps its session however logins come and go beside it.
NeverTornAway == tunnel => lib # "off" /\ "tunnel" \in sessions

\* A client that has got past the login can sign until it is dropped, although its
\* login is shared with sessions that others close at any time.
ReadyMeansLoggedIn ==
  \A r \in Requests : pc[r] \in {"loggedIn", "ready", "sent"} => r \in sessions /\ login

\* A module that we brought up and that sees no token was scanned twice before the
\* context was cached for good (pkcs11.rs 309).
ScannedTwice == (ctx = "ok" /\ lib = "us" /\ ~sees) => scans = 2

=============================================================================
