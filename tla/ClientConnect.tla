--------------------------- MODULE ClientConnect ---------------------------
(***************************************************************************)
(* `gpclient connect`: the log-in of one command, and of the commands the  *)
(* user starts after it (apps/gpclient/src/connect.rs), with the exchanges *)
(* of the portal and gateway clients (crates/gpapi) it is made of and the  *)
(* cookie cache that outlives a command.                                   *)
(*                                                                         *)
(* One handler runs at a time.  flow names the function that is running:   *)
(*   cached    try_cached_cookie                                           *)
(*   portal    connect_portal_with_prelogin                                *)
(*   nested    connect_gateway_with_prelogin, called by `portal'           *)
(*   fallback  the same, called by handle_impl after a PortalError         *)
(*   direct    the same, called by handle_impl for --as-gateway            *)
(* and pc the exchange or prompt it has reached.  The servers and the user *)
(* are the environment: they give every answer they can give.              *)
(***************************************************************************)
EXTENDS Naturals, Sequences, SequencesExt, FiniteSetsExt

CONSTANTS
  Servers,       \* the names a user gives on the command line
  Arguments,     \* the combinations of options a user gives
  PortalConfigs, \* what a portal config says of gateways: lists, None where absent
  Regions,       \* the regions a prelogin answer can name
  Wanted,        \* the value of --gateway, when it is given
  Challenges,    \* the inputStr values of the challenges a server can send
  None,          \* Option::None
  MaxPriority,   \* u32::MAX, the priority of a rule that states none
  MaxCommands    \* bound: the commands started one after another

\* parse_gateways: entries whose priorities, and those of their rules, are u32.
IsGatewayList(gs) ==
  /\ gs \in Seq(ToSet(gs))
  /\ \A i \in DOMAIN gs :
       /\ gs[i].priority \in 0..MaxPriority
       /\ gs[i].rules \in Seq(ToSet(gs[i].rules))
       /\ \A j \in DOMAIN gs[i].rules : gs[i].rules[j].priority \in 0..MaxPriority

ASSUME ClientConnectAssumption ==
  /\ None \notin Servers \cup Challenges
  /\ MaxPriority \in Nat /\ MaxCommands \in Nat \ {0}
  /\ Arguments \subseteq [asGateway : BOOLEAN, noCache : BOOLEAN,
                          stdin : {"none", "cookie", "password"},
                          cert : {"none", "encrypted", "bare", "p12"},
                          key : {"none", "right", "wrong"},
                          pick : BOOLEAN]

ASSUME GatewayListAssumption ==
  \A config \in PortalConfigs : \A gs \in {config.internal, config.external} :
    gs # None => IsGatewayList(gs)

VARIABLES
  pc,         \* the exchange or prompt the handler is at
  flow,       \* the function that runs it
  args,       \* the command's options
  server,     \* the command's server
  target,     \* the host the running exchange is with
  cred,       \* the credential of the running exchange
  mfa,        \* input_str of its cloned GpParams; otp is the code typed for it
  challenge,  \* the challenge the target waits to have answered
  keyPass,    \* latest_key_password
  stdin,      \* [read, kept, by]: lines taken from standard input, whether one is
              \* remembered, and the server that had asked for it
  region,     \* the region the portal's prelogin answered, until the choice
  offered,    \* the gateways of the portal config, in its order, until the choice
  menu,       \* the gateways as they are shown to the user
  cache,      \* the cookie file; stuck: it was to be removed and could not
  signIns,    \* credentials obtained since handle_impl was entered
  failed,     \* cookies whose log-in from the cache has failed
  command     \* the number of the command

vars == <<pc, flow, args, server, target, cred, mfa, challenge, keyPass, stdin,
          region, offered, menu, cache, signIns, failed, command>>
exchange == <<cred, mfa, challenge>>
constantOfRun == <<args, server, command>>

-----------------------------------------------------------------------------
(* The gateway list *)

Matches(rule, r) == rule.name = r \/ rule.name = "Any"

Preferred_Unruled(gs, r) ==
  gs[Min({i \in DOMAIN gs : \A j \in DOMAIN gs : gs[i].priority <= gs[j].priority})]

\* The state of a `for' loop after its n-th pass: step maps a pass and the state
\* before it to the state after it.
Loop(n, start, step) ==
  LET after[k \in 0..n] == IF k = 0 THEN start ELSE step[<<k, after[k - 1]>>]
  IN  after[n]

\* preferred_gateway (0 for Option::None) and lowest_region_priority.
Bests(gs) == [index : 0..Len(gs), priority : 0..MaxPriority]
NoBest == [index |-> 0, priority |-> MaxPriority]

\* The loops of find_preferred_gateway: every rule of every gateway in order, a
\* strictly lower priority than the best one seen takes over.
Better(best, i, rule, r) ==
  IF Matches(rule, r) /\ rule.priority < best.priority
  THEN [index |-> i, priority |-> rule.priority] ELSE best
ScanRules(gs, r, i, best) ==
  Loop(Len(gs[i].rules), best,
       [x \in (1..Len(gs[i].rules)) \X Bests(gs) |-> Better(x[2], i, gs[i].rules[x[1]], r)])
ScanGateways(gs, r) ==
  Loop(Len(gs), NoBest, [x \in (1..Len(gs)) \X Bests(gs) |-> ScanRules(gs, r, x[1], x[2])])

Preferred(gs, r) ==
  LET best == ScanGateways(gs, r).index
  IN  IF best # 0 THEN gs[best]
      ELSE gs[Min({i \in DOMAIN gs : \A j \in DOMAIN gs : gs[i].priority <= gs[j].priority})]

\* sort_gateways finds the preferred gateway again by its name and swaps it with
\* the first one.
Sorted(gs, r) ==
  LET i == SelectInSeq(gs, LAMBDA g : g.name = Preferred(gs, r).name)
  IN  [gs EXCEPT ![1] = gs[i], ![i] = gs[1]]

\* find_gateway: the first gateway with that name or address.
Named(gs, wanted) == SelectSeq(gs, LAMBDA g : wanted \in {g.name, g.address})

-----------------------------------------------------------------------------
(* Credentials and forms *)

FromStdin ==
  \/ pc \in {"saml", "standard"} /\ args.stdin = "cookie"
  \/ pc = "standard" /\ args.stdin = "password"

\* A credential, where it comes from and the server that had asked for it: the line
\* of standard input keeps its server, whoever is given it now.
TypedCred(kind) == [kind |-> kind, from |-> "user", by |-> target, command |-> command]
StdinCred(kind) == [kind |-> kind, from |-> "stdin", by |-> stdin'.by, command |-> command]
CookieCred(portal, n) == [kind |-> "authcookie", from |-> "portal", by |-> portal, command |-> n]
CookieFile(portal, gateway, cookie, stuck) ==
  [server |-> portal, gateway |-> gateway, cookie |-> cookie, stuck |-> stuck]

\* Credential::to_params: which parameter carries the secret.
CredParams(c) ==
  [passwd |-> IF c.kind = "password" THEN c ELSE None,
   prelogin_cookie |-> IF c.kind = "prelogin" THEN c ELSE None,
   portal_userauthcookie |-> IF c.kind = "authcookie" THEN c ELSE None]

\* GpParams::to_params: an OTP goes into passwd, and inputStr is always sent.
MfaParams(input) ==
  IF input = None THEN [inputStr |-> None]
  ELSE [inputStr |-> input, passwd |-> [code |-> input]]

\* The form of a log-in or getconfig request: the parameters of GpParams extend,
\* and so override, those of the credential.
LoginForm(c, input) ==
  LET over == MfaParams(input)
      base == CredParams(c)
  IN  [p \in (DOMAIN over) \cup (DOMAIN base) |-> IF p \in DOMAIN over THEN over[p] ELSE base[p]]

\* create_identity: what building the HTTP client makes of the key.
Identity(cert, pass) ==
  CASE cert = "bare" -> "NoKey"
    [] cert \in {"encrypted", "p12"} /\ pass = "none" -> "NoPassphrase"
    [] cert = "encrypted" /\ pass = "wrong" -> "DecryptError"
    [] cert = "p12" /\ pass = "wrong" -> "Other"
    [] OTHER -> "Ok"

ClientError == Identity(args.cert, keyPass)
HasClient == ClientError = "Ok"

-----------------------------------------------------------------------------
(* Control flow *)

BeginExchange_Shared(p, f, host, c) ==
  /\ pc' = p /\ flow' = f /\ target' = host /\ cred' = c
  /\ challenge' = None /\ UNCHANGED mfa

\* A fresh exchange: the GpParams are cloned, so an earlier answer is not in them.
BeginExchange(p, f, host, c) ==
  /\ pc' = p /\ flow' = f /\ target' = host /\ cred' = c
  /\ mfa' = None /\ challenge' = None

BeginPrelogin(f, host) == BeginExchange("prelogin", f, host, None)

\* What handle does with the error of handle_impl.
Return(err) ==
  /\ pc' = IF err \in {"NoPassphrase", "DecryptError"} THEN "passphrase" ELSE "exited"
  /\ UNCHANGED <<flow, target, exchange>>

PortalFlowError_Any(err) == BeginPrelogin("fallback", server)

\* An error of the portal workflow, the nested gateway workflow included: a
\* PortalError is taken to say that the server is a gateway.
PortalFlowError(err) ==
  IF err = "PortalError" THEN BeginPrelogin("fallback", server) ELSE Return(err)

Propagate_Anywhere(err) == PortalFlowError(err)

\* The `?' of an exchange other than the gateway log-in.
Propagate(err) ==
  IF flow \in {"portal", "nested"} THEN PortalFlowError(err) ELSE Return(err)

Cached_AnyServer == cache # None

\* cookie_store::load.
Cached == cache # None /\ cache.server = server

\* handle_impl up to its first exchange.
HandleImpl ==
  /\ pc = "begin"
  /\ signIns' = 0
  /\ IF args.asGateway THEN BeginPrelogin("direct", server)
     ELSE IF ~args.noCache /\ args.stdin # "cookie" /\ Cached
     THEN BeginExchange("login", "cached", cache.gateway, cache.cookie)
     ELSE BeginPrelogin("portal", server)
  /\ UNCHANGED <<constantOfRun, keyPass, stdin, region, offered, menu, cache, failed>>

\* prelogin: a 404, an unreadable or an unsuccessful answer is a PortalError;
\* another status error and a network error (whose root cause is reqwest's) are not.
Prelogin ==
  /\ pc = "prelogin"
  /\ \/ /\ ~HasClient /\ Propagate(ClientError) /\ UNCHANGED region
     \/ /\ HasClient
        /\ \E err \in {"PortalError", "Other"} : Propagate(err)
        /\ UNCHANGED region
     \/ /\ HasClient
        /\ region' \in IF flow = "portal" THEN Regions ELSE {None}
        /\ \E method \in {"saml", "standard"} : pc' = method
        /\ UNCHANGED <<flow, target, exchange>>
  /\ UNCHANGED <<constantOfRun, keyPass, stdin, offered, menu, cache, signIns, failed>>

\* Where the workflow goes with the credential.
WithCredential(c) ==
  BeginExchange(IF flow = "portal" THEN "config" ELSE "login", flow, target, c)

TakeStdin_Again == stdin' = [read |-> stdin.read + 1, kept |-> TRUE, by |-> target]

\* read_cookie_from_stdin and the stdin half of obtain_password: the line is kept
\* for the next time.
TakeStdin ==
  IF stdin.kept THEN UNCHANGED stdin
  ELSE stdin' = [read |-> stdin.read + 1, kept |-> TRUE, by |-> target]

\* obtain_credential.  The cookie of standard input may be unreadable, the
\* authentication helper may fail and a prompt may be cancelled.
ObtainCredential ==
  /\ pc \in {"saml", "standard"}
  /\ signIns' = signIns + 1
  /\ IF FromStdin THEN TakeStdin ELSE UNCHANGED stdin
  /\ \/ LET kind == IF pc = "saml" \/ args.stdin = "cookie" THEN "prelogin" ELSE "password"
        IN  WithCredential(IF FromStdin THEN StdinCred(kind) ELSE TypedCred(kind))
     \/ Propagate("Other")
  /\ UNCHANGED <<constantOfRun, keyPass, region, offered, menu, cache, failed>>

\* The MFA arm shared by retrieve_portal_config and login_gateway: prompt for the
\* code and put it, with the inputStr of the challenge, into the cloned params.
AnswerChallenge ==
  /\ pc \in {"config", "login"}
  /\ HasClient
  /\ \E c \in Challenges \ {challenge} : challenge' = c /\ mfa' = c
  /\ UNCHANGED <<pc, flow, target, cred, constantOfRun, keyPass, stdin, region,
                 offered, menu, cache, signIns, failed>>

\* parse_gateways: the internal list inside the network, when there is one, else
\* the external list.
GatewayList(config) ==
  IF config.inside /\ config.internal # None THEN config.internal ELSE config.external

\* retrieve_config: no list and an empty list stand for the portal itself.
OrThePortal(gs) ==
  IF gs \in {None, <<>>}
  THEN << [name |-> server, address |-> server, priority |-> MaxPriority, rules |-> <<>>] >>
  ELSE gs

\* The choice before the prompt: --gateway looks the gateway up, otherwise the
\* list is sorted for the region.
Menu(gs) == IF args.pick THEN Named(gs, Wanted) ELSE Sorted(gs, region)

\* retrieve_config answered with a config.
PortalConfig ==
  /\ pc = "config"
  /\ \E config \in PortalConfigs :
       /\ offered' = OrThePortal(GatewayList(config))
       /\ menu' = Menu(offered')
  /\ IF menu' = <<>> THEN Propagate("Other")
     ELSE pc' = "choose" /\ UNCHANGED <<flow, target, exchange>>
  /\ UNCHANGED <<constantOfRun, keyPass, stdin, region, cache, signIns, failed>>

\* retrieve_config failed, or the prompt for the code was cancelled.
PortalConfigFails ==
  /\ pc = "config"
  /\ \E err \in {"PortalError", "Other"} : Propagate(err)
  /\ UNCHANGED <<constantOfRun, keyPass, stdin, region, offered, menu, cache, signIns, failed>>

\* The gateway is chosen, the portal's cookie is saved for the next command (or
\* cannot be) and is what the gateway log-in starts with.
ChooseGateway ==
  /\ pc = "choose"
  /\ \E i \in IF args.pick THEN {1} ELSE DOMAIN menu :
       /\ BeginExchange("login", "portal", menu[i].address, CookieCred(server, command))
       /\ \/ UNCHANGED cache
          \/ /\ ~args.noCache
             /\ cache' = CookieFile(server, menu[i].address, CookieCred(server, command), FALSE)
  /\ region' = None /\ offered' = <<>> /\ menu' = <<>>
  /\ UNCHANGED <<constantOfRun, keyPass, stdin, signIns, failed>>

ChoiceCancelled ==
  /\ pc = "choose" /\ Len(menu) > 1 /\ ~args.pick
  /\ Return("Other")
  /\ UNCHANGED <<constantOfRun, keyPass, stdin, region, offered, menu, cache, signIns, failed>>

\* The gateway accepted the log-in.
LoginAccepted ==
  /\ pc = "login" /\ HasClient
  /\ pc' = "tunnel"
  /\ UNCHANGED <<flow, target, exchange, constantOfRun, keyPass, stdin, region,
                 offered, menu, cache, signIns, failed>>

ClearCache_Kept == UNCHANGED cache

\* cookie_store::clear: whatever the error of a cached log-in was; that the file could
\* not be removed goes unnoticed.
ClearCache ==
  \/ cache' = None
  \/ cache # None /\ cache' = CookieFile(cache.server, cache.gateway, cache.cookie, TRUE)

\* gateway_login failed: its errors are never a PortalError at the root.
LoginFails ==
  /\ pc = "login"
  /\ CASE flow = "cached" -> ClearCache /\ BeginPrelogin("portal", server)
       [] flow = "portal" -> BeginPrelogin("nested", target) /\ UNCHANGED cache
       [] OTHER -> /\ Return(IF HasClient THEN "Other" ELSE ClientError)
                   /\ UNCHANGED cache
  /\ failed' = IF flow = "cached" THEN failed \cup {cred} ELSE failed
  /\ UNCHANGED <<constantOfRun, keyPass, stdin, region, offered, menu, signIns>>

\* connect_gateway returned Ok: the tunnel's own result is not looked at.
TunnelEnds ==
  /\ pc = "tunnel"
  /\ pc' = "exited"
  /\ UNCHANGED <<flow, target, exchange, constantOfRun, keyPass, stdin, region,
                 offered, menu, cache, signIns, failed>>

\* connect_gateway failed: no such HIP user, openconnect cannot be set up, or the
\* PID file vanished while it was being removed.  The cached flow goes on with
\* the portal, the others report the error.
ConnectFails ==
  /\ pc = "tunnel"
  /\ IF flow = "cached" THEN BeginPrelogin("portal", server) ELSE Propagate("Other")
  /\ UNCHANGED <<constantOfRun, keyPass, stdin, region, offered, menu, cache, signIns, failed>>

KeepPassphrase_Lost(pass) == UNCHANGED keyPass
KeepPassphrase(pass) == keyPass' = pass

\* The loop of handle: ask for the passphrase and start over, or stop because the
\* prompt was cancelled.
Passphrase(pass) ==
  /\ pc = "passphrase"
  /\ pc' = "begin"
  /\ KeepPassphrase(pass)
  /\ UNCHANGED <<flow, target, exchange, constantOfRun, stdin, region, offered,
                 menu, cache, signIns, failed>>

PassphraseCancelled ==
  /\ pc = "passphrase"
  /\ pc' = "exited"
  /\ UNCHANGED <<flow, target, exchange, constantOfRun, keyPass, stdin, region,
                 offered, menu, cache, signIns, failed>>

\* The user starts a command: only the cookie file is left of the one before.
Begin(a, s) ==
  /\ pc' = "begin" /\ args' = a /\ server' = s /\ keyPass' = a.key
  /\ stdin' = [read |-> 0, kept |-> FALSE, by |-> None]
  /\ flow' = "direct" /\ target' = s /\ cred' = None /\ mfa' = None /\ challenge' = None
  /\ region' = None /\ offered' = <<>> /\ menu' = <<>> /\ signIns' = 0

Command ==
  /\ pc = "exited" /\ command < MaxCommands
  /\ command' = command + 1
  /\ \E a \in Arguments, s \in Servers : Begin(a, s)
  /\ UNCHANGED <<cache, failed>>

Init ==
  /\ pc = "begin" /\ args \in Arguments /\ server \in Servers /\ keyPass = args.key
  /\ stdin = [read |-> 0, kept |-> FALSE, by |-> None]
  /\ flow = "direct" /\ target = server /\ cred = None /\ mfa = None /\ challenge = None
  /\ region = None /\ offered = <<>> /\ menu = <<>>
  /\ cache = None /\ signIns = 0 /\ failed = {} /\ command = 1

Next ==
  \/ HandleImpl \/ Prelogin \/ ObtainCredential \/ AnswerChallenge
  \/ PortalConfig \/ PortalConfigFails \/ ChooseGateway \/ ChoiceCancelled
  \/ LoginAccepted \/ LoginFails \/ TunnelEnds \/ ConnectFails
  \/ \E pass \in {"right", "wrong"} : Passphrase(pass)
  \/ PassphraseCancelled \/ Command

\* The steps that wait for nobody: a client that cannot be built fails by itself.
Own ==
  \/ HandleImpl
  \/ ~HasClient /\ (Prelogin \/ LoginFails)
  \/ pc = "choose" /\ (args.pick \/ Len(menu) = 1) /\ ChooseGateway

\* No server, user or helper has to answer, and no tunnel has to end.
Spec == Init /\ [][Next]_vars
FairSpec == Spec /\ WF_vars(Own)

-----------------------------------------------------------------------------
(* Properties *)

\* One type invariant for the module.
TypeOK ==
  /\ pc \in {"begin", "prelogin", "saml", "standard", "config", "choose", "login",
             "tunnel", "passphrase", "exited"}
  /\ flow \in {"cached", "portal", "nested", "fallback", "direct"}
  /\ args \in Arguments /\ server \in Servers
  /\ mfa \in Challenges \cup {None} /\ challenge \in Challenges \cup {None}
  /\ keyPass \in {"none", "right", "wrong"}
  /\ stdin.read \in Nat /\ stdin.kept \in BOOLEAN
  /\ signIns \in Nat /\ command \in 1..MaxCommands

\* A secret piped into the command is one line: however often the log-in starts
\* over (nested and fallback workflows, passphrase prompts), standard input is
\* read once (connect.rs 711-714, 732-735).
StdinOnce == stdin.read <= 1

\* handle_impl makes the user sign in at most twice, as its note says ("if you
\* were authenticated twice"): the nested and the fallback workflow never both
\* come to ask.
TwoSignIns == signIns <= 2

\* What the next request of an exchange carries is what its server waits for: the
\* inputStr and the code of its latest challenge, and the credential itself as
\* long as this exchange was not challenged, whatever an exchange before it was.
ChallengeAnswered ==
  pc \in {"config", "login"} =>
    LET form == LoginForm(cred, mfa)
    IN  /\ form.inputStr = challenge
        /\ IF challenge # None THEN form.passwd = [code |-> challenge]
           ELSE cred \in {form.passwd, form.prelogin_cookie, form.portal_userauthcookie}

\* A credential is used where it belongs: what the user typed with the server it
\* was asked for, a portal cookie on behalf of the portal the user named, also
\* when it comes from the file an earlier command wrote. The line of standard input
\* is reused on purpose (connect.rs 711-714): it reaches another server than the one
\* that had asked for it in a workflow that starts over, and in no other.
CredentialBelongs ==
  pc \in {"config", "login"} =>
    CASE cred.from = "portal" -> cred.by = server
      [] cred.from = "user" -> cred.by = target
      [] cred.from = "stdin" -> cred.by = target \/ flow \in {"nested", "fallback"}

\* A cookie that failed from the cache is gone from the cache: no later command
\* and no later round of this one offers it again, unless the file could not be
\* removed.
FailedCookieForgotten == cache # None /\ cache.cookie \in failed => cache.stuck

\* The best priority a gateway's rules give it in a region, MaxPriority for none.
RuleRank(g, r) ==
  Min({MaxPriority} \cup {g.rules[i].priority : i \in {j \in DOMAIN g.rules : Matches(g.rules[j], r)}})
Key(g, r, gs) ==
  IF \A i \in DOMAIN gs : RuleRank(gs[i], r) = MaxPriority THEN g.priority ELSE RuleRank(g, r)

\* The user is shown the gateways the portal sent, each as often as it sent it,
\* and first one than which no other is better for the region, provided that no two
\* share a name.
BestGatewayFirst ==
  (pc = "choose" /\ ~args.pick) =>
    /\ \E f \in Bijection(DOMAIN menu, DOMAIN offered) :
         \A i \in DOMAIN menu : menu[i] = offered[f[i]]
    /\ IsInjective([i \in DOMAIN menu |-> menu[i].name]) =>
         \A i \in DOMAIN menu : Key(menu[1], region, menu) <= Key(menu[i], region, menu)

\* How far the log-in is from its end: the workflows in the order they follow one
\* another, and the exchanges of each.
Workflow == [cached |-> 50, portal |-> 40, nested |-> 30, fallback |-> 20, direct |-> 10]
Exchange == [prelogin |-> 6, saml |-> 5, standard |-> 5, config |-> 4, choose |-> 3,
             login |-> 2, tunnel |-> 1]
ToGo ==
  CASE pc \in {"exited", "passphrase"} -> 0
    [] pc = "begin" -> 100
    [] OTHER -> Workflow[flow] + Exchange[pc]

\* No error sends the log-in round in circles, through however many workflows: what
\* is repeated is a challenged exchange, and all of it after a passphrase prompt.
Onward ==
  [][\/ pc \in {"exited", "passphrase"}
     \/ challenge' # challenge /\ UNCHANGED <<pc, flow, target, cred>>
     \/ ToGo' < ToGo]_vars

\* Where a command waits for somebody else, with no limit of its own: the client of
\* gp_params.rs has no timeout.
Waits(p) ==
  /\ pc = p
  /\ \/ p \in {"prelogin", "config", "login"} /\ HasClient
     \/ p \in {"saml", "standard", "choose", "passphrase", "tunnel"}

\* Every command comes to an end, if it is not left waiting for ever at one place (by
\* a server that does not answer or has ever new challenges, by a user, a helper or a
\* tunnel) and the user does not keep giving wrong passphrases.
LoginEnds ==
  \/ (pc = "begin") ~> (pc = "exited")
  \/ \E p \in DOMAIN Exchange \cup {"passphrase"} : <>[]Waits(p)
  \/ []<>(pc = "begin" /\ keyPass = "wrong")

=============================================================================
