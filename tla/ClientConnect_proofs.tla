------------------------ MODULE ClientConnect_proofs ------------------------
(***************************************************************************)
(* What the log-in of `gpclient connect' guarantees for any servers,       *)
(* options, gateway lists and challenges, and any number of commands.      *)
(***************************************************************************)
EXTENDS ClientConnect, WellFoundedInduction, TLAPS

USE ClientConnectAssumption

-----------------------------------------------------------------------------
(* StdinOnce alone is not inductive: that nothing is read again rests on   *)
(* the line being kept as soon as one was read.                            *)
StdinInv ==
  /\ stdin.read \in Nat /\ stdin.kept \in BOOLEAN
  /\ stdin.read <= 1
  /\ stdin.read = 1 => stdin.kept

LEMMA TakenOnce ==
  ASSUME TakeStdin, stdin.read \in Nat
  PROVE  \/ stdin' = stdin
         \/ /\ ~stdin.kept
            /\ \E n \in Nat : n = stdin.read + 1 /\ stdin'.read = n
            /\ stdin'.kept /\ stdin'.kept \in BOOLEAN
<1>1. PICK n \in Nat : n = stdin.read + 1
  OBVIOUS
<1>2. CASE stdin.kept
  BY <1>2 DEF TakeStdin
<1>3. CASE ~stdin.kept
  <2>1. stdin' = [read |-> n, kept |-> TRUE, by |-> target]
    BY <1>1, <1>3 DEF TakeStdin
  <2> QED
    BY <1>1, <1>3, <2>1
<1> QED
  BY <1>2, <1>3

(* Only obtain_credential reads, and only a new command forgets.           *)
LEMMA StdinStep == StdinInv /\ [Next]_vars => StdinInv'
<1> SUFFICES ASSUME StdinInv, [Next]_vars PROVE StdinInv'
  OBVIOUS
<1> USE DEF StdinInv
<1>1. CASE HandleImpl
  BY <1>1 DEF HandleImpl
<1>2. CASE Prelogin
  BY <1>2 DEF Prelogin
<1>3. CASE ObtainCredential
  <2>1. CASE TakeStdin
    <3>1. CASE stdin' = stdin
      BY <3>1
    <3>2. CASE stdin' # stdin
      <4>1. stdin.read = 0
        BY <2>1, <3>2, TakenOnce
      <4>2. stdin'.read = 1
        BY <2>1, <3>2, <4>1, TakenOnce
      <4>3. stdin'.kept /\ stdin'.kept \in BOOLEAN
        BY <2>1, <3>2, TakenOnce
      <4> QED
        BY <4>2, <4>3
    <3> QED
      BY <3>1, <3>2
  <2>2. CASE UNCHANGED stdin
    BY <2>2
  <2> QED
    BY <1>3, <2>1, <2>2 DEF ObtainCredential
<1>4. CASE AnswerChallenge
  BY <1>4 DEF AnswerChallenge
<1>5. CASE PortalConfig
  BY <1>5 DEF PortalConfig
<1>6. CASE PortalConfigFails
  BY <1>6 DEF PortalConfigFails
<1>7. CASE ChooseGateway
  BY <1>7 DEF ChooseGateway
<1>8. CASE ChoiceCancelled
  BY <1>8 DEF ChoiceCancelled
<1>9. CASE LoginAccepted
  BY <1>9 DEF LoginAccepted
<1>10. CASE LoginFails
  BY <1>10 DEF LoginFails
<1>11. CASE TunnelEnds
  BY <1>11 DEF TunnelEnds
<1>12. CASE ConnectFails
  BY <1>12 DEF ConnectFails
<1>13. CASE \E pass \in {"right", "wrong"} : Passphrase(pass)
  BY <1>13 DEF Passphrase
<1>14. CASE PassphraseCancelled
  BY <1>14 DEF PassphraseCancelled
<1>15. CASE Command
  BY <1>15 DEF Command, Begin
<1>16. CASE UNCHANGED vars
  BY <1>16 DEF vars
<1> QED
  BY <1>1, <1>2, <1>3, <1>4, <1>5, <1>6, <1>7, <1>8, <1>9,
     <1>10, <1>11, <1>12, <1>13, <1>14, <1>15, <1>16 DEF Next

(* Standard input is read once in a command, however often its log-in      *)
(* starts over.                                                            *)
THEOREM StdinOnceAlways == Spec => []StdinOnce
<1>1. Init => StdinInv
  BY DEF Init, StdinInv
<1>2. StdinInv => StdinOnce
  BY DEF StdinInv, StdinOnce
<1> QED
  BY <1>1, <1>2, StdinStep, PTL DEF Spec

-----------------------------------------------------------------------------
(* FailedCookieForgotten: within a command, a cookie it has saved itself   *)
(* is never tried from the file, since only a passphrase prompt leads back *)
(* to the file and a command that has saved a cookie has built its client. *)
Saved == cache # None

FailedInv ==
  /\ command \in Nat
  /\ Saved => cache.cookie.command \in Nat /\ cache.cookie.command <= command
  /\ Saved /\ cache.cookie.command = command => HasClient
  /\ Saved /\ pc \in {"begin", "passphrase"} => cache.cookie.command < command
  /\ pc \in {"saml", "standard", "config", "choose", "tunnel"} => HasClient
  /\ pc \in {"prelogin", "saml", "standard", "config", "choose"} => flow # "cached"
  /\ \A c \in failed : c.command \in Nat /\ c.command < command
  /\ pc = "login" /\ flow = "cached" => cred.command \in Nat /\ cred.command < command
  /\ FailedCookieForgotten

(* An error ends the exchange, or begins one that has no credential yet.   *)
LEMMA PropagateBelongs ==
  ASSUME NEW err, Propagate(err)
  PROVE  pc' \notin {"config", "login"}
BY DEF Propagate, PortalFlowError, Return, BeginPrelogin, BeginExchange

(* What is left of the cookie file when it was to be removed.              *)
LEMMA Cleared ==
  ASSUME ClearCache
  PROVE  cache' = None \/ (/\ cache # None /\ cache'.cookie = cache.cookie
                           /\ cache'.server = cache.server /\ cache'.stuck)
BY DEF ClearCache, CookieFile

(* Only an error of the client identity leads to the passphrase prompt.    *)
LEMMA PropagateMoves ==
  ASSUME NEW err, Propagate(err)
  PROVE  /\ pc' \in {"prelogin", "passphrase", "exited"}
         /\ pc' = "prelogin" => flow' = "fallback"
         /\ pc' = "passphrase" => err \in {"NoPassphrase", "DecryptError"}
BY DEF Propagate, PortalFlowError, Return, BeginPrelogin, BeginExchange

\* The steps between two changes of the options and the passphrase.
WithinRound ==
  \/ HandleImpl \/ Prelogin \/ ObtainCredential \/ AnswerChallenge
  \/ PortalConfig \/ PortalConfigFails \/ ChooseGateway \/ ChoiceCancelled
  \/ LoginAccepted \/ LoginFails \/ TunnelEnds \/ ConnectFails \/ PassphraseCancelled
  \/ UNCHANGED vars

LEMMA RoundKeepsClient == WithinRound => UNCHANGED <<args, keyPass, command>>
BY DEF WithinRound, HandleImpl, Prelogin, ObtainCredential, AnswerChallenge,
       PortalConfig, PortalConfigFails, ChooseGateway, ChoiceCancelled, LoginAccepted,
       LoginFails, TunnelEnds, ConnectFails, PassphraseCancelled, vars, constantOfRun

LEMMA FailedStep == FailedInv /\ [Next]_vars => FailedInv'
<1> SUFFICES ASSUME FailedInv, [Next]_vars PROVE FailedInv'
  OBVIOUS
<1> USE DEF FailedInv, FailedCookieForgotten, Saved
<1>1. CASE WithinRound
  <2>1. HasClient' <=> HasClient
    BY <1>1, RoundKeepsClient DEF HasClient, ClientError, Identity
  <2> USE <2>1, RoundKeepsClient, <1>1
  <2>2. CASE HandleImpl
    <3>1. CASE BeginExchange("login", "cached", cache.gateway, cache.cookie) /\ Cached
      BY <2>2, <3>1 DEF HandleImpl, Cached, BeginExchange
    <3>2. CASE \E f \in {"direct", "portal"} : BeginPrelogin(f, server)
      BY <2>2, <3>2 DEF HandleImpl, BeginPrelogin, BeginExchange
    <3> QED
      BY <2>2, <3>1, <3>2 DEF HandleImpl
  <2>3. CASE Prelogin
    <3>1. CASE HasClient /\ flow' = flow /\ \E method \in {"saml", "standard"} : pc' = method
      BY <2>3, <3>1 DEF Prelogin, exchange
    <3>2. CASE ~HasClient /\ Propagate(ClientError)
      BY <2>3, <3>2, PropagateBelongs, PropagateMoves DEF Prelogin
    <3>3. CASE \E err \in {"PortalError", "Other"} : Propagate(err)
      BY <2>3, <3>3, PropagateBelongs, PropagateMoves DEF Prelogin
    <3> QED
      BY <2>3, <3>1, <3>2, <3>3 DEF Prelogin
  <2>4. CASE ObtainCredential
    <3>1. CASE \E c : WithCredential(c)
      BY <2>4, <3>1 DEF ObtainCredential, WithCredential, BeginExchange
    <3>2. CASE Propagate("Other")
      BY <2>4, <3>2, PropagateBelongs, PropagateMoves DEF ObtainCredential
    <3> QED
      BY <2>4, <3>1, <3>2 DEF ObtainCredential
  <2>5. CASE AnswerChallenge
    BY <2>5 DEF AnswerChallenge
  <2>6. CASE PortalConfig
    <3>1. CASE Propagate("Other")
      BY <2>6, <3>1, PropagateBelongs, PropagateMoves DEF PortalConfig
    <3>2. CASE pc' = "choose" /\ flow' = flow
      BY <2>6, <3>2 DEF PortalConfig
    <3> QED
      BY <2>6, <3>1, <3>2 DEF PortalConfig
  <2>7. CASE PortalConfigFails
    BY <2>7, PropagateBelongs, PropagateMoves DEF PortalConfigFails
  <2>8. CASE ChooseGateway
    <3>1. pc = "choose" /\ pc' = "login" /\ flow' = "portal" /\ UNCHANGED failed
      BY <2>8 DEF ChooseGateway, BeginExchange
    <3>2. CASE UNCHANGED cache
      BY <3>1, <3>2
    <3>3. CASE cache'.cookie = CookieCred(server, command)
      <4>1. CookieCred(server, command).command = command
        BY DEF CookieCred
      <4> QED
        BY <3>1, <3>3, <4>1
    <3> QED
      BY <2>8, <3>2, <3>3 DEF ChooseGateway, CookieFile
  <2>9. CASE ChoiceCancelled
    BY <2>9 DEF ChoiceCancelled, Return
  <2>10. CASE LoginAccepted
    BY <2>10 DEF LoginAccepted
  <2>11. CASE LoginFails
    <3>1. CASE flow = "cached"
      BY <2>11, <3>1 DEF LoginFails, ClearCache, CookieFile, BeginPrelogin, BeginExchange
    <3>2. CASE flow # "cached"
      <4>1. UNCHANGED <<cache, failed>>
        BY <2>11, <3>2 DEF LoginFails
      <4>2. BeginPrelogin("nested", target) \/ Return(IF HasClient THEN "Other" ELSE ClientError)
        BY <2>11, <3>2 DEF LoginFails
      <4>3. /\ pc' \in {"prelogin", "passphrase", "exited"}
            /\ pc' = "prelogin" => flow' = "nested"
            /\ pc' = "passphrase" => ~HasClient
        BY <4>2 DEF BeginPrelogin, BeginExchange, Return
      <4> QED
        BY <4>1, <4>3
    <3> QED
      BY <3>1, <3>2
  <2>12. CASE TunnelEnds
    BY <2>12 DEF TunnelEnds
  <2>13. CASE ConnectFails
    BY <2>13, PropagateBelongs, PropagateMoves DEF ConnectFails, BeginPrelogin, BeginExchange
  <2>14. CASE PassphraseCancelled
    BY <2>14 DEF PassphraseCancelled
  <2>15. CASE UNCHANGED vars
    BY <2>15 DEF vars
  <2> QED
    BY <1>1, <2>2, <2>3, <2>4, <2>5, <2>6, <2>7, <2>8, <2>9, <2>10, <2>11, <2>12,
       <2>13, <2>14, <2>15 DEF WithinRound
<1>2. CASE \E pass \in {"right", "wrong"} : Passphrase(pass)
  BY <1>2 DEF Passphrase, constantOfRun
<1>3. CASE Command
  BY <1>3 DEF Command, Begin
<1> QED
  BY <1>1, <1>2, <1>3 DEF Next, WithinRound

(* A cookie that failed from the file is never offered again, unless the   *)
(* file could not be removed, for any number of commands, servers and      *)
(* passphrase prompts.                                                     *)
THEOREM FailedCookieForgottenAlways == Spec => []FailedCookieForgotten
<1>1. Init => FailedInv
  BY DEF Init, FailedInv, Saved, FailedCookieForgotten
<1>2. FailedInv => FailedCookieForgotten
  BY DEF FailedInv
<1> QED
  BY <1>1, <1>2, FailedStep, PTL DEF Spec

-----------------------------------------------------------------------------
(* CredentialBelongs needs to know of the cookie file: the cookie an       *)
(* earlier command saved under the name of a server is that portal's.  And *)
(* of the line that was read from standard input: it is remembered in a    *)
(* command whose client can be built, which starts over in the nested and  *)
(* the fallback workflow only.                                             *)
CookieOfServer ==
  cache # None => cache.cookie.from = "portal" /\ cache.cookie.by = cache.server

KeptInv ==
  stdin.kept =>
    /\ HasClient /\ flow # "cached"
    /\ pc \notin {"begin", "passphrase"}
    /\ pc \in {"prelogin", "saml", "standard"} => flow \in {"nested", "fallback"}

(* What was learnt of cookies that failed says where a client exists.      *)
LEMMA KeptStep == KeptInv /\ FailedInv /\ [Next]_vars => KeptInv'
<1> SUFFICES ASSUME KeptInv, FailedInv, [Next]_vars PROVE KeptInv'
  OBVIOUS
<1> USE DEF KeptInv
<1>1. CASE WithinRound
  <2>1. HasClient' <=> HasClient
    BY <1>1, RoundKeepsClient DEF HasClient, ClientError, Identity
  <2>2. CASE ObtainCredential
    <3>1. HasClient /\ flow # "cached"
      BY <2>2 DEF ObtainCredential, FailedInv
    <3>2. CASE \E c : WithCredential(c)
      BY <2>1, <2>2, <3>1, <3>2 DEF WithCredential, BeginExchange
    <3>3. CASE Propagate("Other")
      BY <2>1, <3>1, <3>3, PropagateMoves DEF Propagate, PortalFlowError, Return
    <3> QED
      BY <2>2, <3>2, <3>3 DEF ObtainCredential
  <2>3. CASE ~ObtainCredential
    <3>1. UNCHANGED stdin
      BY <1>1, <2>3 DEF WithinRound, HandleImpl, Prelogin, AnswerChallenge, PortalConfig,
         PortalConfigFails, ChooseGateway, ChoiceCancelled, LoginAccepted, LoginFails,
         TunnelEnds, ConnectFails, PassphraseCancelled, vars
    <3> SUFFICES ASSUME stdin.kept
                 PROVE  /\ flow' # "cached" /\ pc' \notin {"begin", "passphrase"}
                        /\ pc' \in {"prelogin", "saml", "standard"} =>
                             flow' \in {"nested", "fallback"}
      BY <2>1, <3>1
    <3>2. ASSUME NEW err, Propagate(err), err \notin {"NoPassphrase", "DecryptError"}
          PROVE  /\ flow' # "cached" /\ pc' \notin {"begin", "passphrase"}
                 /\ pc' \in {"prelogin", "saml", "standard"} => flow' = "fallback"
      BY <3>2 DEF Propagate, PortalFlowError, BeginPrelogin, BeginExchange, Return
    <3>3. CASE Prelogin
      BY <3>2, <3>3 DEF Prelogin
    <3>4. CASE PortalConfig
      BY <3>2, <3>4 DEF PortalConfig
    <3>5. CASE PortalConfigFails
      BY <3>2, <3>5 DEF PortalConfigFails
    <3>6. CASE ConnectFails
      BY <3>2, <3>6 DEF ConnectFails
    <3>7. CASE LoginFails
      BY <3>7 DEF LoginFails, BeginPrelogin, BeginExchange, Return
    <3>8. CASE ChooseGateway
      BY <3>8 DEF ChooseGateway, BeginExchange
    <3>9. CASE ChoiceCancelled \/ LoginAccepted \/ TunnelEnds \/ PassphraseCancelled
      BY <3>9 DEF ChoiceCancelled, LoginAccepted, TunnelEnds, PassphraseCancelled, Return
    <3>10. CASE HandleImpl \/ AnswerChallenge \/ UNCHANGED vars
      BY <3>10 DEF HandleImpl, AnswerChallenge, vars
    <3> QED
      BY <1>1, <2>3, <3>3, <3>4, <3>5, <3>6, <3>7, <3>8, <3>9, <3>10 DEF WithinRound
  <2> QED
    BY <2>2, <2>3
<1>2. CASE \E pass \in {"right", "wrong"} : Passphrase(pass)
  BY <1>2 DEF Passphrase
<1>3. CASE Command
  BY <1>3 DEF Command, Begin
<1> QED
  BY <1>1, <1>2, <1>3 DEF Next, WithinRound

BelongsInv == CookieOfServer /\ CredentialBelongs

LEMMA NewFile ==
  ASSUME NEW address, NEW cookie
  PROVE  LET new == CookieFile(server, address, cookie, FALSE)
         IN  new.server = server /\ new.cookie = cookie
BY DEF CookieFile

LEMMA BelongsStep == BelongsInv /\ KeptInv /\ [Next]_vars => BelongsInv'
<1> SUFFICES ASSUME BelongsInv, KeptInv, [Next]_vars PROVE BelongsInv'
  OBVIOUS
<1> USE DEF BelongsInv, CookieOfServer, CredentialBelongs
<1>1. CASE HandleImpl
  BY <1>1 DEF HandleImpl, Cached, BeginPrelogin, BeginExchange, constantOfRun
<1>2. CASE Prelogin
  <2>1. CASE \E method \in {"saml", "standard"} : pc' = method
    BY <1>2, <2>1 DEF Prelogin, exchange, constantOfRun
  <2>2. CASE ~HasClient /\ Propagate(ClientError)
    BY <1>2, <2>2, PropagateBelongs DEF Prelogin, constantOfRun
  <2>3. CASE \E err \in {"PortalError", "Other"} : Propagate(err)
    BY <1>2, <2>3, PropagateBelongs DEF Prelogin, constantOfRun
  <2> QED
    BY <1>2, <2>1, <2>2, <2>3 DEF Prelogin
<1>3. CASE ObtainCredential
  <2>1. UNCHANGED <<cache, server>>
    BY <1>3 DEF ObtainCredential, constantOfRun
  <2>2. CASE Propagate("Other")
    BY <2>1, <2>2, PropagateBelongs
  <2>3. ASSUME NEW kind, WithCredential(TypedCred(kind)) PROVE BelongsInv'
    <3>1. cred'.from = "user" /\ cred'.by = target'
      BY <2>3 DEF WithCredential, BeginExchange, TypedCred
    <3> QED
      BY <2>1, <3>1
  <2>4. ASSUME NEW kind, WithCredential(StdinCred(kind)), TakeStdin PROVE BelongsInv'
    <3>1. cred'.from = "stdin" /\ cred'.by = stdin'.by /\ target' = target /\ flow' = flow
      BY <2>4 DEF WithCredential, BeginExchange, StdinCred
    <3>2. CASE stdin.kept
      <4>1. flow' \in {"nested", "fallback"}
        BY <1>3, <3>1, <3>2 DEF KeptInv, ObtainCredential
      <4> QED
        BY <2>1, <3>1, <4>1
    <3>3. CASE ~stdin.kept
      <4>1. stdin'.by = target
        BY <2>4, <3>3 DEF TakeStdin
      <4> QED
        BY <2>1, <3>1, <4>1
    <3> QED
      BY <3>2, <3>3
  <2> QED
    BY <1>3, <2>2, <2>3, <2>4 DEF ObtainCredential
<1>4. CASE AnswerChallenge
  BY <1>4 DEF AnswerChallenge, constantOfRun
<1>5. CASE PortalConfig
  <2>1. CASE Propagate("Other")
    BY <1>5, <2>1, PropagateBelongs DEF PortalConfig, constantOfRun
  <2>2. CASE pc' = "choose"
    BY <1>5, <2>2 DEF PortalConfig, constantOfRun
  <2> QED
    BY <1>5, <2>1, <2>2 DEF PortalConfig
<1>6. CASE PortalConfigFails
  BY <1>6, PropagateBelongs DEF PortalConfigFails, constantOfRun
<1>7. CASE ChooseGateway
  <2>1. CookieCred(server, command).from = "portal" /\ CookieCred(server, command).by = server
    BY DEF CookieCred
  <2>2. server' = server /\ pc' = "login" /\ cred' = CookieCred(server, command)
    BY <1>7 DEF ChooseGateway, BeginExchange, constantOfRun
  <2>3. CASE UNCHANGED cache
    BY <2>1, <2>2, <2>3
  <2>4. CASE cache'.server = server /\ cache'.cookie = CookieCred(server, command)
    BY <2>1, <2>2, <2>4
  <2> QED
    <3>1. ASSUME NEW address, cache' = CookieFile(server, address, CookieCred(server, command), FALSE)
          PROVE  cache'.server = server /\ cache'.cookie = CookieCred(server, command)
      BY <3>1, NewFile
    <3> QED
      BY <1>7, <2>3, <2>4, <3>1 DEF ChooseGateway
<1>8. CASE ChoiceCancelled
  BY <1>8 DEF ChoiceCancelled, Return, constantOfRun
<1>9. CASE LoginAccepted
  BY <1>9 DEF LoginAccepted, constantOfRun
<1>10. CASE LoginFails
  <2>1. CookieOfServer' /\ server' = server
    BY <1>10, Cleared DEF LoginFails, constantOfRun
  <2>2. pc' \notin {"config", "login"}
    BY <1>10 DEF LoginFails, BeginPrelogin, BeginExchange, Return
  <2> QED
    BY <2>1, <2>2
<1>11. CASE TunnelEnds
  BY <1>11 DEF TunnelEnds, constantOfRun
<1>12. CASE ConnectFails
  BY <1>12, PropagateBelongs DEF ConnectFails, BeginPrelogin, BeginExchange, constantOfRun
<1>13. CASE \E pass \in {"right", "wrong"} : Passphrase(pass)
  BY <1>13 DEF Passphrase, constantOfRun
<1>14. CASE PassphraseCancelled
  BY <1>14 DEF PassphraseCancelled, constantOfRun
<1>15. CASE Command
  BY <1>15 DEF Command, Begin
<1>16. CASE UNCHANGED vars
  BY <1>16 DEF vars, constantOfRun
<1> QED
  BY <1>1, <1>2, <1>3, <1>4, <1>5, <1>6, <1>7, <1>8, <1>9,
     <1>10, <1>11, <1>12, <1>13, <1>14, <1>15, <1>16 DEF Next

(* No log-in sends what was typed for one server to another, nor the       *)
(* cookie of another portal, whatever earlier commands left in the file;   *)
(* and the line of standard input crosses servers in the workflows that    *)
(* are made for it only.                                                   *)
THEOREM CredentialBelongsAlways == Spec => []CredentialBelongs
<1>1. Init => BelongsInv /\ KeptInv /\ FailedInv
  BY DEF Init, BelongsInv, CookieOfServer, CredentialBelongs, KeptInv, FailedInv, Saved,
     FailedCookieForgotten
<1>2. BelongsInv => CredentialBelongs
  BY DEF BelongsInv
<1> QED
  BY <1>1, <1>2, BelongsStep, KeptStep, FailedStep, PTL DEF Spec

-----------------------------------------------------------------------------
(* TwoSignIns: the nested and the fallback workflow start with one sign-in *)
(* behind them at most.  A gateway that fails the nested one with a        *)
(* PortalError does so before it has asked, and what fails once a          *)
(* credential was asked for ends the command.                              *)
SignInInv ==
  /\ signIns \in Nat /\ TwoSignIns
  /\ pc \in {"prelogin", "saml", "standard"} =>
       IF flow \in {"nested", "fallback"} THEN signIns <= 1 ELSE signIns = 0
  /\ pc \in {"login", "tunnel"} /\ flow = "cached" => signIns = 0
  /\ pc \in {"config", "choose"} => flow = "portal" /\ signIns <= 1
  /\ pc = "login" /\ flow = "portal" => signIns <= 1
  /\ pc \in {"prelogin", "saml", "standard"} => flow # "cached"

(* An error keeps what it needs: the fallback starts where at most one     *)
(* sign-in has been made, every other error leaves the workflows.          *)
LEMMA PropagateSignIns ==
  ASSUME SignInInv, NEW err, Propagate(err), UNCHANGED signIns,
         err = "PortalError" => signIns <= 1
  PROVE  SignInInv'
BY DEF SignInInv, TwoSignIns, Propagate, PortalFlowError, Return, BeginPrelogin, BeginExchange

LEMMA SignInStep == SignInInv /\ [Next]_vars => SignInInv'
<1> SUFFICES ASSUME SignInInv, [Next]_vars PROVE SignInInv'
  OBVIOUS
<1>0. ClientError \in {"NoKey", "NoPassphrase", "DecryptError", "Other", "Ok"}
  BY DEF ClientError, Identity
<1> USE DEF SignInInv, TwoSignIns
<1>1. CASE HandleImpl
  BY <1>1 DEF HandleImpl, BeginPrelogin, BeginExchange
<1>2. CASE Prelogin
  <2>1. CASE flow' = flow /\ \E method \in {"saml", "standard"} : pc' = method
    BY <1>2, <2>1 DEF Prelogin
  <2>2. CASE Propagate(ClientError) \/ \E err \in {"PortalError", "Other"} : Propagate(err)
    BY <1>0, <1>2, <2>2, PropagateSignIns DEF Prelogin
  <2> QED
    BY <1>2, <2>1, <2>2 DEF Prelogin
<1>3. CASE ObtainCredential
  <2>1. CASE \E c : WithCredential(c)
    BY <1>3, <2>1 DEF ObtainCredential, WithCredential, BeginExchange
  <2>2. CASE Propagate("Other")
    BY <1>3, <2>2, PropagateMoves DEF ObtainCredential, Propagate, PortalFlowError, Return
  <2> QED
    BY <1>3, <2>1, <2>2 DEF ObtainCredential
<1>4. CASE AnswerChallenge
  BY <1>4 DEF AnswerChallenge
<1>5. CASE PortalConfig
  <2>1. CASE Propagate("Other")
    BY <1>5, <2>1, PropagateSignIns DEF PortalConfig
  <2>2. CASE pc' = "choose" /\ flow' = flow
    BY <1>5, <2>2 DEF PortalConfig
  <2> QED
    BY <1>5, <2>1, <2>2 DEF PortalConfig
<1>6. CASE PortalConfigFails
  BY <1>6, PropagateSignIns DEF PortalConfigFails
<1>7. CASE ChooseGateway
  BY <1>7 DEF ChooseGateway, BeginExchange
<1>8. CASE ChoiceCancelled
  BY <1>8 DEF ChoiceCancelled, Return
<1>9. CASE LoginAccepted
  BY <1>9 DEF LoginAccepted
<1>10. CASE LoginFails
  <2>1. UNCHANGED signIns
    BY <1>10 DEF LoginFails
  <2>2. \/ flow = "cached" /\ BeginPrelogin("portal", server)
        \/ flow = "portal" /\ BeginPrelogin("nested", target)
        \/ Return(IF HasClient THEN "Other" ELSE ClientError)
    BY <1>10 DEF LoginFails
  <2> QED
    BY <1>10, <2>1, <2>2 DEF LoginFails, BeginPrelogin, BeginExchange, Return
<1>11. CASE TunnelEnds
  BY <1>11 DEF TunnelEnds
<1>12. CASE ConnectFails
  <2>1. CASE flow = "cached"
    BY <1>12, <2>1 DEF ConnectFails, BeginPrelogin, BeginExchange
  <2>2. CASE Propagate("Other")
    BY <1>12, <2>2, PropagateSignIns DEF ConnectFails
  <2> QED
    BY <1>12, <2>1, <2>2 DEF ConnectFails
<1>13. CASE \E pass \in {"right", "wrong"} : Passphrase(pass)
  BY <1>13 DEF Passphrase
<1>14. CASE PassphraseCancelled
  BY <1>14 DEF PassphraseCancelled
<1>15. CASE Command
  BY <1>15 DEF Command, Begin
<1>16. CASE UNCHANGED vars
  BY <1>16 DEF vars
<1> QED
  BY <1>1, <1>2, <1>3, <1>4, <1>5, <1>6, <1>7, <1>8, <1>9,
     <1>10, <1>11, <1>12, <1>13, <1>14, <1>15, <1>16 DEF Next

(* A user signs in twice at most before a command ends or asks for its     *)
(* passphrase, whatever the portal and the gateways refuse.                *)
THEOREM TwoSignInsAlways == Spec => []TwoSignIns
<1>1. Init => SignInInv
  BY DEF Init, SignInInv, TwoSignIns
<1>2. SignInInv => TwoSignIns
  BY DEF SignInInv
<1> QED
  BY <1>1, <1>2, SignInStep, PTL DEF Spec

-----------------------------------------------------------------------------
(* ChallengeAnswered: the cloned parameters hold the answer to the         *)
(* challenge the server waits for and to no other, and the credential is   *)
(* of a kind that has a parameter of its own in the form.                  *)
Kinds == {"password", "prelogin", "authcookie"}

AnswerInv ==
  /\ mfa = challenge
  /\ cache # None => cache.cookie.kind \in Kinds
  /\ pc \in {"config", "login"} => cred.kind \in Kinds

LEMMA CredKinds ==
  ASSUME NEW host
  PROVE  /\ \A kind \in Kinds : TypedCred(kind).kind = kind /\ StdinCred(kind).kind = kind
         /\ CookieCred(host, command).kind \in Kinds
BY DEF TypedCred, StdinCred, CookieCred, Kinds

(* What the parameters of a challenge override, and what they leave.       *)
LEMMA FormOf ==
  ASSUME NEW c, NEW input
  PROVE  /\ LoginForm(c, input).inputStr = input
         /\ input # None => LoginForm(c, input).passwd = [code |-> input]
         /\ input = None =>
              /\ LoginForm(c, input).passwd = CredParams(c).passwd
              /\ LoginForm(c, input).prelogin_cookie = CredParams(c).prelogin_cookie
              /\ LoginForm(c, input).portal_userauthcookie = CredParams(c).portal_userauthcookie
BY DEF LoginForm, MfaParams, CredParams

LEMMA PropagateAnswers ==
  ASSUME AnswerInv, NEW err, Propagate(err)
  PROVE  mfa' = challenge'
BY DEF AnswerInv, Propagate, PortalFlowError, Return, BeginPrelogin, BeginExchange, exchange

LEMMA AnswerStep == AnswerInv /\ [Next]_vars => AnswerInv'
<1> SUFFICES ASSUME AnswerInv, [Next]_vars PROVE AnswerInv'
  OBVIOUS
<1> USE DEF AnswerInv
<1>0. ASSUME NEW err, Propagate(err), UNCHANGED cache
      PROVE  AnswerInv'
  BY <1>0, PropagateBelongs, PropagateAnswers
<1>1. CASE HandleImpl
  BY <1>1 DEF HandleImpl, Cached, BeginPrelogin, BeginExchange
<1>2. CASE Prelogin
  <2>1. CASE \E method \in {"saml", "standard"} : pc' = method /\ UNCHANGED exchange
    BY <1>2, <2>1 DEF Prelogin, exchange
  <2>2. CASE \E err : Propagate(err)
    BY <1>0, <1>2, <2>2 DEF Prelogin
  <2> QED
    BY <1>2, <2>1, <2>2 DEF Prelogin
<1>3. CASE ObtainCredential
  <2>2. CASE Propagate("Other")
    BY <1>0, <1>3, <2>2 DEF ObtainCredential
  <2>3. ASSUME NEW kind \in Kinds, WithCredential(TypedCred(kind)) PROVE AnswerInv'
    <3>1. cred'.kind = kind /\ mfa' = challenge' /\ UNCHANGED cache
      BY <1>3, <2>3, CredKinds DEF ObtainCredential, WithCredential, BeginExchange
    <3> QED
      BY <3>1
  <2>4. ASSUME NEW kind \in Kinds, WithCredential(StdinCred(kind)) PROVE AnswerInv'
    <3>1. cred'.kind = kind /\ mfa' = challenge' /\ UNCHANGED cache
      BY <1>3, <2>4, CredKinds DEF ObtainCredential, WithCredential, BeginExchange
    <3> QED
      BY <3>1
  <2> QED
    BY <1>3, <2>2, <2>3, <2>4 DEF ObtainCredential, Kinds
<1>4. CASE AnswerChallenge
  BY <1>4 DEF AnswerChallenge
<1>5. CASE PortalConfig
  <2>1. CASE Propagate("Other")
    BY <1>0, <1>5, <2>1 DEF PortalConfig
  <2>2. CASE pc' = "choose" /\ UNCHANGED exchange
    BY <1>5, <2>2 DEF PortalConfig, exchange
  <2> QED
    BY <1>5, <2>1, <2>2 DEF PortalConfig
<1>6. CASE PortalConfigFails
  BY <1>0, <1>6 DEF PortalConfigFails
<1>7. CASE ChooseGateway
  <2>1. mfa' = challenge' /\ cred' = CookieCred(server, command)
    BY <1>7 DEF ChooseGateway, BeginExchange
  <2>2. UNCHANGED cache \/ cache'.cookie = CookieCred(server, command)
    BY <1>7 DEF ChooseGateway, CookieFile
  <2> QED
    BY <2>1, <2>2, CredKinds
<1>8. CASE ChoiceCancelled
  BY <1>8 DEF ChoiceCancelled, Return, exchange
<1>9. CASE LoginAccepted
  BY <1>9 DEF LoginAccepted, exchange
<1>10. CASE LoginFails
  <2>1. cache' = None \/ cache' = cache \/ (cache # None /\ cache'.cookie = cache.cookie)
    BY <1>10, Cleared DEF LoginFails
  <2>2. \/ \E f, host : BeginPrelogin(f, host)
        \/ Return(IF HasClient THEN "Other" ELSE ClientError)
    BY <1>10 DEF LoginFails
  <2> QED
    BY <2>1, <2>2 DEF BeginPrelogin, BeginExchange, Return, exchange
<1>11. CASE TunnelEnds
  BY <1>11 DEF TunnelEnds, exchange
<1>12. CASE ConnectFails
  <2>1. CASE flow = "cached"
    BY <1>12, <2>1 DEF ConnectFails, BeginPrelogin, BeginExchange
  <2>2. CASE Propagate("Other")
    BY <1>0, <1>12, <2>2 DEF ConnectFails
  <2> QED
    BY <1>12, <2>1, <2>2 DEF ConnectFails
<1>13. CASE \E pass \in {"right", "wrong"} : Passphrase(pass)
  BY <1>13 DEF Passphrase, exchange
<1>14. CASE PassphraseCancelled
  BY <1>14 DEF PassphraseCancelled, exchange
<1>15. CASE Command
  BY <1>15 DEF Command, Begin
<1>16. CASE UNCHANGED vars
  BY <1>16 DEF vars
<1> QED
  BY <1>1, <1>2, <1>3, <1>4, <1>5, <1>6, <1>7, <1>8, <1>9,
     <1>10, <1>11, <1>12, <1>13, <1>14, <1>15, <1>16 DEF Next

(* Every request carries the answer its server waits for, or else the      *)
(* credential, for any challenges and in every workflow.                   *)
THEOREM ChallengeAnsweredAlways == Spec => []ChallengeAnswered
<1>1. Init => AnswerInv
  BY DEF Init, AnswerInv
<1>2. AnswerInv => ChallengeAnswered
  <2> SUFFICES ASSUME AnswerInv, pc \in {"config", "login"}
               PROVE  LET form == LoginForm(cred, mfa)
                      IN  /\ form.inputStr = challenge
                          /\ IF challenge # None THEN form.passwd = [code |-> challenge]
                             ELSE cred \in {form.passwd, form.prelogin_cookie, form.portal_userauthcookie}
    BY DEF ChallengeAnswered
  <2>1. cred \in {CredParams(cred).passwd, CredParams(cred).prelogin_cookie,
                  CredParams(cred).portal_userauthcookie}
    BY DEF AnswerInv, Kinds, CredParams
  <2> QED
    BY <2>1, FormOf DEF AnswerInv
<1> QED
  BY <1>1, <1>2, AnswerStep, PTL DEF Spec

-----------------------------------------------------------------------------
(* BestGatewayFirst is about two loops that run over lists of any length.  *)
(* What a loop keeps is proved by induction over its passes, in three      *)
(* steps: the least element of a set, induction up to a bound, and the     *)
(* loop itself.                                                            *)

(* A non-empty set of naturals has a least element: by the library's facts *)
(* on well-founded relations, which speak of sets.                         *)
LEMMA Least ==
  ASSUME NEW S \in SUBSET Nat, S # {}
  PROVE  \E m \in S : \A n \in S : m <= n
<1>1. PICK m \in S : \A n \in S : ~ (<<n, m>> \in OpToRel(<, Nat))
  BY NatLessThanWellFounded, WFMin
<1>2. \A n \in S : ~ (n < m)
  BY <1>1 DEF OpToRel
<1>3. \A n \in S : m <= n
  BY <1>2
<1> QED
  BY <1>3

(* Induction up to a bound, over a set rather than over a predicate.       *)
LEMMA UpTo ==
  ASSUME NEW n \in Nat, NEW S, 0 \in S, \A k \in 1..n : k - 1 \in S => k \in S
  PROVE  \A k \in 0..n : k \in S
<1> DEFINE T == {k \in 0..n : k \notin S}
<1> SUFFICES ASSUME T # {} PROVE FALSE
  OBVIOUS
<1>0. T \in SUBSET Nat
  OBVIOUS
<1> HIDE DEF T
<1>1. PICK m \in T : \A k \in T : m <= k
  BY <1>0, Least
<1> USE DEF T
<1>2. m # 0 /\ m \in 1..n /\ m - 1 \in 0..n
  OBVIOUS
<1>3. m - 1 \in S
  BY <1>1, <1>2
<1> QED
  BY <1>2, <1>3

(* The passes of a loop: IsLoop is the recursion as Loop writes it, Passes *)
(* what is known of its function.                                          *)
IsLoop(f, n, base, step) == f = [k \in 0..n |-> IF k = 0 THEN base ELSE step[<<k, f[k - 1]>>]]
Passes(f, n, X, base, step) ==
  f \in [0..n -> X] /\ f[0] = base /\ \A k \in 1..n : f[k] = step[<<k, f[k - 1]>>]

(* The recursion has a solution, one pass at a time.                       *)
LEMMA LoopHasRun ==
  ASSUME NEW n \in Nat, NEW X, NEW base \in X, NEW step \in [(1..n) \X X -> X]
  PROVE  \E f : IsLoop(f, n, base, step)
<1> DEFINE Good(m, f) == f \in [0..m -> X] /\ f[0] = base /\ \A k \in 1..m : f[k] = step[<<k, f[k-1]>>]
           S == {m \in 0..n : \E f : Good(m, f)}
<1>1. 0 \in S
  <2> DEFINE g == [i \in 0..0 |-> base]
  <2>1. g \in [0..0 -> X] /\ g[0] = base
    OBVIOUS
  <2>2. \A k \in 1..0 : g[k] = step[<<k, g[k-1]>>]
    OBVIOUS
  <2> HIDE DEF g
  <2>3. Good(0, g)
    BY <2>1, <2>2
  <2>4. 0 \in 0..n
    OBVIOUS
  <2> HIDE DEF Good
  <2> QED BY <2>3, <2>4
<1>2. ASSUME NEW m \in 1..n, m - 1 \in S PROVE m \in S
  <2>1. PICK f : Good(m-1, f)
    BY <1>2
  <2>2. f[m-1] \in X
    BY <2>1
  <2> DEFINE last == step[<<m, f[m-1]>>]
             g == [i \in 0..m |-> IF i < m THEN f[i] ELSE last]
  <2>3. last \in X
    BY <2>2
  <2>4. g \in [0..m -> X]
    BY <2>1, <2>3
  <2>5. g[0] = base
    BY <2>1
  <2>6. ASSUME NEW k \in 1..m PROVE g[k] = step[<<k, g[k-1]>>]
    <3>1. k - 1 \in 0..m /\ k - 1 < m /\ k \in 0..m
      OBVIOUS
    <3>2. g[k-1] = f[k-1]
      BY <3>1
    <3>3. CASE k < m
      <4>1. k \in 1..(m-1)
        BY <3>3
      <4>2. f[k] = step[<<k, f[k-1]>>]
        BY <2>1, <4>1
      <4>3. g[k] = f[k]
        BY <3>1, <3>3
      <4> QED
        BY <3>2, <4>2, <4>3
    <3>4. CASE k = m
      <4>1. g[k] = last
        BY <3>1, <3>4
      <4> QED
        BY <3>2, <3>4, <4>1
    <3> QED
      BY <3>3, <3>4
  <2> HIDE DEF g
  <2>7. Good(m, g)
    BY <2>4, <2>5, <2>6
  <2>8. m \in 0..n
    OBVIOUS
  <2> QED
    BY <2>7, <2>8
<1> HIDE DEF S
<1>3. n \in S
  BY <1>1, <1>2, UpTo
<1>4. PICK f : Good(n, f)
  BY <1>3 DEF S
<1>5. f = [k \in 0..n |-> IF k = 0 THEN base ELSE step[<<k, f[k - 1]>>]]
  <2> DEFINE g == [k \in 0..n |-> IF k = 0 THEN base ELSE step[<<k, f[k - 1]>>]]
  <2>1. DOMAIN f = 0..n /\ f = [k \in 0..n |-> f[k]]
    BY <1>4
  <2>2. ASSUME NEW k \in 0..n PROVE f[k] = g[k]
    <3>1. CASE k = 0
      BY <1>4, <3>1
    <3>2. CASE k \in 1..n
      BY <1>4, <3>2
    <3> QED
      BY <3>1, <3>2
  <2> QED
    BY <2>1, <2>2
<1> QED
  BY <1>5 DEF IsLoop

(* What Loop returns is the state after the last pass, for every start and *)
(* step.                                                                   *)
LEMMA LoopRuns ==
  ASSUME NEW n \in Nat, NEW X, NEW start \in X, NEW step \in [(1..n) \X X -> X]
  PROVE  \E after : Passes(after, n, X, start, step) /\ Loop(n, start, step) = after[n]
<1> DEFINE Fix(f) == IsLoop(f, n, start, step)
<1>1. \E f : Fix(f)
  BY LoopHasRun
<1> DEFINE after == CHOOSE f : Fix(f)
<1>2. Loop(n, start, step) = after[n]
  BY DEF Loop, IsLoop
<1> HIDE DEF Fix
<1>3. Fix(after)
  BY <1>1
<1> HIDE DEF after
<1>4. after = [k \in 0..n |-> IF k = 0 THEN start ELSE step[<<k, after[k - 1]>>]]
  BY <1>3 DEF Fix, IsLoop
<1>5. after[0] = start
  BY <1>4
<1>6. \A k \in 1..n : after[k] = step[<<k, after[k - 1]>>]
  BY <1>4
<1> DEFINE S == {k \in 0..n : after[k] \in X}
<1>7. 0 \in S
  BY <1>5
<1>8. ASSUME NEW k \in 1..n, k - 1 \in S PROVE k \in S
  <2>1. after[k - 1] \in X
    BY <1>8
  <2>2. step[<<k, after[k - 1]>>] \in X
    BY <2>1
  <2>3. after[k] \in X /\ k \in 0..n
    BY <1>6, <2>2
  <2> QED
    BY <2>3
<1> HIDE DEF S
<1>9. \A k \in 0..n : k \in S
  BY <1>7, <1>8, UpTo
<1>10. \A k \in 0..n : after[k] \in X
  BY <1>9 DEF S
<1>11. after \in [0..n -> X]
  BY <1>4, <1>10
<1> QED
  BY <1>2, <1>5, <1>6, <1>11 DEF Passes

(* The inner loop, over the rules of one gateway: what it returns is       *)
(* better than what it was given by a rule of this gateway, or is that,    *)
(* and no rule of this gateway is better.                                  *)
LEMMA ScanRulesRight ==
  ASSUME NEW gs, IsGatewayList(gs), NEW r, NEW i \in 1..Len(gs), NEW best \in Bests(gs)
  PROVE  LET c == ScanRules(gs, r, i, best)
         IN  /\ c \in Bests(gs)
             /\ \A j \in DOMAIN gs[i].rules : Matches(gs[i].rules[j], r) => c.priority <= gs[i].rules[j].priority
             /\ \/ c = best
                \/ /\ c.index = i /\ c.priority < best.priority
                   /\ \E j \in DOMAIN gs[i].rules : Matches(gs[i].rules[j], r) /\ gs[i].rules[j].priority = c.priority
<1> DEFINE rules == gs[i].rules
           n == Len(rules)
           step == [x \in (1..n) \X Bests(gs) |-> Better(x[2], i, rules[x[1]], r)]
           ok(k) == Matches(rules[k], r)
<1>1. i \in DOMAIN gs /\ Len(gs) \in Nat
  BY DEF IsGatewayList
<1>2. rules \in Seq(ToSet(rules)) /\ \A j \in DOMAIN rules : rules[j].priority \in 0..MaxPriority
  BY <1>1 DEF IsGatewayList
<1>3. n \in Nat /\ DOMAIN rules = 1..n
  BY <1>2
<1>4. ScanRules(gs, r, i, best) = Loop(n, best, step)
  BY DEF ScanRules
<1>5. ASSUME NEW b \in Bests(gs), NEW k \in 1..n PROVE Better(b, i, rules[k], r) \in Bests(gs)
  BY <1>1, <1>2, <1>3 DEF Better, Bests
<1>6. step \in [(1..n) \X Bests(gs) -> Bests(gs)]
  <2>1. \A x \in (1..n) \X Bests(gs) : Better(x[2], i, rules[x[1]], r) \in Bests(gs)
    BY <1>5
  <2> QED
    BY <2>1
<1>7. ASSUME NEW b \in Bests(gs), NEW k \in 1..n PROVE step[<<k, b>>] = Better(b, i, rules[k], r)
  BY <1>7
<1> HIDE DEF step, rules, n
<1>8a. PICK after : Passes(after, n, Bests(gs), best, step) /\ Loop(n, best, step) = after[n]
  BY <1>3, <1>6, LoopRuns
<1>8. /\ after \in [0..n -> Bests(gs)]
      /\ after[0] = best
      /\ \A k \in 1..n : after[k] = step[<<k, after[k - 1]>>]
      /\ Loop(n, best, step) = after[n]
  BY <1>8a DEF Passes
<1> DEFINE Good(k) == /\ \A j \in 1..k : ok(j) => after[k].priority <= rules[j].priority
                      /\ \/ after[k] = best
                         \/ /\ after[k].index = i /\ after[k].priority < best.priority
                            /\ \E j \in 1..k : ok(j) /\ rules[j].priority = after[k].priority
           S == {k \in 0..n : Good(k)}
<1>9. 0 \in S
  BY <1>3, <1>8
<1>10. ASSUME NEW k \in 1..n, k - 1 \in S PROVE k \in S
  <2>0. k \in 0..n /\ k - 1 \in 0..n /\ k \in Int /\ \A j \in 1..k : j \in 1..n /\ (j \in 1..(k - 1) \/ j = k)
    BY <1>3
  <2>1. after[k] = Better(after[k - 1], i, rules[k], r)
    BY <1>7, <1>8, <2>0
  <2>2. Good(k - 1)
    BY <1>10
  <2>3. after[k - 1].priority \in Nat /\ best.priority \in Nat /\ rules[k].priority \in Nat
    <3>1. after[k - 1] \in Bests(gs)
      BY <1>8, <2>0
    <3>2. after[k - 1].priority \in Nat /\ best.priority \in Nat
      BY <3>1 DEF Bests
    <3>3. rules[k].priority \in Nat
      BY <1>2, <1>3
    <3> QED
      BY <3>2, <3>3
  <2>4. \A j \in 1..k : rules[j].priority \in Nat
    BY <1>2, <1>3, <2>0
  <2>5. CASE ok(k) /\ rules[k].priority < after[k - 1].priority
    <3>1. after[k].index = i /\ after[k].priority = rules[k].priority
      BY <2>1, <2>5 DEF Better
    <3>2. \A j \in 1..k : ok(j) => after[k].priority <= rules[j].priority
      BY <2>0, <2>2, <2>3, <2>4, <2>5, <3>1
    <3>3. after[k - 1].priority <= best.priority
      BY <2>2, <2>3
    <3>4. after[k].priority < best.priority
      BY <2>3, <2>5, <3>1, <3>3
    <3>5. k \in 1..k
      BY <2>0
    <3>6. Good(k)
      BY <2>5, <3>1, <3>2, <3>4, <3>5
    <3> HIDE DEF Good
    <3> QED
      BY <2>0, <3>6
  <2>6. CASE ~ (ok(k) /\ rules[k].priority < after[k - 1].priority)
    <3>1. after[k] = after[k - 1]
      BY <2>1, <2>6 DEF Better
    <3>2. \A j \in 1..k : ok(j) => after[k].priority <= rules[j].priority
      BY <2>0, <2>2, <2>3, <2>4, <2>6, <3>1
    <3>3. 1..(k - 1) \subseteq 1..k
      BY <2>0
    <3>4. Good(k)
      BY <2>2, <3>1, <3>2, <3>3
    <3> HIDE DEF Good
    <3> QED
      BY <2>0, <3>4
  <2> QED
    BY <2>5, <2>6
<1> HIDE DEF S
<1>11. n \in S
  BY <1>3, <1>9, <1>10, UpTo
<1>12. Good(n)
  BY <1>11 DEF S
<1> QED
  BY <1>3, <1>4, <1>8, <1>12 DEF rules

(* The same in terms of a gateway: a rule of it for the region has this    *)
(* priority, or none has a better one.                                     *)
Offers(g, r, p) == \E j \in DOMAIN g.rules : Matches(g.rules[j], r) /\ g.rules[j].priority = p
AtLeast(g, r, p) == \A j \in DOMAIN g.rules : Matches(g.rules[j], r) => p <= g.rules[j].priority

LEMMA ScanRulesBest ==
  ASSUME NEW gs, IsGatewayList(gs), NEW r, NEW i \in 1..Len(gs), NEW best \in Bests(gs),
         NEW c, c = ScanRules(gs, r, i, best)
  PROVE  /\ c \in Bests(gs) /\ AtLeast(gs[i], r, c.priority)
         /\ c # best => c.index = i /\ c.priority < best.priority /\ Offers(gs[i], r, c.priority)
BY ScanRulesRight DEF Offers, AtLeast

LEMMA AtLeastLess ==
  ASSUME NEW gs, IsGatewayList(gs), NEW r, NEW i \in 1..Len(gs), NEW p \in Nat, NEW q \in Nat,
         AtLeast(gs[i], r, p), q <= p
  PROVE  AtLeast(gs[i], r, q)
<1>1. i \in DOMAIN gs
  BY DEF IsGatewayList
<1>2. \A j \in DOMAIN gs[i].rules : gs[i].rules[j].priority \in Nat
  BY <1>1 DEF IsGatewayList
<1> QED
  BY <1>2 DEF AtLeast

(* The outer loop: the best rule of all, and the first gateway to offer    *)
(* it.                                                                     *)
LEMMA ScanGatewaysRight ==
  ASSUME NEW gs, IsGatewayList(gs), NEW r, NEW c, c = ScanGateways(gs, r)
  PROVE  /\ c \in Bests(gs)
         /\ \A i \in 1..Len(gs) : AtLeast(gs[i], r, c.priority)
         /\ IF c.index = 0 THEN c.priority = MaxPriority
            ELSE /\ c.priority < MaxPriority /\ Offers(gs[c.index], r, c.priority)
                 /\ \A i \in 1..(c.index - 1) : ~ Offers(gs[i], r, c.priority)
<1> DEFINE n == Len(gs)
           step == [x \in (1..n) \X Bests(gs) |-> ScanRules(gs, r, x[1], x[2])]
<1>1. n \in Nat
  BY DEF IsGatewayList
<1>2. NoBest \in Bests(gs)
  BY <1>1 DEF NoBest, Bests
<1>3. step \in [(1..n) \X Bests(gs) -> Bests(gs)]
  <2>1. \A x \in (1..n) \X Bests(gs) : ScanRules(gs, r, x[1], x[2]) \in Bests(gs)
    <3>1. ASSUME NEW i \in 1..n, NEW b \in Bests(gs) PROVE ScanRules(gs, r, i, b) \in Bests(gs)
      BY ScanRulesBest
    <3> QED
      BY <3>1
  <2> QED
    BY <2>1
<1>4. ASSUME NEW b \in Bests(gs), NEW k \in 1..n PROVE step[<<k, b>>] = ScanRules(gs, r, k, b)
  BY <1>4
<1>5. c = Loop(n, NoBest, step)
  BY DEF ScanGateways
<1> HIDE DEF step, n
<1>6. PICK after : Passes(after, n, Bests(gs), NoBest, step) /\ Loop(n, NoBest, step) = after[n]
  BY <1>1, <1>2, <1>3, LoopRuns
<1>7. /\ after \in [0..n -> Bests(gs)]
      /\ after[0] = NoBest
      /\ \A k \in 1..n : after[k] = step[<<k, after[k - 1]>>]
      /\ c = after[n]
  BY <1>5, <1>6 DEF Passes
<1> DEFINE Good(k, b) ==
             /\ \A i \in 1..k : AtLeast(gs[i], r, b.priority)
             /\ IF b.index = 0 THEN b.priority = MaxPriority
                ELSE /\ b.index <= k /\ b.priority < MaxPriority
                     /\ Offers(gs[b.index], r, b.priority)
                     /\ \A i \in 1..(b.index - 1) : ~ Offers(gs[i], r, b.priority)
           S == {k \in 0..n : Good(k, after[k])}
<1>8. 0 \in S
  <2>1. Good(0, NoBest)
    BY DEF NoBest
  <2> QED
    BY <1>1, <1>7, <2>1
<1>9. ASSUME NEW k \in 1..n, k - 1 \in S PROVE k \in S
  <2> DEFINE a == after[k - 1]
             b == after[k]
  <2>0. k \in 0..n /\ k - 1 \in 0..n /\ k \in Int /\ k \in 1..Len(gs)
        /\ \A i \in 1..k : i \in 1..Len(gs) /\ (i \in 1..(k - 1) \/ i = k)
    BY <1>1 DEF n
  <2>1. a \in Bests(gs) /\ b = ScanRules(gs, r, k, a)
    BY <1>4, <1>7, <2>0
  <2>2. Good(k - 1, a)
    BY <1>9
  <2> HIDE DEF a, b
  <2>3. /\ b \in Bests(gs) /\ AtLeast(gs[k], r, b.priority)
        /\ b # a => b.index = k /\ b.priority < a.priority /\ Offers(gs[k], r, b.priority)
    BY <2>0, <2>1, ScanRulesBest
  <2>4. a.priority \in 0..MaxPriority /\ b.priority \in 0..MaxPriority /\ a.index \in Nat
    BY <1>1, <2>1, <2>3 DEF Bests, n
  <2>5. ASSUME b = a PROVE Good(k, b)
    <3>1. \A i \in 1..k : AtLeast(gs[i], r, b.priority)
      BY <2>0, <2>2, <2>3, <2>5
    <3>2. a.index # 0 => a.index <= k
      BY <2>0, <2>2, <2>4
    <3> QED
      BY <2>2, <2>5, <3>1, <3>2
  <2>6. ASSUME b # a PROVE Good(k, b)
    <3>1. ASSUME NEW i \in 1..(k - 1) PROVE AtLeast(gs[i], r, a.priority) /\ i \in 1..Len(gs)
      BY <2>0, <2>2
    <3>2. ASSUME NEW i \in 1..(k - 1) PROVE AtLeast(gs[i], r, b.priority)
      <4>1. b.priority <= a.priority /\ a.priority \in Nat /\ b.priority \in Nat
        BY <2>3, <2>4, <2>6
      <4> QED
        BY <3>1, <4>1, AtLeastLess
    <3>3. ASSUME NEW i \in 1..(k - 1) PROVE ~ Offers(gs[i], r, b.priority)
      <4>1. b.priority < a.priority /\ a.priority \in Nat /\ b.priority \in Nat
        BY <2>3, <2>4, <2>6
      <4> QED
        BY <3>1, <4>1 DEF AtLeast, Offers
    <3>4. \A i \in 1..k : AtLeast(gs[i], r, b.priority)
      BY <2>0, <2>3, <3>2
    <3>5. b.index = k /\ b.priority < MaxPriority /\ k # 0 /\ k <= k
      BY <2>0, <2>3, <2>4, <2>6
    <3> QED
      BY <2>3, <2>6, <3>3, <3>4, <3>5
  <2>7. Good(k, b)
    BY <2>5, <2>6
  <2> HIDE DEF Good
  <2> QED
    BY <2>0, <2>7 DEF b
<1> HIDE DEF S
<1>10. n \in S
  BY <1>1, <1>8, <1>9, UpTo
<1>11. Good(n, c) /\ c \in Bests(gs)
  BY <1>1, <1>7, <1>10 DEF S
<1> QED
  BY <1>11 DEF n

(* Min is a minimum wherever it is used.                                   *)
LEMMA MinOf ==
  ASSUME NEW S \in SUBSET Nat, S # {}
  PROVE  Min(S) \in S /\ \A x \in S : Min(S) <= x
<1> DEFINE IsMin(m) == m \in S /\ \A x \in S : m <= x
<1>1. \E m : IsMin(m)
  BY Least
<1>2. Min(S) = CHOOSE m \in S : \A x \in S : m <= x
  BY DEF Min
<1> QED
  BY <1>1, <1>2

(* RuleRank in the terms of the loops.                                     *)
LEMMA RuleRankOf ==
  ASSUME NEW gs, IsGatewayList(gs), NEW r, NEW i \in 1..Len(gs), NEW p \in 0..MaxPriority
  PROVE  /\ RuleRank(gs[i], r) \in 0..MaxPriority
         /\ AtLeast(gs[i], r, p) <=> p <= RuleRank(gs[i], r)
         /\ Offers(gs[i], r, p) => RuleRank(gs[i], r) <= p
         /\ RuleRank(gs[i], r) = p /\ p # MaxPriority => Offers(gs[i], r, p)
<1> DEFINE g == gs[i]
           Q == {g.rules[j].priority : j \in {k \in DOMAIN g.rules : Matches(g.rules[k], r)}}
           S == {MaxPriority} \cup Q
<1>1. \A j \in DOMAIN g.rules : g.rules[j].priority \in 0..MaxPriority
  BY DEF IsGatewayList
<1>2. S \in SUBSET (0..MaxPriority) /\ S \in SUBSET Nat /\ S # {}
  BY <1>1
<1>3. RuleRank(g, r) = Min(S)
  BY DEF RuleRank
<1>4. AtLeast(g, r, p) <=> \A x \in Q : p <= x
  BY DEF AtLeast
<1>5. Offers(g, r, p) <=> p \in Q
  BY DEF Offers
<1>6. MaxPriority \in S /\ Q \subseteq S /\ \A x \in S : x = MaxPriority \/ x \in Q
  OBVIOUS
<1> HIDE DEF Q, S, g
<1>7. Min(S) \in S /\ \A x \in S : Min(S) <= x
  BY <1>2, MinOf
<1>8. Min(S) \in 0..MaxPriority
  BY <1>2, <1>7
<1>9. ASSUME \A x \in Q : p <= x PROVE p <= Min(S)
  BY <1>6, <1>7, <1>8, <1>9
<1>10. ASSUME p <= Min(S) PROVE \A x \in Q : p <= x
  <2> TAKE x \in Q
  <2>1. Min(S) <= x /\ x \in Nat
    BY <1>2, <1>6, <1>7
  <2> QED
    BY <1>8, <1>10, <2>1
<1>11. p \in Q => Min(S) <= p
  BY <1>6, <1>7
<1>12. Min(S) # MaxPriority => Min(S) \in Q
  BY <1>6, <1>7
<1> QED
  BY <1>3, <1>4, <1>5, <1>8, <1>9, <1>10, <1>11, <1>12 DEF g

(* The m-th gateway is the first of those with the least key.              *)
First(gs, r, m) ==
  /\ m \in 1..Len(gs)
  /\ \A i \in 1..Len(gs) : Key(gs[m], r, gs) <= Key(gs[i], r, gs)
  /\ \A i \in 1..(m - 1) : Key(gs[m], r, gs) < Key(gs[i], r, gs)

(* find_preferred_gateway returns what its doc comment says (config.rs     *)
(* 92-95), for every list of gateways and rules: the first gateway with    *)
(* the lowest priority for the region, or if no rule is for the region the *)
(* first one with the lowest priority.                                     *)
THEOREM PreferredIsFirst ==
  ASSUME NEW gs, IsGatewayList(gs), gs # <<>>, NEW r
  PROVE  \E m : First(gs, r, m) /\ Preferred(gs, r) = gs[m]
<1>1. Len(gs) \in Nat /\ DOMAIN gs = 1..Len(gs) /\ 1 \in 1..Len(gs)
  BY DEF IsGatewayList
<1> DEFINE c == ScanGateways(gs, r)
           Rank(i) == RuleRank(gs[i], r)
           Least1 == {i \in DOMAIN gs : \A j \in DOMAIN gs : gs[i].priority <= gs[j].priority}
<1>2. Preferred(gs, r) = IF c.index # 0 THEN gs[c.index] ELSE gs[Min(Least1)]
  BY DEF Preferred
<1> HIDE DEF c, Least1
<1>3. /\ c \in Bests(gs)
      /\ \A i \in 1..Len(gs) : AtLeast(gs[i], r, c.priority)
      /\ IF c.index = 0 THEN c.priority = MaxPriority
         ELSE /\ c.priority < MaxPriority /\ Offers(gs[c.index], r, c.priority)
              /\ \A i \in 1..(c.index - 1) : ~ Offers(gs[i], r, c.priority)
  BY ScanGatewaysRight DEF c
<1>4. c.priority \in 0..MaxPriority /\ c.index \in 0..Len(gs)
  BY <1>3 DEF Bests
<1>5. \A i \in 1..Len(gs) : Rank(i) \in 0..MaxPriority /\ c.priority <= Rank(i)
  BY <1>3, <1>4, RuleRankOf
<1>6. CASE c.index # 0
  <2>0. c.index \in 1..Len(gs) /\ Offers(gs[c.index], r, c.priority)
    BY <1>1, <1>3, <1>4, <1>6
  <2>1. c.index \in 1..Len(gs) /\ Rank(c.index) <= c.priority
    BY <1>4, <2>0, RuleRankOf
  <2>2. Rank(c.index) = c.priority /\ c.priority # MaxPriority
    BY <1>3, <1>4, <1>5, <1>6, <2>1
  <2>3. \A i \in 1..Len(gs) : Key(gs[i], r, gs) = Rank(i)
    BY <1>1, <2>1, <2>2 DEF Key
  <2>4. ASSUME NEW i \in 1..(c.index - 1) PROVE i \in 1..Len(gs) /\ Rank(c.index) < Rank(i)
    <3>1. i \in 1..Len(gs) /\ ~ Offers(gs[i], r, c.priority)
      BY <1>1, <1>3, <1>4, <1>6
    <3>2. Rank(i) # c.priority
      BY <1>4, <2>2, <3>1, RuleRankOf
    <3> QED
      BY <1>4, <1>5, <2>2, <3>1, <3>2
  <2>5. \A i \in 1..Len(gs) : Rank(c.index) <= Rank(i)
    BY <1>5, <2>2
  <2> HIDE DEF Rank
  <2>6. First(gs, r, c.index)
    BY <2>1, <2>3, <2>4, <2>5 DEF First
  <2> QED
    BY <1>2, <1>6, <2>6
<1>7. CASE c.index = 0
  <2>1. \A i \in 1..Len(gs) : Rank(i) = MaxPriority
    BY <1>3, <1>5, <1>7
  <2>2. \A i \in 1..Len(gs) : Key(gs[i], r, gs) = gs[i].priority
    BY <1>1, <2>1 DEF Key
  <2>3. \A i \in 1..Len(gs) : gs[i].priority \in Nat
    BY <1>1 DEF IsGatewayList
  <2>4. Least1 # {}
    <3> DEFINE P == {gs[i].priority : i \in 1..Len(gs)}
    <3>1. P \in SUBSET Nat /\ P # {}
      BY <1>1, <2>3
    <3> HIDE DEF P
    <3>2. PICK p \in P : \A q \in P : p <= q
      BY <3>1, Least
    <3>3. PICK i \in 1..Len(gs) : p = gs[i].priority
      BY DEF P
    <3>4. \A j \in 1..Len(gs) : gs[i].priority <= gs[j].priority
      BY <3>2, <3>3 DEF P
    <3> QED
      BY <1>1, <3>4 DEF Least1
  <2>5. Least1 \in SUBSET Nat
    BY <1>1 DEF Least1
  <2> DEFINE m == Min(Least1)
  <2>6. m \in Least1 /\ \A i \in Least1 : m <= i
    BY <2>4, <2>5, MinOf
  <2> HIDE DEF m
  <2>7. m \in 1..Len(gs) /\ \A j \in 1..Len(gs) : gs[m].priority <= gs[j].priority
    BY <1>1, <2>6 DEF Least1
  <2>8. ASSUME NEW i \in 1..(m - 1) PROVE i \in 1..Len(gs) /\ gs[m].priority < gs[i].priority
    <3>1. i \in 1..Len(gs) /\ ~ (m <= i)
      BY <1>1, <2>7
    <3>2. i \notin Least1
      BY <2>6, <3>1
    <3>3. PICK j \in 1..Len(gs) : ~ (gs[i].priority <= gs[j].priority)
      BY <1>1, <3>1, <3>2 DEF Least1
    <3> QED
      BY <2>3, <2>7, <3>1, <3>3
  <2>9. First(gs, r, m)
    BY <2>2, <2>7, <2>8 DEF First
  <2> QED
    BY <1>2, <1>7, <2>9 DEF m
<1> QED
  BY <1>6, <1>7

(* sort_gateways exchanges the first gateway and one that has the name of  *)
(* the preferred one.                                                      *)
LEMMA SortedSwaps ==
  ASSUME NEW gs, IsGatewayList(gs), gs # <<>>, NEW r
  PROVE  \E i \in 1..Len(gs) :
           /\ Sorted(gs, r) = [gs EXCEPT ![1] = gs[i], ![i] = gs[1]]
           /\ gs[i].name = Preferred(gs, r).name
<1>1. Len(gs) \in Nat /\ DOMAIN gs = 1..Len(gs)
  BY DEF IsGatewayList
<1> DEFINE I == {i \in 1..Len(gs) : gs[i].name = Preferred(gs, r).name}
           i == IF I # {} THEN Min(I) ELSE 0
<1>2. Sorted(gs, r) = [gs EXCEPT ![1] = gs[i], ![i] = gs[1]]
  BY DEF Sorted, SelectInSeq
<1> HIDE DEF i
<1>3. I # {}
  BY PreferredIsFirst DEF First
<1>4. I \in SUBSET Nat
  BY <1>1
<1> HIDE DEF I
<1>5. i \in I
  BY <1>3, <1>4, MinOf DEF i
<1>6. i \in 1..Len(gs) /\ gs[i].name = Preferred(gs, r).name
  BY <1>5 DEF I
<1> QED
  BY <1>2, <1>6

(* The exchange loses and repeats no gateway.                              *)
LEMMA SortedIsPermutation ==
  ASSUME NEW gs, IsGatewayList(gs), gs # <<>>, NEW r
  PROVE  LET m == Sorted(gs, r)
         IN  /\ DOMAIN m = DOMAIN gs
             /\ \E f \in Bijection(DOMAIN m, DOMAIN gs) : \A i \in DOMAIN m : m[i] = gs[f[i]]
<1>1. Len(gs) \in Nat /\ DOMAIN gs = 1..Len(gs) /\ 1 \in 1..Len(gs)
  BY DEF IsGatewayList
<1>2. PICK k \in 1..Len(gs) : Sorted(gs, r) = [gs EXCEPT ![1] = gs[k], ![k] = gs[1]]
  BY SortedSwaps
<1> DEFINE m == Sorted(gs, r)
           f == [i \in 1..Len(gs) |-> IF i = 1 THEN k ELSE IF i = k THEN 1 ELSE i]
<1>3. DOMAIN m = 1..Len(gs) /\ \A i \in 1..Len(gs) : m[i] = gs[f[i]]
  BY <1>1, <1>2
<1> HIDE DEF m
<1>4. f \in [1..Len(gs) -> 1..Len(gs)]
  BY <1>1
<1>5. \A i \in 1..Len(gs) : f[f[i]] = i
  BY <1>1
<1> HIDE DEF f
<1>6. f \in Bijection(1..Len(gs), 1..Len(gs))
  BY <1>4, <1>5 DEF Bijection, Injection, Surjection, IsInjective
<1> QED
  BY <1>1, <1>3, <1>6 DEF m

(* Without two gateways of one name the exchange brings the preferred one  *)
(* to the front, and the keys do not depend on the order of the list.      *)
LEMMA SortedBestFirst ==
  ASSUME NEW gs, IsGatewayList(gs), gs # <<>>, NEW r, NEW m, m = Sorted(gs, r),
         IsInjective([i \in DOMAIN m |-> m[i].name])
  PROVE  \A i \in DOMAIN m : Key(m[1], r, m) <= Key(m[i], r, m)
<1>1. Len(gs) \in Nat /\ DOMAIN gs = 1..Len(gs) /\ 1 \in 1..Len(gs)
  BY DEF IsGatewayList
<1>2. PICK k \in 1..Len(gs) : /\ m = [gs EXCEPT ![1] = gs[k], ![k] = gs[1]]
                              /\ gs[k].name = Preferred(gs, r).name
  BY SortedSwaps
<1>3. PICK p : First(gs, r, p) /\ Preferred(gs, r) = gs[p]
  BY PreferredIsFirst
<1> DEFINE f == [i \in 1..Len(gs) |-> IF i = 1 THEN k ELSE IF i = k THEN 1 ELSE i]
<1>4. DOMAIN m = 1..Len(gs) /\ \A i \in 1..Len(gs) : m[i] = gs[f[i]]
  BY <1>1, <1>2
<1>5. \A i \in 1..Len(gs) : f[i] \in 1..Len(gs) /\ f[f[i]] = i
  BY <1>1
<1>6. f[1] = k /\ m[1] = gs[k]
  BY <1>1, <1>4
<1> HIDE DEF f
<1>7. p \in 1..Len(gs) /\ \A i \in 1..Len(gs) : Key(gs[p], r, gs) <= Key(gs[i], r, gs)
  BY <1>3 DEF First
<1>8. k = p
  <2>1. \A i, j \in 1..Len(gs) : m[i].name = m[j].name => i = j
    BY <1>4 DEF IsInjective
  <2>2. m[1].name = m[f[p]].name
    BY <1>2, <1>3, <1>4, <1>5, <1>6, <1>7
  <2>3. f[p] = 1
    BY <1>1, <1>5, <1>7, <2>1, <2>2
  <2> QED
    BY <1>5, <1>6, <1>7, <2>3
<1>9. (\A i \in DOMAIN m : RuleRank(m[i], r) = MaxPriority) <=> (\A i \in DOMAIN gs : RuleRank(gs[i], r) = MaxPriority)
  BY <1>1, <1>4, <1>5
<1>10. \A g : Key(g, r, m) = Key(g, r, gs)
  BY <1>9 DEF Key
<1> QED
  BY <1>4, <1>5, <1>6, <1>7, <1>8, <1>10

-----------------------------------------------------------------------------
(* While the user chooses, the menu is the portal's list, sorted for the   *)
(* region its prelogin gave.                                               *)
MenuInv ==
  pc = "choose" /\ ~args.pick =>
    IsGatewayList(offered) /\ offered # <<>> /\ menu = Sorted(offered, region)

(* Every portal config leaves a list that is not empty.                    *)
LEMMA OfferedList ==
  ASSUME NEW config \in PortalConfigs
  PROVE  LET gs == OrThePortal(GatewayList(config)) IN IsGatewayList(gs) /\ gs # <<>>
<1> DEFINE l == GatewayList(config)
           g == [name |-> server, address |-> server, priority |-> MaxPriority, rules |-> <<>>]
<1>1. l = None \/ IsGatewayList(l)
  BY GatewayListAssumption DEF GatewayList
<1>2. IsGatewayList(<<g>>) /\ <<g>> # <<>>
  <2>1. <<g>> \in Seq(ToSet(<<g>>)) /\ <<g>> # <<>>
    BY DEF ToSet
  <2>2. <<>> \in Seq(ToSet(<<>>))
    OBVIOUS
  <2>3. g.rules = <<>> /\ g.priority \in 0..MaxPriority
    OBVIOUS
  <2> HIDE DEF g
  <2>4. ASSUME NEW i \in DOMAIN <<g>>
        PROVE  /\ <<g>>[i].priority \in 0..MaxPriority
               /\ <<g>>[i].rules \in Seq(ToSet(<<g>>[i].rules))
               /\ \A j \in DOMAIN <<g>>[i].rules : <<g>>[i].rules[j].priority \in 0..MaxPriority
    <3>1. <<g>>[i] = g
      OBVIOUS
    <3>2. DOMAIN g.rules = {}
      BY <2>3
    <3> QED
      BY <2>2, <2>3, <3>1, <3>2
  <2> QED
    BY <2>1, <2>4 DEF IsGatewayList
<1> HIDE DEF l
<1>3. CASE l \in {None, <<>>}
  BY <1>2, <1>3 DEF OrThePortal, l
<1>4. CASE l \notin {None, <<>>}
  BY <1>1, <1>4 DEF OrThePortal, l
<1> QED
  BY <1>3, <1>4

LEMMA MenuStep == MenuInv /\ [Next]_vars => MenuInv'
<1> SUFFICES ASSUME MenuInv, [Next]_vars, pc' = "choose", ~ args'.pick
             PROVE  (IsGatewayList(offered) /\ offered # <<>> /\ menu = Sorted(offered, region))'
  BY DEF MenuInv
<1>1. CASE PortalConfig
  <2>1. PICK config \in PortalConfigs :
          offered' = OrThePortal(GatewayList(config)) /\ menu' = Menu(offered')
    BY <1>1 DEF PortalConfig
  <2>2. ~ args.pick /\ region' = region
    BY <1>1 DEF PortalConfig, constantOfRun
  <2>3. menu' = Sorted(offered', region')
    BY <2>1, <2>2 DEF Menu
  <2>4. IsGatewayList(offered') /\ offered' # <<>>
    BY <2>1, OfferedList
  <2> QED
    BY <2>3, <2>4
<1>2. CASE UNCHANGED vars
  BY <1>2 DEF vars, MenuInv
<1>3. CASE Next /\ ~ PortalConfig
  <2>1. ASSUME NEW err, Propagate(err) PROVE pc' # "choose"
    BY <2>1, PropagateMoves
  <2>2. FALSE
    BY <1>3, <2>1 DEF Next, HandleImpl, Prelogin, ObtainCredential, WithCredential, AnswerChallenge,
       PortalConfigFails, ChooseGateway, ChoiceCancelled, LoginAccepted, LoginFails, TunnelEnds,
       ConnectFails, Passphrase, PassphraseCancelled, Command, Begin, Return, BeginPrelogin,
       BeginExchange
  <2> QED
    BY <2>2
<1> QED
  BY <1>1, <1>2, <1>3

(* The user is shown every gateway of the portal and the best one first,   *)
(* for any gateway lists, rules and priorities.                            *)
THEOREM BestGatewayFirstAlways == Spec => []BestGatewayFirst
<1>1. Init => MenuInv
  BY DEF Init, MenuInv
<1>2. MenuInv => BestGatewayFirst
  BY SortedIsPermutation, SortedBestFirst DEF MenuInv, BestGatewayFirst
<1> QED
  BY <1>1, <1>2, MenuStep, PTL DEF Spec

-----------------------------------------------------------------------------
(* The types, and the way to the end of a command.                         *)

(* Only the portal workflow has a portal config to ask for.                *)
PortalPlaces == pc \in {"config", "choose"} => flow = "portal"

StageInv == TypeOK /\ PortalPlaces

Inner == {"prelogin", "saml", "standard", "config", "choose", "login", "tunnel"}
Flows == {"cached", "portal", "nested", "fallback", "direct"}

(* An error that is not returned makes the fallback of a portal workflow.  *)
LEMMA PropagateGoes ==
  ASSUME NEW err, Propagate(err)
  PROVE  /\ \/ pc' \in {"passphrase", "exited"} /\ UNCHANGED <<flow, exchange>>
            \/ /\ pc' = "prelogin" /\ flow' = "fallback" /\ flow \in {"portal", "nested"}
               /\ mfa' = None /\ challenge' = None
BY DEF Propagate, PortalFlowError, Return, BeginPrelogin, BeginExchange, exchange

(* Every step keeps the types, and goes to the portal's places from within *)
(* its workflow only.                                                      *)
LEMMA StageStep == StageInv /\ [Next]_vars => StageInv'
<1> SUFFICES ASSUME StageInv, [Next]_vars PROVE StageInv'
  OBVIOUS
<1> USE ClientConnectAssumption DEF StageInv, TypeOK, PortalPlaces
<1>1. ASSUME UNCHANGED <<constantOfRun, keyPass, stdin, signIns>>,
             NEW err, Propagate(err)
      PROVE  StageInv'
  BY <1>1, PropagateGoes DEF constantOfRun, exchange
<1>2. CASE HandleImpl
  BY <1>2 DEF HandleImpl, BeginPrelogin, BeginExchange, constantOfRun
<1>3. CASE Prelogin
  <2>1. CASE \E err : Propagate(err)
    BY <1>1, <1>3, <2>1 DEF Prelogin
  <2>2. CASE ~ \E err : Propagate(err)
    BY <1>3, <2>2 DEF Prelogin, exchange, constantOfRun
  <2> QED
    BY <2>1, <2>2
<1>4. CASE ObtainCredential
  <2>0. stdin'.read \in Nat /\ stdin'.kept \in BOOLEAN
    <3>1. CASE UNCHANGED stdin
      BY <3>1
    <3> QED
      BY <1>4, <3>1, TakenOnce DEF ObtainCredential
  <2>1. UNCHANGED <<args, server, command, keyPass>> /\ signIns' \in Nat
    BY <1>4 DEF ObtainCredential, constantOfRun
  <2>2. CASE Propagate("Other")
    BY <2>0, <2>1, <2>2, PropagateGoes DEF exchange
  <2>3. CASE ~ Propagate("Other")
    BY <1>4, <2>0, <2>1, <2>3 DEF ObtainCredential, WithCredential, BeginExchange
  <2> QED
    BY <2>2, <2>3
<1>5. CASE AnswerChallenge
  BY <1>5 DEF AnswerChallenge, constantOfRun
<1>6. CASE PortalConfig
  <2>1. CASE Propagate("Other")
    BY <1>1, <1>6, <2>1 DEF PortalConfig
  <2>2. CASE ~ Propagate("Other")
    BY <1>6, <2>2 DEF PortalConfig, exchange, constantOfRun
  <2> QED
    BY <2>1, <2>2
<1>7. CASE PortalConfigFails
  BY <1>1, <1>7 DEF PortalConfigFails
<1>8. CASE ChooseGateway
  BY <1>8 DEF ChooseGateway, BeginExchange, constantOfRun
<1>9. CASE ChoiceCancelled \/ LoginAccepted \/ TunnelEnds
  BY <1>9 DEF ChoiceCancelled, LoginAccepted, TunnelEnds, Return, exchange, constantOfRun
<1>10. CASE LoginFails
  BY <1>10 DEF LoginFails, BeginPrelogin, BeginExchange, Return, exchange, constantOfRun
<1>11. CASE ConnectFails
  <2>1. CASE Propagate("Other")
    BY <1>1, <1>11, <2>1 DEF ConnectFails
  <2>2. CASE ~ Propagate("Other")
    BY <1>11, <2>2 DEF ConnectFails, BeginPrelogin, BeginExchange, constantOfRun
  <2> QED
    BY <2>1, <2>2
<1>12. CASE PassphraseCancelled \/ \E pass \in {"right", "wrong"} : Passphrase(pass)
  BY <1>12 DEF PassphraseCancelled, Passphrase, KeepPassphrase, exchange, constantOfRun
<1>13. CASE Command
  <2>1. command' \in 1..MaxCommands
    BY <1>13 DEF Command
  <2>2. PICK a \in Arguments, s \in Servers : Begin(a, s)
    BY <1>13 DEF Command
  <2>3. a.key \in {"none", "right", "wrong"}
    OBVIOUS
  <2> QED
    BY <2>1, <2>2, <2>3 DEF Begin
<1>14. CASE UNCHANGED vars
  BY <1>14 DEF vars
<1> QED
  BY <1>2, <1>3, <1>4, <1>5, <1>6, <1>7, <1>8, <1>9, <1>10, <1>11, <1>12, <1>13, <1>14 DEF Next

(* The types hold in every state of every command.                         *)
THEOREM TypeCorrect == Spec => []TypeOK
<1>1. Init => StageInv
  BY ClientConnectAssumption DEF Init, StageInv, TypeOK, PortalPlaces
<1>2. StageInv => TypeOK
  BY DEF StageInv
<1> QED
  BY <1>1, <1>2, StageStep, PTL DEF Spec

(* What is to go where an exchange runs, and where none does.              *)
LEMMA ToGoIs ==
  /\ pc \in {"exited", "passphrase"} => ToGo = 0
  /\ pc = "begin" => ToGo = 100
  /\ pc \in Inner => ToGo = Workflow[flow] + Exchange[pc]
BY DEF ToGo, Inner

LEMMA ToGoNext ==
  /\ pc' \in {"exited", "passphrase"} => ToGo' = 0
  /\ pc' = "begin" => ToGo' = 100
  /\ pc' \in Inner => ToGo' = Workflow[flow'] + Exchange[pc']
BY DEF ToGo, Inner

(* A workflow takes at most six exchanges.                                 *)
LEMMA Shorter ==
  /\ \A p \in Inner : Exchange[p] \in 1..6
  /\ \A f \in Flows : Workflow[f] \in 10..50
BY DEF Inner, Flows, Exchange, Workflow

(* A step is onward within its workflow, to a later workflow, or out.      *)
LEMMA Nearer ==
  ASSUME pc \in Inner, flow \in Flows,
         \/ pc' \in {"exited", "passphrase"}
         \/ pc' \in Inner /\ flow' = flow /\ Exchange[pc'] < Exchange[pc]
         \/ pc' \in Inner /\ flow' \in Flows /\ Workflow[flow'] + 10 <= Workflow[flow]
  PROVE  ToGo' < ToGo
<1>1. ToGo = Workflow[flow] + Exchange[pc] /\ Workflow[flow] \in 10..50 /\ Exchange[pc] \in 1..6
  BY ToGoIs, Shorter
<1>2. CASE pc' \in {"exited", "passphrase"}
  BY <1>1, <1>2, ToGoNext
<1>3. CASE pc' \in Inner /\ flow' = flow /\ Exchange[pc'] < Exchange[pc]
  <2>1. ToGo' = Workflow[flow] + Exchange[pc'] /\ Exchange[pc'] \in 1..6
    BY <1>3, ToGoNext, Shorter
  <2> QED
    BY <1>1, <1>3, <2>1
<1>4. CASE pc' \in Inner /\ flow' \in Flows /\ Workflow[flow'] + 10 <= Workflow[flow]
  <2>1. /\ ToGo' = Workflow[flow'] + Exchange[pc']
        /\ Exchange[pc'] \in 1..6 /\ Workflow[flow'] \in 10..50
    BY <1>4, ToGoNext, Shorter
  <2> QED
    BY <1>1, <1>4, <2>1
<1> QED
  BY <1>2, <1>3, <1>4

(* The order of the workflows.                                             *)
LEMMA Later ==
  /\ Workflow["portal"] + 10 <= Workflow["cached"]
  /\ Workflow["nested"] + 10 <= Workflow["portal"]
  /\ \A f \in {"portal", "nested"} : Workflow["fallback"] + 10 <= Workflow[f]
BY DEF Workflow

Challenged == challenge' # challenge /\ UNCHANGED <<pc, flow, target, cred>>

LEMMA OnwardStep ==
  StageInv /\ Next => pc \in {"exited", "passphrase"} \/ Challenged \/ ToGo' < ToGo
<1> SUFFICES ASSUME StageInv, Next, pc \notin {"exited", "passphrase"}
             PROVE  Challenged \/ ToGo' < ToGo
  OBVIOUS
<1>0. flow \in Flows /\ (pc = "begin" \/ pc \in Inner) /\ PortalPlaces
  BY DEF StageInv, TypeOK, Flows, Inner
<1>1. ASSUME NEW err, Propagate(err), pc \in Inner PROVE ToGo' < ToGo
  BY <1>0, <1>1, PropagateGoes, Later, Nearer DEF Inner, Flows
<1>2. CASE HandleImpl
  <2>1. pc = "begin" /\ pc' \in Inner /\ flow' \in Flows
    BY <1>2 DEF HandleImpl, BeginPrelogin, BeginExchange, Inner, Flows
  <2> QED
    BY <2>1, ToGoIs, ToGoNext, Shorter
<1>3. ASSUME pc \in Inner, pc' \in Inner, flow' = flow, Exchange[pc'] < Exchange[pc]
      PROVE  ToGo' < ToGo
  BY <1>0, <1>3, Nearer
<1>4. CASE Prelogin
  <2>1. pc \in Inner
    BY <1>4 DEF Prelogin, Inner
  <2>2. CASE \E err : Propagate(err)
    BY <1>1, <2>1, <2>2
  <2>3. CASE ~ \E err : Propagate(err)
    BY <1>3, <1>4, <2>1, <2>3 DEF Prelogin, Inner, Exchange
  <2> QED
    BY <2>2, <2>3
<1>5. CASE ObtainCredential
  <2>1. pc \in Inner
    BY <1>5 DEF ObtainCredential, Inner
  <2>2. CASE Propagate("Other")
    BY <1>1, <2>1, <2>2
  <2>3. CASE ~ Propagate("Other")
    <3>1. pc \in {"saml", "standard"} /\ pc' \in {"config", "login"} /\ flow' = flow
      BY <1>5, <2>3 DEF ObtainCredential, WithCredential, BeginExchange
    <3> QED
      BY <1>3, <2>1, <3>1 DEF Inner, Exchange
  <2> QED
    BY <2>2, <2>3
<1>6. CASE PortalConfig
  <2>1. pc \in Inner
    BY <1>6 DEF PortalConfig, Inner
  <2>2. CASE Propagate("Other")
    BY <1>1, <2>1, <2>2
  <2>3. CASE ~ Propagate("Other")
    <3>1. pc = "config" /\ pc' = "choose" /\ flow' = flow
      BY <1>6, <2>3 DEF PortalConfig
    <3> QED
      BY <1>3, <3>1 DEF Inner, Exchange
  <2> QED
    BY <2>2, <2>3
<1>7. CASE PortalConfigFails
  <2>1. pc \in Inner
    BY <1>7 DEF PortalConfigFails, Inner
  <2> QED
    BY <1>1, <1>7, <2>1 DEF PortalConfigFails
<1>8. CASE ChooseGateway
  <2>1. pc = "choose" /\ pc' = "login" /\ flow' = flow
    BY <1>0, <1>8 DEF ChooseGateway, BeginExchange, PortalPlaces
  <2> QED
    BY <1>3, <2>1 DEF Inner, Exchange
<1>9. CASE ChoiceCancelled \/ TunnelEnds
  <2>1. pc \in Inner /\ pc' \in {"exited", "passphrase"}
    BY <1>9 DEF ChoiceCancelled, TunnelEnds, Return, Inner
  <2> QED
    BY <1>0, <2>1, Nearer
<1>10. CASE LoginAccepted
  <2>1. pc = "login" /\ pc' = "tunnel" /\ flow' = flow
    BY <1>10 DEF LoginAccepted
  <2> QED
    BY <1>3, <2>1 DEF Inner, Exchange
<1>11. CASE LoginFails
  <2>1. pc \in Inner
    BY <1>11 DEF LoginFails, Inner
  <2>2. \/ pc' \in {"exited", "passphrase"}
        \/ pc' = "prelogin" /\ flow = "cached" /\ flow' = "portal"
        \/ pc' = "prelogin" /\ flow = "portal" /\ flow' = "nested"
    BY <1>11 DEF LoginFails, BeginPrelogin, BeginExchange, Return
  <2> QED
    BY <1>0, <2>1, <2>2, Later, Nearer DEF Inner, Flows
<1>12. CASE ConnectFails
  <2>1. pc \in Inner
    BY <1>12 DEF ConnectFails, Inner
  <2>2. CASE flow = "cached"
    <3>1. pc' = "prelogin" /\ flow' = "portal"
      BY <1>12, <2>2 DEF ConnectFails, BeginPrelogin, BeginExchange
    <3> QED
      BY <1>0, <2>1, <2>2, <3>1, Later, Nearer DEF Inner, Flows
  <2>3. CASE flow # "cached"
    BY <1>1, <1>12, <2>1, <2>3 DEF ConnectFails
  <2> QED
    BY <2>2, <2>3
<1>13. CASE AnswerChallenge
  BY <1>13 DEF AnswerChallenge, Challenged
<1> QED
  BY <1>2, <1>4, <1>5, <1>6, <1>7, <1>8, <1>9, <1>10, <1>11, <1>12, <1>13
     DEF Next, Passphrase, PassphraseCancelled, Command

(* Every step of a command brings it nearer to its end, except the answer  *)
(* to a challenge and a new start with another passphrase.                 *)
THEOREM OnwardAlways == Spec => Onward
<1>1. Init => StageInv
  BY ClientConnectAssumption DEF Init, StageInv, TypeOK, PortalPlaces
<1>2. StageInv /\ [Next]_vars =>
        [\/ pc \in {"exited", "passphrase"}
         \/ challenge' # challenge /\ UNCHANGED <<pc, flow, target, cred>>
         \/ ToGo' < ToGo]_vars
  BY OnwardStep DEF Challenged
<1> QED
  BY <1>1, <1>2, StageStep, PTL DEF Spec, Onward

=============================================================================
