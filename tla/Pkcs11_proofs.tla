----------------------------- MODULE Pkcs11_proofs -----------------------------
(***************************************************************************)
(* What Pkcs11 guarantees for any number of HTTP clients.                  *)
(***************************************************************************)
EXTENDS Pkcs11, TLAPS

USE Pkcs11Assumption

(* Every step keeps the types, and the request inside get_or_init is the   *)
(* one the OnceLock knows of.                                              *)
LEMMA TypeStep == TypeOK /\ [Next]_vars => TypeOK'
<1> SUFFICES ASSUME TypeOK, [Next]_vars PROVE TypeOK'
  OBVIOUS
<1> USE DEF TypeOK
<1>1. ASSUME NEW r \in Requests, Call(r) \/ Proceed(r) \/ Sign(r) \/ DropClient(r)
     PROVE TypeOK'
  <2>1. CASE Call(r)
    BY <2>1 DEF Call, Step, context, module, token
  <2>2. CASE Cached(r)
    BY <2>2 DEF Cached, Step, Fails, context, module, token
  <2>3. CASE Build(r)
    <3>1. CASE Set(r, "error") /\ UNCHANGED <<module, scans>>
      BY <2>3, <3>1 DEF Build, Set, module, token
    <3>2. CASE lib = "off" /\ Initialize("us") /\ scans' = 1 /\ Step(r, "context", "built")
                 /\ builder' = r /\ UNCHANGED ctx
      <4>1. sees' \in BOOLEAN /\ lib' = "us"
        BY <3>2 DEF Initialize
      <4> QED
        BY <2>3, <3>2, <4>1 DEF Build, Step, token
    <3>3. CASE lib # "off" /\ Initialize("us") /\ scans' = 0 /\ Set(r, "ok")
      BY <2>3, <3>3 DEF Build, Initialize, Set, module, token
    <3> QED
      BY <2>3, <3>1, <3>2, <3>3 DEF Build, WeInitialized
  <2>4. CASE LookForToken(r)
    BY <2>4 DEF LookForToken, Step, Rescan, Set, context, module, token
  <2>5. CASE Drop(r)
    BY <2>5 DEF Drop, Step, context
  <2>6. CASE Rebuild(r)
    <3>1. lib' \in {"off", "us", "gnutls"} /\ sees' \in BOOLEAN /\ scans' \in 0..2
      <4>1. CASE UNCHANGED <<module, scans>>
        BY <4>1 DEF module
      <4>2. CASE lib = "off" /\ Initialize("us") /\ scans' = 2
        BY <4>2 DEF Initialize
      <4>3. CASE lib # "off" /\ Initialize("us") /\ scans' = scans
        BY <4>3 DEF Initialize, module
      <4> QED
        BY <2>6, <4>1, <4>2, <4>3 DEF Rebuild
    <3>2. Set(r, "error") \/ Set(r, "ok")
      BY <2>6 DEF Rebuild
    <3> QED
      BY <2>6, <3>1, <3>2 DEF Rebuild, Set, token
  <2>7. CASE OpenSession(r)
    BY <2>7 DEF OpenSession, Step, Fails, context, module
  <2>8. CASE Login(r)
    <3>1. CASE Step(r, "opened", "loggedIn") /\ login' = TRUE /\ UNCHANGED sessions
      BY <2>8, <3>1 DEF Login, Step, context, module
    <3>2. CASE pc[r] = "opened" /\ Fails(r) /\ Close(r)
      BY <2>8, <3>2 DEF Login, Fails, Close, context, module
    <3> QED
      BY <2>8, <3>1, <3>2 DEF Login
  <2>9. CASE FindObjects(r)
    <3>1. CASE Step(r, "loggedIn", "ready") /\ UNCHANGED token
      BY <2>9, <3>1 DEF FindObjects, Step, context, module, token
    <3>2. CASE pc[r] = "loggedIn" /\ Fails(r) /\ Close(r)
      BY <2>9, <3>2 DEF FindObjects, Fails, Close, context, module
    <3> QED
      BY <2>9, <3>1, <3>2 DEF FindObjects
  <2>10. CASE Sign(r)
    BY <2>10 DEF Sign, Step, context, module, token
  <2>11. CASE DropClient(r)
    BY <2>11 DEF DropClient, Close, context, module
  <2> QED
    BY <1>1, <2>1, <2>2, <2>3, <2>4, <2>5, <2>6, <2>7, <2>8, <2>9, <2>10, <2>11
       DEF Proceed
<1>2. CASE TunnelStarts
  BY <1>2 DEF TunnelStarts, Initialize, context, module, token, request
<1>3. CASE TunnelEnds
  BY <1>3 DEF TunnelEnds, Close, context, module, request
<1>4. CASE Contend
  BY <1>4 DEF Contend, context, module, token, request
<1>5. CASE UNCHANGED vars
  BY <1>5 DEF vars, context, module, token, request
<1> QED
  BY <1>1, <1>2, <1>3, <1>4, <1>5 DEF Next

(* The variables of Pkcs11 keep their types.                               *)
THEOREM TypeCorrect == Spec => []TypeOK
<1>1. Init => TypeOK
  <2> SUFFICES ASSUME Init PROVE TypeOK
    OBVIOUS
  <2>1. sees \in BOOLEAN /\ login \in BOOLEAN /\ tunnel \in BOOLEAN
    BY DEF Init
  <2>2. \A r \in Requests : builder = r <=> pc[r] \in {"built", "drop", "dropped"}
    BY DEF Init
  <2> QED
    BY <2>1, <2>2 DEF Init, TypeOK
<1> QED
  BY <1>1, TypeStep, PTL DEF Spec

-----------------------------------------------------------------------------
(* ReadyMeansLoggedIn is not inductive: a C_Finalize ends every session.   *)
(* It comes before any request has got a context, since ctx is set last.   *)
HasSession == {"opened", "loggedIn", "ready", "sent"}

BeforeContext ==
  /\ builder # None => ctx = "unset"
  /\ ctx = "unset" => \A r \in Requests : pc[r] \notin HasSession \cup {"slots"}

SessionOpen == \A r \in Requests : pc[r] \in HasSession => r \in sessions

LoginInv == BeforeContext /\ SessionOpen /\ ReadyMeansLoggedIn

(* A session is opened by its request and closed by nobody else.           *)
LEMMA LoginStep == TypeOK /\ LoginInv /\ [Next]_vars => LoginInv'
<1> SUFFICES ASSUME TypeOK, LoginInv, [Next]_vars PROVE LoginInv'
  OBVIOUS
<1> USE DEF TypeOK, LoginInv, BeforeContext, SessionOpen, ReadyMeansLoggedIn, HasSession
<1>1. ASSUME NEW r \in Requests, Call(r) \/ Proceed(r) \/ Sign(r) \/ DropClient(r)
     PROVE LoginInv'
  <2>1. CASE Call(r)
    BY <2>1 DEF Call, Step, context, module, token
  <2>2. CASE Cached(r)
    BY <2>2 DEF Cached, Step, Fails, context, module, token
  <2>3. CASE Build(r)
    BY <2>3 DEF Build, Step, Initialize, WeInitialized, Set, module, token
  <2>4. CASE LookForToken(r)
    BY <2>4 DEF LookForToken, Step, Rescan, Set, context, module, token
  <2>5. CASE Drop(r)
    BY <2>5 DEF Drop, Step, context
  <2>6. CASE Rebuild(r)
    BY <2>6 DEF Rebuild, Initialize, Set, module, token
  <2>7. CASE OpenSession(r)
    BY <2>7 DEF OpenSession, Step, Fails, context, module
  <2>8. CASE Login(r)
    BY <2>8 DEF Login, Step, Fails, Accepts, Close, context, module
  <2>9. CASE FindObjects(r)
    BY <2>9 DEF FindObjects, Step, Fails, Close, context, module, token
  <2>10. CASE Sign(r)
    BY <2>10 DEF Sign, Step, context, module, token
  <2>11. CASE DropClient(r)
    BY <2>11 DEF DropClient, Close, context, module
  <2> QED
    BY <1>1, <2>1, <2>2, <2>3, <2>4, <2>5, <2>6, <2>7, <2>8, <2>9, <2>10, <2>11
       DEF Proceed
<1>2. CASE TunnelStarts
  BY <1>2 DEF TunnelStarts, Initialize, context, module, token, request
<1>3. CASE TunnelEnds
  BY <1>3 DEF TunnelEnds, Close, context, module, request
<1>4. CASE Contend
  BY <1>4 DEF Contend, context, module, token, request
<1>5. CASE UNCHANGED vars
  BY <1>5 DEF vars, context, module, token, request
<1> QED
  BY <1>1, <1>2, <1>3, <1>4, <1>5 DEF Next

(* A client past its login can sign until it is dropped, whatever sessions *)
(* others open and close on the token they share.                          *)
THEOREM ReadyMeansLoggedInAlways == Spec => []ReadyMeansLoggedIn
<1>1. Init => LoginInv
  BY DEF Init, LoginInv, BeforeContext, SessionOpen, ReadyMeansLoggedIn, HasSession
<1>2. LoginInv => ReadyMeansLoggedIn
  BY DEF LoginInv
<1> QED
  BY <1>1, <1>2, LoginStep, TypeCorrect, PTL DEF Spec

-----------------------------------------------------------------------------
(* NeverTornAway needs that no tunnel comes up while the context is built. *)
TunnelInv == NeverTornAway /\ (builder # None => ~tunnel)

(* The finalise is only reached from an initialisation of our own, which   *)
(* no tunnel can be above, and no tunnel starts until it is over.          *)
LEMMA TunnelStep ==
  ASSUME ~Racing
  PROVE  TypeOK /\ TunnelInv /\ [Next]_vars => TunnelInv'
<1> SUFFICES ASSUME TypeOK, TunnelInv, [Next]_vars PROVE TunnelInv'
  OBVIOUS
<1> USE DEF TypeOK, TunnelInv, NeverTornAway
<1>1. ASSUME NEW r \in Requests, Call(r) \/ Proceed(r) \/ Sign(r) \/ DropClient(r)
     PROVE TunnelInv'
  <2>1. CASE Call(r)
    BY <2>1 DEF Call, Step, context, module, token
  <2>2. CASE Cached(r)
    BY <2>2 DEF Cached, Step, Fails, context, module, token
  <2>3. CASE Build(r)
    BY <2>3 DEF Build, Step, Initialize, WeInitialized, Set, module, token
  <2>4. CASE LookForToken(r)
    BY <2>4 DEF LookForToken, Step, Rescan, Set, context, module, token
  <2>5. CASE Drop(r)
    BY <2>5 DEF Drop, Step, context
  <2>6. CASE Rebuild(r)
    BY <2>6 DEF Rebuild, Initialize, Set, module, token
  <2>7. CASE OpenSession(r)
    BY <2>7 DEF OpenSession, Step, Fails, context, module
  <2>8. CASE Login(r)
    BY <2>8 DEF Login, Step, Fails, Accepts, Close, context, module
  <2>9. CASE FindObjects(r)
    BY <2>9 DEF FindObjects, Step, Fails, Close, context, module, token
  <2>10. CASE Sign(r)
    BY <2>10 DEF Sign, Step, context, module, token
  <2>11. CASE DropClient(r)
    BY <2>11 DEF DropClient, Close, context, module
  <2> QED
    BY <1>1, <2>1, <2>2, <2>3, <2>4, <2>5, <2>6, <2>7, <2>8, <2>9, <2>10, <2>11
       DEF Proceed
<1>2. CASE TunnelStarts
  BY <1>2 DEF TunnelStarts, Initialize, context, module, token, request
<1>3. CASE TunnelEnds
  BY <1>3 DEF TunnelEnds, Close, context, module, request
<1>4. CASE Contend
  BY <1>4 DEF Contend, context, module, token, request
<1>5. CASE UNCHANGED vars
  BY <1>5 DEF vars, context, module, token, request
<1> QED
  BY <1>1, <1>2, <1>3, <1>4, <1>5 DEF Next

(* Without a dial beside the first initialisation, a tunnel never loses    *)
(* the module or its session.                                              *)
THEOREM NeverTornAwayAlways ==
  ASSUME ~Racing
  PROVE  Spec => []NeverTornAway
<1>1. Init => TunnelInv
  BY DEF Init, TunnelInv, NeverTornAway
<1>2. TunnelInv => NeverTornAway
  BY DEF TunnelInv
<1> QED
  BY <1>1, <1>2, TunnelStep, TypeCorrect, PTL DEF Spec

-----------------------------------------------------------------------------
(* What is known of the module while nothing is cached: until we bring it  *)
(* up ourselves only GnuTLS can have done so, and so again after the drop. *)
ScanInv ==
  /\ ScannedTwice
  /\ (ctx = "unset" /\ builder = None) => lib # "us"
  /\ \A r \in Requests : pc[r] = "dropped" => lib # "us"
  /\ builder # None => ctx = "unset"
  /\ ctx = "ok" => lib # "off"
  /\ sees => lib # "off"

(* The context is cached with a token in sight, from another's             *)
(* initialisation, or after the second scan.                               *)
LEMMA ScanStep == TypeOK /\ ScanInv /\ [Next]_vars => ScanInv'
<1> SUFFICES ASSUME TypeOK, ScanInv, [Next]_vars PROVE ScanInv'
  OBVIOUS
<1> USE DEF TypeOK, ScanInv, ScannedTwice
<1>1. ASSUME NEW r \in Requests, Call(r) \/ Proceed(r) \/ Sign(r) \/ DropClient(r)
     PROVE ScanInv'
  <2>1. CASE Call(r)
    BY <2>1 DEF Call, Step, context, module, token
  <2>2. CASE Cached(r)
    BY <2>2 DEF Cached, Step, Fails, context, module, token
  <2>3. CASE Build(r)
    BY <2>3 DEF Build, Step, Initialize, WeInitialized, Set, module, token
  <2>4. CASE LookForToken(r)
    <3>1. UNCHANGED <<lib, sees>>
      BY <2>4 DEF LookForToken, module
    <3>2. CASE Step(r, "built", "drop") /\ UNCHANGED context
      BY <3>1, <3>2 DEF Step, context
    <3>3. CASE sees /\ Set(r, "ok")
      BY <2>4, <3>1, <3>3 DEF LookForToken, Set
    <3> QED
      BY <2>4, <3>2, <3>3 DEF LookForToken, Rescan
  <2>5. CASE Drop(r)
    BY <2>5 DEF Drop, Step, context
  <2>6. CASE Rebuild(r)
    BY <2>6 DEF Rebuild, Initialize, Set, module, token
  <2>7. CASE OpenSession(r)
    BY <2>7 DEF OpenSession, Step, Fails, context, module
  <2>8. CASE Login(r)
    BY <2>8 DEF Login, Step, Fails, Accepts, Close, context, module
  <2>9. CASE FindObjects(r)
    BY <2>9 DEF FindObjects, Step, Fails, Close, context, module, token
  <2>10. CASE Sign(r)
    BY <2>10 DEF Sign, Step, context, module, token
  <2>11. CASE DropClient(r)
    BY <2>11 DEF DropClient, Close, context, module
  <2> QED
    BY <1>1, <2>1, <2>2, <2>3, <2>4, <2>5, <2>6, <2>7, <2>8, <2>9, <2>10, <2>11
       DEF Proceed
<1>2. CASE TunnelStarts
  BY <1>2 DEF TunnelStarts, Initialize, context, module, token, request
<1>3. CASE TunnelEnds
  BY <1>3 DEF TunnelEnds, Close, context, module, request
<1>4. CASE Contend
  BY <1>4 DEF Contend, context, module, token, request
<1>5. CASE UNCHANGED vars
  BY <1>5 DEF vars, context, module, token, request
<1> QED
  BY <1>1, <1>2, <1>3, <1>4, <1>5 DEF Next

(* A busy reader always gets its second scan before an empty list is       *)
(* cached for good.                                                        *)
THEOREM ScannedTwiceAlways == Spec => []ScannedTwice
<1>1. Init => ScanInv
  BY DEF Init, ScanInv, ScannedTwice
<1>2. ScanInv => ScannedTwice
  BY DEF ScanInv
<1> QED
  BY <1>1, <1>2, ScanStep, TypeCorrect, PTL DEF Spec

=============================================================================
