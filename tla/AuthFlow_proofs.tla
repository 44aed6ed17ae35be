--------------------------- MODULE AuthFlow_proofs ---------------------------
(***************************************************************************)
(* What AuthFlow guarantees for any number of flows and gateways, and for  *)
(* clients that log in whenever they like.                                 *)
(***************************************************************************)
EXTENDS AuthFlow, TLAPS

USE AuthFlowAssumption

(* Every step keeps the types; in particular a flow only repeats an        *)
(* exchange that it was challenged in, and only a pick that the portal     *)
(* offered becomes the gateway of a login.                                 *)
LEMMA TypeStep == TypeOK /\ [Next]_vars => TypeOK'
<1> SUFFICES ASSUME TypeOK, [Next]_vars PROVE TypeOK'
  OBVIOUS
<1> USE DEF TypeOK, Answers, Places
<1>1. ASSUME NEW f \in Flows, FlowStep(f) PROVE TypeOK'
  <2>1. CASE ConnectAuth(f)
    BY <2>1 DEF ConnectAuth, Goto
  <2>2. CASE ResolveCredential(f)
    BY <2>2 DEF ResolveCredential, Fail, End, Goto, Select
  <2>3. CASE RetrieveConfig(f)
    <3>1. CASE Fail(f)
      BY <3>1 DEF Fail, End, Goto
    <3>2. CASE Challenged(f, "config")
      BY <3>2 DEF Challenged, Goto
    <3>3. CASE ~ Fail(f) /\ ~ Challenged(f, "config")
      BY <2>3, <3>3 DEF RetrieveConfig, Goto, Select
    <3> QED
      BY <3>1, <3>2, <3>3
  <2>4. CASE GatewayLogin(f)
    BY <2>4 DEF GatewayLogin, Fail, End, Goto, Challenged
  <2>5. CASE ParkMfa(f)
    BY <2>5 DEF ParkMfa, AfterPark, Goto
  <2>6. CASE ShowMfa(f)
    BY <2>6 DEF ShowMfa, Goto
  <2>7. CASE CodeEntered(f)
    BY <2>7 DEF CodeEntered, Fail, End, Goto
  <2>8. CASE ParkGateway(f)
    BY <2>8 DEF ParkGateway, AfterPark, Goto
  <2>9. CASE ShowGateways(f)
    BY <2>9 DEF ShowGateways, Goto
  <2>10. CASE GatewayPicked(f)
    BY <2>10 DEF GatewayPicked, Fail, End, Goto, Select
  <2>11. CASE HandOver(f)
    BY <2>11 DEF HandOver, End, Goto
  <2> QED
    BY <1>1, <2>1, <2>2, <2>3, <2>4, <2>5, <2>6, <2>7, <2>8, <2>9, <2>10,
       <2>11 DEF FlowStep, Wake
<1>2. CASE SubmitMfa
  BY <1>2 DEF SubmitMfa, Send
<1>3. ASSUME NEW g \in Gateways, SelectGateway(g) PROVE TypeOK'
  BY <1>3 DEF SelectGateway, Send
<1>4. CASE Disconnect
  BY <1>4 DEF Disconnect
<1>5. CASE CancelStep
  BY <1>5 DEF CancelStep, CancelMfa, CancelGateway, Send
<1>6. CASE UNCHANGED vars
  BY <1>6 DEF vars
<1> QED
  BY <1>1, <1>2, <1>3, <1>4, <1>5, <1>6 DEF Next

(* The types hold in every state: whatever prompts, picks and cancellations*)
(* of other flows come between a flow's parking and its waking, it holds   *)
(* an answer or a gateway of the kind it expects.                          *)
THEOREM TypeCorrect == Spec => []TypeOK
<1>1. Init => TypeOK
  BY DEF Init, TypeOK, Answers, Places
<1> QED
  BY <1>1, TypeStep, PTL DEF Spec

-----------------------------------------------------------------------------
(* A prompt stays answerable: the sender that leaves the slot was used.    *)
LEMMA AnswerableStep ==
  TypeOK /\ PromptAnswerable /\ [Next]_vars => PromptAnswerable'
<1> SUFFICES ASSUME TypeOK, PromptAnswerable, [Next]_vars
             PROVE PromptAnswerable'
  OBVIOUS
<1> USE DEF TypeOK, PromptAnswerable
<1>1. ASSUME NEW f \in Flows, FlowStep(f) PROVE PromptAnswerable'
  <2>1. CASE ConnectAuth(f)
    BY <2>1 DEF ConnectAuth, Goto
  <2>2. CASE ResolveCredential(f)
    BY <2>2 DEF ResolveCredential, Fail, End, Goto, Select
  <2>3. CASE RetrieveConfig(f)
    <3>1. CASE Fail(f)
      BY <3>1 DEF Fail, End, Goto
    <3>2. CASE Challenged(f, "config")
      BY <3>2 DEF Challenged, Goto
    <3>3. CASE ~ Fail(f) /\ ~ Challenged(f, "config")
      BY <2>3, <3>3 DEF RetrieveConfig, Goto, Select
    <3> QED
      BY <3>1, <3>2, <3>3
  <2>4. CASE GatewayLogin(f)
    BY <2>4 DEF GatewayLogin, Fail, End, Goto, Challenged
  <2>5. CASE ParkMfa(f)
    BY <2>5 DEF ParkMfa, AfterPark, Goto
  <2>6. CASE ShowMfa(f)
    BY <2>6 DEF ShowMfa, Goto
  <2>7. CASE CodeEntered(f)
    BY <2>7 DEF CodeEntered, Fail, End, Goto
  <2>8. CASE ParkGateway(f)
    BY <2>8 DEF ParkGateway, AfterPark, Goto
  <2>9. CASE ShowGateways(f)
    BY <2>9 DEF ShowGateways, Goto
  <2>10. CASE GatewayPicked(f)
    BY <2>10 DEF GatewayPicked, Fail, End, Goto, Select
  <2>11. CASE HandOver(f)
    BY <2>11 DEF HandOver, End, Goto
  <2> QED
    BY <1>1, <2>1, <2>2, <2>3, <2>4, <2>5, <2>6, <2>7, <2>8, <2>9, <2>10,
       <2>11 DEF FlowStep, Wake
<1>2. CASE SubmitMfa
  BY <1>2 DEF SubmitMfa, Send
<1>3. ASSUME NEW g \in Gateways, SelectGateway(g) PROVE PromptAnswerable'
  BY <1>3 DEF SelectGateway, Send
<1>4. CASE Disconnect
  BY <1>4 DEF Disconnect
<1>5. CASE CancelStep
  BY <1>5 DEF CancelStep, CancelMfa, CancelGateway, Send
<1>6. CASE UNCHANGED vars
  BY <1>6 DEF vars
<1> QED
  BY <1>1, <1>2, <1>3, <1>4, <1>5, <1>6 DEF Next

(* A flow that waits for its user can be answered, or has been.            *)
THEOREM PromptAnswerableAlways == Spec => []PromptAnswerable
<1>1. Init => PromptAnswerable
  BY DEF Init, PromptAnswerable
<1> QED
  BY <1>1, AnswerableStep, TypeCorrect, PTL DEF Spec

-----------------------------------------------------------------------------
(* LoginToOffered is not inductive: a challenged login is left, and comes  *)
(* back to with the code, while the flow is nowhere near a gateway.        *)
ResumeOffered ==
  \A f \in Flows :
    pc[f] \in {"parkMfa", "showMfa", "awaitCode"} /\ resume[f] = "login"
      => chosen[f] \in offered[f]

OfferedInv == LoginToOffered /\ ResumeOffered

(* A gateway is chosen from, and with, what its portal offered.            *)
LEMMA OfferedStep ==
  TypeOK /\ OfferedInv /\ [Next]_vars => OfferedInv'
<1> SUFFICES ASSUME TypeOK, OfferedInv, [Next]_vars
             PROVE OfferedInv'
  OBVIOUS
<1> USE DEF TypeOK, OfferedInv, LoginToOffered, ResumeOffered
<1>1. ASSUME NEW f \in Flows, FlowStep(f) PROVE OfferedInv'
  <2>1. CASE ConnectAuth(f)
    BY <2>1 DEF ConnectAuth, Goto
  <2>2. CASE ResolveCredential(f)
    BY <2>2 DEF ResolveCredential, Fail, End, Goto, Select
  <2>3. CASE RetrieveConfig(f)
    <3>1. CASE Fail(f)
      BY <3>1 DEF Fail, End, Goto
    <3>2. CASE Challenged(f, "config")
      BY <3>2 DEF Challenged, Goto
    <3>3. CASE ~ Fail(f) /\ ~ Challenged(f, "config")
      BY <2>3, <3>3 DEF RetrieveConfig, Goto, Select
    <3> QED
      BY <3>1, <3>2, <3>3
  <2>4. CASE GatewayLogin(f)
    BY <2>4 DEF GatewayLogin, Fail, End, Goto, Challenged
  <2>5. CASE ParkMfa(f)
    BY <2>5 DEF ParkMfa, AfterPark, Goto
  <2>6. CASE ShowMfa(f)
    BY <2>6 DEF ShowMfa, Goto
  <2>7. CASE CodeEntered(f)
    BY <2>7 DEF CodeEntered, Fail, End, Goto
  <2>8. CASE ParkGateway(f)
    BY <2>8 DEF ParkGateway, AfterPark, Goto
  <2>9. CASE ShowGateways(f)
    BY <2>9 DEF ShowGateways, Goto
  <2>10. CASE GatewayPicked(f)
    BY <2>10 DEF GatewayPicked, Fail, End, Goto, Select
  <2>11. CASE HandOver(f)
    BY <2>11 DEF HandOver, End, Goto
  <2> QED
    BY <1>1, <2>1, <2>2, <2>3, <2>4, <2>5, <2>6, <2>7, <2>8, <2>9, <2>10,
       <2>11 DEF FlowStep, Wake
<1>2. CASE SubmitMfa
  BY <1>2 DEF SubmitMfa, Send
<1>3. ASSUME NEW g \in Gateways, SelectGateway(g) PROVE OfferedInv'
  BY <1>3 DEF SelectGateway, Send
<1>4. CASE Disconnect
  BY <1>4 DEF Disconnect
<1>5. CASE CancelStep
  BY <1>5 DEF CancelStep, CancelMfa, CancelGateway, Send
<1>6. CASE UNCHANGED vars
  BY <1>6 DEF vars
<1> QED
  BY <1>1, <1>2, <1>3, <1>4, <1>5, <1>6 DEF Next

(* A flow logs in to, and connects to, a gateway of its own portal only.   *)
THEOREM LoginToOfferedAlways == Spec => []LoginToOffered
<1>1. Init => OfferedInv
  BY DEF Init, OfferedInv, LoginToOffered, ResumeOffered
<1>2. OfferedInv => LoginToOffered
  BY DEF OfferedInv
<1> QED
  BY <1>1, <1>2, OfferedStep, TypeCorrect, PTL DEF Spec

-----------------------------------------------------------------------------
(* The slots name living prompts only: a sender that is parked belongs to  *)
(* a flow that has not been told anything yet.  With PromptAnswerable the  *)
(* slot is the one open prompt.                                            *)
SlotLive ==
  \A f \in Flows :
    /\ mfaSlot = f => pc[f] \in {"showMfa", "awaitCode"} /\ answer[f] = "none"
    /\ gwSlot = f => pc[f] \in {"showGateways", "awaitGateway"} /\ answer[f] = "none"

(* A sender leaves its slot when it is used, and its flow only goes on     *)
(* once it was.                                                            *)
LEMMA SlotLiveStep ==
  TypeOK /\ SlotLive /\ [Next]_vars => SlotLive'
<1> SUFFICES ASSUME TypeOK, SlotLive, [Next]_vars
             PROVE SlotLive'
  OBVIOUS
<1> USE DEF TypeOK, SlotLive
<1>1. ASSUME NEW f \in Flows, FlowStep(f) PROVE SlotLive'
  <2>1. CASE ConnectAuth(f)
    BY <2>1 DEF ConnectAuth, Goto
  <2>2. CASE ResolveCredential(f)
    BY <2>2 DEF ResolveCredential, Fail, End, Goto, Select
  <2>3. CASE RetrieveConfig(f)
    <3>0. pc[f] = "config"
      BY <2>3 DEF RetrieveConfig
    <3>1. CASE Fail(f)
      BY <3>0, <3>1 DEF Fail, End, Goto
    <3>2. CASE Challenged(f, "config")
      BY <3>0, <3>2 DEF Challenged, Goto
    <3>3. CASE ~ Fail(f) /\ ~ Challenged(f, "config")
      BY <2>3, <3>3 DEF RetrieveConfig, Goto, Select
    <3> QED
      BY <3>1, <3>2, <3>3
  <2>4. CASE GatewayLogin(f)
    BY <2>4 DEF GatewayLogin, Fail, End, Goto, Challenged
  <2>5. CASE ParkMfa(f)
    BY <2>5 DEF ParkMfa, AfterPark, Goto
  <2>6. CASE ShowMfa(f)
    BY <2>6 DEF ShowMfa, Goto
  <2>7. CASE CodeEntered(f)
    BY <2>7 DEF CodeEntered, Fail, End, Goto
  <2>8. CASE ParkGateway(f)
    BY <2>8 DEF ParkGateway, AfterPark, Goto
  <2>9. CASE ShowGateways(f)
    BY <2>9 DEF ShowGateways, Goto
  <2>10. CASE GatewayPicked(f)
    BY <2>10 DEF GatewayPicked, Fail, End, Goto, Select
  <2>11. CASE HandOver(f)
    BY <2>11 DEF HandOver, End, Goto
  <2> QED
    BY <1>1, <2>1, <2>2, <2>3, <2>4, <2>5, <2>6, <2>7, <2>8, <2>9, <2>10,
       <2>11 DEF FlowStep, Wake
<1>2. CASE SubmitMfa
  BY <1>2 DEF SubmitMfa, Send
<1>3. ASSUME NEW g \in Gateways, SelectGateway(g) PROVE SlotLive'
  BY <1>3 DEF SelectGateway, Send
<1>4. CASE Disconnect
  BY <1>4 DEF Disconnect
<1>5. CASE CancelStep
  BY <1>5 DEF CancelStep, CancelMfa, CancelGateway, Send
<1>6. CASE UNCHANGED vars
  BY <1>6 DEF vars
<1> QED
  BY <1>1, <1>2, <1>3, <1>4, <1>5, <1>6 DEF Next

Prompts == TypeOK /\ PromptAnswerable /\ SlotLive

(* What is known of the slots and prompts in every state.                  *)
LEMMA PromptsInvariant == Spec => []Prompts
<1>1. Init => SlotLive
  BY DEF Init, SlotLive
<1> QED
  BY <1>1, SlotLiveStep, TypeCorrect, PromptAnswerableAlways, PTL DEF Spec, Prompts

MfaPlaces == {"showMfa", "awaitCode"}
GatewayPlaces == {"showGateways", "awaitGateway"}

MfaNext == [MfaPrompt!Next]_<<InMfaPrompt, Told(InMfaPrompt)>>
GatewayNext == [GatewayPrompt!Next]_<<InGatewayPrompt, Told(InGatewayPrompt)>>

(* A step that leaves those who are asked for a code, and what they were   *)
(* told, as they are.                                                      *)
LEMMA MfaUntouched ==
  ASSUME InMfaPrompt' = InMfaPrompt,
         \A g \in InMfaPrompt : answer'[g] = answer[g]
  PROVE  MfaNext
BY DEF MfaNext, Told

(* A flow that moves somewhere else.                                       *)
LEMMA MfaElsewhere ==
  ASSUME TypeOK, NEW f \in Flows, NEW place, pc' = [pc EXCEPT ![f] = place],
         pc[f] \in MfaPlaces <=> place \in MfaPlaces,
         \A g \in InMfaPrompt : answer'[g] = answer[g]
  PROVE  MfaNext
<1>1. InMfaPrompt' = InMfaPrompt
  BY DEF InMfaPrompt, MfaPlaces, TypeOK
<1> QED
  BY <1>1, MfaUntouched

(* The one prompt whose answer is awaited is the one whose sender is       *)
(* parked.                                                                 *)
LEMMA MfaOpen ==
  ASSUME Prompts
  PROVE  \A f \in Flows : f \in MfaPrompt!Open <=> f = mfaSlot
BY DEF Prompts, PromptAnswerable, SlotLive, MfaPrompt!Open, InMfaPrompt, Told

(* The user, or a Disconnect, takes the sender out of the slot.            *)
LEMMA MfaAnswered ==
  ASSUME Prompts, mfaSlot # NoFlow, NEW r \in {"code"} \cup {"cancel"}, Send(mfaSlot, r),
         UNCHANGED pc
  PROVE  MfaNext
<1>1. mfaSlot \in Flows /\ answer' = [answer EXCEPT ![mfaSlot] = r]
  BY DEF Prompts, TypeOK, Send
<1>2. InMfaPrompt' = InMfaPrompt
  BY DEF InMfaPrompt
<1>3. \A f \in Flows : answer'[f] = IF f = mfaSlot THEN r ELSE answer[f]
  BY <1>1 DEF Prompts, TypeOK
<1>4. MfaPrompt!Open # {}
  BY <1>1, MfaOpen
<1>5. (MfaPrompt!Open)' = {}
  <2>1. \A f \in InMfaPrompt : answer'[f] # "none"
    BY <1>3 DEF Prompts, PromptAnswerable, InMfaPrompt
  <2> QED
    BY <1>2, <2>1 DEF MfaPrompt!Open, InMfaPrompt, Told
<1>6. Told(InMfaPrompt)' = [f \in Flows |-> IF f \in MfaPrompt!Open THEN r ELSE Told(InMfaPrompt)[f]]
  <2>1. \A f \in Flows : f = mfaSlot => f \in InMfaPrompt
    BY DEF Prompts, SlotLive, InMfaPrompt
  <2> QED
    BY <1>2, <1>3, <2>1, MfaOpen DEF Told
<1>7. MfaPrompt!Answer
  BY <1>2, <1>4, <1>5, <1>6 DEF MfaPrompt!Answer
<1> QED
  BY <1>7 DEF MfaNext, MfaPrompt!Next

(* A flow parks its sender.                                                *)
LEMMA MfaAsked ==
  ASSUME Prompts, NEW f \in Flows, ParkMfa(f)
  PROVE  MfaNext
<1>1. f \notin InMfaPrompt /\ InMfaPrompt' = InMfaPrompt \cup {f}
  BY DEF ParkMfa, Goto, InMfaPrompt, Prompts, TypeOK
<1>2. \A g \in Flows : answer'[g] = IF g = f THEN "none" ELSE IF g = mfaSlot THEN "cancel" ELSE answer[g]
  BY DEF ParkMfa, AfterPark
<1>3. Told(InMfaPrompt)' = [g \in Flows |-> IF g \in MfaPrompt!Open THEN "cancel" ELSE Told(InMfaPrompt)[g]]
  <2>1. ASSUME NEW g \in Flows
        PROVE  (IF g \in InMfaPrompt' THEN answer'[g] ELSE "none")
                 = IF g = mfaSlot THEN "cancel" ELSE IF g \in InMfaPrompt THEN answer[g] ELSE "none"
    <3>1. g = mfaSlot => g \in InMfaPrompt
      BY DEF Prompts, SlotLive, InMfaPrompt
    <3> QED
      BY <1>1, <1>2, <3>1
  <2> QED
    BY <2>1, MfaOpen DEF Told
<1>4. MfaPrompt!Ask(f)
  BY <1>1, <1>3 DEF MfaPrompt!Ask
<1> QED
  BY <1>4 DEF MfaNext, MfaPrompt!Next

(* A flow that was told goes on, with its code or cancelled.               *)
LEMMA MfaWentOn ==
  ASSUME Prompts, NEW f \in Flows, NEW place, place \notin MfaPlaces, pc' = [pc EXCEPT ![f] = place],
         pc[f] \in MfaPlaces, answer[f] # "none", answer' = [answer EXCEPT ![f] = "none"]
  PROVE  MfaNext
<1>1. f \in InMfaPrompt /\ InMfaPrompt' = InMfaPrompt \ {f}
  BY DEF InMfaPrompt, MfaPlaces, Prompts, TypeOK
<1>2. \A g \in Flows : answer'[g] = IF g = f THEN "none" ELSE answer[g]
  BY DEF Prompts, TypeOK
<1>3. Told(InMfaPrompt)' = [Told(InMfaPrompt) EXCEPT ![f] = "none"]
  BY <1>1, <1>2 DEF Told
<1>4. MfaPrompt!GoOn(f)
  BY <1>1, <1>3 DEF MfaPrompt!GoOn, Told
<1> QED
  BY <1>4 DEF MfaNext, MfaPrompt!Next

(* A step that leaves those who are asked for a gateway, and what they     *)
(* were told, as they are.                                                 *)
LEMMA GatewayUntouched ==
  ASSUME InGatewayPrompt' = InGatewayPrompt,
         \A g \in InGatewayPrompt : answer'[g] = answer[g]
  PROVE  GatewayNext
BY DEF GatewayNext, Told

(* A flow that moves somewhere else.                                       *)
LEMMA GatewayElsewhere ==
  ASSUME TypeOK, NEW f \in Flows, NEW place, pc' = [pc EXCEPT ![f] = place],
         pc[f] \in GatewayPlaces <=> place \in GatewayPlaces,
         \A g \in InGatewayPrompt : answer'[g] = answer[g]
  PROVE  GatewayNext
<1>1. InGatewayPrompt' = InGatewayPrompt
  BY DEF InGatewayPrompt, GatewayPlaces, TypeOK
<1> QED
  BY <1>1, GatewayUntouched

(* The one prompt whose answer is awaited is the one whose sender is       *)
(* parked.                                                                 *)
LEMMA GatewayOpen ==
  ASSUME Prompts
  PROVE  \A f \in Flows : f \in GatewayPrompt!Open <=> f = gwSlot
BY DEF Prompts, PromptAnswerable, SlotLive, GatewayPrompt!Open, InGatewayPrompt, Told

(* The user, or a Disconnect, takes the sender out of the slot.            *)
LEMMA GatewayAnswered ==
  ASSUME Prompts, gwSlot # NoFlow, NEW r \in Gateways \cup {"cancel"}, Send(gwSlot, r),
         UNCHANGED pc
  PROVE  GatewayNext
<1>1. gwSlot \in Flows /\ answer' = [answer EXCEPT ![gwSlot] = r]
  BY DEF Prompts, TypeOK, Send
<1>2. InGatewayPrompt' = InGatewayPrompt
  BY DEF InGatewayPrompt
<1>3. \A f \in Flows : answer'[f] = IF f = gwSlot THEN r ELSE answer[f]
  BY <1>1 DEF Prompts, TypeOK
<1>4. GatewayPrompt!Open # {}
  BY <1>1, GatewayOpen
<1>5. (GatewayPrompt!Open)' = {}
  <2>1. \A f \in InGatewayPrompt : answer'[f] # "none"
    BY <1>3 DEF Prompts, PromptAnswerable, InGatewayPrompt
  <2> QED
    BY <1>2, <2>1 DEF GatewayPrompt!Open, InGatewayPrompt, Told
<1>6. Told(InGatewayPrompt)' = [f \in Flows |-> IF f \in GatewayPrompt!Open THEN r ELSE Told(InGatewayPrompt)[f]]
  <2>1. \A f \in Flows : f = gwSlot => f \in InGatewayPrompt
    BY DEF Prompts, SlotLive, InGatewayPrompt
  <2> QED
    BY <1>2, <1>3, <2>1, GatewayOpen DEF Told
<1>7. GatewayPrompt!Answer
  BY <1>2, <1>4, <1>5, <1>6 DEF GatewayPrompt!Answer
<1> QED
  BY <1>7 DEF GatewayNext, GatewayPrompt!Next

(* A flow parks its sender.                                                *)
LEMMA GatewayAsked ==
  ASSUME Prompts, NEW f \in Flows, ParkGateway(f)
  PROVE  GatewayNext
<1>1. f \notin InGatewayPrompt /\ InGatewayPrompt' = InGatewayPrompt \cup {f}
  BY DEF ParkGateway, Goto, InGatewayPrompt, Prompts, TypeOK
<1>2. \A g \in Flows : answer'[g] = IF g = f THEN "none" ELSE IF g = gwSlot THEN "cancel" ELSE answer[g]
  BY DEF ParkGateway, AfterPark
<1>3. Told(InGatewayPrompt)' = [g \in Flows |-> IF g \in GatewayPrompt!Open THEN "cancel" ELSE Told(InGatewayPrompt)[g]]
  <2>1. ASSUME NEW g \in Flows
        PROVE  (IF g \in InGatewayPrompt' THEN answer'[g] ELSE "none")
                 = IF g = gwSlot THEN "cancel" ELSE IF g \in InGatewayPrompt THEN answer[g] ELSE "none"
    <3>1. g = gwSlot => g \in InGatewayPrompt
      BY DEF Prompts, SlotLive, InGatewayPrompt
    <3> QED
      BY <1>1, <1>2, <3>1
  <2> QED
    BY <2>1, GatewayOpen DEF Told
<1>4. GatewayPrompt!Ask(f)
  BY <1>1, <1>3 DEF GatewayPrompt!Ask
<1> QED
  BY <1>4 DEF GatewayNext, GatewayPrompt!Next

(* A flow that was told goes on, with its gateway or cancelled.            *)
LEMMA GatewayWentOn ==
  ASSUME Prompts, NEW f \in Flows, NEW place, place \notin GatewayPlaces, pc' = [pc EXCEPT ![f] = place],
         pc[f] \in GatewayPlaces, answer[f] # "none", answer' = [answer EXCEPT ![f] = "none"]
  PROVE  GatewayNext
<1>1. f \in InGatewayPrompt /\ InGatewayPrompt' = InGatewayPrompt \ {f}
  BY DEF InGatewayPrompt, GatewayPlaces, Prompts, TypeOK
<1>2. \A g \in Flows : answer'[g] = IF g = f THEN "none" ELSE answer[g]
  BY DEF Prompts, TypeOK
<1>3. Told(InGatewayPrompt)' = [Told(InGatewayPrompt) EXCEPT ![f] = "none"]
  BY <1>1, <1>2 DEF Told
<1>4. GatewayPrompt!GoOn(f)
  BY <1>1, <1>3 DEF GatewayPrompt!GoOn, Told
<1> QED
  BY <1>4 DEF GatewayNext, GatewayPrompt!Next

(* Every step of the pipeline is a step, or no step, of either prompt.     *)
LEMMA PromptStep == Prompts /\ [Next]_vars => MfaNext /\ GatewayNext
<1> SUFFICES ASSUME Prompts, [Next]_vars PROVE MfaNext /\ GatewayNext
  OBVIOUS
<1>0. TypeOK
  BY DEF Prompts
<1> USE DEF MfaPlaces, GatewayPlaces
<1>1. ASSUME NEW f \in Flows, FlowStep(f) PROVE MfaNext /\ GatewayNext
  <2>1. ASSUME NEW place \in Places \ (MfaPlaces \cup GatewayPlaces), pc' = [pc EXCEPT ![f] = place],
               pc[f] \notin MfaPlaces \cup GatewayPlaces,
               \A g \in Flows : g # f => answer'[g] = answer[g]
        PROVE  MfaNext /\ GatewayNext
    <3>1. \A g \in InMfaPrompt \cup InGatewayPrompt : answer'[g] = answer[g]
      BY <2>1 DEF InMfaPrompt, InGatewayPrompt
    <3> QED
      BY <1>0, <2>1, <3>1, MfaElsewhere, GatewayElsewhere
  <2>2. ASSUME End(f), pc[f] \notin MfaPlaces \cup GatewayPlaces PROVE MfaNext /\ GatewayNext
    BY <1>0, <2>1, <2>2 DEF End, Goto, TypeOK, Places
  <2>3. CASE \/ ConnectAuth(f) \/ ResolveCredential(f) \/ RetrieveConfig(f)
             \/ GatewayLogin(f) \/ HandOver(f)
    <3>1. pc[f] \notin MfaPlaces \cup GatewayPlaces
      BY <2>3 DEF ConnectAuth, ResolveCredential, RetrieveConfig, GatewayLogin, HandOver
    <3>2. CASE End(f)
      BY <2>2, <3>1, <3>2
    <3>3. CASE ~ End(f)
      <4>1. UNCHANGED answer
        BY <2>3, <3>3 DEF ConnectAuth, ResolveCredential, RetrieveConfig, GatewayLogin,
           HandOver, Fail, Challenged
      <4>2. \E place \in Places \ (MfaPlaces \cup GatewayPlaces) : pc' = [pc EXCEPT ![f] = place]
        BY <2>3, <3>3 DEF ConnectAuth, ResolveCredential, RetrieveConfig, GatewayLogin,
           HandOver, Fail, Challenged, Goto, Select, Places
      <4> QED
        BY <2>1, <3>1, <4>1, <4>2
    <3> QED
      BY <3>2, <3>3
  <2>4. CASE ParkMfa(f)
    <3>1. \A g \in InGatewayPrompt : answer'[g] = answer[g]
      BY <1>0, <2>4 DEF ParkMfa, AfterPark, InGatewayPrompt, Prompts, SlotLive
    <3> QED
      BY <1>0, <2>4, <3>1, MfaAsked, GatewayElsewhere DEF ParkMfa, Goto
  <2>5. CASE ParkGateway(f)
    <3>1. \A g \in InMfaPrompt : answer'[g] = answer[g]
      BY <1>0, <2>5 DEF ParkGateway, AfterPark, InMfaPrompt, Prompts, SlotLive
    <3> QED
      BY <1>0, <2>5, <3>1, GatewayAsked, MfaElsewhere DEF ParkGateway, Goto
  <2>6. CASE ShowMfa(f) \/ ShowGateways(f)
    BY <1>0, <2>6, MfaElsewhere, GatewayElsewhere DEF ShowMfa, ShowGateways, Goto
  <2>7. CASE CodeEntered(f)
    <3>1. /\ pc[f] = "awaitCode" /\ answer[f] # "none"
          /\ answer' = [answer EXCEPT ![f] = "none"]
          /\ \E place \in {"idle", "config", "login"} : pc' = [pc EXCEPT ![f] = place]
      BY <1>0, <2>7 DEF CodeEntered, Fail, End, Goto, TypeOK
    <3>2. \A g \in InGatewayPrompt : answer'[g] = answer[g]
      BY <1>0, <3>1 DEF InGatewayPrompt, TypeOK
    <3> QED
      BY <1>0, <3>1, <3>2, MfaWentOn, GatewayElsewhere
  <2>8. CASE GatewayPicked(f)
    <3>1. /\ pc[f] = "awaitGateway" /\ answer[f] # "none"
          /\ answer' = [answer EXCEPT ![f] = "none"]
          /\ \E place \in {"idle", "login"} : pc' = [pc EXCEPT ![f] = place]
      BY <1>0, <2>8 DEF GatewayPicked, Fail, End, Goto, Select, TypeOK
    <3>2. \A g \in InMfaPrompt : answer'[g] = answer[g]
      BY <1>0, <3>1 DEF InMfaPrompt, TypeOK
    <3> QED
      BY <1>0, <3>1, <3>2, GatewayWentOn, MfaElsewhere
  <2> QED
    BY <1>1, <2>3, <2>4, <2>5, <2>6, <2>7, <2>8 DEF FlowStep, Wake
<1>2. ASSUME UNCHANGED <<pc, answer>> PROVE MfaNext /\ GatewayNext
  BY <1>2, MfaUntouched, GatewayUntouched DEF InMfaPrompt, InGatewayPrompt
<1>3. ASSUME UNCHANGED pc, mfaSlot # NoFlow, NEW r \in {"code", "cancel"}, Send(mfaSlot, r)
      PROVE  MfaNext /\ GatewayNext
  <2>1. InGatewayPrompt' = InGatewayPrompt /\ \A g \in InGatewayPrompt : answer'[g] = answer[g]
    BY <1>0, <1>3 DEF InGatewayPrompt, Prompts, SlotLive, Send, TypeOK
  <2> QED
    BY <1>3, <2>1, MfaAnswered, GatewayUntouched
<1>4. ASSUME UNCHANGED pc, gwSlot # NoFlow, NEW r \in Gateways \cup {"cancel"}, Send(gwSlot, r)
      PROVE  MfaNext /\ GatewayNext
  <2>1. InMfaPrompt' = InMfaPrompt /\ \A g \in InMfaPrompt : answer'[g] = answer[g]
    BY <1>0, <1>4 DEF InMfaPrompt, Prompts, SlotLive, Send, TypeOK
  <2> QED
    BY <1>4, <2>1, GatewayAnswered, MfaUntouched
<1>5. CASE SubmitMfa \/ CancelMfa
  BY <1>2, <1>3, <1>5 DEF SubmitMfa, CancelMfa
<1>6. CASE (\E g \in Gateways : SelectGateway(g)) \/ CancelGateway
  BY <1>2, <1>4, <1>6 DEF SelectGateway, CancelGateway
<1>7. CASE Disconnect \/ UNCHANGED vars
  BY <1>2, <1>7 DEF Disconnect, vars
<1> QED
  BY <1>1, <1>5, <1>6, <1>7 DEF Next, CancelStep

(* Both prompters implement Prompt, for any number of overlapping logins:  *)
(* who asks is answered once, by the next answer if nobody asked after it, *)
(* and called off by the next one who asks.                                *)
THEOREM ImplementsPrompt == Spec => PromptSpec
<1>1. Init => MfaPrompt!Init /\ GatewayPrompt!Init
  BY DEF Init, MfaPrompt!Init, GatewayPrompt!Init, InMfaPrompt, InGatewayPrompt, Told
<1> QED
  BY <1>1, PromptStep, PromptsInvariant, PTL
     DEF Spec, PromptSpec, MfaPrompt!Spec, GatewayPrompt!Spec, MfaNext, GatewayNext

=============================================================================
