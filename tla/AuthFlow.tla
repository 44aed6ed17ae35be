------------------------------ MODULE AuthFlow ------------------------------
(***************************************************************************)
(* The login pipeline of gpservice (apps/gpservice/src/auth_flow.rs): what *)
(* a ConnectAuth request goes through before the tunnel supervisor gets    *)
(* it, and the D-Bus calls that answer its prompts.                        *)
(*                                                                         *)
(* Every ConnectAuth runs as a task of its own (a flow).  All flows share  *)
(* one slot for the MFA prompt and one for the gateway prompt.  They also  *)
(* publish on the supervisor's state channel and end in its connect();     *)
(* VpnTask has those steps (ShowPrompt, LoginFails, Authenticated), and    *)
(* here they are places a flow passes.  One action is one HTTP exchange or *)
(* one access to shared state.                                             *)
(***************************************************************************)
EXTENDS Naturals, FiniteSets

CONSTANTS
  Flows,    \* ConnectAuth requests that may be handled at the same time
  Gateways, \* gateway addresses
  NoFlow, NoGateway

ASSUME AuthFlowAssumption ==
  /\ NoFlow \notin Flows
  /\ Gateways \cap {NoGateway, "none", "code", "cancel"} = {}

VARIABLES
  mfaSlot,   \* the flow whose sender is parked for submit_mfa
  gwSlot,    \* the flow whose sender is parked for select_gateway
  pc,        \* where each flow is
  resume,    \* the exchange a flow repeats with the one-time code
  answer,    \* what was sent to the flow's prompt
  offered,   \* the gateways a flow may log in to
  chosen,    \* the gateway it logs in to
  canceller  \* the handler of a Disconnect request

vars == <<mfaSlot, gwSlot, pc, resume, answer, offered, chosen, canceller>>

(* oneshot::Receiver yields None when it is sent None (a cancelled prompt) *)
(* and when its sender is dropped (another flow parked in its place).      *)
Answers == {"none", "code", "cancel"} \cup Gateways

Waiting(f) == pc[f] \in {"awaitCode", "awaitGateway"}

-----------------------------------------------------------------------------
Init ==
  /\ mfaSlot = NoFlow /\ gwSlot = NoFlow
  /\ pc = [f \in Flows |-> "idle"]
  /\ resume = [f \in Flows |-> "login"]
  /\ answer = [f \in Flows |-> "none"]
  /\ offered = [f \in Flows |-> {}]
  /\ chosen = [f \in Flows |-> NoGateway]
  /\ canceller = "idle"

Goto(f, place) == pc' = [pc EXCEPT ![f] = place]

(* f is over: it forgets everything. *)
End(f) ==
  /\ Goto(f, "idle")
  /\ resume' = [resume EXCEPT ![f] = "login"]
  /\ answer' = [answer EXCEPT ![f] = "none"]
  /\ offered' = [offered EXCEPT ![f] = {}]
  /\ chosen' = [chosen EXCEPT ![f] = NoGateway]

(* An error of the pipeline, which is shown as Disconnected. *)
Fail(f) ==
  /\ End(f)
  /\ UNCHANGED <<mfaSlot, gwSlot, canceller>>

(* f will log in to g, one of gs. *)
Select(f, g, gs) ==
  /\ Goto(f, "login")
  /\ offered' = [offered EXCEPT ![f] = gs]
  /\ chosen' = [chosen EXCEPT ![f] = g]

-----------------------------------------------------------------------------
(* build_connect_request, run by flow f.                                   *)

ConnectAuth(f) ==
  /\ pc[f] = "idle"
  /\ Goto(f, "resolve")
  /\ UNCHANGED <<mfaSlot, gwSlot, resume, answer, offered, chosen, canceller>>

(* The credential is built, or cannot be.  A server addressed as a gateway *)
(* is its own only gateway; a portal is asked for its configuration.       *)
ResolveCredential(f) ==
  /\ pc[f] = "resolve"
  /\ \/ Fail(f)
     \/ /\ \/ \E server \in Gateways : Select(f, server, {server})
           \/ Goto(f, "config") /\ UNCHANGED <<offered, chosen>>
        /\ UNCHANGED <<mfaSlot, gwSlot, resume, answer, canceller>>

Challenged(f, step) ==
  /\ Goto(f, "parkMfa")
  /\ resume' = [resume EXCEPT ![f] = step]
  /\ UNCHANGED <<mfaSlot, gwSlot, answer, offered, chosen, canceller>>

(* The portal answers with an error, a challenge or its gateways: none is  *)
(* an error, a single one is taken, among several the user has to pick.    *)
RetrieveConfig(f) ==
  /\ pc[f] = "config"
  /\ \/ Fail(f)
     \/ Challenged(f, "config")
     \/ \E gs \in SUBSET Gateways \ {{}} :
          /\ \/ \E g \in gs : gs = {g} /\ Select(f, g, gs)
             \/ /\ Cardinality(gs) > 1
                /\ Goto(f, "parkGateway")
                /\ offered' = [offered EXCEPT ![f] = gs]
                /\ UNCHANGED chosen
          /\ UNCHANGED <<mfaSlot, gwSlot, resume, answer, canceller>>

(* The gateway answers with an error, a challenge or the cookie.           *)
GatewayLogin(f) ==
  /\ pc[f] = "login"
  /\ \/ Fail(f)
     \/ Challenged(f, "login")
     \/ /\ Goto(f, "connect")
        /\ UNCHANGED <<mfaSlot, gwSlot, resume, answer, offered, chosen,
                       canceller>>

(* The answers after f's sender replaces the one in the slot.              *)
AfterPark(slot, f) ==
  [g \in Flows |-> IF g = f THEN "none"
                   ELSE IF g = slot THEN "cancel" ELSE answer[g]]

(* Mutant: a parked sender is never replaced.                              *)
ParkMfaUnlessTaken(f) ==
  /\ pc[f] = "parkMfa"
  /\ mfaSlot' = IF mfaSlot = NoFlow THEN f ELSE mfaSlot
  /\ Goto(f, "showMfa")
  /\ UNCHANGED <<gwSlot, resume, answer, offered, chosen, canceller>>

(* MfaPrompter::prompt: park a sender, show the challenge, wait.           *)
ParkMfa(f) ==
  /\ pc[f] = "parkMfa"
  /\ mfaSlot' = f
  /\ answer' = AfterPark(mfaSlot, f)
  /\ Goto(f, "showMfa")
  /\ UNCHANGED <<gwSlot, resume, offered, chosen, canceller>>

ShowMfa(f) ==
  /\ pc[f] = "showMfa"
  /\ Goto(f, "awaitCode")
  /\ UNCHANGED <<mfaSlot, gwSlot, resume, answer, offered, chosen, canceller>>

(* The exchange is repeated with the code, or the flow is cancelled.       *)
CodeEntered(f) ==
  /\ pc[f] = "awaitCode"
  /\ answer[f] # "none"
  /\ \/ answer[f] = "cancel" /\ Fail(f)
     \/ /\ answer[f] = "code"
        /\ Goto(f, resume[f])
        /\ answer' = [answer EXCEPT ![f] = "none"]
        /\ UNCHANGED <<mfaSlot, gwSlot, resume, offered, chosen, canceller>>

(* GatewayPrompter::prompt, the same way.                                  *)
ParkGateway(f) ==
  /\ pc[f] = "parkGateway"
  /\ gwSlot' = f
  /\ answer' = AfterPark(gwSlot, f)
  /\ Goto(f, "showGateways")
  /\ UNCHANGED <<mfaSlot, resume, offered, chosen, canceller>>

ShowGateways(f) ==
  /\ pc[f] = "showGateways"
  /\ Goto(f, "awaitGateway")
  /\ UNCHANGED <<mfaSlot, gwSlot, resume, answer, offered, chosen, canceller>>

(* Mutant: the pick is not looked up in the portal's list.                 *)
GatewayPickedUnchecked(f) ==
  /\ pc[f] = "awaitGateway"
  /\ answer[f] # "none"
  /\ \/ answer[f] = "cancel" /\ Fail(f)
     \/ /\ answer[f] \in Gateways
        /\ Goto(f, "login")
        /\ chosen' = [chosen EXCEPT ![f] = answer[f]]
        /\ answer' = [answer EXCEPT ![f] = "none"]
        /\ UNCHANGED <<mfaSlot, gwSlot, resume, offered, canceller>>

(* The pick has to be one of the portal's gateways.                        *)
GatewayPicked(f) ==
  /\ pc[f] = "awaitGateway"
  /\ answer[f] # "none"
  /\ \/ answer[f] \notin offered[f] /\ Fail(f)
     \/ /\ answer[f] \in offered[f]
        /\ Select(f, answer[f], offered[f])
        /\ answer' = [answer EXCEPT ![f] = "none"]
        /\ UNCHANGED <<mfaSlot, gwSlot, resume, canceller>>

(* The request that was built is passed to the supervisor's connect().     *)
HandOver(f) ==
  /\ pc[f] = "connect"
  /\ End(f)
  /\ UNCHANGED <<mfaSlot, gwSlot, canceller>>

-----------------------------------------------------------------------------
(* Calls of the GUI.  The answer of an empty slot is lost.                 *)

Send(f, value) == answer' = [answer EXCEPT ![f] = value]

SubmitMfa ==
  /\ mfaSlot # NoFlow
  /\ Send(mfaSlot, "code")
  /\ mfaSlot' = NoFlow
  /\ UNCHANGED <<gwSlot, pc, resume, offered, chosen, canceller>>

(* Mutant: the sender is left in the slot.                                 *)
SelectGatewayAgain(g) ==
  /\ gwSlot # NoFlow
  /\ Send(gwSlot, g)
  /\ UNCHANGED <<mfaSlot, gwSlot, pc, resume, offered, chosen, canceller>>

SelectGateway(g) ==
  /\ gwSlot # NoFlow
  /\ Send(gwSlot, g)
  /\ gwSlot' = NoFlow
  /\ UNCHANGED <<mfaSlot, pc, resume, offered, chosen, canceller>>

(* process_ws_req of a Disconnect: cancel the MFA prompt, then the gateway *)
(* prompt, then call the supervisor's disconnect(), which is VpnTask's.    *)
Disconnect ==
  /\ canceller = "idle"
  /\ canceller' = "mfa"
  /\ UNCHANGED <<mfaSlot, gwSlot, pc, resume, answer, offered, chosen>>

CancelMfa ==
  /\ canceller = "mfa"
  /\ IF mfaSlot = NoFlow THEN UNCHANGED answer ELSE Send(mfaSlot, "cancel")
  /\ mfaSlot' = NoFlow
  /\ canceller' = "gateway"
  /\ UNCHANGED <<gwSlot, pc, resume, offered, chosen>>

(* Mutant: the gateway prompt is forgotten.                                *)
CancelGatewayForgotten ==
  /\ canceller = "gateway"
  /\ canceller' = "idle"
  /\ UNCHANGED <<mfaSlot, gwSlot, pc, resume, answer, offered, chosen>>

CancelGateway ==
  /\ canceller = "gateway"
  /\ IF gwSlot = NoFlow THEN UNCHANGED answer ELSE Send(gwSlot, "cancel")
  /\ gwSlot' = NoFlow
  /\ canceller' = "idle"
  /\ UNCHANGED <<mfaSlot, pc, resume, offered, chosen>>

-----------------------------------------------------------------------------
(* A flow that was answered goes on. *)
Wake(f) == CodeEntered(f) \/ GatewayPicked(f)

FlowStep(f) ==
  \/ ConnectAuth(f) \/ ResolveCredential(f) \/ RetrieveConfig(f)
  \/ GatewayLogin(f) \/ ParkMfa(f) \/ ShowMfa(f) \/ ParkGateway(f)
  \/ ShowGateways(f) \/ Wake(f) \/ HandOver(f)

CancelStep == CancelMfa \/ CancelGateway

Next ==
  \/ \E f \in Flows : FlowStep(f)
  \/ SubmitMfa
  \/ \E g \in Gateways : SelectGateway(g)
  \/ Disconnect
  \/ CancelStep

Spec == Init /\ [][Next]_vars

(* The runtime runs every task that is ready; users and servers need not   *)
(* do anything.                                                            *)
Fairness == WF_vars(CancelStep) /\ \A f \in Flows : WF_vars(Wake(f))

FairSpec == Spec /\ Fairness

-----------------------------------------------------------------------------
Places == {"idle", "resolve", "config", "login", "parkMfa", "showMfa",
           "awaitCode", "parkGateway", "showGateways", "awaitGateway",
           "connect"}

(* The variables have the types the code gives them. *)
TypeOK ==
  /\ mfaSlot \in Flows \cup {NoFlow}
  /\ gwSlot \in Flows \cup {NoFlow}
  /\ pc \in [Flows -> Places]
  /\ resume \in [Flows -> {"config", "login"}]
  /\ answer \in [Flows -> Answers]
  /\ offered \in [Flows -> SUBSET Gateways]
  /\ chosen \in [Flows -> Gateways \cup {NoGateway}]
  /\ canceller \in {"idle", "mfa", "gateway"}

(* A flow that waits for the user can still be answered, or has been: its  *)
(* sender is parked in the slot of its prompt.  Slots are overwritten and  *)
(* emptied by other flows, by the GUI and by a Disconnect at any moment    *)
(* between the parking and the waiting.                                    *)
PromptAnswerable ==
  \A f \in Flows :
    /\ pc[f] \in {"showMfa", "awaitCode"} => mfaSlot = f \/ answer[f] # "none"
    /\ pc[f] \in {"showGateways", "awaitGateway"} =>
         gwSlot = f \/ answer[f] # "none"

(* The two prompts, as those who ask take them: Prompt knows no slots, so  *)
(* an answer has to reach the flow that asked last, once, and the flow it   *)
(* was taken from has to be told.                                           *)
InMfaPrompt == {f \in Flows : pc[f] \in {"showMfa", "awaitCode"}}
InGatewayPrompt == {f \in Flows : pc[f] \in {"showGateways", "awaitGateway"}}

Told(asking) == [f \in Flows |-> IF f \in asking THEN answer[f] ELSE "none"]

MfaPrompt == INSTANCE Prompt WITH
  Callers <- Flows, Replies <- {"code"}, Cancel <- "cancel", None <- "none",
  asking <- InMfaPrompt, reply <- Told(InMfaPrompt)

GatewayPrompt == INSTANCE Prompt WITH
  Callers <- Flows, Replies <- Gateways, Cancel <- "cancel", None <- "none",
  asking <- InGatewayPrompt, reply <- Told(InGatewayPrompt)

(* Overlapping flows park their senders in two shared slots, which the GUI *)
(* and a Disconnect empty: still nobody who asked is left without an       *)
(* answer, or gets a second one, and an answer goes to whoever asked last. *)
(* (Not to whose prompt is shown: parking and showing are two steps, so    *)
(* that two flows can show their prompts in the other order.)              *)
PromptSpec == MfaPrompt!Spec /\ GatewayPrompt!Spec

(* A flow logs in to, and connects to, a gateway of its own portal only,   *)
(* also when the GUI's pick was meant for the prompt of another flow.      *)
LoginToOffered ==
  \A f \in Flows :
    pc[f] \in {"login", "connect"} => chosen[f] \in offered[f]

(* A Disconnect unblocks every flow that is waiting on the user.           *)
DisconnectUnblocks ==
  \A f \in Flows : Waiting(f) /\ canceller = "mfa" ~> ~ Waiting(f)

=============================================================================
