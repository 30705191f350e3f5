--------------------------- MODULE DeliveryProofs ---------------------------
(***************************************************************************)
(* What comes of a call: proofs about the three services together that     *)
(* follow an authorization from the payment service's goroutine over the   *)
(* gateway into the network manager, and an order the same way.            *)
(*                                                                         *)
(* First the other half of the composition: seen from the network manager  *)
(* the gateway makes nothing but the calls that NetworkManager allows for, *)
(* so what NetworkManagerProofs proves holds here as well.                 *)
(***************************************************************************)
EXTENDS HotspotProofs

-----------------------------------------------------------------------------
(***************************************************************************)
(* Every call is about a device with a row                                 *)
(***************************************************************************)
LEMMA NotifiersInit == Pay!Init => PP!NotifierIsAnswered
BY SamePaymentService, PurchaseAssumption, PP!NotifierInit
DEF AllIps, PP!RealSTKAssumption, PP!NoDeviceAssumption, PP!BoundsAssumption

LEMMA NotifiersStep ==
  ASSUME PP!CompletionInv, PP!NotifierIsAnswered, [Pay!Next]_(Pay!vars)
  PROVE  PP!NotifierIsAnswered'
BY SamePaymentService, PurchaseAssumption, PP!NotifierStep
DEF AllIps, PP!RealSTKAssumption, PP!NoDeviceAssumption, PP!BoundsAssumption

LEMMA AnsweredStays ==
  ASSUME PP!TypeOK, [Pay!Next]_(Pay!vars), NEW c \in Checkouts, stk[c] = "answered"
  PROVE  stk'[c] = "answered"
BY SamePaymentService, PurchaseAssumption, PP!AnsweredIsKept
DEF AllIps, PP!RealSTKAssumption, PP!NoDeviceAssumption, PP!BoundsAssumption

\* The gateway is asked to authorize only for a push that was answered.
CalledIsAnswered ==
  \A d \in Pay!Deliveries : authorizing[d] # "idle" => stk[d[1]] = "answered"

CallInv ==
  /\ PromiseInv /\ PP!DeviceBehindSession /\ PP!NotifierIsAnswered
  /\ CalledIsAnswered

LEMMA CallInit == Init => CallInv
<1> SUFFICES ASSUME Init PROVE CallInv
  OBVIOUS
<1>1. PP!DeviceBehindSession /\ PP!NotifierIsAnswered
  BY DevicesInit, NotifiersInit DEF Init
<1>2. CalledIsAnswered
  BY DEF Init, CalledIsAnswered
<1> QED BY <1>1, <1>2, PromiseInit DEF CallInv

\* A handler of the gateway starts with a notification.
LEMMA AuthorizingComesFrom ==
  ASSUME PointsOK, [Next]_vars, NEW d \in Pay!Deliveries, authorizing'[d] # "idle"
  PROVE  authorizing[d] # "idle" \/ d \in notifies
<1> USE DEF PointsOK
<1>1. ASSUME NEW e \in Pay!Deliveries,
             ReceiveNotify(e) \/ CallAuthorize(e) \/ FinishAuthorize(e)
      PROVE  authorizing[d] # "idle" \/ d \in notifies
  BY <1>1
  DEF ReceiveNotify, Pay!SendNotify, CallAuthorize, FinishAuthorize, AuthorizeStep
<1>2. CASE CrashGateway
  BY <1>2 DEF CrashGateway
<1>3. CASE UNCHANGED authorizing
  BY <1>3
<1> QED
  BY <1>1, <1>2, <1>3
  DEF Next, PaymentStep, DaemonStep, FindActiveSession, GatewayHandler, CallRevoke,
      SaveDisconnected, FailDisconnect, DisconnectStep, gwVars, vars

LEMMA CallStep == ASSUME CallInv, [Next]_vars PROVE CallInv'
<1>0. /\ PromiseInv /\ PointsOK /\ PP!CompletionInv /\ PP!TypeOK
      /\ [Pay!Next]_(Pay!vars)
  BY GatewayKeepsToTables DEF CallInv, PromiseInv, PP!CompletionInv, PP!AccessInv
<1>1. PromiseInv'
  BY <1>0, PromiseStep
<1>2. PP!DeviceBehindSession' /\ PP!NotifierIsAnswered'
  BY <1>0, DevicesStep, NotifiersStep DEF CallInv
<1>3. ASSUME NEW d \in Pay!Deliveries, authorizing'[d] # "idle"
      PROVE  stk'[d[1]] = "answered"
  <2>1. d[1] \in Checkouts /\ d \in PP!Deliveries
    BY DEF Pay!Deliveries, PP!Deliveries
  <2>2. stk[d[1]] = "answered"
    BY <1>0, <1>3, <2>1, AuthorizingComesFrom DEF CallInv, CalledIsAnswered, PP!NotifierIsAnswered
  <2> QED BY <1>0, <2>1, <2>2, AnsweredStays
<1>4. CalledIsAnswered'
  BY <1>3 DEF CalledIsAnswered, Pay!Deliveries
<1> QED BY <1>1, <1>2, <1>4 DEF CallInv

\* So the calls are among those that the network manager was proved with.
LEMMA CallsAreKnown ==
  ASSUME CallInv
  PROVE  /\ \A d \in Pay!Deliveries : authorizing[d] # "idle" =>
              devices[request[d[1]].mac] # NoDevice /\ Call("authorize", d) \in NMRequests
         /\ \A o \in Orders : disconnecting[o] \notin {"idle", "refused"} =>
              devices[request[o[1]].mac] # NoDevice /\ Call("revoke", o) \in NMRequests
<1>1. PP!TypeOK /\ \A c \in Checkouts : request[c].mac \in Macs
  BY PaymentFacts DEF CallInv, PromiseInv, PP!CompletionInv, PP!AccessInv, Pay!Requests
<1>2. ASSUME NEW m \in Macs, devices[m] # NoDevice PROVE devices[m] \in AllIps
  BY <1>1, <1>2 DEF PP!TypeOK
<1>3. ASSUME NEW d \in Pay!Deliveries, authorizing[d] # "idle"
      PROVE  devices[request[d[1]].mac] # NoDevice /\ Call("authorize", d) \in NMRequests
  <2>1. d[1] \in Checkouts /\ devices[request[d[1]].mac] # NoDevice
    BY <1>3 DEF CallInv, CalledIsAnswered, PP!DeviceBehindSession, Pay!Deliveries
  <2> QED BY <1>1, <1>2, <2>1 DEF Call, NMRequests
<1>4. ASSUME NEW o \in Orders, disconnecting[o] \notin {"idle", "refused"}
      PROVE  devices[request[o[1]].mac] # NoDevice /\ Call("revoke", o) \in NMRequests
  <2>1. o[1] \in Checkouts /\ sessions[o[1]] # "none"
    BY <1>4 DEF CallInv, PromiseInv, OrderedWasOn, PP!WasOn, Orders
  <2>2. devices[request[o[1]].mac] # NoDevice
    BY <2>1 DEF CallInv, PP!DeviceBehindSession
  <2> QED BY <1>1, <1>2, <2>1, <2>2 DEF Call, NMRequests
<1> QED BY <1>3, <1>4

-----------------------------------------------------------------------------
(***************************************************************************)
(* The network manager beside the gateway                                  *)
(***************************************************************************)
LEMMA GatewayKeepsToCalls ==
  ASSUME CallInv, [Next]_vars
  PROVE  [NM!Next]_(NM!vars)
<1>1. CASE DaemonStep
  BY <1>1 DEF DaemonStep, NM!Next
<1>2. ASSUME NEW d \in Pay!Deliveries, CallAuthorize(d) PROVE [NM!Next]_(NM!vars)
  <2>1. CASE UNCHANGED nmVars
    BY <2>1 DEF nmVars, NM!vars
  <2>2. CASE authorizing[d] = "calling" /\ NM!Receive(Call("authorize", d))
    BY <2>2, CallsAreKnown DEF NM!Next
  <2> QED BY <1>2, <2>1, <2>2 DEF CallAuthorize, AuthorizeStep
<1>3. ASSUME NEW o \in Orders, CallRevoke(o) PROVE [NM!Next]_(NM!vars)
  <2>1. CASE UNCHANGED nmVars
    BY <2>1 DEF nmVars, NM!vars
  <2>2. CASE disconnecting[o] = "calling" /\ NM!Receive(Call("revoke", o))
    BY <2>2, CallsAreKnown DEF NM!Next
  <2> QED BY <1>3, <2>1, <2>2 DEF CallRevoke, DisconnectStep
<1>4. CASE UNCHANGED nmVars
  BY <1>4 DEF nmVars, NM!vars
<1> QED
  BY <1>1, <1>2, <1>3, <1>4
  DEF Next, PaymentStep, ReceiveNotify, FindActiveSession, GatewayHandler,
      FinishAuthorize, SaveDisconnected, FailDisconnect, CrashGateway, vars

LEMMA CallInvariant == Spec => []CallInv
BY CallInit, CallStep, PTL DEF Spec

\* The gateway calls the network manager only as the network manager was proved
\* with: about devices that have a row, each call once (handlers.go:145-256).
THEOREM CallsAreAsAssumed == Spec => NM!Spec
<1>1. Init => NM!Init
  BY DEF Init
<1>2. CallInv /\ [Next]_vars => [NM!Next]_(NM!vars)
  BY GatewayKeepsToCalls
<1> QED BY <1>1, <1>2, CallInvariant, PTL DEF Spec, NM!Spec

-----------------------------------------------------------------------------
(***************************************************************************)
(* What was proved of the network manager, for the clients of HotspotOS    *)
(***************************************************************************)
LEMMA SameNetworkStep == [NM!Next]_(NM!vars) <=> [NP!Next]_(NP!vars)
<1>1. NM!DaemonNext <=> NP!DaemonNext
  BY SameNetworkManager
<1>2. ASSUME NEW r PROVE NM!Receive(r) <=> NP!Receive(r)
  BY DEF NM!Receive, NP!Receive, NM!Incomplete, NP!Incomplete, NM!Serving, NP!Serving, NM!SetupCommands,
         NP!SetupCommands, NM!Step, NP!Step, NM!Running, NP!Running, NM!kernel,
         NP!kernel, NM!process, NP!process, NM!bounds, NP!bounds
<1> QED BY <1>1, <1>2 DEF NM!Next, NP!Next, NM!vars, NP!vars

NetworkInv == CallInv /\ NP!ForwardInv /\ NP!OpenInv /\ NP!AuthorizationsEnd

LEMMA NetworkInit == Init => NetworkInv
<1> SUFFICES ASSUME Init PROVE NetworkInv
  OBVIOUS
<1>1. NP!Init
  BY SameNetworkManager DEF Init
<1>2. NP!ForwardInv /\ NP!OpenInv /\ NP!AuthorizationsEnd
  BY <1>1, NetworkAssumptions, NP!ForwardInit, NP!OpenInit, NP!EndInit
<1> QED BY <1>2, CallInit DEF NetworkInv

LEMMA NetworkStep == ASSUME NetworkInv, [Next]_vars PROVE NetworkInv'
<1>1. CallInv /\ CallInv' /\ [NP!Next]_(NP!vars)
  BY CallStep, GatewayKeepsToCalls, SameNetworkStep DEF NetworkInv
<1>2. NP!ForwardInv' /\ NP!OpenInv' /\ NP!AuthorizationsEnd'
  BY <1>1, NetworkAssumptions, NP!ForwardStep, NP!OpenStep, NP!EndStep
  DEF NetworkInv, NP!ForwardInv, NP!RevokeInv
<1> QED BY <1>1, <1>2 DEF NetworkInv

LEMMA NetworkInvariant == Spec => []NetworkInv
BY NetworkInit, NetworkStep, PTL DEF Spec

\* What the network manager was proved to keep on its own, it keeps for the
\* gateway's calls: its list and the firewall agree on every client whose orders
\* did not cross, and a client whose only authorization was revoked is shut out.
THEOREM NetworkManagerInService ==
  Spec => [](NM!ListedIsOpen /\ NM!OpenIsListed /\ NM!RevocationHolds)
<1>1. NetworkInv => NM!ListedIsOpen
  BY DEF NetworkInv, NP!OpenInv, NP!ListInv, NP!ShutIsAboutToBeUnlisted, NP!Straight,
         NM!ListedIsOpen, NM!Quiet, NM!Running
<1>2. NetworkInv => NM!OpenIsListed
  BY DEF NetworkInv, NP!OpenInv, NP!OpenIsAboutToBeListed, NM!OpenIsListed, NM!Quiet,
         NM!Running
<1>3. NetworkInv => NM!RevocationHolds
  BY DEF NetworkInv, NP!ForwardInv, NP!RevokeInv, NP!RevokedIsShut, NM!RevocationHolds,
         NM!NeverSimulated, NP!NeverSimulated, NM!AuthorizedOnce, NP!AuthorizedOnce
<1> QED BY <1>1, <1>2, <1>3, NetworkInvariant, PTL

-----------------------------------------------------------------------------
(***************************************************************************)
(* Nobody is forgotten                                                     *)
(*                                                                         *)
(* The invariant follows the authorization that a callback reporting       *)
(* payment leads to: it is somewhere on its way, or it came to an end of a *)
(* known kind.  It follows callbacks rather than sessions, whose status a  *)
(* contradicting callback or an order may change at any time.              *)
(***************************************************************************)

\* The authorization that a callback leads to has been set off.
Told(d) == cb[d] = "notify" \/ d \in notifies \/ authorizing[d] # "idle"

\* A request reaches the network manager only by its own call of the gateway.
UnaskedIsIdle ==
  \A r \in NMRequests : pc[r] # "idle" =>
    /\ r.kind = "authorize" => authorizing[r.call] \notin {"idle", "calling"}
    /\ r.kind = "revoke" => OrderedFor(r.mac)

\* A handler of the gateway that is over was too early, or was answered.
OverIsAnswered ==
  \A d \in Pay!Deliveries :
    \/ authorizing[d] \in {"idle", "calling", "waiting"}
    \/ CameTooEarly(d)
    \/ pc[Call("authorize", d)] \in {"ok", "refused"}

\* A callback that reported payment and found its session had the client
\* authorized.
TakenIsTold == \A d \in Pay!Deliveries : PP!TakenForPaid(d) => Told(d)

DeliveryInv ==
  /\ NetworkInv /\ UnaskedIsIdle
  /\ Unfailing => OverIsAnswered /\ TakenIsTold

LEMMA DeliveryInit == Init => DeliveryInv
<1> SUFFICES ASSUME Init PROVE DeliveryInv
  OBVIOUS
<1>1. UnaskedIsIdle
  BY DEF Init, NM!Init, UnaskedIsIdle
<1>2. OverIsAnswered
  BY DEF Init, OverIsAnswered
<1>3. TakenIsTold
  BY DEF Init, Pay!Init, TakenIsTold, PP!TakenForPaid
<1> QED BY <1>1, <1>2, <1>3, NetworkInit DEF DeliveryInv

\* Only the gateway's calls take a request out of its initial point.
LEMMA IdleUntilCalled ==
  ASSUME PointsOK, [Next]_vars, NEW r \in NMRequests, pc[r] = "idle", pc'[r] # "idle"
  PROVE  \/ \E d \in Pay!Deliveries :
              /\ r = Call("authorize", d) /\ authorizing[d] = "calling"
              /\ authorizing'[d] = "waiting"
         \/ \E o \in Orders :
              /\ r = Call("revoke", o) /\ disconnecting[o] = "calling"
              /\ UNCHANGED authorizing
<1> USE DEF PointsOK, NM!Step
<1>1. CASE DaemonStep
  <2>1. pc'[r] = "idle"
    <3>1. ASSUME NEW q \in NMRequests, NM!Handler(q) PROVE pc'[r] = "idle"
      BY <3>1
      DEF NM!Handler, NM!OpenFirewall, NM!CloseFirewall, NM!ListClient, NM!UnlistClient
    <3>2. CASE NM!Restart \/ NM!Reboot
      BY <3>2 DEF NM!Restart, NM!Reboot, NM!StartOver, NM!Running
    <3>3. CASE NM!RunSetupCommand \/ NM!FailSetupCommand
      BY <3>3 DEF NM!RunSetupCommand, NM!FailSetupCommand
    <3> QED BY <1>1, <3>1, <3>2, <3>3 DEF DaemonStep, NM!DaemonNext
  <2> QED BY <2>1
<1>2. ASSUME NEW q, NM!Receive(q) PROVE r = q
  BY <1>2 DEF NM!Receive
<1>3. ASSUME NEW d \in Pay!Deliveries, CallAuthorize(d)
      PROVE  /\ r = Call("authorize", d) /\ authorizing[d] = "calling"
             /\ authorizing'[d] = "waiting"
  <2>1. authorizing[d] = "calling"
    BY <1>3 DEF CallAuthorize, AuthorizeStep
  <2>2. NM!Receive(Call("authorize", d)) /\ authorizing'[d] = "waiting"
    BY <1>3 DEF CallAuthorize, AuthorizeStep, nmVars
  <2> QED BY <1>2, <2>1, <2>2
<1>4. ASSUME NEW o \in Orders, CallRevoke(o)
      PROVE  /\ r = Call("revoke", o) /\ disconnecting[o] = "calling"
             /\ UNCHANGED authorizing
  <2>1. disconnecting[o] = "calling" /\ UNCHANGED authorizing
    BY <1>4 DEF CallRevoke, DisconnectStep
  <2>2. NM!Receive(Call("revoke", o))
    BY <1>4 DEF CallRevoke, nmVars
  <2> QED BY <1>2, <2>1, <2>2
<1>5. CASE UNCHANGED pc
  BY <1>5
<1> QED
  BY <1>1, <1>3, <1>4, <1>5
  DEF Next, PaymentStep, ReceiveNotify, FindActiveSession, GatewayHandler,
      FinishAuthorize, SaveDisconnected, FailDisconnect, CrashGateway, nmVars, vars

\* How a handler of the gateway moves on.
LEMMA AuthorizingGoesOn ==
  ASSUME PointsOK, [Next]_vars, NEW d \in Pay!Deliveries
  PROVE  \/ authorizing'[d] = authorizing[d]
         \/ authorizing[d] = "idle" /\ ReceiveNotify(d) /\ authorizing'[d] = "calling"
         \/ authorizing[d] = "calling" /\ CallAuthorize(d)
            /\ authorizing'[d] \in {"waiting", "error"}
         \/ authorizing[d] = "waiting" /\ FinishAuthorize(d)
            /\ authorizing'[d] \in {"done", "error"}
         \/ CrashGateway /\ authorizing[d] \in {"calling", "waiting"}
            /\ authorizing'[d] = "dead"
<1> USE DEF PointsOK
<1>1. ASSUME NEW e \in Pay!Deliveries,
             ReceiveNotify(e) \/ CallAuthorize(e) \/ FinishAuthorize(e), e # d
      PROVE  authorizing'[d] = authorizing[d]
  BY <1>1
  DEF ReceiveNotify, CallAuthorize, FinishAuthorize, AuthorizeStep
<1>2. CASE ReceiveNotify(d)    BY <1>2 DEF ReceiveNotify, AuthorizeStep
<1>3. CASE CallAuthorize(d)    BY <1>3 DEF CallAuthorize, AuthorizeStep
<1>4. CASE FinishAuthorize(d)  BY <1>4 DEF FinishAuthorize, AuthorizeStep
<1>5. CASE CrashGateway        BY <1>5 DEF CrashGateway
<1>6. CASE UNCHANGED authorizing
  BY <1>6
<1> QED
  BY <1>1, <1>2, <1>3, <1>4, <1>5, <1>6
  DEF Next, PaymentStep, DaemonStep, FindActiveSession, GatewayHandler, CallRevoke,
      SaveDisconnected, FailDisconnect, DisconnectStep, gwVars, vars

LEMMA UnaskedStep == ASSUME DeliveryInv, [Next]_vars PROVE UnaskedIsIdle'
<1>0. /\ PromiseInv /\ PointsOK /\ UnaskedIsIdle
  BY DEF DeliveryInv, NetworkInv, CallInv, PromiseInv
<1> SUFFICES ASSUME NEW r \in NMRequests, pc'[r] # "idle"
             PROVE  /\ r.kind = "authorize" => authorizing'[r.call] \notin {"idle", "calling"}
                    /\ r.kind = "revoke" => OrderedFor(r.mac)'
  BY DEF UnaskedIsIdle
<1>1. /\ r.kind = "authorize" => r.call \in Pay!Deliveries
      /\ r.kind \in {"authorize", "revoke"}
  BY DEF NMRequests
<1>2. CASE pc[r] # "idle"
  BY <1>0, <1>1, <1>2, AuthorizingGoesOn, CausesRemain DEF UnaskedIsIdle
<1>3. ASSUME pc[r] = "idle", NEW d \in Pay!Deliveries, r = Call("authorize", d),
             authorizing'[d] = "waiting"
      PROVE  r.kind = "authorize" /\ r.call = d
  BY <1>3 DEF Call
<1>4. ASSUME pc[r] = "idle", NEW o \in Orders, r = Call("revoke", o),
             disconnecting[o] = "calling"
      PROVE  r.kind = "revoke" /\ OrderedFor(r.mac)
  <2>1. r.kind = "revoke" /\ r.mac = request[o[1]].mac
    BY <1>4, CallIsFor
  <2>2. o[1] \in Ordered
    BY <1>4 DEF Ordered, Orders
  <2> QED BY <2>1, <2>2 DEF OrderedFor
<1>5. CASE pc[r] = "idle"
  BY <1>0, <1>3, <1>4, <1>5, IdleUntilCalled, CausesRemain
<1> QED BY <1>2, <1>5

LEMMA FailuresAreCounted ==
  ASSUME PP!TypeOK, [Pay!Next]_(Pay!vars)
  PROVE  (faults' = 0 => faults = 0) /\ (crashes' = 0 => crashes = 0)
BY SamePaymentService, PurchaseAssumption, PP!FailuresCount
DEF AllIps, PP!RealSTKAssumption, PP!NoDeviceAssumption, PP!BoundsAssumption

LEMMA TakenByNow ==
  ASSUME PP!CompletionInv, [Pay!Next]_(Pay!vars), NEW d \in Pay!Deliveries,
         ~PP!TakenForPaid(d), PP!TakenForPaid(d)', faults' = 0, crashes' = crashes
  PROVE  cb'[d] = "notify"
<1>1. PP!AccessInv /\ d \in PP!Deliveries
  BY DEF PP!CompletionInv, PP!Deliveries, Pay!Deliveries
<1> QED
  BY <1>1, SamePaymentService, PurchaseAssumption, PP!TakenBy
  DEF AllIps, PP!RealSTKAssumption, PP!NoDeviceAssumption, PP!BoundsAssumption

\* Where nothing has failed after a step nothing had before it, and the step was
\* none of the failures of the gateway.
LEMMA UnfailingSoFar ==
  ASSUME NetworkInv, gatewayFaults \in Nat, [Next]_vars, Unfailing'
  PROVE  Unfailing /\ ~GatewayFault
<1>1. PP!TypeOK /\ [Pay!Next]_(Pay!vars) /\ NP!TypeOK /\ [NP!Next]_(NP!vars)
  BY GatewayKeepsToTables, GatewayKeepsToCalls, SameNetworkStep
  DEF NetworkInv, CallInv, PromiseInv, PP!CompletionInv, PP!AccessInv, NP!ForwardInv,
      NP!RevokeInv
<1>2. faults = 0 /\ crashes = 0 /\ errors = 0 /\ restarts = 0 /\ reboots = 0
  BY <1>1, FailuresAreCounted, NetworkAssumptions, NP!CountersGrow DEF Unfailing
<1>3. ~GatewayFault
  BY DEF GatewayFault, Unfailing
<1>4. gatewayFaults' = gatewayFaults
  BY <1>3
  DEF Next, PaymentStep, DaemonStep, ReceiveNotify, FindActiveSession, GatewayHandler,
      CallAuthorize, FinishAuthorize, CallRevoke, SaveDisconnected, FailDisconnect,
      CrashGateway, gwVars, vars
<1> QED BY <1>2, <1>3, <1>4 DEF Unfailing

LEMMA OverStep ==
  ASSUME DeliveryInv, gatewayFaults \in Nat, [Next]_vars, Unfailing'
  PROVE  OverIsAnswered'
<1>0. /\ Unfailing /\ ~GatewayFault /\ PointsOK /\ OverIsAnswered /\ UnaskedIsIdle
      /\ CallInv /\ NP!AuthorizationsEnd
  BY UnfailingSoFar DEF DeliveryInv, NetworkInv, CallInv, PromiseInv
<1>1. request' = request /\ PP!TypeOK /\ [Pay!Next]_(Pay!vars)
  BY <1>0, GatewayKeepsToTables, PaymentKeeps
  DEF CallInv, PromiseInv, PP!CompletionInv, PP!AccessInv
<1> SUFFICES ASSUME NEW d \in Pay!Deliveries,
                    authorizing'[d] \notin {"idle", "calling", "waiting"}
             PROVE  \/ CameTooEarly(d)'
                    \/ pc'[Call("authorize", d)'] \in {"ok", "refused"}
  BY DEF OverIsAnswered
<1>2. PICK r : r = Call("authorize", d)
  OBVIOUS
<1>3. authorizing[d] # "idle" /\ ~CrashGateway
  BY <1>0, AuthorizingGoesOn DEF CrashGateway
<1>4. r \in NMRequests /\ r.kind = "authorize" /\ r.call = d
  BY <1>0, <1>2, <1>3, CallsAreKnown DEF Call
<1>5. Call("authorize", d)' = r
  <2>1. request[d[1]].mac \in Macs /\ devices[request[d[1]].mac] # NoDevice
    BY <1>0, <1>3, CallsAreKnown, PaymentFacts DEF CallInv, PromiseInv, Pay!Deliveries, Pay!Requests
  <2>2. devices'[request[d[1]].mac] = devices[request[d[1]].mac]
    BY <1>1, <2>1, DevicesAreKept
  <2> QED BY <1>1, <1>2, <2>2 DEF Call
<1>6. CASE authorizing[d] = "calling"
  <2>1. pc[r] = "idle" /\ CallAuthorize(d) /\ authorizing'[d] = "error"
    BY <1>0, <1>3, <1>4, <1>6, AuthorizingGoesOn DEF UnaskedIsIdle
  <2>2. UNCHANGED nmVars
    BY <1>0, <2>1 DEF CallAuthorize, AuthorizeStep, PointsOK
  <2> QED BY <1>5, <2>1, <2>2 DEF CameTooEarly, nmVars
<1>7. CASE authorizing[d] = "waiting"
  <2>1. FinishAuthorize(d)
    BY <1>0, <1>3, <1>7, AuthorizingGoesOn
  <2>2. pc[r] \in {"ok", "failed", "refused", "lost"} /\ pc' = pc
    BY <1>0, <1>2, <2>1 DEF FinishAuthorize, nmVars
  <2>3. pc[r] \notin {"failed", "lost"}
    BY <1>0, <1>4 DEF NP!AuthorizationsEnd, Unfailing
  <2> QED BY <1>5, <2>2, <2>3
<1>8. CASE authorizing[d] \notin {"calling", "waiting"}
  <2>1. authorizing'[d] = authorizing[d]
    BY <1>0, <1>3, <1>8, AuthorizingGoesOn
  <2>2. CASE pc[r] \in {"ok", "refused"}
    BY <1>0, <1>4, <1>5, <2>2, AnswerIsKept DEF Answered
  <2>3. CASE CameTooEarly(d)
    <3>1. pc[r] = "idle" /\ authorizing[d] = "error"
      BY <1>2, <2>3 DEF CameTooEarly
    <3>2. ASSUME NEW e \in Pay!Deliveries, r = Call("authorize", e) PROVE e = d
      BY <1>4, <3>2 DEF Call
    <3>3. ASSUME NEW o, r = Call("revoke", o) PROVE FALSE
      BY <1>4, <3>3, CallIsFor
    <3>4. pc'[r] = "idle"
      BY <1>0, <1>4, <3>1, <3>2, <3>3, IdleUntilCalled
    <3> QED BY <1>5, <2>1, <3>1, <3>4 DEF CameTooEarly
  <2> QED BY <1>0, <1>2, <1>3, <1>8, <2>2, <2>3 DEF OverIsAnswered
<1> QED BY <1>6, <1>7, <1>8

\* Where nothing fails the payment service gets its goroutine to the gateway.
LEMMA TheNotifierGoesOn ==
  ASSUME PP!TypeOK, Pay!ServiceNext, faults' = 0, faults = 0, crashes' = 0, crashes = 0,
         NEW d \in Pay!Deliveries, cb[d] = "notify" \/ d \in notifies
  PROVE  cb'[d] = "notify" \/ d \in notifies'
<1> USE DEF Pay!CbStep, Pay!Fault, PP!TypeOK
<1>0. cb \in [Pay!Deliveries -> PP!CbPoints]
  BY DEF PP!Deliveries, Pay!Deliveries
<1>1. ASSUME NEW c \in Checkouts,
             \/ Pay!RejectRequest(c) \/ Pay!PushReal(c) \/ Pay!PushMock(c)
             \/ Pay!StkHandler(c)
      PROVE  UNCHANGED <<cb, notifies>>
  BY <1>1
  DEF Pay!RejectRequest, Pay!PushReal, Pay!PushMock, Pay!StkHandler, Pay!RecordPayment,
      Pay!FindPlan, Pay!FindDevice, Pay!CreateDevice, Pay!CreateSession, Pay!LinkPayment
<1>2. ASSUME NEW e \in Pay!Deliveries,
             \/ Pay!DeliverReal(e) \/ Pay!DeliverMock(e) \/ Pay!ActivateSession(e)
             \/ Pay!FailSession(e) \/ Pay!SavePayment(e) \/ Pay!PublishUpdate(e)
      PROVE  cb'[d] = "notify" \/ d \in notifies'
  BY <1>0, <1>2
  DEF Pay!DeliverReal, Pay!DeliverMock, Pay!LoadPayment, Pay!ActivateSession,
      Pay!FailSession, Pay!SavePayment, Pay!PublishUpdate
<1>3. ASSUME NEW e \in Pay!Deliveries, Pay!StartNotify(e)
      PROVE  cb'[d] = "notify" \/ d \in notifies'
  BY <1>0, <1>3 DEF Pay!StartNotify
<1>4. ASSUME NEW p \in Plans, Pay!DeletePlan(p) PROVE UNCHANGED <<cb, notifies>>
  BY <1>4 DEF Pay!DeletePlan
<1>5. CASE Pay!Crash
  BY <1>5 DEF Pay!Crash
<1> QED
  BY <1>1, <1>2, <1>3, <1>4, <1>5 DEF Pay!ServiceNext, Pay!CallbackHandler

LEMMA ToldStays ==
  ASSUME DeliveryInv, gatewayFaults \in Nat, [Next]_vars, Unfailing',
         NEW d \in Pay!Deliveries, Told(d)
  PROVE  Told(d)'
<1>0. Unfailing /\ ~GatewayFault /\ PointsOK /\ PP!TypeOK
  BY UnfailingSoFar
  DEF DeliveryInv, NetworkInv, CallInv, PromiseInv, PP!CompletionInv, PP!AccessInv
<1>1. CASE authorizing[d] # "idle"
  BY <1>0, <1>1, AuthorizingGoesOn DEF Told
<1>2. CASE cb[d] = "notify" \/ d \in notifies
  <2>1. CASE PaymentStep
    BY <1>0, <1>2, <2>1, TheNotifierGoesOn DEF PaymentStep, Unfailing, Told
  <2>2. ASSUME NEW e \in Pay!Deliveries, ReceiveNotify(e), e # d PROVE Told(d)'
    BY <1>2, <2>2 DEF ReceiveNotify, Pay!SendNotify, Told
  <2>3. CASE ReceiveNotify(d)
    BY <1>0, <2>3 DEF ReceiveNotify, AuthorizeStep, PointsOK, Told
  <2>4. CASE UNCHANGED <<cb, notifies>>
    BY <1>2, <2>4 DEF Told
  <2> QED
    BY <2>1, <2>2, <2>3, <2>4
    DEF Next, DaemonStep, FindActiveSession, GatewayHandler, CallAuthorize, FinishAuthorize,
        CallRevoke, SaveDisconnected, FailDisconnect, CrashGateway, payVars, vars
<1> QED BY <1>1, <1>2 DEF Told

LEMMA DeliveryStep ==
  ASSUME DeliveryInv, gatewayFaults \in Nat, [Next]_vars
  PROVE  DeliveryInv'
<1>1. NetworkInv' /\ UnaskedIsIdle'
  BY NetworkStep, UnaskedStep DEF DeliveryInv
<1>2. ASSUME Unfailing', NEW d \in Pay!Deliveries, PP!TakenForPaid(d)'
      PROVE  Told(d)'
  <2>1. /\ PP!CompletionInv /\ [Pay!Next]_(Pay!vars) /\ Unfailing
        /\ faults' = 0 /\ crashes' = crashes
    BY <1>2, GatewayKeepsToTables, UnfailingSoFar
    DEF DeliveryInv, NetworkInv, CallInv, PromiseInv, Unfailing
  <2>2. CASE PP!TakenForPaid(d)
    <3>1. Told(d)
      BY <2>1, <2>2 DEF DeliveryInv, TakenIsTold
    <3> QED BY <1>2, <3>1, ToldStays
  <2>3. CASE ~PP!TakenForPaid(d)
    BY <1>2, <2>1, <2>3, TakenByNow DEF Told
  <2> QED BY <2>2, <2>3
<1>3. Unfailing' => TakenIsTold'
  BY <1>2 DEF TakenIsTold, Pay!Deliveries
<1> QED BY <1>1, <1>3, OverStep DEF DeliveryInv

\* Where nothing fails, nobody who was switched on is forgotten (main.go:324-343,
\* handlers.go:145-200, main.go:92-121 of the network manager): the device is let
\* through, or its authorization is on its way or came before the network manager
\* served, or it has no MAC or no address on record, or was ordered off.
THEOREM NobodyForgotten == Spec => []NobodyIsForgotten
<1> DEFINE Inv == DeliveryInv /\ gatewayFaults \in 0 .. MaxGatewayFaults
<1>1. Init => Inv
  BY DeliveryInit, GatewayBoundAssumption DEF Init
<1>2. Inv /\ [Next]_vars => Inv'
  BY DeliveryStep, FaultsAreBounded
<1>3. Inv => NobodyIsForgotten
  <2> SUFFICES ASSUME DeliveryInv, Unfailing, ~Simulate, NEW c \in Checkouts,
                      Pay!Activated(c), request[c].mac # NoMac,
                      devices[request[c].mac] # NoIp
               PROVE  \/ request[c].mac \in nft
                      \/ \E d \in Pay!Deliveries :
                           d[1] = c /\ (OnItsWay(d) \/ CameTooEarly(d))
                      \/ \E e \in Ordered : request[e].mac = request[c].mac
    BY DEF NobodyIsForgotten
  <2>1. PICK d \in Pay!Deliveries : d[1] = c /\ Told(d)
    <3>1. PP!CompletionInv
      BY DEF DeliveryInv, NetworkInv, CallInv, PromiseInv
    <3>2. \E d \in Pay!Deliveries : d[1] = c /\ PP!TakenForPaid(d)
      BY <3>1, PaymentFacts DEF PP!WasOn, PP!Deliveries, Pay!Deliveries
    <3> QED BY <3>2 DEF DeliveryInv, TakenIsTold
  <2>2. CASE OnItsWay(d) \/ CameTooEarly(d)
    BY <2>1, <2>2
  <2>3. CASE ~OnItsWay(d) /\ ~CameTooEarly(d)
    <3>1. PICK r : r = Call("authorize", d)
      OBVIOUS
    <3>2. authorizing[d] # "idle" /\ pc[r] \in {"ok", "refused"}
      BY <2>1, <2>3, <3>1 DEF Told, OnItsWay, DeliveryInv, OverIsAnswered
    <3>3. /\ r \in NMRequests /\ r.kind = "authorize"
          /\ r.mac = request[c].mac /\ r.ip = devices[request[c].mac]
      BY <2>1, <3>1, <3>2, CallsAreKnown DEF Call, DeliveryInv, NetworkInv
    <3>4. pc[r] = "ok"
      BY <3>2, <3>3 DEF DeliveryInv, NetworkInv, NP!AuthorizationsEnd, NP!Incomplete
    <3>5. CASE OrderedFor(request[c].mac)
      BY <3>5 DEF OrderedFor
    <3>6. CASE ~OrderedFor(request[c].mac)
      <4>1. \A q \in NMRequests : q.kind = "revoke" /\ q.mac = r.mac => pc[q] = "idle"
        BY <3>3, <3>6 DEF DeliveryInv, UnaskedIsIdle
      <4>2. ~simulating
        BY DEF Unfailing, DeliveryInv, NetworkInv, NP!ForwardInv, NP!RevokeInv,
               NP!SimulatesAsTold
      <4> QED
        BY <3>3, <3>4, <4>1, <4>2
        DEF Unfailing, DeliveryInv, NetworkInv, NP!ForwardInv, NP!AuthorizedIsOpen
    <3> QED BY <3>5, <3>6
  <2> QED BY <2>2, <2>3
<1> HIDE DEF Inv
<1> QED BY <1>1, <1>2, <1>3, PTL DEF Spec

=============================================================================
