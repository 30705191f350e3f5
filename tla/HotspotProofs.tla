--------------------------- MODULE HotspotProofs ----------------------------
(***************************************************************************)
(* Proofs about the three services together, for any number of purchases,  *)
(* orders, devices, duplicated callbacks, lost calls, time-outs, failed    *)
(* statements and commands, crashes, restarts and reboots.                 *)
(*                                                                         *)
(* What PaymentServiceProofs proves of the payment service alone is used   *)
(* here, where it runs beside the gateway: PP is that module, and its      *)
(* definitions are those of Pay under another name.                        *)
(***************************************************************************)
EXTENDS Hotspot, TLAPS

PP == INSTANCE PaymentServiceProofs WITH Ips <- AllIps
NP == INSTANCE NetworkManagerProofs WITH Requests <- NMRequests

-----------------------------------------------------------------------------
(***************************************************************************)
(* The payment service beside the gateway                                  *)
(***************************************************************************)
LEMMA SamePaymentService ==
  /\ Pay!Init <=> PP!Init
  /\ [Pay!Next]_(Pay!vars) <=> [PP!Next]_(PP!vars)
BY
DEF Pay!tables, PP!tables, Pay!copies, PP!copies, Pay!limits, PP!limits, Pay!Requests,
    PP!Requests, Pay!Deliveries, PP!Deliveries, Pay!StkRunning, PP!StkRunning,
    Pay!StkPoints, PP!StkPoints, Pay!CbRunning, PP!CbRunning, Pay!CbPoints,
    PP!CbPoints, Pay!StkStep, PP!StkStep, Pay!CbStep, PP!CbStep, Pay!Fault,
    PP!Fault, Pay!RejectRequest, PP!RejectRequest, Pay!PushReal, PP!PushReal,
    Pay!PushMock, PP!PushMock, Pay!RecordPayment, PP!RecordPayment, Pay!FindPlan,
    PP!FindPlan, Pay!FindDevice, PP!FindDevice, Pay!CreateDevice, PP!CreateDevice,
    Pay!CreateSession, PP!CreateSession, Pay!LinkPayment, PP!LinkPayment,
    Pay!StkHandler, PP!StkHandler, Pay!TakenForPaid, PP!TakenForPaid, Pay!LoadPayment,
    PP!LoadPayment, Pay!DeliverReal, PP!DeliverReal, Pay!DeliverMock,
    PP!DeliverMock, Pay!ActivateSession, PP!ActivateSession, Pay!StartNotify,
    PP!StartNotify, Pay!FailSession, PP!FailSession, Pay!Verdict, PP!Verdict,
    Pay!SavePayment, PP!SavePayment, Pay!PublishUpdate, PP!PublishUpdate,
    Pay!CallbackHandler, PP!CallbackHandler, Pay!SendNotify, PP!SendNotify,
    Pay!DeletePlan, PP!DeletePlan, Pay!SaveDisconnected, PP!SaveDisconnected,
    Pay!Activated, PP!Activated, Pay!Crash, PP!Crash, Pay!ServiceNext,
    PP!ServiceNext, Pay!GatewayNext, PP!GatewayNext, Pay!Next, PP!Next, Pay!vars,
    PP!vars, Pay!Init, PP!Init

\* Its lemmas, with their assumptions on the constants discharged.
LEMMA PaymentInit == Pay!Init => PP!CompletionInv
BY SamePaymentService, PurchaseAssumption, PP!CompletionInit
DEF AllIps, PP!RealSTKAssumption, PP!NoDeviceAssumption, PP!BoundsAssumption

LEMMA PaymentInvariant ==
  ASSUME PP!CompletionInv, [Pay!Next]_(Pay!vars)
  PROVE  PP!CompletionInv'
BY SamePaymentService, PurchaseAssumption, PP!CompletionStep
DEF AllIps, PP!RealSTKAssumption, PP!NoDeviceAssumption, PP!BoundsAssumption

LEMMA PaymentFacts ==
  ASSUME PP!CompletionInv
  PROVE  /\ request \in [Checkouts -> Pay!Requests]
         /\ report \in [Pay!Deliveries -> {"none", "paid", "declined"}]
         /\ \A c \in Checkouts : Pay!Activated(c) => PP!WasOn(c)
         /\ \A d \in notifies : d \in Pay!Deliveries /\ Pay!Reported(d[1], "paid")
<1>1. /\ request \in [Checkouts -> Pay!Requests]
      /\ report \in [Pay!Deliveries -> {"none", "paid", "declined"}]
      /\ \A d \in notifies : d \in Pay!Deliveries
  BY DEF PP!CompletionInv, PP!AccessInv, PP!TypeOK, PP!Requests, Pay!Requests,
         PP!Deliveries, Pay!Deliveries
<1>2. \A c \in Checkouts : Pay!Activated(c) => PP!WasOn(c)
  BY DEF PP!CompletionInv, PP!AccessInv, PP!AccessOnlyIfReported, PP!Activated,
         Pay!Activated, PP!WasOn
<1>3. \A d \in notifies : report[d] = "paid"
  BY DEF PP!CompletionInv, PP!AccessInv, PP!AccessOnlyIfReported, PP!TakenForPaid
<1> QED BY <1>1, <1>2, <1>3 DEF Pay!Reported

LEMMA WasOnIsReported ==
  ASSUME NEW c \in Checkouts, PP!WasOn(c)
  PROVE  Pay!Reported(c, "paid")
BY DEF PP!WasOn, PP!TakenForPaid, PP!Deliveries, Pay!Reported, Pay!Deliveries

LEMMA PaymentKeeps ==
  ASSUME PP!CompletionInv, [Pay!Next]_(Pay!vars)
  PROVE  /\ request' = request
         /\ \A c \in Checkouts : Pay!Reported(c, "paid") => Pay!Reported(c, "paid")'
         /\ \A c \in Checkouts : PP!WasOn(c) => PP!WasOn(c)'
<1> USE PurchaseAssumption, SamePaymentService
    DEF AllIps, PP!RealSTKAssumption, PP!NoDeviceAssumption, PP!BoundsAssumption
<1>1. PP!TypeOK /\ PP!UnreadIsNone
  BY DEF PP!CompletionInv, PP!AccessInv
<1>2. request' = request
  BY PP!RequestIsKept
<1>3. \A c \in Checkouts : PP!Reported(c, "paid") => PP!Reported(c, "paid")'
  BY <1>1, PP!ReportsGrow
<1>4. \A c \in Checkouts : PP!WasOn(c) => PP!WasOn(c)'
  BY PP!WasOnIsKept
<1> QED
  BY <1>2, <1>3, <1>4 DEF PP!Reported, Pay!Reported, PP!Deliveries, Pay!Deliveries

LEMMA OneReportAtATime ==
  ASSUME PP!CompletionInv, [Pay!Next]_(Pay!vars)
  PROVE  \/ report' = report
         \/ \E d \in Pay!Deliveries :
              \A e \in Pay!Deliveries : e # d => report'[e] = report[e]
BY PurchaseAssumption, SamePaymentService, PP!OneReports
DEF AllIps, PP!RealSTKAssumption, PP!NoDeviceAssumption, PP!BoundsAssumption,
    PP!CompletionInv, PP!AccessInv, PP!Deliveries, Pay!Deliveries

LEMMA DevicesInit == Pay!Init => PP!DeviceBehindSession
BY SamePaymentService, PurchaseAssumption, PP!DeviceInit
DEF AllIps, PP!RealSTKAssumption, PP!NoDeviceAssumption, PP!BoundsAssumption

LEMMA DevicesStep ==
  ASSUME PP!CompletionInv, PP!DeviceBehindSession, [Pay!Next]_(Pay!vars)
  PROVE  PP!DeviceBehindSession'
BY SamePaymentService, PurchaseAssumption, PP!DeviceStep
DEF AllIps, PP!RealSTKAssumption, PP!NoDeviceAssumption, PP!BoundsAssumption

LEMMA DevicesAreKept ==
  ASSUME PP!TypeOK, [Pay!Next]_(Pay!vars), NEW m \in Macs, devices[m] # NoDevice
  PROVE  devices'[m] = devices[m]
BY SamePaymentService, PurchaseAssumption, PP!DeviceIsKept
DEF AllIps, PP!RealSTKAssumption, PP!NoDeviceAssumption, PP!BoundsAssumption

LEMMA MockInit == Pay!Init => PP!MockInv
BY SamePaymentService, PurchaseAssumption, PP!MockInit
DEF AllIps, PP!RealSTKAssumption, PP!NoDeviceAssumption, PP!BoundsAssumption

LEMMA MockStep ==
  ASSUME ~RealSTK, PP!MockInv, [Pay!Next]_(Pay!vars)
  PROVE  /\ PP!MockInv'
         /\ \A c \in Checkouts :
              sessions[c] = "disconnected" => sessions'[c] = "disconnected"
BY SamePaymentService, PurchaseAssumption, PP!MockStep, PP!DisconnectedIsKept
DEF AllIps, PP!RealSTKAssumption, PP!NoDeviceAssumption, PP!BoundsAssumption

-----------------------------------------------------------------------------
(***************************************************************************)
(* The invariant of the composition                                        *)
(***************************************************************************)
PaidFor(m) == \E c \in Checkouts : request[c].mac = m /\ Pay!Reported(c, "paid")
OrderedFor(m) == \E c \in Ordered : request[c].mac = m

\* The gateway asks for an authorization only where payment was reported.
CalledIsPaid ==
  \A d \in Pay!Deliveries : authorizing[d] = "calling" => Pay!Reported(d[1], "paid")

\* It goes through with an order only for a session that was switched on: what
\* follows from the status it has read stays so, though the status may change.
OrderedWasOn ==
  \A o \in Orders :
    disconnecting[o] \notin {"idle", "refused"} => PP!WasOn(o[1])

\* The network manager works on nothing that it was not asked for in this way.
RunningIsCaused ==
  \A r \in NMRequests : pc[r] \in NM!Running =>
    /\ r.kind = "authorize" => PaidFor(r.mac)
    /\ r.kind = "revoke" => OrderedFor(r.mac)

PointsOK ==
  /\ pc \in [NMRequests -> NM!Points]
  /\ authorizing \in [Pay!Deliveries -> Points]
  /\ disconnecting \in [Orders -> Points]

PromiseInv ==
  /\ PP!CompletionInv /\ PointsOK
  /\ CalledIsPaid /\ OrderedWasOn /\ RunningIsCaused /\ GrantedOnlyIfReported

LEMMA PromiseInit == Init => PromiseInv
<1> SUFFICES ASSUME Init PROVE PromiseInv
  OBVIOUS
<1>1. PP!CompletionInv
  BY PaymentInit DEF Init
<1>2. PointsOK
  BY DEF Init, NM!Init, PointsOK, Points, NM!Points
<1>3. CalledIsPaid /\ OrderedWasOn
  BY DEF Init, CalledIsPaid, OrderedWasOn
<1>4. RunningIsCaused /\ GrantedOnlyIfReported
  BY DEF Init, NM!Init, NM!Running, RunningIsCaused, GrantedOnlyIfReported
<1> QED BY <1>1, <1>2, <1>3, <1>4 DEF PromiseInv

\* Seen from the payment service, the gateway takes the calls of its goroutines
\* and disconnects sessions that were switched on.
LEMMA GatewayKeepsToTables ==
  ASSUME PromiseInv, [Next]_vars
  PROVE  [Pay!Next]_(Pay!vars)
<1> USE DEF Pay!Next
<1>1. CASE PaymentStep
  BY <1>1 DEF PaymentStep
<1>2. ASSUME NEW d \in Pay!Deliveries, ReceiveNotify(d) PROVE [Pay!Next]_(Pay!vars)
  BY <1>2 DEF ReceiveNotify, Pay!GatewayNext
<1>3. ASSUME NEW o \in Orders, SaveDisconnected(o) PROVE [Pay!Next]_(Pay!vars)
  <2>1. /\ o[1] \in Checkouts
        /\ \/ Pay!Activated(o[1])
           \/ /\ sessions[o[1]] = "failed"
              /\ \E d \in Pay!Deliveries : d[1] = o[1] /\ Pay!TakenForPaid(d)
    <3>1. o[1] \in Checkouts /\ PP!WasOn(o[1])
      BY <1>3 DEF SaveDisconnected, DisconnectStep, PromiseInv, OrderedWasOn, Orders
    <3>2. sessions[o[1]] \in PP!SessionStatus
      BY <3>1 DEF PromiseInv, PP!CompletionInv, PP!AccessInv, PP!TypeOK
    <3> QED
      BY <3>1, <3>2
      DEF PP!WasOn, PP!SessionStatus, Pay!Activated, PP!TakenForPaid, Pay!TakenForPaid,
          PP!Deliveries, Pay!Deliveries
  <2>2. CASE sessions' = [sessions EXCEPT ![o[1]] = "disconnected"]
    <3>1. Pay!SaveDisconnected(o[1])
      BY <1>3, <2>1, <2>2
      DEF SaveDisconnected, Pay!SaveDisconnected, Pay!copies, Pay!limits
    <3> QED BY <2>1, <3>1 DEF Pay!GatewayNext
  <2>3. CASE UNCHANGED sessions
    BY <1>3, <2>3 DEF SaveDisconnected, Pay!vars
  <2> QED BY <1>3, <2>2, <2>3 DEF SaveDisconnected
<1>4. CASE UNCHANGED payVars
  BY <1>4 DEF payVars, Pay!vars
<1> QED
  BY <1>1, <1>2, <1>3, <1>4
  DEF Next, DaemonStep, FindActiveSession, GatewayHandler, CallAuthorize, FinishAuthorize,
      CallRevoke, FailDisconnect, CrashGateway, vars

\* The daemon starts nothing by itself, and lets through or lists only clients
\* whose authorization it works on.
LEMMA DaemonEffect ==
  ASSUME PointsOK, NM!DaemonNext
  PROVE  /\ pc' \in [NMRequests -> NM!Points]
         /\ \A r \in NMRequests : pc'[r] \in NM!Running => pc[r] \in NM!Running
         /\ \A m \in nft' \cup active' :
              \/ m \in nft \cup active
              \/ \E r \in NMRequests :
                   r.kind = "authorize" /\ r.mac = m /\ pc[r] \in NM!Running
<1> USE DEF PointsOK, NM!Points, NM!Running, NM!Step, NM!kernel, NM!process
<1>1. CASE NM!RunSetupCommand \/ NM!FailSetupCommand
  BY <1>1 DEF NM!RunSetupCommand, NM!FailSetupCommand
<1>2. CASE NM!Restart \/ NM!Reboot
  BY <1>2 DEF NM!Restart, NM!Reboot, NM!StartOver
<1>3. ASSUME NEW r \in NMRequests, NM!OpenFirewall(r) \/ NM!CloseFirewall(r)
      PROVE  /\ pc' \in [NMRequests -> NM!Points]
             /\ \A q \in NMRequests : pc'[q] \in NM!Running => pc[q] \in NM!Running
             /\ \A m \in nft' \cup active' :
                  \/ m \in nft \cup active
                  \/ r.kind = "authorize" /\ r.mac = m /\ pc[r] \in NM!Running
  BY <1>3 DEF NM!OpenFirewall, NM!CloseFirewall
<1>4. ASSUME NEW r \in NMRequests, NM!ListClient(r) \/ NM!UnlistClient(r)
      PROVE  /\ pc' \in [NMRequests -> NM!Points]
             /\ \A q \in NMRequests : pc'[q] \in NM!Running => pc[q] \in NM!Running
             /\ \A m \in nft' \cup active' :
                  \/ m \in nft \cup active
                  \/ r.kind = "authorize" /\ r.mac = m /\ pc[r] \in NM!Running
  BY <1>4 DEF NM!ListClient, NM!UnlistClient
<1> QED BY <1>1, <1>2, <1>3, <1>4 DEF NM!DaemonNext, NM!Handler

LEMMA ReceiveEffect ==
  ASSUME PointsOK, NEW q, NM!Receive(q)
  PROVE  /\ pc' \in [NMRequests -> NM!Points]
         /\ \A r \in NMRequests :
              pc'[r] \in NM!Running => pc[r] \in NM!Running \/ r = q
         /\ UNCHANGED <<nft, active>>
BY DEF PointsOK, NM!Points, NM!Running, NM!Step, NM!kernel, NM!Receive

\* What a handler of the gateway has come past it does not come back to.
LEMMA OrdersGoOn ==
  ASSUME PointsOK, [Next]_vars
  PROVE  /\ authorizing' \in [Pay!Deliveries -> Points]
         /\ disconnecting' \in [Orders -> Points]
         /\ \A o \in Orders : disconnecting[o] \notin {"idle", "refused"}
                                => disconnecting'[o] \notin {"idle", "refused"}
<1> USE DEF PointsOK, Points
<1>1. ASSUME NEW d \in Pay!Deliveries,
             ReceiveNotify(d) \/ CallAuthorize(d) \/ FinishAuthorize(d)
      PROVE  authorizing' \in [Pay!Deliveries -> Points] /\ UNCHANGED disconnecting
  BY <1>1 DEF ReceiveNotify, CallAuthorize, FinishAuthorize, AuthorizeStep
<1>2. ASSUME NEW o \in Orders, FindActiveSession(o)
      PROVE  /\ disconnecting[o] = "idle" /\ UNCHANGED authorizing
             /\ \E to \in {"calling", "refused"} :
                  disconnecting' = [disconnecting EXCEPT ![o] = to]
  BY <1>2 DEF FindActiveSession, DisconnectStep
<1>3. ASSUME NEW o \in Orders, CallRevoke(o) \/ SaveDisconnected(o) \/ FailDisconnect(o)
      PROVE  /\ UNCHANGED authorizing
             /\ \E to \in {"waiting", "error", "done"} :
                  disconnecting' = [disconnecting EXCEPT ![o] = to]
  BY <1>3 DEF CallRevoke, SaveDisconnected, FailDisconnect, DisconnectStep
<1>4. CASE CrashGateway
  BY <1>4 DEF CrashGateway
<1>5. CASE UNCHANGED <<authorizing, disconnecting>>
  BY <1>5
<1>6. ASSUME NEW o \in Orders,
             \/ FindActiveSession(o) \/ CallRevoke(o) \/ SaveDisconnected(o)
             \/ FailDisconnect(o)
      PROVE  /\ UNCHANGED authorizing /\ disconnecting' \in [Orders -> Points]
             /\ \A p \in Orders : disconnecting[p] \notin {"idle", "refused"}
                                   => disconnecting'[p] \notin {"idle", "refused"}
  BY <1>2, <1>3, <1>6
<1> QED
  BY <1>1, <1>4, <1>5, <1>6 DEF Next, GatewayHandler, PaymentStep, DaemonStep, gwVars, vars

\* What was paid, and what was ordered, for a MAC remains so.
LEMMA CausesRemain ==
  ASSUME PromiseInv, [Next]_vars, NEW m
  PROVE  (PaidFor(m) => PaidFor(m)') /\ (OrderedFor(m) => OrderedFor(m)')
<1>1. /\ request' = request
      /\ \A c \in Checkouts : Pay!Reported(c, "paid") => Pay!Reported(c, "paid")'
  BY GatewayKeepsToTables, PaymentKeeps DEF PromiseInv
<1>2. \A c \in Ordered : c \in Ordered'
  BY OrdersGoOn DEF PromiseInv, Ordered, Orders
<1> QED BY <1>1, <1>2 DEF PaidFor, OrderedFor

\* A call to the network manager is about the device of its session.
LEMMA CallIsFor ==
  ASSUME NEW kind, NEW x
  PROVE  Call(kind, x).kind = kind /\ Call(kind, x).mac = request[x[1]].mac
BY DEF Call

LEMMA PointsStep == ASSUME PromiseInv, [Next]_vars PROVE PointsOK'
<1>0. PointsOK
  BY DEF PromiseInv
<1>1. CASE DaemonStep
  BY <1>0, <1>1, OrdersGoOn, DaemonEffect DEF DaemonStep, PointsOK
<1>2. ASSUME NEW q, NM!Receive(q) PROVE PointsOK'
  BY <1>0, <1>2, OrdersGoOn, ReceiveEffect DEF PointsOK
<1>3. CASE UNCHANGED pc
  BY <1>0, <1>3, OrdersGoOn DEF PointsOK
<1> QED
  BY <1>1, <1>2, <1>3
  DEF Next, PaymentStep, ReceiveNotify, FindActiveSession, GatewayHandler, CallAuthorize,
      FinishAuthorize, CallRevoke, SaveDisconnected, FailDisconnect, CrashGateway, nmVars, vars

LEMMA CalledStep == ASSUME PromiseInv, [Next]_vars PROVE CalledIsPaid'
<1> USE DEF PromiseInv, PointsOK
<1>0. \A d \in Pay!Deliveries : Pay!Reported(d[1], "paid") => Pay!Reported(d[1], "paid")'
  BY GatewayKeepsToTables, PaymentKeeps DEF Pay!Deliveries
<1>1. ASSUME \A d \in Pay!Deliveries :
               authorizing'[d] = "calling" => authorizing[d] = "calling"
      PROVE  CalledIsPaid'
  BY <1>0, <1>1 DEF CalledIsPaid
<1>2. ASSUME NEW d \in Pay!Deliveries, ReceiveNotify(d) PROVE CalledIsPaid'
  <2>1. Pay!Reported(d[1], "paid")
    BY <1>2, PaymentFacts DEF ReceiveNotify, Pay!SendNotify
  <2>2. \A e \in Pay!Deliveries :
          authorizing'[e] = "calling" => authorizing[e] = "calling" \/ e = d
    BY <1>2 DEF ReceiveNotify, AuthorizeStep
  <2> QED BY <1>0, <2>1, <2>2 DEF CalledIsPaid
<1>3. ASSUME NEW d \in Pay!Deliveries, CallAuthorize(d) \/ FinishAuthorize(d)
      PROVE  CalledIsPaid'
  BY <1>1, <1>3 DEF CallAuthorize, FinishAuthorize, AuthorizeStep
<1>4. CASE CrashGateway
  BY <1>1, <1>4 DEF CrashGateway
<1>5. CASE UNCHANGED authorizing
  BY <1>1, <1>5
<1> QED
  BY <1>2, <1>3, <1>4, <1>5
  DEF Next, PaymentStep, DaemonStep, FindActiveSession, GatewayHandler, CallRevoke,
      SaveDisconnected, FailDisconnect, DisconnectStep, gwVars, vars

LEMMA OrderedStep == ASSUME PromiseInv, [Next]_vars PROVE OrderedWasOn'
<1> USE DEF PromiseInv, PointsOK
<1>0. \A o \in Orders : PP!WasOn(o[1]) => PP!WasOn(o[1])'
  BY GatewayKeepsToTables, PaymentKeeps DEF Orders
<1>1. ASSUME \A o \in Orders : disconnecting[o] \in {"idle", "refused"}
                               => disconnecting'[o] \in {"idle", "refused"}
      PROVE  OrderedWasOn'
  BY <1>0, <1>1 DEF OrderedWasOn
<1>2. ASSUME NEW o \in Orders, FindActiveSession(o) PROVE OrderedWasOn'
  <2>1. \A p \in Orders :
          disconnecting[p] \in {"idle", "refused"}
            => \/ disconnecting'[p] \in {"idle", "refused"}
               \/ PP!WasOn(p[1])
    BY <1>2, PaymentFacts DEF FindActiveSession, DisconnectStep, Pay!Activated, Orders
  <2> QED BY <1>0, <2>1 DEF OrderedWasOn
<1>3. ASSUME NEW o \in Orders, CallRevoke(o) \/ SaveDisconnected(o) \/ FailDisconnect(o)
      PROVE  OrderedWasOn'
  BY <1>1, <1>3 DEF CallRevoke, SaveDisconnected, FailDisconnect, DisconnectStep
<1>4. CASE CrashGateway
  BY <1>1, <1>4 DEF CrashGateway
<1>5. CASE UNCHANGED disconnecting
  BY <1>1, <1>5
<1> QED
  BY <1>2, <1>3, <1>4, <1>5
  DEF Next, PaymentStep, DaemonStep, ReceiveNotify, GatewayHandler, CallAuthorize,
      FinishAuthorize, AuthorizeStep, gwVars, vars

LEMMA RunningStep == ASSUME PromiseInv, [Next]_vars PROVE RunningIsCaused'
<1>0. PointsOK /\ RunningIsCaused
  BY DEF PromiseInv
<1>1. ASSUME \A r \in NMRequests : pc'[r] \in NM!Running => pc[r] \in NM!Running
      PROVE  RunningIsCaused'
  BY <1>0, <1>1, CausesRemain DEF RunningIsCaused
<1>2. CASE DaemonStep
  BY <1>0, <1>1, <1>2, DaemonEffect DEF DaemonStep
<1>3. ASSUME NEW d \in Pay!Deliveries, authorizing[d] = "calling",
             NM!Receive(Call("authorize", d))
      PROVE  RunningIsCaused'
  <2>1. PaidFor(request[d[1]].mac)
    BY <1>3 DEF PromiseInv, CalledIsPaid, PaidFor, Pay!Deliveries
  <2>2. \A r \in NMRequests :
          pc'[r] \in NM!Running =>
            \/ pc[r] \in NM!Running
            \/ r.kind = "authorize" /\ PaidFor(r.mac)
    BY <1>0, <1>3, <2>1, ReceiveEffect, CallIsFor
  <2> QED BY <1>0, <2>2, CausesRemain DEF RunningIsCaused
<1>4. ASSUME NEW o \in Orders, disconnecting[o] = "calling", NM!Receive(Call("revoke", o))
      PROVE  RunningIsCaused'
  <2>1. OrderedFor(request[o[1]].mac)
    BY <1>4 DEF OrderedFor, Ordered, Orders
  <2>2. \A r \in NMRequests :
          pc'[r] \in NM!Running =>
            \/ pc[r] \in NM!Running
            \/ r.kind = "revoke" /\ OrderedFor(r.mac)
    BY <1>0, <1>4, <2>1, ReceiveEffect, CallIsFor
  <2> QED BY <1>0, <2>2, CausesRemain DEF RunningIsCaused
<1>5. CASE UNCHANGED pc
  BY <1>1, <1>5
<1> QED
  BY <1>2, <1>3, <1>4, <1>5
  DEF Next, PaymentStep, ReceiveNotify, FindActiveSession, GatewayHandler, CallAuthorize,
      FinishAuthorize, CallRevoke, SaveDisconnected, FailDisconnect, CrashGateway,
      AuthorizeStep, DisconnectStep, nmVars, vars

LEMMA GrantedStep == ASSUME PromiseInv, [Next]_vars PROVE GrantedOnlyIfReported'
<1>0. PointsOK /\ \A m \in nft \cup active : PaidFor(m)
  BY DEF PromiseInv, GrantedOnlyIfReported, PaidFor
<1>1. \A m \in nft' \cup active' : PaidFor(m)
  <2>1. CASE DaemonStep
    BY <1>0, <2>1, DaemonEffect DEF DaemonStep, PromiseInv, RunningIsCaused
  <2>2. ASSUME NEW q, NM!Receive(q) PROVE UNCHANGED <<nft, active>>
    BY <1>0, <2>2, ReceiveEffect
  <2>3. CASE UNCHANGED <<nft, active>>
    BY <1>0, <2>3
  <2> QED
    BY <2>1, <2>2, <2>3
    DEF Next, PaymentStep, ReceiveNotify, FindActiveSession, GatewayHandler, CallAuthorize,
        FinishAuthorize, CallRevoke, SaveDisconnected, FailDisconnect, CrashGateway,
        nmVars, vars
<1>2. \A m \in nft' \cup active' : PaidFor(m)'
  BY <1>1, CausesRemain
<1> QED BY <1>2 DEF PaidFor, GrantedOnlyIfReported

LEMMA PromiseStep == ASSUME PromiseInv, [Next]_vars PROVE PromiseInv'
<1>1. PP!CompletionInv'
  BY GatewayKeepsToTables, PaymentInvariant DEF PromiseInv
<1> QED
  BY <1>1, PointsStep, CalledStep, OrderedStep, RunningStep, GrantedStep DEF PromiseInv

LEMMA PromiseInvariant == Spec => []PromiseInv
BY PromiseInit, PromiseStep, PTL DEF Spec

\* From the M-Pesa callback to the kernel's set, whatever is duplicated, lost,
\* late or dead, nobody is let through or listed for whom no callback reported
\* payment (main.go:307-343, handlers.go:145-200, firewall.go:61-89).
THEOREM OnlyReportedIsGranted == Spec => []GrantedOnlyIfReported
<1>1. PromiseInv => GrantedOnlyIfReported
  BY DEF PromiseInv
<1> QED BY <1>1, PromiseInvariant, PTL

\* The gateway changes the payment service's tables only as the payment service
\* was proved with: the session that handleAdminDisconnect saves
\* (handlers.go:248) was switched on, although it looked long before and the
\* callbacks may have contradicted each other since.
THEOREM TablesAreShared == Spec => PaymentServiceAssumption
<1>1. Init => Pay!Init
  BY DEF Init
<1>2. PromiseInv /\ [Next]_vars => [Pay!Next]_(Pay!vars)
  BY GatewayKeepsToTables
<1> QED BY <1>1, <1>2, PromiseInvariant, PTL DEF Spec, PaymentServiceAssumption, Pay!Spec

-----------------------------------------------------------------------------
(***************************************************************************)
(* The refinement of PaidAccess                                            *)
(***************************************************************************)
Paid  == {c \in Checkouts : Pay!Reported(c, "paid")}
Buyer == [c \in Checkouts |-> request[c].mac]

\* The steps of the promise in the terms of the services.
LEMMA Kept ==
  ASSUME Buyer' = Buyer,
         \/ /\ UNCHANGED <<nft, Ordered, reboots>>
            /\ \/ Paid' = Paid
               \/ \E c \in Checkouts : Paid' = Paid \cup {c}
         \/ /\ UNCHANGED <<nft, Paid, reboots>>
            /\ \E c \in Paid : Ordered' = Ordered \cup {c}
         \/ /\ UNCHANGED <<Paid, Ordered>>
            /\ \/ nft' = {} /\ reboots' = reboots + 1
               \/ \E m \in Macs : PaidFor(m) /\ nft' = nft \cup {m} /\ UNCHANGED reboots
               \/ \E m \in Macs : OrderedFor(m) /\ nft' = nft \ {m} /\ UNCHANGED reboots
  PROVE  [Promise!Next]_(Promise!promise)
<1> USE DEF Paid, Buyer, Promise!Next, Promise!promise
<1>1. CASE UNCHANGED <<nft, Ordered, Paid, reboots>>
  BY <1>1
<1>2. ASSUME NEW c \in Checkouts, UNCHANGED <<nft, Ordered, reboots>>,
             Paid' = Paid \cup {c}
      PROVE  Promise!Pay(c)
  BY <1>2 DEF Promise!Pay
<1>3. ASSUME NEW c \in Paid, UNCHANGED <<nft, Paid, reboots>>,
             Ordered' = Ordered \cup {c}
      PROVE  c \in Checkouts /\ Promise!Order(c)
  BY <1>3 DEF Promise!Order
<1>4. ASSUME UNCHANGED <<Paid, Ordered>>, nft' = {}, reboots' = reboots + 1
      PROVE  Promise!Reboot
  BY <1>4 DEF Promise!Reboot
<1>5. ASSUME NEW m \in Macs, UNCHANGED <<Paid, Ordered, reboots>>, PaidFor(m),
             nft' = nft \cup {m}
      PROVE  Promise!Open(m)
  BY <1>5 DEF Promise!Open, PaidFor
<1>6. ASSUME NEW m \in Macs, UNCHANGED <<Paid, Ordered, reboots>>, OrderedFor(m),
             nft' = nft \ {m}
      PROVE  Promise!Close(m)
  BY <1>6 DEF Promise!Close, OrderedFor, Ordered
<1> QED BY <1>1, <1>2, <1>3, <1>4, <1>5, <1>6

LEMMA PaidGrows ==
  ASSUME PromiseInv, [Next]_vars
  PROVE  Buyer' = Buyer /\ (Paid' = Paid \/ \E c \in Checkouts : Paid' = Paid \cup {c})
<1>1. /\ request' = request
      /\ \A c \in Checkouts : Pay!Reported(c, "paid") => Pay!Reported(c, "paid")'
      /\ \/ report' = report
         \/ \E d \in Pay!Deliveries :
              \A e \in Pay!Deliveries : e # d => report'[e] = report[e]
  BY GatewayKeepsToTables, PaymentKeeps, OneReportAtATime DEF PromiseInv
<1>2. CASE report' = report
  BY <1>1, <1>2 DEF Buyer, Paid, Pay!Reported
<1>3. ASSUME NEW d \in Pay!Deliveries,
             \A e \in Pay!Deliveries : e # d => report'[e] = report[e]
      PROVE  \E c \in Checkouts : Paid' = Paid \/ Paid' = Paid \cup {c}
  <2>1. d[1] \in Checkouts
    BY DEF Pay!Deliveries
  <2>2. \A c \in Checkouts : c # d[1] /\ Pay!Reported(c, "paid")' => Pay!Reported(c, "paid")
    BY <1>3 DEF Pay!Reported
  <2>3. Paid' = Paid \/ Paid' = Paid \cup {d[1]}
    BY <1>1, <2>1, <2>2 DEF Paid
  <2> QED BY <2>1, <2>3
<1> QED BY <1>1, <1>2, <1>3 DEF Buyer

\* An order counts from the moment the gateway has found the session active.
LEMMA OrderedBy ==
  ASSUME PromiseInv, NEW o \in Orders, FindActiveSession(o)
  PROVE  Ordered' = Ordered \/ (o[1] \in Paid /\ Ordered' = Ordered \cup {o[1]})
<1> USE DEF PromiseInv, PointsOK
<1>0. o = <<o[1], o[2]>> /\ o[1] \in Checkouts /\ o[2] \in Clicks
  BY DEF Orders
<1>1. CASE sessions[o[1]] = "active"
  <2>1. o[1] \in Paid
    BY <1>0, <1>1, PaymentFacts, WasOnIsReported DEF Pay!Activated, Paid
  <2>2. disconnecting' = [disconnecting EXCEPT ![o] = "calling"]
    BY <1>1 DEF FindActiveSession, DisconnectStep
  <2>3. \A p \in Orders : disconnecting'[p] \notin {"idle", "refused"}
                            <=> disconnecting[p] \notin {"idle", "refused"} \/ p = o
    BY <2>2
  <2>4. \A c \in Checkouts, k \in Clicks :
          /\ <<c, k>> \in Orders
          /\ <<c, k>> = o <=> c = o[1] /\ k = o[2]
    BY <1>0 DEF Orders
  <2>5. \A c \in Checkouts : c \in Ordered' <=> c \in Ordered \/ c = o[1]
    BY <1>0, <2>3, <2>4 DEF Ordered
  <2> QED BY <1>0, <2>1, <2>5 DEF Ordered
<1>2. CASE sessions[o[1]] # "active"
  <2>1. disconnecting[o] = "idle" /\ disconnecting' = [disconnecting EXCEPT ![o] = "refused"]
    BY <1>2 DEF FindActiveSession, DisconnectStep
  <2>2. \A p \in Orders : disconnecting'[p] \in {"idle", "refused"}
                            <=> disconnecting[p] \in {"idle", "refused"}
    BY <2>1
  <2> QED BY <2>2 DEF Ordered, Orders
<1> QED BY <1>1, <1>2

\* The rest of the gateway's work neither makes nor unmakes an order.
LEMMA OrdersStay ==
  ASSUME PointsOK, GatewayHandler \/ CrashGateway
  PROVE  Ordered' = Ordered
<1> USE DEF PointsOK, Points
<1>1. ASSUME \A o \in Orders : disconnecting'[o] \in {"idle", "refused"}
                               <=> disconnecting[o] \in {"idle", "refused"}
      PROVE  Ordered' = Ordered
  BY <1>1 DEF Ordered, Orders
<1>2. ASSUME NEW o \in Orders, CallRevoke(o) \/ SaveDisconnected(o) \/ FailDisconnect(o)
      PROVE  Ordered' = Ordered
  <2>1. /\ disconnecting[o] \in {"calling", "waiting"}
        /\ \E to \in {"waiting", "error", "done"} :
             disconnecting' = [disconnecting EXCEPT ![o] = to]
    BY <1>2 DEF CallRevoke, SaveDisconnected, FailDisconnect, DisconnectStep
  <2> QED BY <1>1, <2>1
<1>3. CASE CrashGateway
  BY <1>1, <1>3 DEF CrashGateway
<1>4. CASE UNCHANGED disconnecting
  BY <1>1, <1>4
<1> QED
  BY <1>2, <1>3, <1>4
  DEF GatewayHandler, CallAuthorize, FinishAuthorize, AuthorizeStep

\* The kernel's set changes by one client, for whom a request is worked on, or
\* with the host.
LEMMA SetChanges ==
  ASSUME PointsOK, NM!DaemonNext
  PROVE  \/ UNCHANGED <<nft, reboots>>
         \/ nft' = {} /\ reboots' = reboots + 1
         \/ \E r \in NMRequests :
              /\ pc[r] \in NM!Running /\ UNCHANGED reboots
              /\ \/ r.kind = "authorize" /\ nft' = nft \cup {r.mac}
                 \/ r.kind = "revoke" /\ nft' = nft \ {r.mac}
<1> USE DEF PointsOK, NM!Points, NM!Running, NM!Step, NM!kernel, NM!bounds, NM!NftError
<1>1. CASE NM!RunSetupCommand \/ NM!FailSetupCommand \/ NM!Restart \/ NM!Reboot
  BY <1>1 DEF NM!RunSetupCommand, NM!FailSetupCommand, NM!Restart, NM!Reboot
<1>2. ASSUME NEW r \in NMRequests, NM!Handler(r)
      PROVE  \/ UNCHANGED <<nft, reboots>>
             \/ /\ pc[r] \in NM!Running /\ UNCHANGED reboots
                /\ \/ r.kind = "authorize" /\ nft' = nft \cup {r.mac}
                   \/ r.kind = "revoke" /\ nft' = nft \ {r.mac}
  BY <1>2
  DEF NM!Handler, NM!OpenFirewall, NM!CloseFirewall, NM!ListClient, NM!UnlistClient
<1> QED BY <1>1, <1>2 DEF NM!DaemonNext

LEMMA PromiseInitKept == Init => Promise!Init
<1> SUFFICES ASSUME Init PROVE Promise!Init
  OBVIOUS
<1>1. request \in [Checkouts -> Pay!Requests]
  BY PaymentInit, PaymentFacts DEF Init
<1>2. Buyer \in [Checkouts -> Macs] /\ Paid = {}
  <2>1. Buyer \in [Checkouts -> Macs]
    BY <1>1 DEF Pay!Requests, Buyer
  <2>2. \A d \in Pay!Deliveries : report[d] # "paid"
    BY DEF Init, Pay!Init
  <2> QED BY <2>1, <2>2 DEF Paid, Pay!Reported
<1>3. Ordered = {} /\ nft = {} /\ reboots = 0
  BY DEF Init, NM!Init, Ordered, Orders
<1> QED BY <1>2, <1>3 DEF Promise!Init, Buyer, Paid

LEMMA StepIsKept ==
  ASSUME PromiseInv, [Next]_vars
  PROVE  [Promise!Next]_(Promise!promise)
<1>0. /\ PointsOK /\ RunningIsCaused
      /\ Buyer' = Buyer
      /\ Paid' = Paid \/ \E c \in Checkouts : Paid' = Paid \cup {c}
  BY PaidGrows DEF PromiseInv
<1>1. CASE UNCHANGED <<nft, Ordered, reboots>>
  BY <1>0, <1>1, Kept
<1>2. CASE PaymentStep \/ UNCHANGED vars
  BY <1>1, <1>2 DEF PaymentStep, nmVars, gwVars, vars, Ordered
<1>3. CASE DaemonStep
  <2>1. UNCHANGED <<Paid, Ordered>>
    BY <1>3 DEF DaemonStep, payVars, gwVars, Paid, Ordered, Pay!Reported
  <2>2. CASE UNCHANGED <<nft, reboots>>
    BY <1>1, <2>1, <2>2
  <2>3. CASE nft' = {} /\ reboots' = reboots + 1
    BY <1>0, <2>1, <2>3, Kept
  <2>4. ASSUME NEW r \in NMRequests, pc[r] \in NM!Running, UNCHANGED reboots,
               \/ r.kind = "authorize" /\ nft' = nft \cup {r.mac}
               \/ r.kind = "revoke" /\ nft' = nft \ {r.mac}
        PROVE  [Promise!Next]_(Promise!promise)
    <3>1. r.mac \in Macs
      BY DEF NMRequests
    <3>2. (r.kind = "authorize" => PaidFor(r.mac)) /\ (r.kind = "revoke" => OrderedFor(r.mac))
      BY <1>0, <2>4 DEF RunningIsCaused
    <3> QED BY <1>0, <2>1, <2>4, <3>1, <3>2, Kept
  <2> QED BY <1>0, <1>3, <2>2, <2>3, <2>4, SetChanges DEF DaemonStep
<1>4. ASSUME NEW o \in Orders, FindActiveSession(o)
      PROVE  [Promise!Next]_(Promise!promise)
  <2>1. UNCHANGED <<nft, Paid, reboots>>
    BY <1>4 DEF FindActiveSession, payVars, nmVars, Paid, Pay!Reported
  <2>2. CASE Ordered' = Ordered
    BY <1>1, <2>1, <2>2
  <2>3. CASE o[1] \in Paid /\ Ordered' = Ordered \cup {o[1]}
    BY <1>0, <2>1, <2>3, Kept
  <2> QED BY <1>4, <2>2, <2>3, OrderedBy
<1>5. ASSUME NEW q, NM!Receive(q) PROVE UNCHANGED <<nft, reboots>>
  BY <1>0, <1>5, ReceiveEffect DEF NM!Receive, NM!bounds, NM!Step
<1>6. CASE GatewayHandler \/ CrashGateway
  <2>1. Ordered' = Ordered
    BY <1>0, <1>6, OrdersStay
  <2>2. UNCHANGED <<nft, reboots>>
    BY <1>5, <1>6
    DEF GatewayHandler, CrashGateway, CallAuthorize, FinishAuthorize, CallRevoke,
        SaveDisconnected, FailDisconnect, nmVars
  <2> QED BY <1>1, <2>1, <2>2
<1>7. ASSUME NEW d \in Pay!Deliveries, ReceiveNotify(d)
      PROVE  [Promise!Next]_(Promise!promise)
  BY <1>1, <1>7 DEF ReceiveNotify, AuthorizeStep, nmVars, Ordered
<1> QED BY <1>2, <1>3, <1>4, <1>6, <1>7 DEF Next

\* The three services implement the promise to the operator: a MAC enters the
\* kernel's set only after a purchase for it was reported paid, and leaves it only
\* by an administrator's order or a reboot (firewall.go:61-116, handlers.go:204-256).
THEOREM PromiseIsKept == Spec => KeepsPromise
BY PromiseInitKept, StepIsKept, PromiseInvariant, PTL
DEF Spec, KeepsPromise, Promise!Spec

-----------------------------------------------------------------------------
(***************************************************************************)
(* What the database says of a disconnection                               *)
(***************************************************************************)

\* Every disconnected session has an order whose revocation was answered.  The
\* device must stay as it was when the call was made, and the answer be kept.
RevokedInv == PromiseInv /\ PP!DeviceBehindSession /\ DisconnectedWasRevoked

LEMMA AnswerIsKept ==
  ASSUME PointsOK, [Next]_vars, NEW r \in NMRequests, pc[r] \in Answered
  PROVE  pc'[r] = pc[r]
<1> USE DEF PointsOK, Answered, NM!Points, NM!Running, NM!Step
<1>1. ASSUME NEW q, NM!Receive(q) PROVE pc'[r] = pc[r]
  BY <1>1 DEF NM!Receive
<1>2. ASSUME NEW q \in NMRequests, NM!Handler(q) PROVE pc'[r] = pc[r]
  BY <1>2
  DEF NM!Handler, NM!OpenFirewall, NM!CloseFirewall, NM!ListClient, NM!UnlistClient
<1>3. CASE NM!Restart \/ NM!Reboot
  BY <1>3 DEF NM!Restart, NM!Reboot, NM!StartOver
<1>4. CASE NM!RunSetupCommand \/ NM!FailSetupCommand
  BY <1>4 DEF NM!RunSetupCommand, NM!FailSetupCommand
<1>5. CASE UNCHANGED pc
  BY <1>5
<1> QED
  BY <1>1, <1>2, <1>3, <1>4, <1>5
  DEF Next, PaymentStep, DaemonStep, NM!DaemonNext, ReceiveNotify, FindActiveSession,
      GatewayHandler, CallAuthorize, FinishAuthorize, CallRevoke, SaveDisconnected,
      FailDisconnect, CrashGateway, nmVars, vars

\* The payment service itself disconnects nobody.
LEMMA OnlyTheGatewayDisconnects ==
  ASSUME PointsOK, PP!TypeOK, PaymentStep, NEW c \in Checkouts, sessions'[c] = "disconnected"
  PROVE  sessions[c] = "disconnected"
<1> USE DEF PP!TypeOK, Pay!tables
<1>1. ASSUME NEW e \in Checkouts, Pay!CreateSession(e) PROVE sessions[c] = "disconnected"
  BY <1>1 DEF Pay!CreateSession
<1>2. ASSUME NEW d \in Pay!Deliveries, Pay!ActivateSession(d) \/ Pay!FailSession(d)
      PROVE  sessions[c] = "disconnected"
  BY <1>2 DEF Pay!ActivateSession, Pay!FailSession
<1>3. ASSUME NEW e \in Checkouts,
             \/ Pay!RejectRequest(e) \/ Pay!PushReal(e) \/ Pay!PushMock(e)
             \/ Pay!RecordPayment(e) \/ Pay!FindPlan(e)
             \/ Pay!FindDevice(e) \/ Pay!CreateDevice(e) \/ Pay!LinkPayment(e)
      PROVE  sessions' = sessions
  BY <1>3
  DEF Pay!RejectRequest, Pay!PushReal, Pay!PushMock, Pay!RecordPayment,
      Pay!FindPlan, Pay!FindDevice, Pay!CreateDevice, Pay!LinkPayment
<1>4. ASSUME NEW d \in Pay!Deliveries,
             \/ Pay!DeliverReal(d) \/ Pay!DeliverMock(d) \/ Pay!StartNotify(d)
             \/ Pay!SavePayment(d) \/ Pay!PublishUpdate(d)
      PROVE  sessions' = sessions
  BY <1>4
  DEF Pay!DeliverReal, Pay!DeliverMock, Pay!LoadPayment, Pay!StartNotify,
      Pay!SavePayment, Pay!PublishUpdate
<1>5. ASSUME NEW p \in Plans, Pay!DeletePlan(p) PROVE sessions' = sessions
  BY <1>5 DEF Pay!DeletePlan
<1>6. CASE Pay!Crash
  BY <1>6 DEF Pay!Crash
<1> QED
  BY <1>1, <1>2, <1>3, <1>4, <1>5, <1>6
  DEF PaymentStep, Pay!ServiceNext, Pay!StkHandler, Pay!CallbackHandler

LEMMA RevokedStep == ASSUME RevokedInv, [Next]_vars PROVE DisconnectedWasRevoked'
<1>0. /\ PointsOK /\ PP!TypeOK /\ request' = request
      /\ PP!CompletionInv /\ [Pay!Next]_(Pay!vars)
  BY GatewayKeepsToTables, PaymentKeeps
  DEF RevokedInv, PromiseInv, PP!CompletionInv, PP!AccessInv
<1>1. ASSUME NEW c \in Checkouts, NEW k \in Clicks, sessions[c] # "none",
             pc[Call("revoke", <<c, k>>)] \in Answered
      PROVE  pc'[Call("revoke", <<c, k>>)'] \in Answered
  <2> DEFINE mac == request[c].mac
  <2>1. mac \in Macs /\ devices[mac] \in AllIps \cup {NoDevice}
    BY <1>0 DEF PP!TypeOK, PP!Requests
  <2>2. devices[mac] # NoDevice
    BY <1>1 DEF RevokedInv, PP!DeviceBehindSession
  <2>3. Call("revoke", <<c, k>>) \in NMRequests
    BY <2>1, <2>2 DEF Call, NMRequests, Orders
  <2>4. devices'[mac] = devices[mac]
    BY <1>0, <2>1, <2>2, DevicesAreKept
  <2>5. Call("revoke", <<c, k>>)' = Call("revoke", <<c, k>>)
    BY <1>0, <2>4 DEF Call
  <2> QED BY <1>0, <1>1, <2>3, <2>5, AnswerIsKept
<1>2. ASSUME NEW c \in Checkouts, sessions'[c] = "disconnected",
             sessions[c] # "disconnected"
      PROVE  \E k \in Clicks : /\ sessions[c] # "none"
                               /\ pc[Call("revoke", <<c, k>>)] \in Answered
  <2>1. ASSUME NEW o \in Orders, SaveDisconnected(o)
        PROVE  /\ sessions[o[1]] # "none"
               /\ pc[Call("revoke", o)] \in Answered
               /\ c = o[1]
    BY <1>0, <1>2, <2>1
    DEF SaveDisconnected, DisconnectStep, RevokedInv, PromiseInv, OrderedWasOn,
        PP!WasOn, PP!TypeOK
  <2>2. CASE \E o \in Orders : SaveDisconnected(o)
    BY <2>1, <2>2 DEF Orders
  <2>3. CASE UNCHANGED sessions
    BY <1>2, <2>3
  <2>4. CASE PaymentStep
    BY <1>0, <1>2, <2>4, OnlyTheGatewayDisconnects
  <2> QED
    BY <2>2, <2>3, <2>4
    DEF Next, DaemonStep, ReceiveNotify, Pay!SendNotify, Pay!tables, FindActiveSession,
        GatewayHandler, CallAuthorize, FinishAuthorize, CallRevoke, FailDisconnect,
        CrashGateway, payVars, vars
<1>3. ASSUME NEW c \in Checkouts, sessions[c] = "disconnected"
      PROVE  \E k \in Clicks : /\ sessions[c] # "none"
                               /\ pc[Call("revoke", <<c, k>>)] \in Answered
  BY <1>3 DEF RevokedInv, DisconnectedWasRevoked
<1> QED BY <1>1, <1>2, <1>3 DEF DisconnectedWasRevoked

\* The database says "disconnected" only of a session for which the network
\* manager has answered a revocation (handlers.go:223-248), whatever timed out,
\* was lost or crashed meanwhile.
THEOREM DisconnectionIsEarned == Spec => []DisconnectedWasRevoked
<1>1. Init => RevokedInv
  <2> SUFFICES ASSUME Init PROVE RevokedInv
    OBVIOUS
  <2>1. PP!DeviceBehindSession
    BY DevicesInit DEF Init
  <2>2. DisconnectedWasRevoked
    BY DEF Init, Pay!Init, DisconnectedWasRevoked
  <2> QED BY <2>1, <2>2, PromiseInit DEF RevokedInv
<1>2. RevokedInv /\ [Next]_vars => RevokedInv'
  <2> SUFFICES ASSUME RevokedInv, [Next]_vars PROVE RevokedInv'
    OBVIOUS
  <2>1. PromiseInv' /\ DisconnectedWasRevoked'
    BY PromiseStep, RevokedStep DEF RevokedInv
  <2>2. PP!DeviceBehindSession'
    BY GatewayKeepsToTables, DevicesStep DEF RevokedInv, PromiseInv
  <2> QED BY <2>1, <2>2 DEF RevokedInv
<1>3. RevokedInv => DisconnectedWasRevoked
  BY DEF RevokedInv
<1> QED BY <1>1, <1>2, <1>3, PTL DEF Spec

\* In the mock flow a session that was cut off is not switched on again
\* (handlers.go:248, main.go:324-330): its one callback came before.
THEOREM MockDisconnectionIsFinal == ~RealSTK => (Spec => DisconnectedIsFinal)
<1> SUFFICES ASSUME ~RealSTK PROVE Spec => DisconnectedIsFinal
  OBVIOUS
<1>1. Init => PP!MockInv
  BY MockInit DEF Init
<1>2. PromiseInv /\ PP!MockInv /\ [Next]_vars => PP!MockInv'
  BY GatewayKeepsToTables, MockStep
<1>3. PromiseInv /\ PP!MockInv /\ [Next]_vars =>
        [\A c \in Checkouts :
           sessions[c] = "disconnected" => sessions'[c] # "active"]_vars
  BY GatewayKeepsToTables, MockStep
<1> QED BY PromiseInvariant, <1>1, <1>2, <1>3, PTL DEF Spec, DisconnectedIsFinal

-----------------------------------------------------------------------------
(***************************************************************************)
(* Type correctness                                                        *)
(***************************************************************************)
LEMMA NetworkAssumptions ==
  /\ NP!SimulateAssumption /\ NP!RequestsAssumption /\ NP!LimitsAssumption
BY NetworkAssumption
DEF NP!SimulateAssumption, NP!RequestsAssumption, NP!LimitsAssumption, NMRequests, AllIps

LEMMA SameNetworkManager ==
  /\ NM!Init <=> NP!Init
  /\ NM!TypeOK <=> NP!TypeOK
  /\ NM!DaemonNext <=> NP!DaemonNext
BY
DEF NM!Init, NP!Init, NM!TypeOK, NP!TypeOK, NM!DaemonNext, NP!DaemonNext,
    NM!SetupCommands, NP!SetupCommands, NM!Rules, NP!Rules, NM!Points, NP!Points,
    NM!Running, NP!Running, NM!Serving, NP!Serving, NM!Step, NP!Step, NM!NftError,
    NP!NftError, NM!kernel, NP!kernel, NM!process, NP!process, NM!bounds, NP!bounds,
    NM!RunSetupCommand, NP!RunSetupCommand, NM!FailSetupCommand, NP!FailSetupCommand,
    NM!StartOver, NP!StartOver, NM!Restart, NP!Restart, NM!Reboot, NP!Reboot,
    NM!Handler, NP!Handler, NM!OpenFirewall, NP!OpenFirewall, NM!CloseFirewall,
    NP!CloseFirewall, NM!ListClient, NP!ListClient, NM!UnlistClient, NP!UnlistClient

LEMMA NetworkTypeInit == NM!Init => NM!TypeOK
BY SameNetworkManager, NetworkAssumptions, NP!TypeInit

LEMMA NetworkTypeDaemon == ASSUME NM!TypeOK, NM!DaemonNext PROVE NM!TypeOK'
<1>1. [NP!Next]_(NP!vars) /\ NP!TypeOK
  BY SameNetworkManager DEF NP!Next
<1>2. NP!TypeOK'
  BY <1>1, NetworkAssumptions, NP!TypeStep
<1> QED
  BY <1>2
  DEF NM!TypeOK, NP!TypeOK, NM!SetupCommands, NP!SetupCommands, NM!Rules, NP!Rules,
      NM!Points, NP!Points, NM!Running, NP!Running

\* A call is about a known MAC, whatever its address.
LEMMA NetworkTypeReceive ==
  ASSUME NM!TypeOK, NEW q, q.mac \in Macs, NM!Receive(q)
  PROVE  NM!TypeOK'
BY DEF NM!TypeOK, NM!Receive, NM!Step, NM!Points, NM!Running, NM!kernel, NM!process,
       NM!bounds

LEMMA FaultsAreBounded ==
  ASSUME gatewayFaults \in 0 .. MaxGatewayFaults, [Next]_vars
  PROVE  gatewayFaults' \in 0 .. MaxGatewayFaults
<1>1. CASE UNCHANGED gatewayFaults
  BY <1>1
<1>2. CASE GatewayFault
  BY <1>2, GatewayBoundAssumption DEF GatewayFault
<1> QED
  BY <1>1, <1>2
  DEF Next, PaymentStep, DaemonStep, ReceiveNotify, FindActiveSession, GatewayHandler,
      CallAuthorize, FinishAuthorize, CallRevoke, SaveDisconnected, FailDisconnect,
      CrashGateway, gwVars, vars

LEMMA NetworkTypeStep ==
  ASSUME PromiseInv, NM!TypeOK, [Next]_vars
  PROVE  NM!TypeOK'
<1>1. \A c \in Checkouts : request[c].mac \in Macs
  BY PaymentFacts DEF PromiseInv, Pay!Requests
<1>2. CASE DaemonStep
  BY <1>2, NetworkTypeDaemon DEF DaemonStep
<1>3. ASSUME NEW kind, NEW x, x[1] \in Checkouts, NM!Receive(Call(kind, x))
      PROVE  NM!TypeOK'
  <2>1. PICK q : q = Call(kind, x)
    OBVIOUS
  <2>2. q.mac \in Macs /\ NM!Receive(q)
    BY <1>1, <1>3, <2>1, CallIsFor
  <2> QED BY <2>2, NetworkTypeReceive
<1>4. CASE UNCHANGED nmVars
  BY <1>4 DEF nmVars, NM!TypeOK
<1>5. ASSUME NEW d \in Pay!Deliveries, CallAuthorize(d) PROVE NM!TypeOK'
  BY <1>3, <1>4, <1>5 DEF CallAuthorize, Pay!Deliveries
<1>6. ASSUME NEW o \in Orders, CallRevoke(o) PROVE NM!TypeOK'
  BY <1>3, <1>4, <1>6 DEF CallRevoke, Orders
<1> QED
  BY <1>2, <1>4, <1>5, <1>6
  DEF Next, PaymentStep, ReceiveNotify, FindActiveSession, GatewayHandler,
      FinishAuthorize, SaveDisconnected, FailDisconnect, CrashGateway, vars

\* The three services together are type-correct.
THEOREM TypeCorrect == Spec => []TypeOK
<1> DEFINE Inv == PromiseInv /\ NM!TypeOK /\ gatewayFaults \in 0 .. MaxGatewayFaults
<1>1. Init => Inv
  BY PromiseInit, NetworkTypeInit, GatewayBoundAssumption DEF Init
<1>2. Inv /\ [Next]_vars => Inv'
  BY PromiseStep, NetworkTypeStep, FaultsAreBounded
<1>3. Inv => TypeOK
  BY DEF PromiseInv, PointsOK, TypeOK, PP!CompletionInv, PP!AccessInv, PP!TypeOK,
         Pay!TypeOK, PP!Requests, Pay!Requests, PP!Deliveries, Pay!Deliveries,
         PP!SessionStatus, Pay!SessionStatus, PP!PaymentRow, Pay!PaymentRow,
         PP!StkRunning, Pay!StkRunning, PP!StkPoints, Pay!StkPoints, PP!CbRunning,
         Pay!CbRunning, PP!CbPoints, Pay!CbPoints
<1> HIDE DEF Inv
<1> QED BY <1>1, <1>2, <1>3, PTL DEF Spec

=============================================================================
