------------------------------- MODULE Hotspot -------------------------------
(***************************************************************************)
(* The path of a purchase through the three services of HotspotOS: the     *)
(* payment service, the API gateway (apps/api/handlers.go) and the network *)
(* manager.                                                                *)
(*                                                                         *)
(*   payment service --notifyApiToAuthorize--> gateway --authorize--> nm   *)
(*   administrator ----handleAdminDisconnect-> gateway ----revoke---> nm   *)
(*                                                                         *)
(* The gateway keeps no state of its own beyond its running handlers: it   *)
(* calls the network manager and works on the database it shares with the  *)
(* payment service.  Each of its calls has a time-out of five seconds,     *)
(* after which the gateway gives up while the network manager goes on.     *)
(***************************************************************************)
EXTENDS Naturals, Sequences

CONSTANTS
  Checkouts, Tries, Macs, Ips, Plans, NoDevice, RealSTK, MaxFaults, MaxCrashes,
  NoMac, NoIp, Simulate, MaxNftErrors, MaxRestarts, MaxReboots,
  Clicks,           \* tells apart the disconnect orders for one session
  MaxGatewayFaults  \* bound: lost calls, time-outs, failed saves, gateway crashes

ASSUME GatewayBoundAssumption == MaxGatewayFaults \in Nat

\* What the payment service assumes of its constants.
ASSUME PurchaseAssumption ==
  /\ RealSTK \in BOOLEAN
  /\ NoDevice \notin Ips \cup {NoIp}
  /\ MaxFaults \in Nat /\ MaxCrashes \in Nat

\* What the network manager assumes of its own.
ASSUME NetworkAssumption ==
  /\ Simulate \in BOOLEAN
  /\ MaxNftErrors \in Nat /\ MaxRestarts \in Nat /\ MaxReboots \in Nat

VARIABLES
  request, plans, devices, sessions, payments, stk, cb, readLinked, report,
  mock, notifies, published, faults, crashes,
  rules, nft, simulating, setup, active, pc, crossed, errors, restarts, reboots,
  authorizing,    \* handleInternalAuthorize call made for each delivery
  disconnecting,  \* handleAdminDisconnect call of each order
  gatewayFaults

payVars == <<request, plans, devices, sessions, payments, stk, cb, readLinked,
             report, mock, notifies, published, faults, crashes>>
nmVars  == <<rules, nft, simulating, setup, active, pc, crossed, errors,
             restarts, reboots>>
gwVars  == <<authorizing, disconnecting, gatewayFaults>>
vars    == <<payVars, nmVars, gwVars>>

AllIps == Ips \cup {NoIp}   \* a client may have sent no address
Orders == Checkouts \X Clicks

Pay == INSTANCE PaymentService WITH Ips <- AllIps

\* A call carries the MAC and the address stored for the session's device.
\* "call" tells apart the calls that are equal on the wire.
NMRequests ==
  [kind : {"authorize"}, mac : Macs, ip : AllIps, call : Pay!Deliveries]
    \cup [kind : {"revoke"}, mac : Macs, ip : AllIps, call : Orders]

NM == INSTANCE NetworkManager WITH Requests <- NMRequests

Call(kind, x) ==
  LET mac == request[x[1]].mac
  IN  [kind |-> kind, mac |-> mac, ip |-> devices[mac], call |-> x]

Answered == {"ok", "failed", "refused"}
Points   == {"idle", "calling", "waiting", "done", "error", "refused", "dead"}

Init ==
  /\ Pay!Init
  /\ NM!Init
  /\ authorizing = [d \in Pay!Deliveries |-> "idle"]
  /\ disconnecting = [o \in Orders |-> "idle"]
  /\ gatewayFaults = 0

GatewayFault == gatewayFaults < MaxGatewayFaults /\ gatewayFaults' = gatewayFaults + 1

-----------------------------------------------------------------------------
(***************************************************************************)
(* handleInternalAuthorize                                                 *)
(***************************************************************************)
AuthorizeStep(d, from, to) ==
  /\ authorizing[d] = from
  /\ authorizing' = [authorizing EXCEPT ![d] = to]
  /\ UNCHANGED disconnecting

\* The notification of the payment service reaches the gateway, or is lost.
ReceiveNotify(d) ==
  /\ Pay!SendNotify(d)
  /\ \/ AuthorizeStep(d, "idle", "calling") /\ UNCHANGED gatewayFaults
     \/ GatewayFault /\ UNCHANGED <<authorizing, disconnecting>>
  /\ UNCHANGED nmVars

\* While the daemon sets up its firewall nobody listens: 502, no retry.
CallAuthorize(d) ==
  /\ UNCHANGED payVars
  /\ \/ /\ AuthorizeStep(d, "calling", "waiting")
        /\ NM!Receive(Call("authorize", d))
        /\ UNCHANGED gatewayFaults
     \/ /\ ~NM!Serving
        /\ AuthorizeStep(d, "calling", "error")
        /\ UNCHANGED <<nmVars, gatewayFaults>>
     \/ /\ AuthorizeStep(d, "calling", "error")
        /\ GatewayFault
        /\ UNCHANGED nmVars

\* Any status but 200 is an error; a daemon that died closed the connection.
\* Otherwise the gateway waits for five seconds at most.
FinishAuthorize(d) ==
  LET status == pc[Call("authorize", d)] IN
  /\ authorizing[d] = "waiting"
  /\ \/ /\ status = "ok"
        /\ AuthorizeStep(d, "waiting", "done")
        /\ UNCHANGED gatewayFaults
     \/ /\ status \in {"failed", "refused", "lost"}
        /\ AuthorizeStep(d, "waiting", "error")
        /\ UNCHANGED gatewayFaults
     \/ /\ status \in NM!Running
        /\ AuthorizeStep(d, "waiting", "error")
        /\ GatewayFault
  /\ UNCHANGED <<payVars, nmVars>>

-----------------------------------------------------------------------------
(***************************************************************************)
(* handleAdminDisconnect                                                   *)
(***************************************************************************)
DisconnectStep(o, from, to) ==
  /\ disconnecting[o] = from
  /\ disconnecting' = [disconnecting EXCEPT ![o] = to]
  /\ UNCHANGED authorizing

\* Mutant: any session can be disconnected.
FindAnySession(o) ==
  /\ sessions[o[1]] # "none"
  /\ DisconnectStep(o, "idle", "calling")
  /\ UNCHANGED <<payVars, nmVars, gatewayFaults>>

\* The status is looked at here and never again.
FindActiveSession(o) ==
  /\ DisconnectStep(o, "idle",
                    IF sessions[o[1]] = "active" THEN "calling" ELSE "refused")
  /\ UNCHANGED <<payVars, nmVars, gatewayFaults>>

\* Mutant: the session is saved whether or not the network manager is reached.
CallRevokeOrSave(o) ==
  /\ DisconnectStep(o, "calling", "done")
  /\ sessions' = [sessions EXCEPT ![o[1]] = "disconnected"]
  /\ UNCHANGED <<request, plans, devices, payments, stk, cb, readLinked, report,
                 mock, notifies, published, faults, crashes, nmVars, gatewayFaults>>

CallRevoke(o) ==
  /\ UNCHANGED payVars
  /\ \/ /\ DisconnectStep(o, "calling", "waiting")
        /\ NM!Receive(Call("revoke", o))
        /\ UNCHANGED gatewayFaults
     \/ /\ ~NM!Serving
        /\ DisconnectStep(o, "calling", "error")
        /\ UNCHANGED <<nmVars, gatewayFaults>>
     \/ /\ DisconnectStep(o, "calling", "error")
        /\ GatewayFault
        /\ UNCHANGED nmVars

\* Any answer will do, an error included: the session is saved as
\* disconnected.  The error of the save is ignored.
SaveDisconnected(o) ==
  /\ DisconnectStep(o, "waiting", "done")
  /\ pc[Call("revoke", o)] \in Answered
  /\ \/ /\ sessions' = [sessions EXCEPT ![o[1]] = "disconnected"]
        /\ UNCHANGED gatewayFaults
     \/ GatewayFault /\ UNCHANGED sessions
  /\ UNCHANGED <<request, plans, devices, payments, stk, cb, readLinked, report,
                 mock, notifies, published, faults, crashes, nmVars>>

\* No answer: 502, and the session stays as it is.
FailDisconnect(o) ==
  LET status == pc[Call("revoke", o)] IN
  /\ disconnecting[o] = "waiting"
  /\ \/ status = "lost" /\ UNCHANGED gatewayFaults
     \/ status \in NM!Running /\ GatewayFault
  /\ DisconnectStep(o, "waiting", "error")
  /\ UNCHANGED <<payVars, nmVars>>

-----------------------------------------------------------------------------
GatewayHandler ==
  \/ \E d \in Pay!Deliveries : CallAuthorize(d) \/ FinishAuthorize(d)
  \/ \E o \in Orders : CallRevoke(o) \/ SaveDisconnected(o) \/ FailDisconnect(o)

\* The gateway dies with its handlers and is started again.
CrashGateway ==
  LET dead(f) == [x \in DOMAIN f |->
                    IF f[x] \in {"calling", "waiting"} THEN "dead" ELSE f[x]]
  IN  /\ GatewayFault
      /\ authorizing' = dead(authorizing)
      /\ disconnecting' = dead(disconnecting)
      /\ UNCHANGED <<payVars, nmVars>>

PaymentStep == Pay!ServiceNext /\ UNCHANGED <<nmVars, gwVars>>
DaemonStep  == NM!DaemonNext /\ UNCHANGED <<payVars, gwVars>>

Next ==
  \/ PaymentStep
  \/ DaemonStep
  \/ \E d \in Pay!Deliveries : ReceiveNotify(d)
  \/ \E o \in Orders : FindActiveSession(o)
  \/ GatewayHandler
  \/ CrashGateway

Spec == Init /\ [][Next]_vars

\* Handlers and goroutines that have started run on, in all three services.
\* No client, customer or administrator has to act, and nothing has to fail.
Fairness ==
  /\ \A c \in Checkouts :
       /\ WF_vars(Pay!StkHandler(c) /\ UNCHANGED <<nmVars, gwVars>>)
       /\ WF_vars(\E d \in Pay!Deliveries :
                    d[1] = c /\ Pay!DeliverMock(d) /\ UNCHANGED <<nmVars, gwVars>>)
  /\ \A d \in Pay!Deliveries :
       /\ WF_vars(Pay!CallbackHandler(d) /\ UNCHANGED <<nmVars, gwVars>>)
       /\ WF_vars(ReceiveNotify(d))
       /\ WF_vars(CallAuthorize(d))
       /\ WF_vars(FinishAuthorize(d))
  /\ \A r \in NMRequests : WF_vars(NM!Handler(r) /\ UNCHANGED <<payVars, gwVars>>)

FairSpec == Spec /\ Fairness

-----------------------------------------------------------------------------
(***************************************************************************)
(* Properties                                                              *)
(***************************************************************************)

\* The type invariant: every variable holds a value of its kind.
TypeOK ==
  /\ Pay!TypeOK
  /\ NM!TypeOK
  /\ authorizing \in [Pay!Deliveries -> Points]
  /\ disconnecting \in [Orders -> Points]
  /\ gatewayFaults \in 0 .. MaxGatewayFaults

\* The purchases whose disconnection an administrator has ordered, once the
\* gateway has found the session active.
Ordered ==
  {c \in Checkouts : \E k \in Clicks : disconnecting[<<c, k>>] \notin {"idle", "refused"}}

Promise == INSTANCE PaidAccess WITH
  Purchases <- Checkouts,
  Clients   <- Macs,
  buyer     <- [c \in Checkouts |-> request[c].mac],
  paid      <- {c \in Checkouts : Pay!Reported(c, "paid")},
  ordered   <- Ordered,
  open      <- nft

\* The three services together keep the promise made to the operator: a MAC
\* enters the kernel's set only after a callback reported that a purchase for it
\* was paid, and leaves it only by an administrator's order or a reboot.
KeepsPromise == Promise!Spec

\* Nobody is let through or listed as a client without a report of payment: the
\* chain from the M-Pesa callback over the gateway to nft never authorizes
\* another MAC than that of a checkout reported paid, whatever is lost, repeated,
\* given up or restarted on the way.
GrantedOnlyIfReported ==
  \A m \in nft \cup active :
    \E c \in Checkouts : request[c].mac = m /\ Pay!Reported(c, "paid")

\* What the payment service assumes of the gateway holds: seen from its tables
\* the gateway disconnects only sessions that were switched on, although
\* handleAdminDisconnect checks the status long before it saves.
PaymentServiceAssumption == Pay!Spec

Unfailing ==
  /\ faults = 0 /\ crashes = 0 /\ gatewayFaults = 0
  /\ errors = 0 /\ restarts = 0 /\ reboots = 0

\* The authorization that a callback leads to: not made yet, or not answered.
OnItsWay(d) ==
  cb[d] = "notify" \/ d \in notifies \/ authorizing[d] \in {"calling", "waiting"}

\* The gateway met no network manager: nobody listens during its setup.
CameTooEarly(d) == authorizing[d] = "error" /\ pc[Call("authorize", d)] = "idle"

\* Where nothing fails nobody who was switched on is forgotten: the device is
\* let through, or its authorization is on its way, or came before the network
\* manager served, or the device has no address on record (or no MAC at all), or
\* an administrator has ordered one of its sessions off.
NobodyIsForgotten ==
  Unfailing /\ ~Simulate =>
    \A c \in Checkouts :
      LET m == request[c].mac IN
      Pay!Activated(c) /\ m # NoMac /\ devices[m] # NoIp =>
        \/ m \in nft
        \/ \E d \in Pay!Deliveries : d[1] = c /\ (OnItsWay(d) \/ CameTooEarly(d))
        \/ \E e \in Ordered : request[e].mac = m

\* The database says "disconnected" only after the network manager has
\* answered a revocation of that session's MAC.
DisconnectedWasRevoked ==
  \A c \in Checkouts :
    sessions[c] = "disconnected" =>
      \E k \in Clicks : pc[Call("revoke", <<c, k>>)] \in Answered

\* "Are you sure you want to disconnect this device and revoke internet
\* access?" (dashboard App.tsx:287): a session that was cut off is not switched
\* on again.
DisconnectedIsFinal ==
  [][\A c \in Checkouts :
       sessions[c] = "disconnected" => sessions'[c] # "active"]_vars

InFlight(m) ==
  \/ \E d \in Pay!Deliveries :
       /\ request[d[1]].mac = m
       /\ d \in notifies \/ authorizing[d] \in {"calling", "waiting"}
                         \/ cb[d] \in Pay!CbRunning
  \/ \E o \in Orders :
       request[o[1]].mac = m /\ disconnecting[o] \in {"calling", "waiting"}
  \/ ~NM!Quiet(m)

\* "Are you sure you want to disconnect this device and revoke internet
\* access?" (dashboard App.tsx:287): when every call is over and all sessions
\* of a device that were switched on are disconnected, the firewall does not
\* let the device through.
DisconnectRevokes ==
  \A m \in Macs :
    /\ ~InFlight(m)
    /\ \E c \in Checkouts : request[c].mac = m /\ sessions[c] = "disconnected"
    /\ \A c \in Checkouts : request[c].mac = m => sessions[c] # "active"
    => m \notin nft

\* Who buys while the network manager is up, from addresses the gateway knows,
\* is let through in the end, unless an administrator steps in.
BuyerGetsAccess ==
  \A c \in Checkouts :
    LET m == request[c].mac IN
    stk[c] = "link" /\ NM!Serving /\ m # NoMac /\ devices[m] # NoIp ~>
      m \in nft \/ \E o \in Orders : request[o[1]].mac = m /\ disconnecting[o] # "idle"

=============================================================================
