--------------------------- MODULE PaymentService ---------------------------
(***************************************************************************)
(* The payment service of HotspotOS (services/payment-service/main.go) and *)
(* the rows of the shared PostgreSQL database it works on.                 *)
(*                                                                         *)
(* A client buys a plan with one request.  handleSTKPush asks Safaricom to *)
(* prompt the customer's phone, records a pending payment, creates an      *)
(* inactive session and links the two.  Later handleMpesaCallback is       *)
(* posted a report of the outcome: it activates the session (or fails it), *)
(* starts a goroutine that asks the API gateway to open the firewall, and  *)
(* saves the payment.  Without M-Pesa credentials the service simulates    *)
(* Safaricom: handleSTKPush starts triggerMockCallback once the payment is *)
(* linked, and the mock callback always reports success.                   *)
(*                                                                         *)
(* The handler takes every callback at its word: it looks at ResultCode    *)
(* (main.go:307) and at nothing else.  So does the model: a callback may   *)
(* report either outcome, and two callbacks of one checkout may disagree.  *)
(* What the customer really paid is not in the code and not in the model;  *)
(* a property that needs the reports of a checkout to agree says so.       *)
(*                                                                         *)
(* Every handler runs in a goroutine of its own and no handler opens a     *)
(* transaction, so one action below is one database statement: the         *)
(* handlers interleave between statements, and a crash can fall there.     *)
(*                                                                         *)
(* A checkout names its request: Safaricom (or the mock flow) gives every  *)
(* request a fresh CheckoutRequestID, each request inserts at most one     *)
(* payment and one session, and rows of both tables are never deleted, so  *)
(* both tables are functions on Checkouts with "none" for an absent row.   *)
(***************************************************************************)
EXTENDS Naturals

CONSTANTS
  Checkouts,   \* CheckoutRequestIDs, one per request made in a behaviour
  Tries,       \* identifies the deliveries of the callback of one checkout
  Macs,        \* device MAC addresses
  Ips,         \* client IP addresses
  Plans,       \* plan ids a request may name, whether or not the row exists
  NoDevice,    \* stands for the absence of a devices row
  RealSTK,     \* TRUE when MPESA_CONSUMER_KEY and _SECRET are set (main.go:139)
  MaxFaults,   \* bound: database or Redis statements that fail
  MaxCrashes   \* bound: crashes of the payment service

ASSUME RealSTKAssumption  == RealSTK \in BOOLEAN
ASSUME NoDeviceAssumption == NoDevice \notin Ips
ASSUME BoundsAssumption   == MaxFaults \in Nat /\ MaxCrashes \in Nat

VARIABLES
  request,     \* what the client of each checkout asks for (never changes)
  plans,       \* ids of the rows of table plans
  devices,     \* table devices: the ip_address stored for each MAC
  sessions,    \* table sessions: status of the session of each checkout
  payments,    \* table payments: status, and whether session_id is set
  stk,         \* control point of the handleSTKPush call of each checkout
  cb,          \* control point of the handleMpesaCallback call of each delivery
  readLinked,  \* the handler's own copy of the row: was session_id set?
  report,      \* the ResultCode of each delivery that found its payment
  mock,        \* checkouts with a sleeping triggerMockCallback goroutine
  notifies,    \* deliveries with a notifyApiToAuthorize goroutine yet to call
  published,   \* events on the Redis channel payment_updates
  faults,      \* failed statements so far
  crashes      \* crashes so far

tables == <<plans, devices, sessions, payments>>
copies == <<readLinked, report>>
limits == <<faults, crashes>>
vars   == <<request, plans, devices, sessions, payments, stk, cb, readLinked,
            report, mock, notifies, published, faults, crashes>>

Requests      == [mac : Macs, ip : Ips, plan : Plans]
Deliveries    == Checkouts \X Tries
SessionStatus == {"none", "inactive", "active", "failed", "disconnected"}
PaymentRow    == [status : {"none", "pending", "completed", "failed"},
                  linked : BOOLEAN]
StkRunning    == {"record", "plan", "device", "newdevice", "session", "link"}
StkPoints     == StkRunning \cup {"idle", "answered", "error", "dead"}
CbRunning     == {"session", "notify", "save", "publish"}
CbPoints      == CbRunning \cup {"idle", "notfound", "done", "dead"}

\* A session that is on, or that an administrator cut off while it was.
Activated(c) == sessions[c] \in {"active", "disconnected"}

\* What the callbacks of a checkout that found its payment said of it.
Reported(c, result) == \E d \in Deliveries : d[1] = c /\ report[d] = result

\* Safaricom decides a push once.  Where that is what the callbacks tell, they
\* agree; the code does not compare them.
Agreed(c) == ~(Reported(c, "paid") /\ Reported(c, "declined"))

\* A callback that reported payment, found the session and is past it.
TakenForPaid(d) ==
  report[d] = "paid" /\ readLinked[d] /\ cb[d] \notin {"idle", "session"}

-----------------------------------------------------------------------------
Init ==
  /\ request \in [Checkouts -> Requests]
  /\ plans \in SUBSET Plans
  /\ devices = [m \in Macs |-> NoDevice]
  /\ sessions = [c \in Checkouts |-> "none"]
  /\ payments = [c \in Checkouts |-> [status |-> "none", linked |-> FALSE]]
  /\ stk = [c \in Checkouts |-> "idle"]
  /\ cb = [d \in Deliveries |-> "idle"]
  /\ readLinked = [d \in Deliveries |-> FALSE]
  /\ report = [d \in Deliveries |-> "none"]
  /\ mock = {}
  /\ notifies = {}
  /\ published = {}
  /\ faults = 0
  /\ crashes = 0

StkStep(c, from, to) == stk[c] = from /\ stk' = [stk EXCEPT ![c] = to]
CbStep(d, from, to)  == cb[d] = from /\ cb' = [cb EXCEPT ![d] = to]

\* A statement that fails leaves its row alone and uses up the fault budget.
Fault == faults < MaxFaults /\ faults' = faults + 1 /\ UNCHANGED crashes

-----------------------------------------------------------------------------
(***************************************************************************)
(* handleSTKPush                                                           *)
(***************************************************************************)

\* A request that is answered with an error before anything is stored: a bad
\* payload, no access token, or a push that Safaricom refuses.
RejectRequest(c) ==
  /\ StkStep(c, "idle", "error")
  /\ UNCHANGED <<tables, request, cb, copies, mock, notifies, published, limits>>

\* Safaricom accepts the push and prompts the phone.  The handler either
\* decodes the answer or loses it (time-out, truncated body) and gives up.
PushReal(c) ==
  /\ RealSTK
  /\ StkStep(c, "idle", "record") \/ StkStep(c, "idle", "error")
  /\ UNCHANGED <<tables, request, cb, copies, mock, notifies, published, limits>>

\* The mock flow only makes up a CheckoutRequestID.
PushMock(c) ==
  /\ ~RealSTK
  /\ StkStep(c, "idle", "record")
  /\ UNCHANGED <<tables, request, cb, copies, mock, notifies, published, limits>>

\* Mutant: the mock callback is started before the payment is linked.
RecordPaymentStartingMock(c) ==
  /\ StkStep(c, "record", "plan")
  /\ payments' = [payments EXCEPT ![c] = [status |-> "pending", linked |-> FALSE]]
  /\ mock' = mock \cup {c}
  /\ UNCHANGED <<plans, devices, sessions, request, cb, copies, notifies, published,
                 limits>>

RecordPayment(c) ==
  /\ \/ /\ StkStep(c, "record", "plan")
        /\ payments' = [payments EXCEPT
                          ![c] = [status |-> "pending", linked |-> FALSE]]
        /\ UNCHANGED limits
     \/ /\ StkStep(c, "record", "error")
        /\ Fault
        /\ UNCHANGED payments
  /\ UNCHANGED <<plans, devices, sessions, request, cb, copies, mock, notifies,
                 published>>

\* An unknown plan is only noticed after the push was sent and recorded.
FindPlan(c) ==
  /\ \/ request[c].plan \in plans /\ StkStep(c, "plan", "device") /\ UNCHANGED limits
     \/ request[c].plan \notin plans /\ StkStep(c, "plan", "error") /\ UNCHANGED limits
     \/ StkStep(c, "plan", "error") /\ Fault
  /\ UNCHANGED <<tables, request, cb, copies, mock, notifies, published>>

\* Any error of the query counts as "no such device".
FindDevice(c) ==
  LET known == devices[request[c].mac] # NoDevice IN
  /\ \/ known /\ StkStep(c, "device", "session") /\ UNCHANGED limits
     \/ ~known /\ StkStep(c, "device", "newdevice") /\ UNCHANGED limits
     \/ StkStep(c, "device", "newdevice") /\ Fault
  /\ UNCHANGED <<tables, request, cb, copies, mock, notifies, published>>

\* The unique index on mac_address refuses the second of two racing inserts.
CreateDevice(c) ==
  /\ \/ /\ devices[request[c].mac] = NoDevice
        /\ StkStep(c, "newdevice", "session")
        /\ devices' = [devices EXCEPT ![request[c].mac] = request[c].ip]
        /\ UNCHANGED limits
     \/ /\ devices[request[c].mac] # NoDevice
        /\ StkStep(c, "newdevice", "error")
        /\ UNCHANGED <<devices, limits>>
     \/ /\ StkStep(c, "newdevice", "error")
        /\ Fault
        /\ UNCHANGED devices
  /\ UNCHANGED <<plans, sessions, payments, request, cb, copies, mock, notifies,
                 published>>

\* Mutant: nothing keeps a session from naming a plan that is gone.
CreateSessionUnchecked(c) ==
  /\ StkStep(c, "session", "link")
  /\ sessions' = [sessions EXCEPT ![c] = "inactive"]
  /\ UNCHANGED <<plans, devices, payments, request, cb, copies, mock, notifies,
                 published, limits>>

\* The foreign key on plan_id refuses a plan deleted since FindPlan.
CreateSession(c) ==
  /\ \/ /\ request[c].plan \in plans
        /\ StkStep(c, "session", "link")
        /\ sessions' = [sessions EXCEPT ![c] = "inactive"]
        /\ UNCHANGED limits
     \/ /\ request[c].plan \notin plans
        /\ StkStep(c, "session", "error")
        /\ UNCHANGED <<sessions, limits>>
     \/ /\ StkStep(c, "session", "error")
        /\ Fault
        /\ UNCHANGED sessions
  /\ UNCHANGED <<plans, devices, payments, request, cb, copies, mock, notifies,
                 published>>

\* Mutant: only session_id is written, over whatever status the row has now.
LinkPaymentKeepingStatus(c) ==
  /\ StkStep(c, "link", "answered")
  /\ payments' = [payments EXCEPT ![c].linked = TRUE]
  /\ UNCHANGED <<plans, devices, sessions, request, cb, copies, mock, notifies,
                 published, limits>>

\* Mutant: the mock callback is never started.
LinkPaymentOnly(c) ==
  /\ StkStep(c, "link", "answered")
  /\ payments' = [payments EXCEPT ![c] = [status |-> "pending", linked |-> TRUE]]
  /\ UNCHANGED <<plans, devices, sessions, request, cb, copies, mock, notifies,
                 published, limits>>

\* Save writes every column of the handler's copy, so the status goes back to
\* what it was when the copy was made.  Its error is ignored.  The mock flow
\* then starts the goroutine that plays the customer, who always pays.
LinkPayment(c) ==
  /\ StkStep(c, "link", "answered")
  /\ \/ /\ payments' = [payments EXCEPT
                          ![c] = [status |-> "pending", linked |-> TRUE]]
        /\ UNCHANGED limits
     \/ Fault /\ UNCHANGED payments
  /\ mock' = IF RealSTK THEN mock ELSE mock \cup {c}
  /\ UNCHANGED <<plans, devices, sessions, request, cb, copies, notifies, published>>

StkHandler(c) ==
  \/ RecordPayment(c) \/ FindPlan(c) \/ FindDevice(c)
  \/ CreateDevice(c) \/ CreateSession(c) \/ LinkPayment(c)

-----------------------------------------------------------------------------
(***************************************************************************)
(* handleMpesaCallback.  A delivery d is one callback that names checkout  *)
(* d[1]; it may come early, late, several times or never.                  *)
(***************************************************************************)

\* The handler loads the payment and works on this copy until SavePayment.
\* With no session in the copy there is nothing to activate.  A missing row and
\* a failed query are both answered with 404.
LoadPayment(d, result) ==
  LET row == payments[d[1]] IN
  /\ \/ /\ row.status # "none"
        /\ CbStep(d, "idle", IF row.linked THEN "session" ELSE "save")
        /\ readLinked' = [readLinked EXCEPT ![d] = row.linked]
        /\ report' = [report EXCEPT ![d] = result]
        /\ UNCHANGED limits
     \/ /\ CbStep(d, "idle", "notfound")
        /\ \/ row.status = "none" /\ UNCHANGED limits
           \/ Fault
        /\ UNCHANGED copies
  /\ UNCHANGED <<tables, request, stk, notifies, published>>

\* The route takes any callback at any time, whatever it reports and whoever
\* posts it.
DeliverReal(d) ==
  /\ RealSTK
  /\ \E result \in {"paid", "declined"} : LoadPayment(d, result)
  /\ UNCHANGED mock

\* In the mock flow triggerMockCallback is taken to be the only caller: the route
\* is the same, but Safaricom knows of no push.  It posts once, after its sleep,
\* always reports payment and never retries.
DeliverMock(d) ==
  /\ d[1] \in mock
  /\ LoadPayment(d, "paid")
  /\ mock' = mock \ {d[1]}

\* Mutant: the ResultCode of the callback is not looked at.
ActivateUnchecked(d) ==
  /\ CbStep(d, "session", "notify")
  /\ sessions' = [sessions EXCEPT ![d[1]] = "active"]
  /\ UNCHANGED <<plans, devices, payments, request, stk, copies, mock, notifies,
                 published, limits>>

\* Mutant: the session is activated and the gateway not told.
ActivateQuietly(d) ==
  /\ report[d] = "paid"
  /\ CbStep(d, "session", "save")
  /\ sessions' = [sessions EXCEPT ![d[1]] = "active"]
  /\ UNCHANGED <<plans, devices, payments, request, stk, copies, mock, notifies,
                 published, limits>>

\* The session row is loaded and saved as active.  If the load fails the
\* handler skips the session and the gateway call but still completes the
\* payment; the error of the save is ignored.
ActivateSession(d) ==
  /\ report[d] = "paid"
  /\ \/ /\ CbStep(d, "session", "notify")
        /\ sessions' = [sessions EXCEPT ![d[1]] = "active"]
        /\ UNCHANGED limits
     \/ /\ CbStep(d, "session", "notify") \/ CbStep(d, "session", "save")
        /\ Fault
        /\ UNCHANGED sessions
  /\ UNCHANGED <<plans, devices, payments, request, stk, copies, mock, notifies,
                 published>>

\* The device is loaded and a goroutine started to have it authorized.
StartNotify(d) ==
  /\ CbStep(d, "notify", "save")
  /\ \/ notifies' = notifies \cup {d} /\ UNCHANGED limits
     \/ Fault /\ UNCHANGED notifies
  /\ UNCHANGED <<tables, request, stk, copies, mock, published>>

\* Mutant: the session is failed by any callback, one reporting payment too.
FailSessionUnchecked(d) ==
  /\ CbStep(d, "session", "save")
  /\ sessions' = [sessions EXCEPT ![d[1]] = "failed"]
  /\ UNCHANGED <<plans, devices, payments, request, stk, copies, mock, notifies,
                 published, limits>>

FailSession(d) ==
  /\ report[d] = "declined"
  /\ CbStep(d, "session", "save")
  /\ \/ /\ sessions' = [sessions EXCEPT ![d[1]] = "failed"]
        /\ UNCHANGED limits
     \/ Fault /\ UNCHANGED sessions
  /\ UNCHANGED <<plans, devices, payments, request, stk, copies, mock, notifies,
                 published>>

Verdict(d) == IF report[d] = "paid" THEN "completed" ELSE "failed"

\* Mutant: a callback for a payment that is completed already is held invalid.
SavePaymentOnce(d) ==
  /\ CbStep(d, "save", "publish")
  /\ payments' = [payments EXCEPT ![d[1]].status =
                     IF payments[d[1]].status = "completed" THEN "failed" ELSE Verdict(d)]
  /\ UNCHANGED <<plans, devices, sessions, request, stk, copies, mock, notifies,
                 published, limits>>

\* Save writes every column of the copy made in LoadPayment, the absence of a
\* session included.  Its error is ignored.
SavePayment(d) ==
  /\ CbStep(d, "save", "publish")
  /\ \/ /\ payments' = [payments EXCEPT
              ![d[1]] = [status |-> Verdict(d), linked |-> readLinked[d]]]
        /\ UNCHANGED limits
     \/ Fault /\ UNCHANGED payments
  /\ UNCHANGED <<plans, devices, sessions, request, stk, copies, mock, notifies,
                 published>>

PublishUpdate(d) ==
  /\ CbStep(d, "publish", "done")
  /\ \/ /\ published' = published \cup {<<d[1], Verdict(d)>>}
        /\ UNCHANGED limits
     \/ Fault /\ UNCHANGED published
  /\ UNCHANGED <<tables, request, stk, copies, mock, notifies>>

CallbackHandler(d) ==
  \/ ActivateSession(d) \/ StartNotify(d) \/ FailSession(d)
  \/ SavePayment(d) \/ PublishUpdate(d)

\* notifyApiToAuthorize makes its one call; whatever the answer, it ends.
SendNotify(d) ==
  /\ d \in notifies
  /\ notifies' = notifies \ {d}
  /\ UNCHANGED <<tables, request, stk, cb, copies, mock, published, limits>>

-----------------------------------------------------------------------------
(***************************************************************************)
(* The API gateway shares the database, and the process can die.           *)
(***************************************************************************)

\* handleAdminDeletePlan; the foreign key from sessions protects a used plan.
DeletePlan(p) ==
  /\ p \in plans
  /\ \A c \in Checkouts : sessions[c] # "none" => request[c].plan # p
  /\ plans' = plans \ {p}
  /\ UNCHANGED <<devices, sessions, payments, request, stk, cb, copies, mock,
                 notifies, published, limits>>

\* Mutant: the session is given a status of models.go's list that no code uses.
SaveExpired(c) ==
  /\ Activated(c)
  /\ sessions' = [sessions EXCEPT ![c] = "expired"]
  /\ UNCHANGED <<plans, devices, payments, request, stk, cb, copies, mock, notifies,
                 published, limits>>

\* handleAdminDisconnect saves a session that it found active some time ago:
\* since then it may have been cut off by another order, or failed by a callback
\* that contradicts the one that switched it on.
SaveDisconnected(c) ==
  /\ \/ Activated(c)
     \/ sessions[c] = "failed" /\ \E d \in Deliveries : d[1] = c /\ TakenForPaid(d)
  /\ sessions' = [sessions EXCEPT ![c] = "disconnected"]
  /\ UNCHANGED <<plans, devices, payments, request, stk, cb, copies, mock, notifies,
                 published, limits>>

\* The process dies with its handlers and goroutines and is started again.
Crash ==
  /\ crashes < MaxCrashes
  /\ crashes' = crashes + 1
  /\ stk' = [c \in Checkouts |-> IF stk[c] \in StkRunning THEN "dead" ELSE stk[c]]
  /\ cb' = [d \in Deliveries |-> IF cb[d] \in CbRunning THEN "dead" ELSE cb[d]]
  /\ mock' = {}
  /\ notifies' = {}
  /\ UNCHANGED <<tables, request, copies, published, faults>>

\* The steps that do not involve the API gateway, and those that do.
ServiceNext ==
  \/ \E c \in Checkouts : \/ RejectRequest(c) \/ PushReal(c) \/ PushMock(c)
                          \/ StkHandler(c)
  \/ \E d \in Deliveries : DeliverReal(d) \/ DeliverMock(d) \/ CallbackHandler(d)
  \/ \E p \in Plans : DeletePlan(p)
  \/ Crash

GatewayNext ==
  \/ \E c \in Checkouts : SaveDisconnected(c)
  \/ \E d \in Deliveries : SendNotify(d)

Next == ServiceNext \/ GatewayNext

Spec == Init /\ [][Next]_vars

\* A handler that has started runs on, a mock callback fires after its sleep,
\* and a goroutine makes its call.  Nothing obliges clients, customers,
\* administrators or Safaricom to act.
Fairness ==
  /\ \A c \in Checkouts : WF_vars(StkHandler(c))
  /\ \A d \in Deliveries : WF_vars(CallbackHandler(d)) /\ WF_vars(SendNotify(d))
  /\ \A c \in Checkouts : WF_vars(\E d \in Deliveries : d[1] = c /\ DeliverMock(d))

FairSpec == Spec /\ Fairness

-----------------------------------------------------------------------------
(***************************************************************************)
(* Properties                                                              *)
(***************************************************************************)

\* The type invariant: every variable holds a value of its kind.
TypeOK ==
  /\ request \in [Checkouts -> Requests]
  /\ plans \in SUBSET Plans
  /\ devices \in [Macs -> Ips \cup {NoDevice}]
  /\ sessions \in [Checkouts -> SessionStatus]
  /\ payments \in [Checkouts -> PaymentRow]
  /\ stk \in [Checkouts -> StkPoints]
  /\ cb \in [Deliveries -> CbPoints]
  /\ readLinked \in [Deliveries -> BOOLEAN]
  /\ report \in [Deliveries -> {"none", "paid", "declined"}]
  /\ mock \in SUBSET Checkouts
  /\ notifies \in SUBSET Deliveries
  /\ published \in SUBSET (Checkouts \X {"completed", "failed"})
  /\ faults \in 0 .. MaxFaults
  /\ crashes \in 0 .. MaxCrashes

\* No free internet: a session is switched on only where a callback that
\* reported payment found it, and the gateway is asked to open the firewall only
\* by such a callback, however callbacks are repeated or contradict each other,
\* however statements fail and processes crash.
AccessOnlyIfReported ==
  /\ \A c \in Checkouts :
       Activated(c) => \E d \in Deliveries : d[1] = c /\ TakenForPaid(d)
  /\ \A d \in notifies : TakenForPaid(d)

\* A session has behind it the plan and the device that the gateway's lists
\* load with it, and its recorded payment, although different handlers look
\* them up, create and delete them without a transaction, and may crash.
SessionsAreBacked ==
  \A c \in Checkouts : sessions[c] # "none" =>
    /\ request[c].plan \in plans
    /\ devices[request[c].mac] # NoDevice
    /\ payments[c].status # "none"

\* Two callbacks reported payment: one of them is a repetition.
ReportedTwice(c) ==
  \E d, e \in Deliveries :
    d # e /\ d[1] = c /\ e[1] = c /\ report[d] = "paid" /\ report[e] = "paid"

\* The life of a session: it is made inactive, switched on only where payment
\* was reported and failed only where it was refused, and cut off only while it
\* is on.  What is cut off comes on again only by a repeated callback, and a
\* session goes from on to failed or back only by callbacks that contradict each
\* other.  No callback makes a session up.
SessionLifecycle ==
  [][\A c \in Checkouts :
       \/ sessions'[c] = sessions[c]
       \/ sessions[c] = "none" /\ sessions'[c] = "inactive"
       \/ sessions[c] = "inactive" /\ sessions'[c] = "active" /\ Reported(c, "paid")
       \/ sessions[c] = "disconnected" /\ sessions'[c] = "active" /\ ReportedTwice(c)
       \/ sessions[c] = "inactive" /\ sessions'[c] = "failed" /\ Reported(c, "declined")
       \/ sessions[c] = "active" /\ sessions'[c] = "disconnected"
       \/ /\ sessions[c] \notin {"none", "inactive"}
          /\ sessions'[c] \notin {"none", "inactive"}
          /\ ~Agreed(c)]_vars

\* As long as no statement failed and the callbacks of a checkout agree, a
\* completed payment that names a session has switched that session on: the
\* payment row, which handleMpesaCallback saves last, never runs ahead of the
\* session row it saved before.
CompletedHasAccess ==
  faults = 0 =>
    \A c \in Checkouts :
      payments[c].status = "completed" /\ payments[c].linked /\ Agreed(c)
        => Activated(c)

\* "Inactive until payment callback confirms it" (main.go:266): once a
\* callback reporting payment has been handled and the push answered, the
\* session is not inactive any more.
ConfirmedIsActivated ==
  \A d \in Deliveries :
    cb[d] = "done" /\ report[d] = "paid" /\ stk[d[1]] = "answered"
      => sessions[d[1]] # "inactive"

\* A completed payment stays completed, unless its own handleSTKPush call is
\* still about to overwrite the row or its callbacks contradict each other; no
\* repeated or late callback, error or crash takes it back.
CompletedStays ==
  [][\A c \in Checkouts :
       payments[c].status = "completed" /\ stk[c] # "link" /\ Agreed(c)
         => payments'[c].status = "completed"]_vars

\* In the mock flow nothing takes a completed payment back: its callback
\* starts after the last write of handleSTKPush.
CompletedIsFinal ==
  [][\A c \in Checkouts :
       payments[c].status = "completed" => payments'[c].status = "completed"]_vars

\* Every push the mock flow answered ends as a completed payment with its
\* session switched on and the dashboard told of it, unless the service crashes
\* on the way.
AnsweredIsCompleted ==
  \A c \in Checkouts :
    stk[c] = "answered" ~>
      \/ /\ payments[c].status = "completed" /\ Activated(c)
         /\ <<c, "completed">> \in published
      \/ crashes > 0

=============================================================================
