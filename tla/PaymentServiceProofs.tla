------------------------ MODULE PaymentServiceProofs ------------------------
(***************************************************************************)
(* Proofs about PaymentService for every number of checkouts, deliveries,  *)
(* devices and plans, with and without M-Pesa credentials, and for every   *)
(* bound on faults and crashes.                                            *)
(***************************************************************************)
EXTENDS PaymentService, TLAPS

\* A delivery belongs to a checkout.
LEMMA DeliveryOfCheckout == ASSUME NEW d \in Deliveries PROVE d[1] \in Checkouts
BY DEF Deliveries

-----------------------------------------------------------------------------
(***************************************************************************)
(* Type correctness                                                        *)
(***************************************************************************)

\* Every step of handleSTKPush keeps the variables within their types.
LEMMA TypeStk ==
  ASSUME TypeOK, NEW c \in Checkouts,
         RejectRequest(c) \/ PushReal(c) \/ PushMock(c) \/ StkHandler(c)
  PROVE  TypeOK'
<1> USE RealSTKAssumption, BoundsAssumption
    DEF TypeOK, StkStep, Fault, StkPoints, StkRunning, tables, copies, limits
<1>1. CASE RejectRequest(c)  BY <1>1 DEF RejectRequest
<1>2. CASE PushReal(c)       BY <1>2 DEF PushReal
<1>3. CASE PushMock(c)       BY <1>3 DEF PushMock
<1>4. CASE RecordPayment(c)
  <2>1. [status |-> "pending", linked |-> FALSE] \in PaymentRow  BY DEF PaymentRow
  <2>2. payments' \in [Checkouts -> PaymentRow]  BY <1>4, <2>1 DEF RecordPayment
  <2>3. stk' \in [Checkouts -> StkPoints]  BY <1>4 DEF RecordPayment
  <2> QED BY <1>4, <2>2, <2>3 DEF RecordPayment
<1>5. CASE FindPlan(c)       BY <1>5 DEF FindPlan
<1>6. CASE FindDevice(c)     BY <1>6 DEF FindDevice
<1>7. CASE CreateDevice(c)
  <2>1. request[c].mac \in Macs /\ request[c].ip \in Ips  BY DEF Requests
  <2>2. devices' \in [Macs -> Ips \cup {NoDevice}]  BY <1>7, <2>1 DEF CreateDevice
  <2>3. stk' \in [Checkouts -> StkPoints]  BY <1>7 DEF CreateDevice
  <2> QED BY <1>7, <2>2, <2>3 DEF CreateDevice
<1>8. CASE CreateSession(c)  BY <1>8 DEF CreateSession, SessionStatus
<1>9. CASE LinkPayment(c)
  <2>1. [status |-> "pending", linked |-> TRUE] \in PaymentRow  BY DEF PaymentRow
  <2>2. payments' \in [Checkouts -> PaymentRow]  BY <1>9, <2>1 DEF LinkPayment
  <2>3. stk' \in [Checkouts -> StkPoints]  BY <1>9 DEF LinkPayment
  <2>4. mock' \in SUBSET Checkouts
    BY <1>9 DEF LinkPayment
  <2> QED BY <1>9, <2>2, <2>3, <2>4 DEF LinkPayment
<1> QED BY <1>1, <1>2, <1>3, <1>4, <1>5, <1>6, <1>7, <1>8, <1>9 DEF StkHandler

\* Every step of handleMpesaCallback keeps the variables within their types.
LEMMA TypeCallback ==
  ASSUME TypeOK, NEW d \in Deliveries,
         DeliverReal(d) \/ DeliverMock(d) \/ CallbackHandler(d) \/ SendNotify(d)
  PROVE  TypeOK'
<1> USE BoundsAssumption, DeliveryOfCheckout
    DEF TypeOK, CbStep, Fault, CbPoints, CbRunning, tables, copies, limits
<1>1. ASSUME NEW result \in {"paid", "declined"}, LoadPayment(d, result)
      PROVE  /\ cb' \in [Deliveries -> CbPoints]
             /\ readLinked' \in [Deliveries -> BOOLEAN]
             /\ report' \in [Deliveries -> {"none", "paid", "declined"}]
             /\ faults' \in 0 .. MaxFaults
             /\ crashes' = crashes
             /\ UNCHANGED <<tables, request, stk, notifies, published>>
  <2>1. payments[d[1]].linked \in BOOLEAN  BY DEF PaymentRow
  <2>2. cb' \in [Deliveries -> CbPoints]  BY <1>1 DEF LoadPayment
  <2>3. readLinked' \in [Deliveries -> BOOLEAN]  BY <1>1, <2>1 DEF LoadPayment
  <2>4. report' \in [Deliveries -> {"none", "paid", "declined"}]  BY <1>1 DEF LoadPayment
  <2> QED BY <1>1, <2>2, <2>3, <2>4 DEF LoadPayment
<1>2. CASE DeliverReal(d) \/ DeliverMock(d)
  BY <1>1, <1>2 DEF DeliverReal, DeliverMock
<1>3. CASE ActivateSession(d) BY <1>3 DEF ActivateSession, SessionStatus
<1>4. CASE StartNotify(d)     BY <1>4 DEF StartNotify
<1>5. CASE FailSession(d)     BY <1>5 DEF FailSession, SessionStatus
<1>6. CASE SavePayment(d)     BY <1>6 DEF SavePayment, PaymentRow, Verdict
<1>7. CASE PublishUpdate(d)   BY <1>7 DEF PublishUpdate, Verdict
<1>8. CASE SendNotify(d)      BY <1>8 DEF SendNotify
<1> QED BY <1>1, <1>2, <1>3, <1>4, <1>5, <1>6, <1>7, <1>8 DEF CallbackHandler

\* Every step of the system keeps the variables within their types.
LEMMA TypeStep == ASSUME TypeOK, [Next]_vars PROVE TypeOK'
<1>1. ASSUME NEW p \in Plans, DeletePlan(p) PROVE TypeOK'
  BY <1>1 DEF TypeOK, DeletePlan, copies, limits
<1>2. ASSUME NEW c \in Checkouts, SaveDisconnected(c) PROVE TypeOK'
  BY <1>2 DEF TypeOK, SaveDisconnected, SessionStatus, copies, limits
<1>3. CASE Crash
  BY <1>3, BoundsAssumption DEF Crash, TypeOK, StkPoints, CbPoints, tables, copies
<1>4. CASE UNCHANGED vars
  BY <1>4 DEF TypeOK, vars
<1> QED
  BY <1>1, <1>2, <1>3, <1>4, TypeStk, TypeCallback DEF Next, ServiceNext, GatewayNext

LEMMA TypeInit == Init => TypeOK
BY BoundsAssumption
DEF Init, TypeOK, SessionStatus, PaymentRow, StkPoints, StkRunning, CbPoints, CbRunning

\* PaymentService is type-correct.
THEOREM TypeCorrect == Spec => []TypeOK
BY TypeInit, TypeStep, PTL DEF Spec

-----------------------------------------------------------------------------
(***************************************************************************)
(* Reports                                                                 *)
(***************************************************************************)

\* How a callback goes on: it takes its copy and the report with its first step
\* and keeps both, whatever becomes of it.
LEMMA CallbackMoves ==
  ASSUME TypeOK, [Next]_vars, NEW d \in Deliveries
  PROVE  \/ /\ readLinked'[d] = readLinked[d] /\ report'[d] = report[d]
            /\ \/ cb'[d] = cb[d]
               \/ cb[d] = "idle" /\ cb'[d] = "notfound"
               \/ /\ cb[d] \in CbRunning /\ cb'[d] \notin {"idle", "session", "notfound"}
                  /\ cb'[d] = "notify" => cb[d] = "session" /\ report[d] = "paid"
         \/ /\ cb[d] = "idle" /\ cb'[d] \in {"session", "save"}
            /\ readLinked'[d] = payments[d[1]].linked
            /\ cb'[d] = "session" <=> readLinked'[d]
            /\ report'[d] \in {"paid", "declined"}
            /\ ~RealSTK => report'[d] = "paid"
            /\ payments[d[1]].status # "none"
<1> USE DeliveryOfCheckout DEF TypeOK, CbStep, CbRunning, copies
<1>1. ASSUME NEW c \in Checkouts,
             \/ RejectRequest(c) \/ PushReal(c) \/ PushMock(c) \/ StkHandler(c)
             \/ SaveDisconnected(c)
      PROVE  UNCHANGED <<cb, readLinked, report>>
  BY <1>1
  DEF RejectRequest, PushReal, PushMock, StkHandler, RecordPayment, FindPlan, FindDevice,
      CreateDevice, CreateSession, LinkPayment, SaveDisconnected
<1>2. ASSUME NEW e \in Deliveries,
             DeliverReal(e) \/ DeliverMock(e) \/ CallbackHandler(e) \/ SendNotify(e), e # d
      PROVE  cb'[d] = cb[d] /\ readLinked'[d] = readLinked[d] /\ report'[d] = report[d]
  BY <1>2
  DEF DeliverReal, DeliverMock, LoadPayment, CallbackHandler, ActivateSession,
      StartNotify, FailSession, SavePayment, PublishUpdate, SendNotify
<1>3. CASE DeliverReal(d) \/ DeliverMock(d)
  <2>1. PICK result \in {"paid", "declined"} :
          LoadPayment(d, result) /\ (~RealSTK => result = "paid")
    BY <1>3 DEF DeliverReal, DeliverMock
  <2>2. payments[d[1]].linked \in BOOLEAN
    BY DEF PaymentRow
  <2>3. CASE cb'[d] = "notfound"
    BY <2>1, <2>2, <2>3 DEF LoadPayment
  <2>4. CASE cb'[d] # "notfound"
    BY <2>1, <2>2, <2>4 DEF LoadPayment
  <2> QED BY <2>3, <2>4
<1>4. CASE CallbackHandler(d)
  BY <1>4 DEF CallbackHandler, ActivateSession, StartNotify, FailSession, SavePayment,
              PublishUpdate
<1>5. CASE SendNotify(d)  BY <1>5 DEF SendNotify
<1>6. ASSUME NEW p \in Plans, DeletePlan(p) PROVE UNCHANGED <<cb, readLinked, report>>
  BY <1>6 DEF DeletePlan
<1>7. CASE Crash  BY <1>7 DEF Crash
<1>8. CASE UNCHANGED vars  BY <1>8 DEF vars
<1>9. CASE \E e \in Deliveries : DeliverReal(e) \/ DeliverMock(e) \/ CallbackHandler(e)
                                \/ SendNotify(e)
  BY <1>2, <1>3, <1>4, <1>5, <1>9
<1> QED
  BY <1>1, <1>6, <1>7, <1>8, <1>9 DEF Next, ServiceNext, GatewayNext

\* A callback that has not found its payment reports nothing.
UnreadIsNone ==
  \A d \in Deliveries : cb[d] \in {"idle", "notfound"} => report[d] = "none"

LEMMA UnreadStep == ASSUME TypeOK, UnreadIsNone, [Next]_vars PROVE UnreadIsNone'
<1> SUFFICES ASSUME NEW d \in Deliveries, cb'[d] \in {"idle", "notfound"}
             PROVE  report'[d] = "none"
  BY DEF UnreadIsNone
<1>1. report'[d] = report[d] /\ cb[d] \in {"idle", "notfound"}
  BY CallbackMoves DEF CbRunning
<1> QED BY <1>1 DEF UnreadIsNone

LEMMA ReportedBy ==
  ASSUME NEW d \in Deliveries
  PROVE  /\ report[d] = "paid" => Reported(d[1], "paid")
         /\ report[d] = "declined" => Reported(d[1], "declined")
BY DEF Reported

\* What was reported stays so, and with it what was done for it; callbacks that
\* contradict each other never agree again.
LEMMA ReportsGrow ==
  ASSUME TypeOK, UnreadIsNone, [Next]_vars
  PROVE  /\ \A d \in Deliveries : report[d] # "none" =>
              report'[d] = report[d] /\ readLinked'[d] = readLinked[d]
         /\ \A d \in Deliveries : TakenForPaid(d) => TakenForPaid(d)'
         /\ \A c \in Checkouts : Reported(c, "paid") => Reported(c, "paid")'
         /\ \A c \in Checkouts : Reported(c, "declined") => Reported(c, "declined")'
         /\ \A c \in Checkouts : Agreed(c)' => Agreed(c)
<1>1. \A d \in Deliveries : report[d] # "none" =>
        /\ report'[d] = report[d] /\ readLinked'[d] = readLinked[d]
        /\ cb[d] \notin {"idle", "session"} => cb'[d] \notin {"idle", "session"}
  BY CallbackMoves DEF UnreadIsNone
<1>2. \A d \in Deliveries : TakenForPaid(d) => TakenForPaid(d)'
  BY <1>1 DEF TakenForPaid
<1>3. \A c \in Checkouts : Reported(c, "paid") => Reported(c, "paid")'
  BY <1>1 DEF Reported
<1>4. \A c \in Checkouts : Reported(c, "declined") => Reported(c, "declined")'
  BY <1>1 DEF Reported
<1> QED BY <1>1, <1>2, <1>3, <1>4 DEF Agreed

-----------------------------------------------------------------------------
(***************************************************************************)
(* Access only where payment was reported                                  *)
(*                                                                         *)
(* AccessOnlyIfReported is not inductive: it says nothing of a callback    *)
(* that has activated its session and is about to start the notification,  *)
(* nor of the copy that it found the session in.                           *)
(***************************************************************************)

\* The steps that write the table of sessions.
LEMMA SessionsChange ==
  ASSUME [Next]_vars
  PROVE  \/ UNCHANGED sessions
         \/ \E c \in Checkouts : CreateSession(c) \/ SaveDisconnected(c)
         \/ \E d \in Deliveries : ActivateSession(d) \/ FailSession(d)
<1>1. ASSUME NEW e \in Checkouts,
             \/ RejectRequest(e) \/ PushReal(e) \/ PushMock(e)
             \/ RecordPayment(e) \/ FindPlan(e) \/ FindDevice(e) \/ CreateDevice(e)
             \/ LinkPayment(e)
      PROVE  UNCHANGED sessions
  BY <1>1
  DEF RejectRequest, PushReal, PushMock, RecordPayment, FindPlan, FindDevice,
      CreateDevice, LinkPayment, tables
<1>2. ASSUME NEW d \in Deliveries,
             \/ DeliverReal(d) \/ DeliverMock(d) \/ StartNotify(d) \/ SavePayment(d)
             \/ PublishUpdate(d) \/ SendNotify(d)
      PROVE  UNCHANGED sessions
  BY <1>2
  DEF DeliverReal, DeliverMock, LoadPayment, StartNotify, SavePayment, PublishUpdate,
      SendNotify, tables
<1>3. ASSUME NEW p \in Plans, DeletePlan(p) PROVE UNCHANGED sessions
  BY <1>3 DEF DeletePlan
<1> QED
  BY <1>1, <1>2, <1>3
  DEF Next, ServiceNext, GatewayNext, StkHandler, CallbackHandler, Crash, tables, vars

\* A goroutine that has a client authorized is started by its callback only.
LEMMA NotifiesChange ==
  ASSUME TypeOK, [Next]_vars, NEW d \in Deliveries, d \in notifies'
  PROVE  d \in notifies \/ (cb[d] = "notify" /\ cb'[d] = "save")
<1>1. ASSUME NEW c \in Checkouts,
             \/ RejectRequest(c) \/ PushReal(c) \/ PushMock(c) \/ StkHandler(c)
             \/ SaveDisconnected(c)
      PROVE  UNCHANGED notifies
  BY <1>1
  DEF RejectRequest, PushReal, PushMock, StkHandler, RecordPayment, FindPlan, FindDevice,
      CreateDevice, CreateSession, LinkPayment, SaveDisconnected
<1>2. ASSUME NEW e \in Deliveries,
             \/ DeliverReal(e) \/ DeliverMock(e) \/ ActivateSession(e) \/ FailSession(e)
             \/ SavePayment(e) \/ PublishUpdate(e)
      PROVE  UNCHANGED notifies
  BY <1>2
  DEF DeliverReal, DeliverMock, LoadPayment, ActivateSession, FailSession, SavePayment,
      PublishUpdate
<1>3. ASSUME NEW e \in Deliveries, SendNotify(e) PROVE d \in notifies
  BY <1>3 DEF SendNotify
<1>4. ASSUME NEW e \in Deliveries, StartNotify(e)
      PROVE  d \in notifies \/ (cb[d] = "notify" /\ cb'[d] = "save")
  BY <1>4 DEF StartNotify, CbStep, TypeOK
<1>5. ASSUME NEW p \in Plans, DeletePlan(p) PROVE UNCHANGED notifies
  BY <1>5 DEF DeletePlan
<1>6. CASE Crash \/ UNCHANGED vars
  BY <1>6 DEF Crash, vars
<1> QED
  BY <1>1, <1>2, <1>3, <1>4, <1>5, <1>6 DEF Next, ServiceNext, GatewayNext, CallbackHandler

\* Only a callback that reports payment, and has found its session, gets as far
\* as the notification.
NotifierIsPaid ==
  \A d \in Deliveries :
    /\ cb[d] \in {"session", "notify"} => readLinked[d]
    /\ cb[d] = "notify" => report[d] = "paid"

AccessInv == TypeOK /\ UnreadIsNone /\ NotifierIsPaid /\ AccessOnlyIfReported

LEMMA AccessInit == Init => AccessInv
<1> SUFFICES ASSUME Init PROVE AccessInv
  OBVIOUS
<1>1. TypeOK
  BY TypeInit
<1>2. UnreadIsNone /\ NotifierIsPaid /\ AccessOnlyIfReported
  BY <1>1 DEF Init, TypeOK, UnreadIsNone, NotifierIsPaid, AccessOnlyIfReported, Activated
<1> QED BY <1>1, <1>2 DEF AccessInv

LEMMA AccessStep == ASSUME AccessInv, [Next]_vars PROVE AccessInv'
<1>0. /\ TypeOK /\ TypeOK' /\ UnreadIsNone /\ UnreadIsNone'
      /\ \A d \in Deliveries : TakenForPaid(d) => TakenForPaid(d)'
  BY TypeStep, UnreadStep, ReportsGrow DEF AccessInv
<1>1. NotifierIsPaid'
  BY <1>0, CallbackMoves DEF AccessInv, NotifierIsPaid, CbRunning
<1>2. ASSUME NEW d \in notifies' PROVE TakenForPaid(d)'
  <2>1. d \in Deliveries
    BY <1>0 DEF TypeOK
  <2>2. CASE d \in notifies
    BY <1>0, <2>1, <2>2 DEF AccessInv, AccessOnlyIfReported
  <2>3. CASE cb[d] = "notify" /\ cb'[d] = "save"
    <3>1. report[d] = "paid" /\ readLinked[d]
      BY <2>1, <2>3 DEF AccessInv, NotifierIsPaid
    <3> QED BY <1>0, <2>1, <2>3, <3>1, ReportsGrow DEF TakenForPaid
  <2> QED BY <1>0, <1>2, <2>1, <2>2, <2>3, NotifiesChange
<1>3. ASSUME NEW c \in Checkouts, Activated(c)'
      PROVE  \E d \in Deliveries : d[1] = c /\ TakenForPaid(d)'
  <2>1. CASE \E d \in Deliveries : d[1] = c /\ TakenForPaid(d)
    BY <1>0, <2>1
  <2>2. CASE Activated(c)
    BY <2>1, <2>2 DEF AccessInv, AccessOnlyIfReported
  <2>3. CASE ~Activated(c)
    <3>1. sessions'[c] # sessions[c]
      BY <1>3, <2>3 DEF Activated
    <3>2. ASSUME NEW e \in Checkouts, CreateSession(e) PROVE FALSE
      BY <1>0, <1>3, <3>1, <3>2 DEF CreateSession, Activated, TypeOK
    <3>3. ASSUME NEW e \in Checkouts, SaveDisconnected(e)
          PROVE  \E d \in Deliveries : d[1] = c /\ TakenForPaid(d)
      BY <1>0, <2>3, <3>1, <3>3 DEF SaveDisconnected, TypeOK
    <3>4. ASSUME NEW d \in Deliveries, FailSession(d) PROVE FALSE
      BY <1>0, <1>3, <3>1, <3>4, DeliveryOfCheckout DEF FailSession, Activated, TypeOK
    <3>5. ASSUME NEW d \in Deliveries, ActivateSession(d)
          PROVE  d[1] = c /\ TakenForPaid(d)'
      <4>1. d[1] = c /\ cb[d] = "session" /\ cb'[d] \notin {"idle", "session"}
        BY <1>0, <3>1, <3>5, DeliveryOfCheckout DEF ActivateSession, CbStep, TypeOK
      <4>2. report'[d] = "paid" /\ readLinked'[d] = readLinked[d]
        BY <3>5 DEF ActivateSession, copies
      <4>3. readLinked[d]
        BY <4>1 DEF AccessInv, NotifierIsPaid
      <4> QED BY <4>1, <4>2, <4>3 DEF TakenForPaid
    <3> QED BY <2>1, <3>1, <3>2, <3>3, <3>4, <3>5, SessionsChange
  <2> QED BY <2>2, <2>3
<1> QED BY <1>0, <1>1, <1>2, <1>3 DEF AccessInv, AccessOnlyIfReported

\* A session is switched on, and the gateway told, only where a callback that
\* reported payment found the session (handleMpesaCallback, main.go:307-343).
THEOREM AccessIsReported == Spec => []AccessOnlyIfReported
<1>1. Spec => []AccessInv
  BY AccessInit, AccessStep, PTL DEF Spec
<1>2. AccessInv => AccessOnlyIfReported
  BY DEF AccessInv
<1> QED BY <1>1, <1>2, PTL

-----------------------------------------------------------------------------
(***************************************************************************)
(* Completed payments                                                      *)
(*                                                                         *)
(* That a completed payment has its access, and that it stays completed,   *)
(* needs to know where the three parties are: a session exists only once   *)
(* handleSTKPush has come to it, a row names its session only once the     *)
(* request is answered, a running callback has found a payment and a       *)
(* verdict, and, while nothing failed, it saves after it activated.        *)
(***************************************************************************)
BeforePayment == {"idle", "record"}
BeforeSession == BeforePayment \cup {"plan", "device", "newdevice", "session"}

\* Rows appear when handleSTKPush comes to them.
RowsInOrder ==
  \A c \in Checkouts :
    /\ stk[c] \in BeforeSession => sessions[c] = "none"
    /\ stk[c] \in BeforePayment => payments[c].status = "none"

\* A payment names its session, and so does a copy of it, only when answered.
LinkedIsAnswered ==
  /\ \A c \in Checkouts : payments[c].linked => stk[c] = "answered"
  /\ \A d \in Deliveries : readLinked[d] => stk[d[1]] = "answered"

\* A running callback has found its payment and brings a verdict.
CallbackIsDecided ==
  \A d \in Deliveries : cb[d] \in CbRunning =>
    report[d] \in {"paid", "declined"} /\ payments[d[1]].status # "none"

\* The mock callback reports nothing but payment.
MockIsPaid == ~RealSTK => \A d \in Deliveries : report[d] \in {"none", "paid"}

CompletedIsReported ==
  \A c \in Checkouts : payments[c].status = "completed" => Reported(c, "paid")

\* The callback about to save a payment with a session has activated it.
SavesAfterActivation ==
  faults = 0 =>
    \A d \in Deliveries :
      cb[d] \in {"notify", "save"} /\ readLinked[d] /\ report[d] = "paid" /\ Agreed(d[1])
        => Activated(d[1])

CompletionInv ==
  /\ AccessInv /\ RowsInOrder /\ LinkedIsAnswered /\ CallbackIsDecided
  /\ MockIsPaid /\ CompletedIsReported /\ SavesAfterActivation /\ CompletedHasAccess

LEMMA CompletionInit == Init => CompletionInv
<1> SUFFICES ASSUME Init PROVE CompletionInv
  OBVIOUS
<1>1. AccessInv
  BY AccessInit
<1>2. RowsInOrder /\ LinkedIsAnswered /\ CallbackIsDecided /\ MockIsPaid
  BY DeliveryOfCheckout
  DEF Init, RowsInOrder, LinkedIsAnswered, CallbackIsDecided, CbRunning, MockIsPaid
<1>3. CompletedIsReported /\ SavesAfterActivation /\ CompletedHasAccess
  BY DEF Init, CompletedIsReported, SavesAfterActivation, CompletedHasAccess
<1> QED BY <1>1, <1>2, <1>3 DEF CompletionInv

\* The steps of handleSTKPush change neither callbacks nor reports.
LEMMA StkLeavesReports ==
  ASSUME NEW c \in Checkouts,
         RejectRequest(c) \/ PushReal(c) \/ PushMock(c) \/ StkHandler(c)
  PROVE  /\ UNCHANGED <<cb, readLinked, report>>
         /\ \A e \in Checkouts : Agreed(e)' <=> Agreed(e)
         /\ \A e \in Checkouts : Reported(e, "paid")' <=> Reported(e, "paid")
<1>1. UNCHANGED <<cb, readLinked, report>>
  BY DEF RejectRequest, PushReal, PushMock, StkHandler, RecordPayment, FindPlan, FindDevice,
         CreateDevice, CreateSession, LinkPayment, copies
<1> QED BY <1>1 DEF Agreed, Reported

\* The invariant survives a step of handleSTKPush.
LEMMA CompletionStk ==
  ASSUME CompletionInv, AccessInv', NEW c \in Checkouts,
         RejectRequest(c) \/ PushReal(c) \/ PushMock(c) \/ StkHandler(c)
  PROVE  CompletionInv'
<1> USE DeliveryOfCheckout
    DEF CompletionInv, RowsInOrder, LinkedIsAnswered, CallbackIsDecided, MockIsPaid,
        CompletedIsReported, SavesAfterActivation, CompletedHasAccess, Activated,
        BeforePayment, BeforeSession, StkStep, tables, limits
<1>0. /\ AccessInv' /\ TypeOK /\ TypeOK'
      /\ UNCHANGED <<cb, readLinked, report>>
      /\ \A e \in Checkouts : Agreed(e)' <=> Agreed(e)
      /\ \A e \in Checkouts : Reported(e, "paid")' <=> Reported(e, "paid")
  BY StkLeavesReports DEF AccessInv
<1> USE DEF TypeOK
<1>1. CASE RejectRequest(c)  BY <1>0, <1>1 DEF RejectRequest
<1>2. CASE PushReal(c)       BY <1>0, <1>2 DEF PushReal
<1>3. CASE PushMock(c)       BY <1>0, <1>3 DEF PushMock
<1>4. CASE RecordPayment(c)  BY <1>0, <1>4 DEF RecordPayment, Fault
<1>5. CASE FindPlan(c)       BY <1>0, <1>5 DEF FindPlan, Fault
<1>6. CASE FindDevice(c)     BY <1>0, <1>6 DEF FindDevice, Fault
<1>7. CASE CreateDevice(c)   BY <1>0, <1>7 DEF CreateDevice, Fault
<1>8. CASE CreateSession(c)  BY <1>0, <1>8 DEF CreateSession, Fault
<1>9. CASE LinkPayment(c)    BY <1>0, <1>9 DEF LinkPayment, Fault
<1> QED BY <1>1, <1>2, <1>3, <1>4, <1>5, <1>6, <1>7, <1>8, <1>9 DEF StkHandler

\* What the Save at the end of handleMpesaCallback does.
LEMMA SaveEffect ==
  ASSUME TypeOK, faults \in Nat, NEW d \in Deliveries, SavePayment(d)
  PROVE  /\ cb[d] = "save" /\ cb'[d] = "publish"
         /\ \A e \in Deliveries : e # d => cb'[e] = cb[e]
         /\ \A c \in Checkouts : c # d[1] => payments'[c] = payments[c]
         /\ \/ payments'[d[1]] = payments[d[1]]
            \/ /\ payments'[d[1]].status = Verdict(d)
               /\ payments'[d[1]].linked = readLinked[d]
               /\ faults' = faults
         /\ faults' = 0 => faults = 0
         /\ UNCHANGED <<readLinked, report, sessions, stk>>
<1> USE DeliveryOfCheckout DEF TypeOK, SavePayment, CbStep, Fault
<1>1. /\ cb[d] = "save" /\ cb'[d] = "publish"
      /\ \A e \in Deliveries : e # d => cb'[e] = cb[e]
  OBVIOUS
<1>2. /\ \A c \in Checkouts : c # d[1] => payments'[c] = payments[c]
      /\ \/ payments'[d[1]] = payments[d[1]]
         \/ /\ payments'[d[1]].status = Verdict(d)
            /\ payments'[d[1]].linked = readLinked[d]
            /\ faults' = faults
  BY DEF limits
<1>3. (faults' = 0 => faults = 0) /\ UNCHANGED <<readLinked, report, sessions, stk>>
  BY DEF limits, copies
<1> QED BY <1>1, <1>2, <1>3

\* The invariant survives a step of handleMpesaCallback and of its goroutine.
LEMMA CompletionCallback ==
  ASSUME CompletionInv, AccessInv', [Next]_vars, NEW d \in Deliveries,
         DeliverReal(d) \/ DeliverMock(d) \/ CallbackHandler(d) \/ SendNotify(d)
  PROVE  CompletionInv'
<1> USE DeliveryOfCheckout
    DEF CompletionInv, RowsInOrder, LinkedIsAnswered, CallbackIsDecided, MockIsPaid,
        CompletedIsReported, SavesAfterActivation, CompletedHasAccess, Activated,
        BeforePayment, BeforeSession, CbStep, CbRunning, tables, copies, limits
<1>1. AccessInv' /\ TypeOK /\ TypeOK' /\ UnreadIsNone /\ NotifierIsPaid
  BY DEF AccessInv
<1>2. /\ \A c \in Checkouts : Reported(c, "paid") => Reported(c, "paid")'
      /\ \A c \in Checkouts : Agreed(c)' => Agreed(c)
  BY <1>1, ReportsGrow
<1>3. \A e \in Deliveries : /\ report[e] = "paid" => Reported(e[1], "paid")
                            /\ report[e] = "declined" => Reported(e[1], "declined")
  BY ReportedBy
<1>4. faults \in Nat
  BY <1>1, BoundsAssumption DEF TypeOK
<1> USE DEF TypeOK
<1>5. CASE DeliverReal(d) \/ DeliverMock(d)
  <2>1. /\ UNCHANGED <<sessions, payments, stk>> /\ (faults' = 0 => faults = 0)
        /\ \A e \in Deliveries : e # d =>
             cb'[e] = cb[e] /\ readLinked'[e] = readLinked[e] /\ report'[e] = report[e]
    BY <1>1, <1>5, <1>4 DEF DeliverReal, DeliverMock, LoadPayment, Fault
  <2>2. \/ cb'[d] \notin CbRunning /\ report'[d] = report[d] /\ readLinked'[d] = readLinked[d]
        \/ /\ cb'[d] \in {"session", "save"} /\ payments[d[1]].status # "none"
           /\ readLinked'[d] = payments[d[1]].linked /\ (cb'[d] = "session" <=> readLinked'[d])
           /\ report'[d] \in {"paid", "declined"} /\ (~RealSTK => report'[d] = "paid")
    <3>1. cb[d] = "idle" /\ cb'[d] # "idle"
      BY <1>1, <1>5 DEF DeliverReal, DeliverMock, LoadPayment
    <3> QED BY <1>1, <3>1, CallbackMoves
  <2>3. RowsInOrder' /\ CompletedIsReported' /\ CompletedHasAccess'
    BY <1>2, <2>1
  <2>4. LinkedIsAnswered'
    BY <1>1, <2>1, <2>2
  <2>5. CallbackIsDecided' /\ MockIsPaid'
    BY <1>1, <2>1, <2>2
  <2>6. SavesAfterActivation'
    BY <1>1, <1>2, <2>1, <2>2
  <2> QED BY <1>1, <2>3, <2>4, <2>5, <2>6
<1>6. CASE ActivateSession(d)
  <2>1. /\ cb[d] = "session" /\ readLinked[d] /\ stk[d[1]] = "answered"
        /\ cb' = [cb EXCEPT ![d] = cb'[d]] /\ cb'[d] \in {"notify", "save"}
        /\ report[d] = "paid" /\ UNCHANGED <<readLinked, report, payments, stk>>
    BY <1>1, <1>6 DEF ActivateSession, NotifierIsPaid
  <2>2. \/ sessions' = [sessions EXCEPT ![d[1]] = "active"] /\ faults' = faults
        \/ sessions' = sessions /\ faults' # 0
    BY <1>6, <1>4 DEF ActivateSession, Fault
  <2>3. RowsInOrder' /\ LinkedIsAnswered' /\ CallbackIsDecided' /\ MockIsPaid'
    BY <1>1, <2>1, <2>2
  <2>4. CompletedIsReported' /\ CompletedHasAccess' /\ SavesAfterActivation'
    BY <1>1, <1>2, <2>1, <2>2
  <2> QED BY <1>1, <2>3, <2>4
<1>7. CASE StartNotify(d)
  <2>1. /\ cb[d] = "notify" /\ cb' = [cb EXCEPT ![d] = "save"]
        /\ UNCHANGED <<readLinked, report, payments, sessions, stk>>
        /\ faults' = 0 => faults = 0
    BY <1>7, <1>4 DEF StartNotify, Fault
  <2> QED BY <1>1, <1>2, <2>1
<1>8. CASE FailSession(d)
  <2>1. /\ cb[d] = "session" /\ readLinked[d] /\ stk[d[1]] = "answered"
        /\ cb' = [cb EXCEPT ![d] = "save"]
        /\ report[d] = "declined" /\ UNCHANGED <<readLinked, report, payments, stk>>
        /\ faults' = 0 => faults = 0
        /\ sessions' = [sessions EXCEPT ![d[1]] = "failed"] \/ sessions' = sessions
    BY <1>1, <1>8, <1>4 DEF FailSession, Fault, NotifierIsPaid
  <2>2. ~(Agreed(d[1]) /\ Reported(d[1], "paid"))
    BY <1>3, <2>1 DEF Agreed
  <2>3. RowsInOrder' /\ LinkedIsAnswered' /\ CallbackIsDecided' /\ MockIsPaid'
    BY <1>1, <2>1
  <2>4. CompletedIsReported' /\ CompletedHasAccess'
    BY <1>1, <1>2, <2>1, <2>2
  <2>5. SavesAfterActivation'
    BY <1>1, <1>2, <1>3, <2>1, <2>2
  <2> QED BY <1>1, <2>3, <2>4, <2>5
<1>9. CASE SavePayment(d)
  <2>1. report[d] \in {"paid", "declined"} /\ payments[d[1]].status # "none"
    BY <1>9 DEF SavePayment
  <2>2. /\ Verdict(d) = "completed" => report[d] = "paid" /\ Reported(d[1], "paid")
        /\ Verdict(d) # "none"
    BY <1>3 DEF Verdict
  <2>3. /\ cb[d] = "save" /\ cb'[d] = "publish"
        /\ \A e \in Deliveries : e # d => cb'[e] = cb[e]
        /\ \A c \in Checkouts : c # d[1] => payments'[c] = payments[c]
        /\ \/ payments'[d[1]] = payments[d[1]]
           \/ /\ payments'[d[1]].status = Verdict(d)
              /\ payments'[d[1]].linked = readLinked[d]
              /\ faults' = faults
        /\ faults' = 0 => faults = 0
        /\ UNCHANGED <<readLinked, report, sessions, stk>>
    BY <1>1, <1>9, <1>4, SaveEffect
  <2>4. RowsInOrder' /\ MockIsPaid'
    BY <2>1, <2>2, <2>3
  <2>5. LinkedIsAnswered'
    BY <2>3
  <2>6. CallbackIsDecided'
    BY <2>1, <2>2, <2>3
  <2>7. CompletedIsReported'
    BY <1>2, <2>2, <2>3
  <2>8. SavesAfterActivation'
    BY <1>2, <2>3
  <2>9. CompletedHasAccess'
    BY <1>1, <1>2, <2>2, <2>3
  <2> QED BY <1>1, <2>4, <2>5, <2>6, <2>7, <2>8, <2>9
<1>10. CASE PublishUpdate(d)
  <2>1. /\ cb' = [cb EXCEPT ![d] = "done"]
        /\ UNCHANGED <<readLinked, report, payments, sessions, stk>>
        /\ faults' = 0 => faults = 0
    BY <1>10, <1>4 DEF PublishUpdate, Fault
  <2> QED BY <1>1, <1>2, <2>1
<1>11. CASE SendNotify(d)      BY <1>1, <1>2, <1>11 DEF SendNotify
<1> QED BY <1>5, <1>6, <1>7, <1>8, <1>9, <1>10, <1>11 DEF CallbackHandler

LEMMA CompletionStep == ASSUME CompletionInv, [Next]_vars PROVE CompletionInv'
<1>0. /\ AccessInv' /\ TypeOK /\ TypeOK'
      /\ \A c \in Checkouts : Reported(c, "paid") => Reported(c, "paid")'
      /\ \A c \in Checkouts : Agreed(c)' => Agreed(c)
  BY AccessStep, ReportsGrow DEF CompletionInv, AccessInv
<1>1. ASSUME NEW c \in Checkouts,
             RejectRequest(c) \/ PushReal(c) \/ PushMock(c) \/ StkHandler(c)
      PROVE  CompletionInv'
  BY <1>0, <1>1, CompletionStk
<1>2. ASSUME NEW d \in Deliveries,
             DeliverReal(d) \/ DeliverMock(d) \/ CallbackHandler(d) \/ SendNotify(d)
      PROVE  CompletionInv'
  BY <1>0, <1>2, CompletionCallback
<1> USE DeliveryOfCheckout
    DEF CompletionInv, RowsInOrder, LinkedIsAnswered, CallbackIsDecided, MockIsPaid,
        CompletedIsReported, SavesAfterActivation, CompletedHasAccess, Activated,
        BeforePayment, BeforeSession, tables, copies, limits
<1>3. ASSUME NEW p \in Plans, DeletePlan(p) PROVE CompletionInv'
  BY <1>0, <1>3 DEF DeletePlan
<1>4. ASSUME NEW c \in Checkouts, SaveDisconnected(c) PROVE CompletionInv'
  <2>1. /\ UNCHANGED <<payments, stk, cb, readLinked, report, faults>>
        /\ \A e \in Checkouts : Activated(e) => Activated(e)'
        /\ \A e \in Checkouts : sessions[e] = "none" => sessions'[e] = "none"
    BY <1>0, <1>4 DEF SaveDisconnected, TypeOK
  <2> QED BY <1>0, <2>1
<1>5. CASE Crash
  BY <1>0, <1>5 DEF Crash, TypeOK, StkRunning, CbRunning
<1>6. CASE UNCHANGED vars
  BY <1>0, <1>6 DEF vars
<1> QED
  BY <1>1, <1>2, <1>3, <1>4, <1>5, <1>6 DEF Next, ServiceNext, GatewayNext

\* Nobody changes what was asked for.
LEMMA RequestIsKept == ASSUME [Next]_vars PROVE request' = request
<1>1. ASSUME NEW c \in Checkouts,
             \/ RejectRequest(c) \/ PushReal(c) \/ PushMock(c) \/ StkHandler(c)
             \/ SaveDisconnected(c)
      PROVE  request' = request
  BY <1>1
  DEF RejectRequest, PushReal, PushMock, StkHandler, RecordPayment, FindPlan, FindDevice,
      CreateDevice, CreateSession, LinkPayment, SaveDisconnected
<1>2. ASSUME NEW d \in Deliveries,
             DeliverReal(d) \/ DeliverMock(d) \/ CallbackHandler(d) \/ SendNotify(d)
      PROVE  request' = request
  BY <1>2
  DEF DeliverReal, DeliverMock, LoadPayment, CallbackHandler, ActivateSession,
      StartNotify, FailSession, SavePayment, PublishUpdate, SendNotify
<1>3. ASSUME NEW p \in Plans, DeletePlan(p) PROVE request' = request
  BY <1>3 DEF DeletePlan
<1> QED BY <1>1, <1>2, <1>3 DEF Next, ServiceNext, GatewayNext, Crash, vars

\* A session that was switched on is not made again, and only a callback that
\* contradicts the one that switched it on fails it.
LEMMA ActivationIsKept ==
  ASSUME CompletionInv, [Next]_vars, NEW c \in Checkouts, Activated(c), Agreed(c)'
  PROVE  Activated(c)'
<1> USE DeliveryOfCheckout DEF Activated
<1>0. TypeOK /\ Agreed(c) /\ stk[c] # "session"
  BY ReportsGrow DEF CompletionInv, AccessInv, RowsInOrder, BeforeSession
<1>1. PICK a \in Deliveries : a[1] = c /\ report[a] = "paid"
  BY DEF CompletionInv, AccessInv, AccessOnlyIfReported, TakenForPaid
<1>2. ~Reported(c, "declined")
  BY <1>0, <1>1, ReportedBy DEF Agreed
<1>3. ASSUME NEW e \in Checkouts, CreateSession(e) \/ SaveDisconnected(e)
      PROVE  Activated(c)'
  BY <1>0, <1>3 DEF CreateSession, SaveDisconnected, StkStep, TypeOK
<1>4. ASSUME NEW d \in Deliveries, ActivateSession(d) PROVE Activated(c)'
  BY <1>0, <1>4 DEF ActivateSession, TypeOK
<1>5. ASSUME NEW d \in Deliveries, FailSession(d) PROVE Activated(c)'
  <2>1. d[1] # c
    BY <1>2, <1>5, ReportedBy DEF FailSession
  <2> QED BY <1>0, <1>5, <2>1 DEF FailSession, TypeOK
<1> QED BY <1>3, <1>4, <1>5, SessionsChange

\* A session that was switched on, whatever became of it, remains one.
WasOn(c) ==
  /\ sessions[c] \notin {"none", "inactive"}
  /\ \E d \in Deliveries : d[1] = c /\ TakenForPaid(d)

LEMMA WasOnIsKept ==
  ASSUME CompletionInv, [Next]_vars, NEW c \in Checkouts, WasOn(c)
  PROVE  WasOn(c)'
<1> USE DeliveryOfCheckout DEF WasOn
<1>0. TypeOK /\ stk[c] # "session"
  BY DEF CompletionInv, AccessInv, RowsInOrder, BeforeSession
<1>1. \E d \in Deliveries : d[1] = c /\ TakenForPaid(d)'
  BY ReportsGrow DEF CompletionInv, AccessInv
<1>2. ASSUME NEW e \in Checkouts, CreateSession(e) \/ SaveDisconnected(e)
      PROVE  sessions'[c] \notin {"none", "inactive"}
  BY <1>0, <1>2 DEF CreateSession, SaveDisconnected, StkStep, TypeOK
<1>3. ASSUME NEW d \in Deliveries, ActivateSession(d) \/ FailSession(d)
      PROVE  sessions'[c] \notin {"none", "inactive"}
  BY <1>0, <1>3 DEF ActivateSession, FailSession, TypeOK
<1> QED BY <1>1, <1>2, <1>3, SessionsChange

\* One callback at a time is told what became of its push.
LEMMA OneReports ==
  ASSUME TypeOK, [Next]_vars
  PROVE  \/ report' = report
         \/ \E d \in Deliveries : \A e \in Deliveries : e # d => report'[e] = report[e]
<1>1. ASSUME NEW c \in Checkouts,
             \/ RejectRequest(c) \/ PushReal(c) \/ PushMock(c) \/ StkHandler(c)
             \/ SaveDisconnected(c)
      PROVE  report' = report
  BY <1>1
  DEF RejectRequest, PushReal, PushMock, StkHandler, RecordPayment, FindPlan, FindDevice,
      CreateDevice, CreateSession, LinkPayment, SaveDisconnected, copies
<1>2. ASSUME NEW d \in Deliveries, DeliverReal(d) \/ DeliverMock(d)
      PROVE  \A e \in Deliveries : e # d => report'[e] = report[e]
  BY <1>2 DEF DeliverReal, DeliverMock, LoadPayment, copies, TypeOK
<1>3. ASSUME NEW d \in Deliveries, CallbackHandler(d) \/ SendNotify(d)
      PROVE  report' = report
  BY <1>3
  DEF CallbackHandler, ActivateSession, StartNotify, FailSession, SavePayment,
      PublishUpdate, SendNotify, copies
<1>4. ASSUME NEW p \in Plans, DeletePlan(p) PROVE report' = report
  BY <1>4 DEF DeletePlan, copies
<1>5. CASE Crash \/ UNCHANGED vars
  BY <1>5 DEF Crash, copies, vars
<1> QED BY <1>1, <1>2, <1>3, <1>4, <1>5 DEF Next, ServiceNext, GatewayNext

\* A session has its device behind it, and a device that is known stays as it
\* is: the address of a client that comes back from elsewhere is not updated.
DeviceBehindSession ==
  \A c \in Checkouts :
    stk[c] \in {"session", "link", "answered"} \/ sessions[c] # "none"
      => devices[request[c].mac] # NoDevice

LEMMA DeviceInit == Init => DeviceBehindSession
BY DEF Init, DeviceBehindSession

LEMMA DeviceIsKept ==
  ASSUME TypeOK, [Next]_vars, NEW m \in Macs, devices[m] # NoDevice
  PROVE  devices'[m] = devices[m]
<1>1. ASSUME NEW c \in Checkouts, CreateDevice(c) PROVE devices'[m] = devices[m]
  BY <1>1 DEF CreateDevice, TypeOK
<1>2. ASSUME NEW c \in Checkouts,
             \/ RejectRequest(c) \/ PushReal(c) \/ PushMock(c)
             \/ RecordPayment(c) \/ FindPlan(c) \/ FindDevice(c) \/ CreateSession(c)
             \/ LinkPayment(c) \/ SaveDisconnected(c)
      PROVE  devices' = devices
  BY <1>2
  DEF RejectRequest, PushReal, PushMock, RecordPayment, FindPlan, FindDevice,
      CreateSession, LinkPayment, SaveDisconnected, tables
<1>3. ASSUME NEW d \in Deliveries,
             DeliverReal(d) \/ DeliverMock(d) \/ CallbackHandler(d) \/ SendNotify(d)
      PROVE  devices' = devices
  BY <1>3
  DEF DeliverReal, DeliverMock, LoadPayment, CallbackHandler, ActivateSession,
      StartNotify, FailSession, SavePayment, PublishUpdate, SendNotify, tables
<1>4. ASSUME NEW p \in Plans, DeletePlan(p) PROVE devices' = devices
  BY <1>4 DEF DeletePlan
<1>5. CASE Crash \/ UNCHANGED vars
  BY <1>5 DEF Crash, tables, vars
<1> QED
  BY <1>1, <1>2, <1>3, <1>4, <1>5 DEF Next, ServiceNext, GatewayNext, StkHandler

LEMMA DeviceStep ==
  ASSUME CompletionInv, DeviceBehindSession, [Next]_vars
  PROVE  DeviceBehindSession'
<1> USE DEF DeviceBehindSession
<1>0. /\ TypeOK /\ request' = request
      /\ \A c \in Checkouts : request[c].mac \in Macs
  BY RequestIsKept DEF CompletionInv, AccessInv, TypeOK, Requests
<1>1. ASSUME NEW c \in Checkouts, devices[request[c].mac] # NoDevice
      PROVE  devices'[request[c].mac] # NoDevice
  BY <1>0, <1>1, DeviceIsKept
<1>2. SUFFICES ASSUME NEW c \in Checkouts,
                      stk'[c] \in {"session", "link", "answered"} \/ sessions'[c] # "none",
                      devices[request[c].mac] = NoDevice
               PROVE  devices'[request[c].mac] # NoDevice
  BY <1>0, <1>1
<1>3. stk[c] \notin {"session", "link", "answered"} /\ sessions[c] = "none"
  BY <1>2
<1>4. ASSUME NEW e \in Checkouts, StkHandler(e)
      PROVE  devices'[request[c].mac] # NoDevice
  <2> USE <1>0, <1>2, <1>3 DEF TypeOK, StkStep
  <2>1. CASE RecordPayment(e) \/ FindPlan(e)
    BY <2>1 DEF RecordPayment, FindPlan, tables
  <2>2. CASE FindDevice(e)
    BY <2>2 DEF FindDevice, tables
  <2>3. CASE CreateDevice(e)
    BY <2>3, NoDeviceAssumption DEF CreateDevice, Requests
  <2>4. CASE CreateSession(e) \/ LinkPayment(e)
    BY <2>4 DEF CreateSession, LinkPayment
  <2> QED BY <1>4, <2>1, <2>2, <2>3, <2>4 DEF StkHandler
<1>5. ASSUME NEW e \in Checkouts,
             \/ RejectRequest(e) \/ PushReal(e) \/ PushMock(e)
             \/ SaveDisconnected(e)
      PROVE  FALSE
  BY <1>0, <1>2, <1>3, <1>5
  DEF RejectRequest, PushReal, PushMock, SaveDisconnected, Activated, StkStep,
      TypeOK, tables
<1>6. ASSUME NEW d \in Deliveries,
             DeliverReal(d) \/ DeliverMock(d) \/ CallbackHandler(d) \/ SendNotify(d)
      PROVE  FALSE
  <2>1. cb[d] = "session" => stk[d[1]] = "answered"
    BY DEF CompletionInv, AccessInv, NotifierIsPaid, LinkedIsAnswered
  <2>2. CASE ActivateSession(d) \/ FailSession(d)
    BY <1>0, <1>2, <1>3, <2>1, <2>2, DeliveryOfCheckout
    DEF ActivateSession, FailSession, CbStep, TypeOK
  <2> QED
    BY <1>2, <1>3, <1>6, <2>2
    DEF DeliverReal, DeliverMock, LoadPayment, CallbackHandler, StartNotify, SavePayment,
        PublishUpdate, SendNotify, tables
<1>7. ASSUME NEW p \in Plans, DeletePlan(p) PROVE FALSE
  BY <1>2, <1>3, <1>7 DEF DeletePlan
<1>8. CASE Crash \/ UNCHANGED vars
  BY <1>0, <1>2, <1>3, <1>8 DEF Crash, tables, vars, StkRunning, TypeOK
<1> QED
  BY <1>2, <1>3, <1>4, <1>5, <1>6, <1>7, <1>8
  DEF Next, ServiceNext, GatewayNext

\* Whoever is about to have a client authorized has read a payment that names
\* its session, which handleSTKPush writes last.
NotifierIsAnswered ==
  \A d \in Deliveries : cb[d] = "notify" \/ d \in notifies => stk[d[1]] = "answered"

LEMMA NotifierInit == Init => NotifierIsAnswered
BY DEF Init, NotifierIsAnswered

\* A call that was answered is over.
LEMMA AnsweredIsKept ==
  ASSUME TypeOK, [Next]_vars, NEW c \in Checkouts, stk[c] = "answered"
  PROVE  stk'[c] = "answered"
<1> USE DEF TypeOK, StkStep
<1>1. ASSUME NEW e \in Checkouts,
             \/ RejectRequest(e) \/ PushReal(e) \/ PushMock(e) \/ StkHandler(e)
             \/ SaveDisconnected(e)
      PROVE  stk'[c] = "answered"
  BY <1>1
  DEF RejectRequest, PushReal, PushMock, StkHandler, RecordPayment, FindPlan, FindDevice,
      CreateDevice, CreateSession, LinkPayment, SaveDisconnected
<1>2. ASSUME NEW d \in Deliveries,
             DeliverReal(d) \/ DeliverMock(d) \/ CallbackHandler(d) \/ SendNotify(d)
      PROVE  stk' = stk
  BY <1>2
  DEF DeliverReal, DeliverMock, LoadPayment, CallbackHandler, ActivateSession,
      StartNotify, FailSession, SavePayment, PublishUpdate, SendNotify
<1>3. ASSUME NEW p \in Plans, DeletePlan(p) PROVE stk' = stk
  BY <1>3 DEF DeletePlan
<1>4. CASE Crash \/ UNCHANGED vars
  BY <1>4 DEF Crash, StkRunning, vars
<1> QED BY <1>1, <1>2, <1>3, <1>4 DEF Next, ServiceNext, GatewayNext

\* The goroutine that has a client authorized is on its way from the moment
\* the session is activated.
LEMMA NotifierComesFrom ==
  ASSUME TypeOK, [Next]_vars, NEW d \in Deliveries, cb'[d] = "notify" \/ d \in notifies'
  PROVE  cb[d] = "notify" \/ d \in notifies \/ cb[d] = "session"
BY CallbackMoves, NotifiesChange

LEMMA NotifierStep ==
  ASSUME CompletionInv, NotifierIsAnswered, [Next]_vars
  PROVE  NotifierIsAnswered'
<1> SUFFICES ASSUME NEW d \in Deliveries, cb'[d] = "notify" \/ d \in notifies'
             PROVE  stk'[d[1]] = "answered"
  BY DEF NotifierIsAnswered
<1>1. TypeOK /\ (cb[d] = "session" => stk[d[1]] = "answered")
  BY DEF CompletionInv, AccessInv, NotifierIsPaid, LinkedIsAnswered
<1>2. stk[d[1]] = "answered"
  BY <1>1, NotifierComesFrom DEF NotifierIsAnswered
<1> QED BY <1>1, <1>2, AnsweredIsKept, DeliveryOfCheckout

LEMMA CompletionInvariant == Spec => []CompletionInv
BY CompletionInit, CompletionStep, PTL DEF Spec

\* While no statement fails, a completed payment that names a session has
\* switched it on (main.go:324-355), although handleSTKPush and any number of
\* callbacks overwrite the same rows without a transaction.
THEOREM PaidForIsSwitchedOn == Spec => []CompletedHasAccess
<1>1. CompletionInv => CompletedHasAccess
  BY DEF CompletionInv
<1> QED BY <1>1, CompletionInvariant, PTL

\* Only the Save at the end of its own handleSTKPush call (main.go:275) takes a
\* completed payment back.
LEMMA CompletedIsKept ==
  ASSUME CompletionInv, [Next]_vars, NEW c \in Checkouts,
         payments[c].status = "completed", stk[c] # "link", Agreed(c)
  PROVE  payments'[c].status = "completed"
<1>1. /\ TypeOK /\ stk[c] # "record" /\ ~Reported(c, "declined")
  BY DEF CompletionInv, AccessInv, RowsInOrder, BeforePayment, CompletedIsReported, Agreed
<1>2. ASSUME NEW e \in Checkouts, RecordPayment(e) \/ LinkPayment(e)
      PROVE  payments'[c].status = "completed"
  BY <1>1, <1>2 DEF TypeOK, RecordPayment, LinkPayment, StkStep
<1>3. ASSUME NEW d \in Deliveries, SavePayment(d)
      PROVE  payments'[c].status = "completed"
  <2>1. cb[d] = "save" /\ report[d] \in {"paid", "declined"}
    BY <1>3 DEF SavePayment, CbStep, CompletionInv, CallbackIsDecided, CbRunning
  <2>2. d[1] = c => report[d] = "paid"
    BY <1>1, <2>1, ReportedBy
  <2> QED BY <1>1, <1>3, <2>2, DeliveryOfCheckout DEF TypeOK, SavePayment, Verdict
<1>4. ASSUME NEW e \in Checkouts,
             \/ RejectRequest(e) \/ PushReal(e) \/ PushMock(e) \/ FindPlan(e)
             \/ FindDevice(e) \/ CreateDevice(e) \/ CreateSession(e) \/ SaveDisconnected(e)
      PROVE  payments' = payments
  BY <1>4
  DEF RejectRequest, PushReal, PushMock, FindPlan, FindDevice, CreateDevice,
      CreateSession, SaveDisconnected, tables
<1>5. ASSUME NEW d \in Deliveries,
             \/ DeliverReal(d) \/ DeliverMock(d) \/ ActivateSession(d) \/ StartNotify(d)
             \/ FailSession(d) \/ PublishUpdate(d) \/ SendNotify(d)
      PROVE  payments' = payments
  BY <1>5
  DEF DeliverReal, DeliverMock, LoadPayment, ActivateSession, StartNotify,
      FailSession, PublishUpdate, SendNotify, tables
<1>6. ASSUME NEW p \in Plans, DeletePlan(p) PROVE payments' = payments
  BY <1>6 DEF DeletePlan
<1>7. CASE Crash  BY <1>7 DEF Crash, tables
<1>8. CASE UNCHANGED vars  BY <1>8 DEF vars
<1> QED
  BY <1>2, <1>3, <1>4, <1>5, <1>6, <1>7, <1>8
  DEF Next, ServiceNext, GatewayNext, StkHandler, CallbackHandler

\* A completed payment stays completed until that Save, as long as its callbacks
\* agree: no repeated or late one, failed statement or crash takes it back.
THEOREM CompletionIsKept == Spec => CompletedStays
<1>1. CompletionInv /\ [Next]_vars =>
        [\A c \in Checkouts :
           payments[c].status = "completed" /\ stk[c] # "link" /\ Agreed(c)
             => payments'[c].status = "completed"]_vars
  BY CompletedIsKept
<1> QED BY <1>1, CompletionInvariant, PTL DEF Spec, CompletedStays

-----------------------------------------------------------------------------
(***************************************************************************)
(* Sessions                                                                *)
(*                                                                         *)
(* A session exists from CreateSession on, so whoever has read a payment   *)
(* that names one finds it; and a session failed by a callback that said   *)
(* payment was refused.                                                    *)
(***************************************************************************)
AnsweredHasSession ==
  \A c \in Checkouts : stk[c] \in {"link", "answered"} => sessions[c] # "none"

FailedIsDeclined ==
  \A c \in Checkouts : sessions[c] = "failed" => Reported(c, "declined")

\* The plan of a session is there, and so are the rows made before it.
SessionInv ==
  /\ CompletionInv /\ DeviceBehindSession /\ AnsweredHasSession /\ FailedIsDeclined
  /\ \A c \in Checkouts : sessions[c] # "none" => request[c].plan \in plans
  /\ \A c \in Checkouts :
       stk[c] \in {"plan", "device", "newdevice", "session", "link"} \/ sessions[c] # "none"
         => payments[c].status # "none"

LEMMA SessionInit == Init => SessionInv
BY CompletionInit, DeviceInit
DEF Init, SessionInv, AnsweredHasSession, FailedIsDeclined

\* The order in which the table is written.
LEMMA LifecycleStep ==
  ASSUME SessionInv, [Next]_vars, NEW c \in Checkouts
  PROVE  \/ sessions'[c] = sessions[c]
         \/ /\ sessions[c] = "none" /\ sessions'[c] = "inactive"
            /\ stk[c] = "session" /\ request[c].plan \in plans
         \/ sessions[c] = "inactive" /\ sessions'[c] = "active" /\ Reported(c, "paid")
         \/ sessions[c] = "disconnected" /\ sessions'[c] = "active" /\ ReportedTwice(c)
         \/ sessions[c] = "inactive" /\ sessions'[c] = "failed" /\ Reported(c, "declined")
         \/ sessions[c] = "active" /\ sessions'[c] = "disconnected"
         \/ /\ sessions[c] \notin {"none", "inactive"}
            /\ sessions'[c] \notin {"none", "inactive"}
            /\ ~Agreed(c)
<1>0. /\ TypeOK /\ sessions[c] \in SessionStatus
      /\ stk[c] = "session" => sessions[c] = "none"
      /\ stk[c] = "answered" => sessions[c] # "none"
      /\ sessions[c] = "failed" => Reported(c, "declined")
      /\ Activated(c) => \E a \in Deliveries : a[1] = c /\ TakenForPaid(a)
      /\ \A a \in Deliveries : a[1] = c /\ TakenForPaid(a) => Reported(c, "paid")
      /\ Reported(c, "paid") /\ Reported(c, "declined") => ~Agreed(c)
  BY ReportedBy
  DEF SessionInv, CompletionInv, AccessInv, TypeOK, AccessOnlyIfReported, TakenForPaid,
      RowsInOrder, BeforeSession, AnsweredHasSession, FailedIsDeclined, Agreed
<1>1. ASSUME NEW e \in Checkouts, CreateSession(e)
      PROVE  \/ sessions'[c] = sessions[c]
             \/ /\ sessions[c] = "none" /\ sessions'[c] = "inactive"
                /\ stk[c] = "session" /\ request[c].plan \in plans
  BY <1>0, <1>1 DEF CreateSession, StkStep, TypeOK
<1>2. ASSUME NEW e \in Checkouts, SaveDisconnected(e)
      PROVE  \/ sessions'[c] = sessions[c]
             \/ sessions[c] = "active" /\ sessions'[c] = "disconnected"
             \/ sessions[c] = "failed" /\ sessions'[c] = "disconnected" /\ ~Agreed(c)
  BY <1>0, <1>2 DEF SaveDisconnected, Activated, TypeOK
<1>3. ASSUME NEW d \in Deliveries, ActivateSession(d) \/ FailSession(d), d[1] # c
      PROVE  sessions'[c] = sessions[c]
  BY <1>0, <1>3 DEF ActivateSession, FailSession, TypeOK
<1>4. ASSUME NEW d \in Deliveries, ActivateSession(d) \/ FailSession(d), d[1] = c
      PROVE  cb[d] = "session" /\ sessions[c] # "none"
  <2>1. cb[d] = "session"
    BY <1>4 DEF ActivateSession, FailSession, CbStep
  <2>2. readLinked[d]
    BY <2>1 DEF SessionInv, CompletionInv, AccessInv, NotifierIsPaid
  <2> QED BY <1>0, <1>4, <2>1, <2>2 DEF SessionInv, CompletionInv, LinkedIsAnswered
<1>5. ASSUME NEW d \in Deliveries, ActivateSession(d), d[1] = c, sessions'[c] # sessions[c]
      PROVE  /\ sessions'[c] = "active" /\ Reported(c, "paid")
             /\ sessions[c] = "disconnected" => ReportedTwice(c)
  <2>1. report[d] = "paid" /\ sessions'[c] = "active"
    BY <1>0, <1>5 DEF ActivateSession, TypeOK
  <2>2. ASSUME sessions[c] = "disconnected" PROVE ReportedTwice(c)
    <3>1. PICK a \in Deliveries : a[1] = c /\ TakenForPaid(a)
      BY <1>0, <2>2 DEF Activated
    <3>2. a # d /\ report[a] = "paid"
      BY <1>4, <1>5, <3>1 DEF TakenForPaid
    <3> QED BY <1>5, <2>1, <3>1, <3>2 DEF ReportedTwice
  <2> QED BY <1>5, <2>1, <2>2, ReportedBy
<1>6. ASSUME NEW d \in Deliveries, FailSession(d), d[1] = c, sessions'[c] # sessions[c]
      PROVE  sessions'[c] = "failed" /\ Reported(c, "declined")
  BY <1>0, <1>6, ReportedBy DEF FailSession, TypeOK
<1>7. CASE \E d \in Deliveries : d[1] = c /\ ActivateSession(d)
  BY <1>0, <1>4, <1>5, <1>7 DEF SessionStatus
<1>8. CASE \E d \in Deliveries : d[1] = c /\ FailSession(d)
  BY <1>0, <1>4, <1>6, <1>8 DEF SessionStatus, Activated
<1> QED BY <1>1, <1>2, <1>3, <1>7, <1>8, SessionsChange

\* handleSTKPush comes to each of its statements from the one before.
LEMMA StkComesFrom ==
  ASSUME TypeOK, [Next]_vars, NEW c \in Checkouts
  PROVE  /\ stk'[c] \in {"plan", "device", "newdevice", "session", "link"} =>
              \/ stk[c] \in {"plan", "device", "newdevice", "session", "link"}
              \/ payments'[c].status # "none"
         /\ stk'[c] \in {"link", "answered"} =>
              stk[c] \in {"link", "answered"} \/ sessions'[c] # "none"
<1> USE DEF TypeOK, StkStep
<1>1. ASSUME NEW e \in Checkouts,
             \/ RejectRequest(e) \/ PushReal(e) \/ PushMock(e) \/ FindPlan(e)
             \/ FindDevice(e) \/ CreateDevice(e) \/ LinkPayment(e)
             \/ SaveDisconnected(e)
      PROVE  /\ stk'[c] \in {"plan", "device", "newdevice", "session", "link"} =>
                  stk[c] \in {"plan", "device", "newdevice", "session", "link"}
             /\ stk'[c] \in {"link", "answered"} => stk[c] \in {"link", "answered"}
  BY <1>1
  DEF RejectRequest, PushReal, PushMock, FindPlan, FindDevice, CreateDevice, LinkPayment,
      SaveDisconnected
<1>2. ASSUME NEW e \in Checkouts, RecordPayment(e)
      PROVE  /\ stk'[c] \in {"plan", "device", "newdevice", "session", "link"} =>
                  \/ stk[c] \in {"plan", "device", "newdevice", "session", "link"}
                  \/ payments'[c].status # "none"
             /\ stk'[c] \in {"link", "answered"} => stk[c] \in {"link", "answered"}
  BY <1>2 DEF RecordPayment
<1>3. ASSUME NEW e \in Checkouts, CreateSession(e)
      PROVE  /\ stk'[c] \in {"plan", "device", "newdevice", "session", "link"} =>
                  stk[c] \in {"plan", "device", "newdevice", "session", "link"}
             /\ stk'[c] \in {"link", "answered"} =>
                  stk[c] \in {"link", "answered"} \/ sessions'[c] # "none"
  BY <1>3 DEF CreateSession
<1>4. ASSUME NEW d \in Deliveries,
             DeliverReal(d) \/ DeliverMock(d) \/ CallbackHandler(d) \/ SendNotify(d)
      PROVE  stk' = stk
  BY <1>4
  DEF DeliverReal, DeliverMock, LoadPayment, CallbackHandler, ActivateSession,
      StartNotify, FailSession, SavePayment, PublishUpdate, SendNotify
<1>5. ASSUME NEW p \in Plans, DeletePlan(p) PROVE stk' = stk
  BY <1>5 DEF DeletePlan
<1>6. CASE Crash \/ UNCHANGED vars
  BY <1>6 DEF Crash, StkRunning, vars
<1> QED
  BY <1>1, <1>2, <1>3, <1>4, <1>5, <1>6 DEF Next, ServiceNext, GatewayNext, StkHandler

\* A payment that was recorded is never unrecorded.
LEMMA RecordIsKept ==
  ASSUME TypeOK, [Next]_vars, NEW c \in Checkouts, payments[c].status # "none"
  PROVE  payments'[c].status # "none"
<1> USE DEF TypeOK
<1>1. ASSUME NEW e \in Checkouts, RecordPayment(e) \/ LinkPayment(e)
      PROVE  payments'[c].status # "none"
  BY <1>1 DEF RecordPayment, LinkPayment
<1>2. ASSUME NEW d \in Deliveries, SavePayment(d)
      PROVE  payments'[c].status # "none"
  BY <1>2 DEF SavePayment, Verdict
<1>3. ASSUME NEW e \in Checkouts,
             \/ RejectRequest(e) \/ PushReal(e) \/ PushMock(e) \/ FindPlan(e)
             \/ FindDevice(e) \/ CreateDevice(e) \/ CreateSession(e) \/ SaveDisconnected(e)
      PROVE  payments' = payments
  BY <1>3
  DEF RejectRequest, PushReal, PushMock, FindPlan, FindDevice, CreateDevice,
      CreateSession, SaveDisconnected, tables
<1>4. ASSUME NEW d \in Deliveries,
             \/ DeliverReal(d) \/ DeliverMock(d) \/ ActivateSession(d) \/ StartNotify(d)
             \/ FailSession(d) \/ PublishUpdate(d) \/ SendNotify(d)
      PROVE  payments' = payments
  BY <1>4
  DEF DeliverReal, DeliverMock, LoadPayment, ActivateSession, StartNotify,
      FailSession, PublishUpdate, SendNotify, tables
<1>5. ASSUME NEW p \in Plans, DeletePlan(p) PROVE payments' = payments
  BY <1>5 DEF DeletePlan
<1>6. CASE Crash \/ UNCHANGED vars
  BY <1>6 DEF Crash, tables, vars
<1> QED
  BY <1>1, <1>2, <1>3, <1>4, <1>5, <1>6
  DEF Next, ServiceNext, GatewayNext, StkHandler, CallbackHandler

\* A plan goes only where no session names it.
LEMMA PlansGo ==
  ASSUME [Next]_vars
  PROVE  \/ UNCHANGED plans
         \/ /\ UNCHANGED sessions
            /\ \A c \in Checkouts :
                 sessions[c] # "none" /\ request[c].plan \in plans => request[c].plan \in plans'
<1>1. ASSUME NEW c \in Checkouts,
             \/ RejectRequest(c) \/ PushReal(c) \/ PushMock(c) \/ StkHandler(c)
             \/ SaveDisconnected(c)
      PROVE  UNCHANGED plans
  BY <1>1
  DEF RejectRequest, PushReal, PushMock, StkHandler, RecordPayment, FindPlan, FindDevice,
      CreateDevice, CreateSession, LinkPayment, SaveDisconnected, tables
<1>2. ASSUME NEW d \in Deliveries,
             DeliverReal(d) \/ DeliverMock(d) \/ CallbackHandler(d) \/ SendNotify(d)
      PROVE  UNCHANGED plans
  BY <1>2
  DEF DeliverReal, DeliverMock, LoadPayment, CallbackHandler, ActivateSession,
      StartNotify, FailSession, SavePayment, PublishUpdate, SendNotify, tables
<1>3. ASSUME NEW p \in Plans, DeletePlan(p)
      PROVE  /\ UNCHANGED sessions
             /\ \A c \in Checkouts :
                  sessions[c] # "none" /\ request[c].plan \in plans => request[c].plan \in plans'
  BY <1>3 DEF DeletePlan
<1>4. CASE Crash \/ UNCHANGED vars
  BY <1>4 DEF Crash, tables, vars
<1> QED BY <1>1, <1>2, <1>3, <1>4 DEF Next, ServiceNext, GatewayNext

\* Failures that happened are not forgotten.
LEMMA FailuresCount ==
  ASSUME TypeOK, [Next]_vars
  PROVE  (faults' = 0 => faults = 0) /\ (crashes' = 0 => crashes = 0)
<1> USE BoundsAssumption DEF TypeOK, Fault, limits
<1>1. ASSUME NEW c \in Checkouts,
             \/ RejectRequest(c) \/ PushReal(c) \/ PushMock(c) \/ StkHandler(c)
             \/ SaveDisconnected(c)
      PROVE  (faults' = 0 => faults = 0) /\ UNCHANGED crashes
  BY <1>1
  DEF RejectRequest, PushReal, PushMock, StkHandler, RecordPayment, FindPlan, FindDevice,
      CreateDevice, CreateSession, LinkPayment, SaveDisconnected
<1>2. ASSUME NEW d \in Deliveries,
             \/ DeliverReal(d) \/ DeliverMock(d) \/ CallbackHandler(d) \/ SendNotify(d)
      PROVE  (faults' = 0 => faults = 0) /\ UNCHANGED crashes
  BY <1>2
  DEF DeliverReal, DeliverMock, LoadPayment, CallbackHandler, ActivateSession,
      StartNotify, FailSession, SavePayment, PublishUpdate, SendNotify
<1>3. ASSUME NEW p \in Plans, DeletePlan(p)
      PROVE  UNCHANGED <<faults, crashes>>
  BY <1>3 DEF DeletePlan
<1>4. CASE Crash \/ UNCHANGED vars
  BY <1>4 DEF Crash, vars
<1> QED BY <1>1, <1>2, <1>3, <1>4 DEF Next, ServiceNext, GatewayNext

LEMMA SessionStep == ASSUME SessionInv, [Next]_vars PROVE SessionInv'
<1>0. /\ CompletionInv /\ CompletionInv' /\ DeviceBehindSession' /\ TypeOK
      /\ request' = request
  BY CompletionStep, DeviceStep, RequestIsKept DEF SessionInv, CompletionInv, AccessInv
<1> SUFFICES ASSUME NEW c \in Checkouts
             PROVE  /\ stk'[c] \in {"link", "answered"} => sessions'[c] # "none"
                    /\ sessions'[c] = "failed" => Reported(c, "declined")'
                    /\ sessions'[c] # "none" => request[c].plan \in plans'
                    /\ \/ stk'[c] \in {"plan", "device", "newdevice", "session", "link"}
                       \/ sessions'[c] # "none"
                       => payments'[c].status # "none"
  BY <1>0 DEF SessionInv, AnsweredHasSession, FailedIsDeclined
<1>1. /\ stk[c] \in {"link", "answered"} => sessions[c] # "none"
      /\ sessions[c] = "failed" => Reported(c, "declined")
      /\ sessions[c] # "none" => request[c].plan \in plans
      /\ \/ stk[c] \in {"plan", "device", "newdevice", "session", "link"}
         \/ sessions[c] # "none"
         => payments[c].status # "none"
  BY DEF SessionInv, AnsweredHasSession, FailedIsDeclined
<1>2. sessions[c] # "none" => sessions'[c] # "none"
  BY LifecycleStep
<1>3. stk'[c] \in {"link", "answered"} => sessions'[c] # "none"
  BY <1>0, <1>1, <1>2, StkComesFrom
<1>4. sessions'[c] = "failed" => Reported(c, "declined")'
  <2>1. sessions'[c] = "failed" => Reported(c, "declined")
    BY <1>1, LifecycleStep DEF Agreed
  <2> QED BY <1>0, <2>1, ReportsGrow DEF CompletionInv, AccessInv
<1>5. sessions'[c] # "none" => request[c].plan \in plans'
  BY <1>1, LifecycleStep, PlansGo
<1>6. \/ stk'[c] \in {"plan", "device", "newdevice", "session", "link"}
      \/ sessions'[c] # "none"
      => payments'[c].status # "none"
  BY <1>0, <1>1, LifecycleStep, StkComesFrom, RecordIsKept
<1> QED BY <1>3, <1>4, <1>5, <1>6

\* A session is switched on only where payment was reported and fails only where
\* it was refused; it is cut off only while it is on, and comes on again only by
\* a repeated callback; and only callbacks that contradict each other switch it
\* between on and failed (main.go:324-343, handlers.go:248).
THEOREM SessionsLive == Spec => SessionLifecycle
<1>1. SessionInv /\ [Next]_vars =>
        [\A c \in Checkouts :
           \/ sessions'[c] = sessions[c]
           \/ sessions[c] = "none" /\ sessions'[c] = "inactive"
           \/ sessions[c] = "inactive" /\ sessions'[c] = "active" /\ Reported(c, "paid")
           \/ sessions[c] = "disconnected" /\ sessions'[c] = "active" /\ ReportedTwice(c)
           \/ sessions[c] = "inactive" /\ sessions'[c] = "failed" /\ Reported(c, "declined")
           \/ sessions[c] = "active" /\ sessions'[c] = "disconnected"
           \/ /\ sessions[c] \notin {"none", "inactive"}
              /\ sessions'[c] \notin {"none", "inactive"}
              /\ ~Agreed(c)]_vars
  BY LifecycleStep
<1>2. SessionInv /\ [Next]_vars => SessionInv'
  BY SessionStep
<1> QED BY SessionInit, <1>1, <1>2, PTL DEF Spec, SessionLifecycle

\* The plan, the device and the payment of a session are there whatever is
\* deleted, refused or interrupted (main.go:230-275, handlers.go:281,304).
THEOREM SessionsHaveTheirRows == Spec => []SessionsAreBacked
<1>1. SessionInv => SessionsAreBacked
  BY DEF SessionInv, DeviceBehindSession, SessionsAreBacked
<1>2. SessionInv /\ [Next]_vars => SessionInv'
  BY SessionStep
<1> QED BY SessionInit, <1>1, <1>2, PTL DEF Spec

-----------------------------------------------------------------------------
(***************************************************************************)
(* Confirmations                                                           *)
(*                                                                         *)
(* ConfirmedIsActivated fails in the real flow because a callback can be   *)
(* handled before the payment is linked.  That is its only way to fail:    *)
(* the callback that found the payment linked did switch the session on,   *)
(* and only one that contradicts it switches it off.                       *)
(***************************************************************************)
Handled == {"notify", "save", "publish", "done"}

\* A callback that was handled brought a verdict, and one that reported payment
\* and found the session has switched it on.
HandledInv ==
  /\ CompletionInv
  /\ \A d \in Deliveries : cb[d] \in Handled => report[d] \in {"paid", "declined"}
  /\ faults = 0 =>
       \A d \in Deliveries :
         cb[d] \in Handled /\ readLinked[d] /\ report[d] = "paid" /\ Agreed(d[1])
           => Activated(d[1])

LEMMA HandledInit == Init => HandledInv
BY CompletionInit DEF Init, HandledInv, Handled

\* How a callback gets past its session.
LEMMA PastSession ==
  ASSUME TypeOK, [Next]_vars, NEW d \in Deliveries, cb[d] = "session", cb'[d] # "session"
  PROVE  ActivateSession(d) \/ FailSession(d) \/ Crash
<1> USE DeliveryOfCheckout DEF TypeOK, CbStep
<1>1. ASSUME NEW c \in Checkouts,
             \/ RejectRequest(c) \/ PushReal(c) \/ PushMock(c) \/ StkHandler(c)
             \/ SaveDisconnected(c)
      PROVE  FALSE
  BY <1>1
  DEF RejectRequest, PushReal, PushMock, StkHandler, RecordPayment, FindPlan, FindDevice,
      CreateDevice, CreateSession, LinkPayment, SaveDisconnected
<1>2. ASSUME NEW e \in Deliveries,
             \/ DeliverReal(e) \/ DeliverMock(e) \/ CallbackHandler(e) \/ SendNotify(e)
      PROVE  ActivateSession(d) \/ FailSession(d)
  <2>1. CASE e = d
    BY <1>2, <2>1
    DEF DeliverReal, DeliverMock, LoadPayment, CallbackHandler, StartNotify, SavePayment,
        PublishUpdate, SendNotify
  <2>2. CASE e # d
    BY <1>2, <2>2
    DEF DeliverReal, DeliverMock, LoadPayment, CallbackHandler, ActivateSession,
        StartNotify, FailSession, SavePayment, PublishUpdate, SendNotify
  <2> QED BY <2>1, <2>2
<1>3. ASSUME NEW p \in Plans, DeletePlan(p) PROVE FALSE
  BY <1>3 DEF DeletePlan
<1>4. CASE UNCHANGED vars
  BY <1>4 DEF vars
<1> QED BY <1>1, <1>2, <1>3, <1>4 DEF Next, ServiceNext, GatewayNext

\* While nothing fails, a callback taken for paid is one about to notify.
LEMMA TakenBy ==
  ASSUME AccessInv, [Next]_vars, NEW d \in Deliveries, ~TakenForPaid(d), TakenForPaid(d)',
         faults' = 0, crashes' = crashes
  PROVE  cb'[d] = "notify"
<1>0. TypeOK /\ UnreadIsNone
  BY DEF AccessInv
<1>1. cb[d] = "session" /\ cb'[d] # "session" /\ report[d] = "paid"
  BY <1>0, CallbackMoves DEF TakenForPaid, UnreadIsNone
<1>2. ~FailSession(d) /\ ~Crash
  BY <1>0, <1>1, BoundsAssumption DEF FailSession, Crash, TypeOK
<1>3. ActivateSession(d)
  BY <1>0, <1>1, <1>2, PastSession
<1> QED BY <1>0, <1>3, BoundsAssumption DEF ActivateSession, CbStep, Fault, TypeOK

LEMMA HandledStep == ASSUME HandledInv, [Next]_vars PROVE HandledInv'
<1>0. /\ CompletionInv /\ CompletionInv' /\ TypeOK
      /\ \A c \in Checkouts : Agreed(c)' => Agreed(c)
      /\ \A c \in Checkouts : Activated(c) /\ Agreed(c)' => Activated(c)'
      /\ faults' = 0 => faults = 0
  BY CompletionStep, ReportsGrow, ActivationIsKept, FailuresCount
  DEF HandledInv, CompletionInv, AccessInv
<1> SUFFICES ASSUME NEW d \in Deliveries, cb'[d] \in Handled
             PROVE  /\ report'[d] \in {"paid", "declined"}
                    /\ faults' = 0 /\ readLinked'[d] /\ report'[d] = "paid" /\ Agreed(d[1])'
                         => Activated(d[1])'
  BY <1>0 DEF HandledInv
<1>1. \/ cb[d] \in Handled /\ readLinked'[d] = readLinked[d] /\ report'[d] = report[d]
      \/ cb[d] = "session" /\ readLinked'[d] = readLinked[d] /\ report'[d] = report[d]
      \/ cb[d] = "idle" /\ ~readLinked'[d] /\ report'[d] \in {"paid", "declined"}
  BY <1>0, CallbackMoves DEF Handled, CbRunning
<1>2. CASE cb[d] \in Handled /\ readLinked'[d] = readLinked[d] /\ report'[d] = report[d]
  BY <1>0, <1>2, DeliveryOfCheckout DEF HandledInv
<1>3. CASE cb[d] = "session" /\ readLinked'[d] = readLinked[d] /\ report'[d] = report[d]
  <2>1. CASE ActivateSession(d)
    <3>1. report[d] = "paid"
      BY <2>1 DEF ActivateSession
    <3>2. faults' = 0 => sessions'[d[1]] = "active"
      BY <1>0, <2>1, BoundsAssumption, DeliveryOfCheckout DEF ActivateSession, Fault, TypeOK
    <3> QED BY <1>3, <3>1, <3>2 DEF Activated
  <2>2. CASE FailSession(d)
    BY <1>3, <2>2 DEF FailSession
  <2>3. CASE Crash
    BY <1>3, <2>3 DEF Crash, Handled, CbRunning
  <2> QED BY <1>0, <1>3, <2>1, <2>2, <2>3, PastSession DEF Handled
<1> QED BY <1>1, <1>2, <1>3

\* A callback that reports payment and found the payment linked has switched
\* the session on (main.go:324-336), while no statement failed and no other
\* callback contradicts it; what else goes wrong in the real flow is only the
\* callback handled before the link.
THEOREM LinkedConfirmationActivates ==
  Spec => [](faults = 0 =>
               \A d \in Deliveries :
                 cb[d] = "done" /\ readLinked[d] /\ report[d] = "paid" /\ Agreed(d[1])
                   => Activated(d[1]))
<1>1. HandledInv =>
        (faults = 0 =>
           \A d \in Deliveries :
             cb[d] = "done" /\ readLinked[d] /\ report[d] = "paid" /\ Agreed(d[1])
               => Activated(d[1]))
  BY DEF HandledInv, Handled
<1>2. HandledInv /\ [Next]_vars => HandledInv'
  BY HandledStep
<1> QED BY HandledInit, <1>1, <1>2, PTL DEF Spec

-----------------------------------------------------------------------------
(***************************************************************************)
(* The mock flow                                                           *)
(*                                                                         *)
(* Without credentials the callback of a push is posted once, and only     *)
(* after the last write of handleSTKPush, so what the real flow can get    *)
(* wrong holds here.                                                       *)
(***************************************************************************)
OneCallback ==
  /\ \A c \in mock : stk[c] = "answered"
  /\ \A d \in Deliveries : cb[d] # "idle" =>
       /\ d[1] \notin mock /\ stk[d[1]] = "answered"
       /\ \A e \in Deliveries : e[1] = d[1] /\ cb[e] # "idle" => e = d

\* Its session is off until then, and never failed.
OffUntilCallback ==
  /\ \A c \in Checkouts : sessions[c] # "failed"
  /\ \A c \in Checkouts : Activated(c) => stk[c] = "answered" /\ c \notin mock
  /\ \A d \in Deliveries : cb[d] = "session" => ~Activated(d[1])

CompletedIsAnswered ==
  \A c \in Checkouts : payments[c].status = "completed" => stk[c] = "answered"

\* Where no statement fails each step finds what the one before it wrote.
StepsInOrder ==
  faults = 0 =>
    /\ \A c \in Checkouts : stk[c] = "answered" =>
         payments[c].linked /\ payments[c].status # "none"
    /\ \A d \in Deliveries :
         /\ cb[d] # "notfound"
         /\ cb[d] \in CbRunning => readLinked[d]
         /\ cb[d] \in {"notify", "save", "publish", "done"} => Activated(d[1])
         /\ cb[d] \in {"publish", "done"} => payments[d[1]].status = "completed"
    /\ \A c \in Checkouts : <<c, "completed">> \in published =>
         stk[c] = "answered" /\ Activated(c) /\ payments[c].status = "completed"

MockInv ==
  CompletionInv /\ OneCallback /\ OffUntilCallback /\ CompletedIsAnswered /\ StepsInOrder

LEMMA MockInit == Init => MockInv
<1> SUFFICES ASSUME Init PROVE MockInv
  OBVIOUS
<1>1. OneCallback /\ OffUntilCallback /\ CompletedIsAnswered
  BY DeliveryOfCheckout
  DEF Init, OneCallback, OffUntilCallback, CompletedIsAnswered, Activated
<1>2. StepsInOrder
  BY DEF Init, StepsInOrder, CbRunning
<1> QED BY <1>1, <1>2, CompletionInit DEF MockInv

\* The mock callback reports nothing but payment.
LEMMA MockAgrees ==
  ASSUME ~RealSTK, CompletionInv
  PROVE  \A c \in Checkouts : Agreed(c)
BY DEF CompletionInv, MockIsPaid, Agreed, Reported

LEMMA MockStk ==
  ASSUME ~RealSTK, MockInv, NEW c \in Checkouts,
         RejectRequest(c) \/ PushReal(c) \/ PushMock(c) \/ StkHandler(c)
  PROVE  OneCallback' /\ OffUntilCallback' /\ CompletedIsAnswered' /\ StepsInOrder'
<1> USE DeliveryOfCheckout
    DEF OneCallback, OffUntilCallback, CompletedIsAnswered, StepsInOrder, Activated,
        StkStep, tables, copies, limits
<1>0. /\ TypeOK /\ faults \in Nat
      /\ MockInv
  BY BoundsAssumption DEF MockInv, CompletionInv, AccessInv, TypeOK
<1> USE DEF TypeOK, MockInv
<1>1. CASE RejectRequest(c)  BY <1>0, <1>1 DEF RejectRequest
<1>2. CASE PushReal(c)       BY <1>2 DEF PushReal
<1>3. CASE PushMock(c)       BY <1>0, <1>3 DEF PushMock
<1>4. CASE RecordPayment(c)  BY <1>0, <1>4 DEF RecordPayment, Fault
<1>5. CASE FindPlan(c)       BY <1>0, <1>5 DEF FindPlan, Fault
<1>6. CASE FindDevice(c)     BY <1>0, <1>6 DEF FindDevice, Fault
<1>7. CASE CreateDevice(c)   BY <1>0, <1>7 DEF CreateDevice, Fault
<1>8. CASE CreateSession(c)  BY <1>0, <1>8 DEF CreateSession, Fault
<1>9. CASE LinkPayment(c)    BY <1>0, <1>9 DEF LinkPayment, Fault
<1> QED BY <1>1, <1>2, <1>3, <1>4, <1>5, <1>6, <1>7, <1>8, <1>9 DEF StkHandler

LEMMA MockCallback ==
  ASSUME ~RealSTK, MockInv, NEW d \in Deliveries,
         DeliverReal(d) \/ DeliverMock(d) \/ CallbackHandler(d) \/ SendNotify(d)
  PROVE  OneCallback' /\ OffUntilCallback' /\ CompletedIsAnswered' /\ StepsInOrder'
<1> USE DeliveryOfCheckout
    DEF OneCallback, OffUntilCallback, CompletedIsAnswered, StepsInOrder, Activated,
        CbStep, tables, copies, limits, CbRunning
<1>0. /\ TypeOK /\ faults \in Nat /\ MockInv
      /\ cb[d] \in CbRunning => report[d] = "paid"
  BY BoundsAssumption
  DEF MockInv, CompletionInv, AccessInv, MockIsPaid, CallbackIsDecided, TypeOK
<1> USE DEF TypeOK, MockInv
<1>1. CASE DeliverReal(d)      BY <1>1 DEF DeliverReal
<1>2. CASE DeliverMock(d)      BY <1>0, <1>2 DEF DeliverMock, LoadPayment, Fault
<1>3. CASE ActivateSession(d)  BY <1>0, <1>3 DEF ActivateSession, Fault
<1>4. CASE StartNotify(d)      BY <1>0, <1>4 DEF StartNotify, Fault
<1>5. CASE FailSession(d)      BY <1>0, <1>5 DEF FailSession
<1>6. CASE SavePayment(d)
  <2>1. /\ cb[d] = "save" /\ report[d] = "paid"
        /\ cb' = [cb EXCEPT ![d] = "publish"]
        /\ UNCHANGED <<sessions, stk, readLinked, mock, published>>
    BY <1>0, <1>6 DEF SavePayment
  <2>2. \/ /\ payments' = [payments EXCEPT
                 ![d[1]] = [status |-> "completed", linked |-> readLinked[d]]]
           /\ faults' = faults
        \/ faults' # 0 /\ UNCHANGED payments
    BY <1>0, <1>6, <2>1 DEF SavePayment, Verdict, Fault
  <2>3. OneCallback' /\ OffUntilCallback'
    BY <1>0, <2>1
  <2>4. CompletedIsAnswered'
    <3>1. stk[d[1]] = "answered"
      BY <1>0, <2>1
    <3>2. \A c \in Checkouts : c # d[1] => payments'[c] = payments[c]
      BY <1>0, <2>2
    <3> QED BY <1>0, <2>1, <3>1, <3>2
  <2>5. CASE faults' = 0
    <3>1. /\ faults = 0 /\ readLinked[d]
          /\ payments'[d[1]] = [status |-> "completed", linked |-> TRUE]
          /\ \A c \in Checkouts : c # d[1] => payments'[c] = payments[c]
      BY <1>0, <2>1, <2>2, <2>5
    <3>2. \A c \in Checkouts : stk'[c] = "answered" =>
            payments'[c].linked /\ payments'[c].status # "none"
      BY <1>0, <2>1, <3>1
    <3>3. \A e \in Deliveries : cb'[e] \in {"publish", "done"}
                                => payments'[e[1]].status = "completed"
      BY <1>0, <2>1, <3>1
    <3>4. \A c \in Checkouts : <<c, "completed">> \in published' =>
            stk'[c] = "answered" /\ Activated(c)' /\ payments'[c].status = "completed"
      BY <1>0, <2>1, <3>1
    <3> QED BY <1>0, <2>1, <3>1, <3>2, <3>3, <3>4
  <2> QED BY <2>3, <2>4, <2>5
<1>7. CASE PublishUpdate(d)    BY <1>0, <1>7 DEF PublishUpdate, Fault, Verdict
<1>8. CASE SendNotify(d)       BY <1>0, <1>8 DEF SendNotify
<1> QED BY <1>1, <1>2, <1>3, <1>4, <1>5, <1>6, <1>7, <1>8 DEF CallbackHandler

LEMMA MockStep == ASSUME ~RealSTK, MockInv, [Next]_vars PROVE MockInv'
<1> USE DeliveryOfCheckout
    DEF OneCallback, OffUntilCallback, CompletedIsAnswered, StepsInOrder, Activated,
        tables, copies, limits
<1>0. TypeOK /\ CompletionInv' /\ MockInv
  BY CompletionStep DEF MockInv, CompletionInv, AccessInv
<1> USE DEF MockInv, TypeOK
<1>1. ASSUME NEW c \in Checkouts, SaveDisconnected(c) PROVE MockInv'
  <2>1. Activated(c)
    BY <1>0, <1>1 DEF SaveDisconnected
  <2> QED BY <1>0, <1>1, <2>1 DEF SaveDisconnected
<1>2. ASSUME NEW p \in Plans, DeletePlan(p) PROVE MockInv'
  BY <1>0, <1>2 DEF DeletePlan
<1>3. CASE Crash  BY <1>0, <1>3 DEF Crash, StkRunning, CbRunning
<1>4. CASE UNCHANGED vars  BY <1>0, <1>4 DEF vars
<1> QED
  BY <1>0, <1>1, <1>2, <1>3, <1>4, MockStk, MockCallback
  DEF Next, ServiceNext, GatewayNext

\* In the mock flow the Save at the end of handleSTKPush comes before the
\* callback, so a completed payment is final, failed statements or not.
THEOREM MockCompletionIsFinal == ~RealSTK => (Spec => CompletedIsFinal)
<1> SUFFICES ASSUME ~RealSTK PROVE Spec => CompletedIsFinal
  OBVIOUS
<1>1. MockInv /\ [Next]_vars => MockInv'
  BY MockStep
<1>2. MockInv /\ [Next]_vars =>
        [\A c \in Checkouts :
           payments[c].status = "completed" => payments'[c].status = "completed"]_vars
  BY CompletedIsKept, MockAgrees DEF MockInv, CompletedIsAnswered
<1> QED BY MockInit, <1>1, <1>2, PTL DEF Spec, CompletedIsFinal

\* In the mock flow, while no statement fails, a payment that was confirmed has
\* switched its session on (main.go:266, 324-336), crashes or not.
THEOREM MockConfirmationActivates ==
  ~RealSTK /\ MaxFaults = 0 => (Spec => []ConfirmedIsActivated)
<1> SUFFICES ASSUME ~RealSTK, MaxFaults = 0 PROVE Spec => []ConfirmedIsActivated
  OBVIOUS
<1>1. MockInv /\ [Next]_vars => MockInv'
  BY MockStep
<1>2. MockInv => ConfirmedIsActivated
  BY DEF MockInv, CompletionInv, AccessInv, TypeOK, StepsInOrder, ConfirmedIsActivated,
         Activated
<1> QED BY MockInit, <1>1, <1>2, PTL DEF Spec

\* A disconnected session is switched on again by a second callback only.
LEMMA DisconnectedIsKept ==
  ASSUME ~RealSTK, MockInv, [Next]_vars, NEW c \in Checkouts, sessions[c] = "disconnected"
  PROVE  sessions'[c] = "disconnected"
<1>0. TypeOK /\ Activated(c) /\ stk[c] # "session"
  BY DEF MockInv, CompletionInv, AccessInv, OffUntilCallback, Activated
<1>1. ASSUME NEW e \in Checkouts, CreateSession(e) \/ SaveDisconnected(e)
      PROVE  sessions'[c] = "disconnected"
  BY <1>0, <1>1 DEF CreateSession, SaveDisconnected, StkStep, TypeOK
<1>2. ASSUME NEW d \in Deliveries, ActivateSession(d) \/ FailSession(d)
      PROVE  sessions'[c] = "disconnected"
  <2>1. cb[d] = "session" /\ d[1] # c
    BY <1>0, <1>2 DEF ActivateSession, FailSession, CbStep, MockInv, OffUntilCallback
  <2> QED BY <1>0, <1>2, <2>1 DEF ActivateSession, FailSession, TypeOK
<1> QED BY <1>1, <1>2, SessionsChange

=============================================================================
