---------------------------- MODULE ConsoleProofs ----------------------------
(***************************************************************************)
(* Proofs about Console, for any number of logins, sessions, clients of    *)
(* the hub, answers on their way and faults.                               *)
(***************************************************************************)
EXTENDS Console, TLAPS

-----------------------------------------------------------------------------
(***************************************************************************)
(* Type correctness                                                        *)
(***************************************************************************)
LEMMA AnswerTypes ==
  ASSUME sessions \in [Sessions -> Status], NEW t \in Logins
  PROVE  /\ Analytics(t) \in Dash!Answers
         /\ Analytics(t).login = t
         /\ Analytics(t).kind \in {"data", "unauthorized"}
         /\ Analytics(t).kind = "data" => Analytics(t).list = Active
         /\ Analytics(t).kind = "unauthorized" => ~Valid(t)
BY DEF Analytics, Active, Dash!Answers

LEMMA DashboardTypes == ASSUME TypeOK, DashboardStep PROVE Dash!TypeOK'
<1> USE DEF Dash!TypeOK, Dash!Socket
<1>0. Dash!TypeOK /\ sessions \in [Sessions -> Status]
  BY DEF TypeOK
<1>1. CASE SubmitLogin \/ LoginFails
  BY <1>0, <1>1 DEF SubmitLogin, LoginFails, Dash!SubmitLogin, Dash!LoginFails
<1>2. ASSUME Dash!HandleLogout, answers' \subseteq answers PROVE Dash!TypeOK'
  <2>1. socket' \in [Logins -> Dash!Socket]
    BY <1>0, <1>2 DEF Dash!HandleLogout, Dash!CleanUp
  <2>2. inbox' \subseteq {t \in Logins : socket'[t] = "joined"}
    <3> SUFFICES ASSUME NEW t \in inbox' PROVE t \in Logins /\ socket'[t] = "joined"
      OBVIOUS
    <3>1. t \in Logins /\ t # token /\ socket[t] = "joined"
      BY <1>0, <1>2 DEF Dash!HandleLogout
    <3> QED BY <1>0, <1>2, <3>1 DEF Dash!HandleLogout, Dash!CleanUp
  <2>3. token' = NoLogin /\ shown' = NoData /\ signing' = signing /\ wsConnected' = wsConnected
    BY <1>2 DEF Dash!HandleLogout
  <2>4. answers' \subseteq Dash!Answers
    BY <1>0, <1>2
  <2> QED BY <1>0, <2>1, <2>2, <2>3, <2>4
<1>3. CASE SignOut
  BY <1>2, <1>3 DEF SignOut, Dash!SignOut
<1>4. CASE Reload
  <2>1. PICK fetched \in SUBSET Dash!Answers : Dash!Reload(fetched)
    <3>1. CASE token = NoLogin
      BY <1>4, <3>1 DEF Reload
    <3>2. CASE token # NoLogin
      BY <1>0, <1>4, <3>2, AnswerTypes DEF Reload
    <3> QED BY <3>1, <3>2
  <2>2. socket' \in [Logins -> Dash!Socket]
    BY <2>1 DEF Dash!Reload
  <2>3. inbox' \subseteq {t \in Logins : socket'[t] = "joined"}
    BY <2>1 DEF Dash!Reload
  <2>4. /\ answers' \subseteq Dash!Answers
        /\ token' = token /\ shown' = NoData /\ signing' = FALSE /\ wsConnected' = FALSE
    BY <2>1 DEF Dash!Reload
  <2> QED BY <1>0, <2>2, <2>3, <2>4
<1>5. ASSUME NEW t \in Logins, LoggedIn(t) PROVE Dash!TypeOK'
  <2>1. [login |-> t, kind |-> "data", list |-> Active] \in Dash!Answers
    BY DEF Dash!Answers, Active
  <2> QED BY <1>0, <1>5, <2>1 DEF LoggedIn, Dash!LoggedIn
<1>6. ASSUME NEW t \in Logins, Poll(t) \/ OnMessage(t) PROVE Dash!TypeOK'
  BY <1>0, <1>6, AnswerTypes DEF Poll, OnMessage, Dash!Poll, Dash!OnMessage, Dash!FetchAnalytics
<1>7. ASSUME NEW a \in answers, Receive(a) PROVE Dash!TypeOK'
  <2>1. CASE a.kind = "unauthorized"
    BY <1>2, <1>7, <2>1 DEF Receive, Dash!Receive
  <2>2. CASE a.kind = "data"
    <3>1. a.list \in SUBSET Sessions
      BY <1>0, <2>2 DEF Dash!Answers
    <3> QED BY <1>0, <1>7, <2>2, <3>1 DEF Receive, Dash!Receive
  <2> QED BY <1>7, <2>1, <2>2 DEF Receive, Dash!Receive
<1>8. ASSUME NEW a \in answers, ReceiveFails(a) PROVE Dash!TypeOK'
  BY <1>0, <1>8 DEF ReceiveFails, Dash!ReceiveFails
<1>9. ASSUME NEW a \in answers, Disconnected(a) PROVE Dash!TypeOK'
  <2>1. a.login \in Logins
    BY <1>0 DEF Dash!Answers
  <2> QED BY <1>0, <1>9, <2>1, AnswerTypes DEF Disconnected, Dash!Disconnected
<1>10. ASSUME NEW s \in Sessions, Disconnect(s) PROVE Dash!TypeOK'
  <2>1. token # NoLogin => [login |-> token, kind |-> "revoked"] \in Dash!Answers
    BY <1>0 DEF Dash!Answers
  <2> QED BY <1>0, <1>10, <2>1 DEF Disconnect, Dash!Disconnect, Dash!FetchAnalytics, Dash!Rows
<1> QED BY <1>1, <1>3, <1>4, <1>5, <1>6, <1>7, <1>8, <1>9, <1>10 DEF DashboardStep

LEMMA SocketTypes == ASSUME TypeOK, SocketStep PROVE Dash!TypeOK'
<1> USE DEF Dash!TypeOK, Dash!Socket
<1>0. Dash!TypeOK
  BY DEF TypeOK
<1>1. ASSUME NEW t \in Logins, OnOpen(t) PROVE Dash!TypeOK'
  BY <1>0, <1>1 DEF OnOpen, Dash!OnOpen
<1>2. ASSUME NEW t \in Logins, Join(t) PROVE Dash!TypeOK'
  BY <1>0, <1>2 DEF Join, Dash!Joined
<1>3. ASSUME NEW t \in Logins, OnClose(t) PROVE Dash!TypeOK'
  BY <1>0, <1>3 DEF OnClose, Dash!OnClose
<1>4. ASSUME NEW t \in Logins, Reconnect(t) PROVE Dash!TypeOK'
  BY <1>0, <1>4 DEF Reconnect, Dash!Reconnect
<1>5. CASE StartBroadcast
  BY <1>0, <1>5 DEF StartBroadcast, dashVars
<1>6. ASSUME NEW t \in Logins, WriteToDashboard(t) PROVE Dash!TypeOK'
  BY <1>0, <1>6 DEF WriteToDashboard, Dash!Deliver
<1>7. ASSUME NEW o \in Others, WriteToOther(o) PROVE Dash!TypeOK'
  BY <1>0, <1>7 DEF WriteToOther, dashVars
<1> QED BY <1>1, <1>2, <1>3, <1>4, <1>5, <1>6, <1>7 DEF SocketStep

LEMMA HubTypes == ASSUME TypeOK, [Next]_vars PROVE Hub!TypeOK'
<1> USE DEF Hub!TypeOK, hubVars
<1>0. Hub!TypeOK
  BY DEF TypeOK
<1>1. ASSUME NEW s \in Sessions, Activate(s) PROVE Hub!TypeOK'
  BY <1>0, <1>1 DEF Activate, Hub!Publish
<1>2. ASSUME NEW t \in Logins, Expire(t) PROVE Hub!TypeOK'
  BY <1>0, <1>2 DEF Expire
<1>3. CASE DashboardStep
  <2>1. CASE Reload
    BY <1>0, <2>1 DEF Reload, Hub!Unregister
  <2>2. CASE UNCHANGED hubVars
    BY <1>0, <2>2
  <2> QED BY <1>3, <2>1, <2>2
       DEF DashboardStep, SubmitLogin, LoginFails, SignOut, LoggedIn, Poll, OnMessage,
           Receive, ReceiveFails, Disconnected, Disconnect
<1>4. CASE SocketStep
  <2>1. ASSUME NEW t \in Logins, Join(t) PROVE Hub!TypeOK'
    BY <1>0, <2>1 DEF Join, Hub!Register
  <2>2. ASSUME NEW t \in Logins, OnClose(t) PROVE Hub!TypeOK'
    BY <1>0, <2>2 DEF OnClose, Hub!Unregister
  <2>3. ASSUME NEW t \in Logins, OnOpen(t) \/ Reconnect(t) PROVE Hub!TypeOK'
    BY <1>0, <2>3 DEF OnOpen, Reconnect
  <2>4. CASE StartBroadcast
    BY <1>0, <2>4 DEF StartBroadcast, Hub!StartBroadcast
  <2>5. ASSUME NEW t \in Logins, WriteToDashboard(t) PROVE Hub!TypeOK'
    BY <1>0, <2>5 DEF WriteToDashboard, Hub!Write
  <2>6. ASSUME NEW o \in Others, WriteToOther(o) PROVE Hub!TypeOK'
    BY <1>0, <2>6 DEF WriteToOther, Hub!Write, Hub!WriteFails, Hub!Unregister
  <2> QED BY <1>4, <2>1, <2>2, <2>3, <2>4, <2>5, <2>6 DEF SocketStep
<1>5. CASE MobileStep
  BY <1>0, <1>5 DEF MobileStep, MobileFetch, MobileRevoke
<1>6. CASE UNCHANGED vars
  BY <1>0, <1>6 DEF vars
<1> QED BY <1>1, <1>2, <1>3, <1>4, <1>5, <1>6 DEF Next

LEMMA AppTypes == ASSUME TypeOK, [Next]_vars PROVE App!TypeOK'
<1> USE DEF App!TypeOK
<1>0. App!TypeOK
  BY DEF TypeOK
<1>1. CASE MobileFetch
  BY <1>0, <1>1 DEF MobileFetch, App!FetchTelemetry, AnalyticsWithoutToken
<1>2. ASSUME NEW s \in Sessions, MobileRevoke(s) PROVE App!TypeOK'
  BY <1>0, <1>2 DEF MobileRevoke, App!Revoke, MobileAllows
<1>3. CASE UNCHANGED listed
  BY <1>0, <1>3
<1>4. CASE DashboardStep
  BY <1>3, <1>4 DEF DashboardStep, SubmitLogin, LoginFails, SignOut, Reload, LoggedIn,
                    Poll, OnMessage, Receive, ReceiveFails, Disconnected, Disconnect
<1>5. CASE SocketStep
  BY <1>3, <1>5 DEF SocketStep, OnOpen, Join, OnClose, Reconnect, StartBroadcast,
                    WriteToDashboard, WriteToOther
<1> QED BY <1>1, <1>2, <1>3, <1>4, <1>5 DEF Next, MobileStep, Activate, Expire, vars

LEMMA GatewayTypes ==
  ASSUME TypeOK, [Next]_vars
  PROVE  /\ sessions' \in [Sessions -> Status]
         /\ issued' \subseteq Logins
         /\ expired' \subseteq issued'
<1> USE DEF Status
<1>0. sessions \in [Sessions -> Status] /\ issued \subseteq Logins /\ expired \subseteq issued
  BY DEF TypeOK
<1>1. ASSUME NEW s \in Sessions, Activate(s)
      PROVE  sessions' \in [Sessions -> Status] /\ UNCHANGED <<issued, expired>>
  BY <1>0, <1>1 DEF Activate
<1>2. ASSUME NEW t \in Logins, Expire(t)
      PROVE  UNCHANGED <<sessions, issued>> /\ expired' \subseteq issued
  BY <1>0, <1>2 DEF Expire
<1>3. ASSUME NEW t \in Logins, LoggedIn(t)
      PROVE  UNCHANGED <<sessions, expired>> /\ issued' = issued \cup {t}
  BY <1>3 DEF LoggedIn
<1>4. ASSUME NEW s \in Sessions, Disconnect(s) \/ MobileRevoke(s)
      PROVE  sessions' \in [Sessions -> Status] /\ UNCHANGED <<issued, expired>>
  BY <1>0, <1>4 DEF Disconnect, MobileRevoke, Cut
<1>5. CASE UNCHANGED dbVars
  BY <1>0, <1>5 DEF dbVars
<1>6. CASE DashboardStep
  BY <1>0, <1>3, <1>4, <1>5, <1>6
  DEF DashboardStep, SubmitLogin, LoginFails, SignOut, Reload, Poll, OnMessage,
      Receive, ReceiveFails, Disconnected
<1>7. CASE SocketStep
  BY <1>5, <1>7 DEF SocketStep, OnOpen, Join, OnClose, Reconnect, StartBroadcast,
                    WriteToDashboard, WriteToOther
<1>8. CASE MobileStep
  BY <1>0, <1>4, <1>5, <1>8 DEF MobileStep, MobileFetch
<1> QED BY <1>0, <1>1, <1>2, <1>5, <1>6, <1>7, <1>8 DEF Next, vars

LEMMA ReportTypes ==
  ASSUME TypeOK, [Next]_vars PROVE reported' \subseteq Sessions
<1>0. reported \subseteq Sessions /\ sessions \in [Sessions -> Status]
  BY DEF TypeOK
<1>1. ASSUME NEW t \in Logins, Report(Analytics(t)) PROVE reported' \subseteq Sessions
  BY <1>0, <1>1 DEF Report, Analytics, Active
<1>2. CASE UNCHANGED reported
  BY <1>0, <1>2
<1>3. ASSUME NEW t \in Logins, LoggedIn(t) PROVE reported' \subseteq Sessions
  BY <1>0, <1>3 DEF LoggedIn, Report, Active
<1>4. CASE Reload
  BY <1>1, <1>2, <1>4 DEF Reload, TypeOK, Dash!TypeOK
<1>5. ASSUME NEW a \in answers, Disconnected(a) PROVE reported' \subseteq Sessions
  <2>1. a.login \in Logins
    BY DEF TypeOK, Dash!TypeOK, Dash!Answers
  <2> QED BY <1>1, <1>5, <2>1 DEF Disconnected
<1>6. CASE DashboardStep
  BY <1>1, <1>2, <1>3, <1>4, <1>5, <1>6
  DEF DashboardStep, SubmitLogin, LoginFails, SignOut, Poll, OnMessage, Receive,
      ReceiveFails, Disconnect
<1>7. CASE SocketStep
  BY <1>2, <1>7 DEF SocketStep, OnOpen, Join, OnClose, Reconnect, StartBroadcast,
                    WriteToDashboard, WriteToOther
<1>8. CASE MobileStep
  BY <1>2, <1>8 DEF MobileStep, MobileFetch, MobileRevoke
<1> QED BY <1>2, <1>6, <1>7, <1>8 DEF Next, Activate, Expire, vars

LEMMA FaultTypes == ASSUME TypeOK, [Next]_vars PROVE faults' \in 0 .. MaxFaults
<1>0. faults \in 0 .. MaxFaults
  BY DEF TypeOK
<1>1. ASSUME Fault PROVE faults' \in 0 .. MaxFaults
  BY <1>0, <1>1, BoundsAssumption DEF Fault
<1>2. CASE UNCHANGED faults
  BY <1>0, <1>2
<1>3. CASE DashboardStep
  BY <1>1, <1>2, <1>3
  DEF DashboardStep, SubmitLogin, LoginFails, SignOut, Reload, LoggedIn, Poll,
      OnMessage, Receive, ReceiveFails, Disconnected, Disconnect
<1>4. CASE SocketStep
  BY <1>1, <1>2, <1>4 DEF SocketStep, OnOpen, Join, OnClose, Reconnect, StartBroadcast,
                          WriteToDashboard, WriteToOther
<1>5. CASE MobileStep
  BY <1>2, <1>5 DEF MobileStep, MobileFetch, MobileRevoke
<1> QED BY <1>2, <1>3, <1>4, <1>5 DEF Next, Activate, Expire, vars

LEMMA TypeStep == TypeOK /\ [Next]_vars => TypeOK'
<1> SUFFICES ASSUME TypeOK, [Next]_vars PROVE TypeOK'
  OBVIOUS
<1>1. Dash!TypeOK'
  <2>1. CASE UNCHANGED dashVars
    BY <2>1 DEF TypeOK, Dash!TypeOK, Dash!Socket, dashVars
  <2> QED BY <2>1, DashboardTypes, SocketTypes
       DEF Next, Activate, Expire, MobileStep, MobileFetch, MobileRevoke, vars
<1> QED BY <1>1, HubTypes, AppTypes, GatewayTypes, ReportTypes, FaultTypes DEF TypeOK

LEMMA TypeInit == Init => TypeOK
<1> SUFFICES ASSUME Init PROVE TypeOK
  OBVIOUS
<1>1. Dash!TypeOK
  BY DEF Init, Dash!Init, Dash!TypeOK, Dash!Socket
<1>2. Hub!TypeOK /\ App!TypeOK
  BY DEF Init, Hub!Init, App!Init, Hub!TypeOK, App!TypeOK
<1>3. /\ sessions \in [Sessions -> Status]
      /\ issued \subseteq Logins /\ expired \subseteq issued
      /\ reported \subseteq Sessions
  BY DEF Init, Status
<1>4. faults \in 0 .. MaxFaults
  BY BoundsAssumption DEF Init
<1> QED BY <1>1, <1>2, <1>3, <1>4 DEF TypeOK

\* Every variable of the gateway, of its hub and of the two applications keeps
\* to the values the code gives it.
THEOREM TypeCorrect == Spec => []TypeOK
BY TypeInit, TypeStep, PTL DEF Spec

-----------------------------------------------------------------------------
(***************************************************************************)
(* The indicator                                                           *)
(***************************************************************************)
Live(t) == socket[t] \in {"open", "joined", "closing"}

\* An event of a socket that goes on, or that opens it, leaves a live one.
LEMMA IndicatorStep ==
  TypeOK /\ IndicatorIsTruthful /\ [Next]_vars => IndicatorIsTruthful'
<1> SUFFICES ASSUME TypeOK, IndicatorIsTruthful, [Next]_vars PROVE IndicatorIsTruthful'
  OBVIOUS
<1> USE DEF IndicatorIsTruthful, Dash!IndicatorIsTruthful
<1>0. socket \in [Logins -> Dash!Socket]
  BY DEF TypeOK, Dash!TypeOK
<1>1. ASSUME wsConnected' = wsConnected,
             \A t \in Logins : Live(t) => Live(t)'
      PROVE  IndicatorIsTruthful'
  BY <1>1 DEF Live
<1>2. ASSUME Dash!HandleLogout PROVE IndicatorIsTruthful'
  BY <1>0, <1>1, <1>2 DEF Live, Dash!HandleLogout, Dash!CleanUp
<1>3. CASE UNCHANGED <<socket, wsConnected>>
  BY <1>1, <1>3 DEF Live
<1>4. CASE SignOut
  BY <1>2, <1>4 DEF SignOut, Dash!SignOut
<1>5. CASE Reload
  BY <1>5 DEF Reload, Dash!Reload
<1>6. ASSUME NEW t \in Logins, LoggedIn(t) PROVE IndicatorIsTruthful'
  BY <1>0, <1>1, <1>6 DEF LoggedIn, Dash!LoggedIn, Live
<1>7. ASSUME NEW a \in answers, Receive(a) PROVE IndicatorIsTruthful'
  BY <1>2, <1>3, <1>7 DEF Receive, Dash!Receive
<1>8. ASSUME NEW t \in Logins, OnOpen(t) PROVE IndicatorIsTruthful'
  BY <1>0, <1>8 DEF OnOpen, Dash!OnOpen
<1>9. ASSUME NEW t \in Logins, Join(t) \/ Reconnect(t) PROVE IndicatorIsTruthful'
  BY <1>0, <1>1, <1>9 DEF Join, Dash!Joined, Reconnect, Dash!Reconnect, Live
<1>10. ASSUME NEW t \in Logins, OnClose(t) PROVE IndicatorIsTruthful'
  BY <1>10 DEF OnClose, Dash!OnClose
<1>11. CASE DashboardStep
  BY <1>3, <1>4, <1>5, <1>6, <1>7, <1>11
  DEF DashboardStep, SubmitLogin, LoginFails, Poll, OnMessage, ReceiveFails,
      Disconnected, Disconnect, Dash!SubmitLogin, Dash!LoginFails, Dash!Poll,
      Dash!OnMessage, Dash!ReceiveFails, Dash!Disconnected, Dash!Disconnect
<1>12. CASE SocketStep
  BY <1>3, <1>8, <1>9, <1>10, <1>12
  DEF SocketStep, StartBroadcast, WriteToDashboard, WriteToOther, Dash!Deliver, dashVars
<1> QED BY <1>3, <1>11, <1>12
    DEF Next, Activate, Expire, MobileStep, MobileFetch, MobileRevoke, vars, dashVars

\* "Real-Time Sync Active" (App.tsx:495) is not shown when the sockets of all
\* logins of the page are gone, however many there have been.
THEOREM IndicatorTells == Spec => []IndicatorIsTruthful
<1>1. Init => IndicatorIsTruthful
  BY DEF Init, Dash!Init, IndicatorIsTruthful, Dash!IndicatorIsTruthful
<1> QED BY <1>1, TypeInit, TypeStep, IndicatorStep, PTL DEF Spec

-----------------------------------------------------------------------------
(***************************************************************************)
(* What is cut off                                                         *)
(***************************************************************************)
\* All that the page shows, or is about to be told, is what the gateway has
\* listed to it.
ToldInv ==
  /\ shown # NoData => shown \subseteq reported
  /\ \A a \in answers : a.kind = "data" => a.list \subseteq reported
  /\ CutWasReported

LEMMA ReportKeeps ==
  ASSUME NEW a, Report(a)
  PROVE  /\ reported \subseteq reported'
         /\ a.kind = "data" => a.list \subseteq reported'
BY DEF Report

LEMMA ToldStep == TypeOK /\ ToldInv /\ [Next]_vars => ToldInv'
<1> SUFFICES ASSUME TypeOK, ToldInv, [Next]_vars PROVE ToldInv'
  OBVIOUS
<1> USE DEF ToldInv, CutWasReported
<1>0. /\ sessions \in [Sessions -> Status]
      /\ answers \subseteq Dash!Answers
      /\ token \in Logins \cup {NoLogin}
  BY DEF TypeOK, Dash!TypeOK
\* A step that takes answers away, or forgets what is shown.
<1>1. ASSUME answers' \subseteq answers, shown' \in {shown, NoData},
             UNCHANGED <<sessions, reported>>
      PROVE  ToldInv'
  BY <1>1
\* One that brings a single answer more, which is reported.
<1>2. ASSUME NEW a, answers' \subseteq answers \cup {a}, Report(a),
             shown' \in {shown, NoData}, UNCHANGED sessions
      PROVE  ToldInv'
  <2>1. reported \subseteq reported' /\ (a.kind = "data" => a.list \subseteq reported')
    BY <1>2, ReportKeeps
  <2>2. shown' # NoData => shown' \subseteq reported'
    BY <1>2, <2>1
  <2>3. \A b \in answers' : b.kind = "data" => b.list \subseteq reported'
    BY <1>2, <2>1
  <2>4. CutWasReported'
    BY <1>2, <2>1
  <2> QED BY <2>2, <2>3, <2>4
<1>3. ASSUME NEW s \in Sessions, Activate(s) PROVE ToldInv'
  BY <1>0, <1>3 DEF Activate, dashVars
<1>4. ASSUME NEW t \in Logins, LoggedIn(t) PROVE ToldInv'
  BY <1>2, <1>4 DEF LoggedIn, Dash!LoggedIn
<1>5. CASE Reload
  <2>1. CASE token = NoLogin
    BY <1>1, <1>5, <2>1 DEF Reload, Dash!Reload, dbVars
  <2>2. CASE token # NoLogin
    BY <1>2, <1>5, <2>2 DEF Reload, Dash!Reload, dbVars
  <2> QED BY <2>1, <2>2
<1>6. ASSUME NEW t \in Logins, Poll(t) \/ OnMessage(t) PROVE ToldInv'
  BY <1>2, <1>6 DEF Poll, OnMessage, Dash!Poll, Dash!OnMessage, Dash!FetchAnalytics, dbVars
<1>7. ASSUME NEW a \in answers, Receive(a) PROVE ToldInv'
  <2>1. CASE a.kind = "unauthorized"
    BY <1>1, <1>7, <2>1 DEF Receive, Dash!Receive, Dash!HandleLogout, dbVars
  <2>2. CASE a.kind = "data"
    BY <1>7, <2>2 DEF Receive, Dash!Receive, dbVars
  <2> QED BY <1>7, <2>1, <2>2 DEF Receive, Dash!Receive
<1>8. ASSUME NEW a \in answers, ReceiveFails(a) PROVE ToldInv'
  BY <1>1, <1>8 DEF ReceiveFails, Dash!ReceiveFails, dbVars
<1>9. ASSUME NEW a \in answers, Disconnected(a) PROVE ToldInv'
  BY <1>2, <1>9 DEF Disconnected, Dash!Disconnected, dbVars
<1>10. ASSUME NEW s \in Sessions, Disconnect(s) PROVE ToldInv'
  <2>1. s \in reported
    BY <1>10 DEF Disconnect, Dash!Disconnect, Dash!Rows
  <2>2. shown' = shown /\ reported' = reported
    BY <1>10 DEF Disconnect, Dash!Disconnect
  <2>3. \A a \in answers' : a \in answers \/ a.kind = "revoked"
    BY <1>10 DEF Disconnect, Dash!Disconnect, Dash!FetchAnalytics
  <2>4. \A r \in Sessions : r # s => sessions'[r] = sessions[r]
    BY <1>0, <1>10 DEF Disconnect, Cut
  <2> QED BY <2>1, <2>2, <2>3, <2>4
<1>11. CASE UNCHANGED <<answers, shown, sessions, reported>>
  BY <1>1, <1>11
<1>12. CASE SocketStep
  BY <1>11, <1>12
  DEF SocketStep, OnOpen, Join, OnClose, Reconnect, StartBroadcast, WriteToDashboard,
      WriteToOther, Dash!OnOpen, Dash!Joined, Dash!OnClose, Dash!Reconnect,
      Dash!Deliver, dashVars, dbVars
<1>13. CASE MobileStep
  BY <1>11, <1>13
  DEF MobileStep, MobileFetch, MobileRevoke, MobileAllows, Cut, dashVars, dbVars
<1>14. CASE DashboardStep
  <2>1. CASE SubmitLogin \/ LoginFails
    BY <1>11, <2>1
    DEF SubmitLogin, LoginFails, Dash!SubmitLogin, Dash!LoginFails, dbVars
  <2>2. CASE SignOut
    BY <1>1, <2>2 DEF SignOut, Dash!SignOut, Dash!HandleLogout, dbVars
  <2> QED BY <1>4, <1>5, <1>6, <1>7, <1>8, <1>9, <1>10, <1>14, <2>1, <2>2 DEF DashboardStep
<1>15. ASSUME NEW t \in Logins, Expire(t) PROVE ToldInv'
  BY <1>11, <1>15 DEF Expire, dashVars
<1> QED BY <1>3, <1>11, <1>12, <1>13, <1>14, <1>15 DEF Next, vars, dashVars, dbVars

\* Nobody disconnects a session that the gateway has not listed to a signed-in
\* administrator, with the mobile application and its invented rows running.
THEOREM OnlyListedIsCut == Spec => []CutWasReported
<1>1. Init => ToldInv
  BY DEF Init, Dash!Init, ToldInv, CutWasReported
<1>2. ToldInv => CutWasReported
  BY DEF ToldInv
<1> QED BY <1>1, <1>2, TypeInit, TypeStep, ToldStep, PTL DEF Spec

-----------------------------------------------------------------------------
(***************************************************************************)
(* How a login ends                                                        *)
(***************************************************************************)
\* Answers come to logins whose chain of sockets goes on, 401 only to those
\* that have expired; a chain belongs to a token that was given out.
LoginInv ==
  /\ \A a \in answers :
       socket[a.login] # "none" /\ (a.kind = "unauthorized" => a.login \in expired)
  /\ \A t \in Logins : socket[t] # "none" => t \in issued
  /\ token # NoLogin => socket[token] # "none"

LEMMA LoginStep == TypeOK /\ LoginInv /\ [Next]_vars => LoginInv'
<1> SUFFICES ASSUME TypeOK, LoginInv, [Next]_vars PROVE LoginInv'
  OBVIOUS
<1> USE DEF LoginInv
<1>0. /\ sessions \in [Sessions -> Status]
      /\ socket \in [Logins -> Dash!Socket]
      /\ \A a \in answers : a.login \in Logins
      /\ token \in Logins \cup {NoLogin}
      /\ inbox \subseteq {t \in Logins : socket[t] = "joined"}
  BY DEF TypeOK, Dash!TypeOK, Dash!Answers
\* No chain ends, no login begins, and no answer comes that is not fit to.
<1>1. ASSUME \A t \in Logins : (socket'[t] # "none") <=> (socket[t] # "none"),
             token' \in {token, NoLogin},
             \A a \in answers' : \/ a \in answers
                                 \/ /\ a.login \in Logins /\ socket[a.login] # "none"
                                    /\ a.kind = "unauthorized" => a.login \in expired,
             issued' = issued, expired \subseteq expired'
      PROVE  LoginInv'
  <2>1. \A a \in answers' :
          socket'[a.login] # "none" /\ (a.kind = "unauthorized" => a.login \in expired')
    BY <1>0, <1>1
  <2>2. \A t \in Logins : socket'[t] # "none" => t \in issued'
    BY <1>1
  <2>3. token' # NoLogin => socket'[token'] # "none"
    BY <1>0, <1>1
  <2> QED BY <2>1, <2>2, <2>3
<1>2. ASSUME NEW t \in Logins, socket[t] # "none"
      PROVE  /\ Analytics(t).login = t
             /\ Analytics(t).kind = "unauthorized" => t \in expired
  BY <1>0, <1>2, AnswerTypes DEF Valid
<1>3. ASSUME Dash!HandleLogout
      PROVE  /\ \A t \in Logins : (socket'[t] # "none") <=> (socket[t] # "none")
             /\ token' = NoLogin
  BY <1>0, <1>3 DEF Dash!HandleLogout, Dash!CleanUp
<1>4. CASE UNCHANGED <<dashVars, issued>> /\ expired \subseteq expired'
  BY <1>1, <1>4 DEF dashVars
<1>5. CASE SubmitLogin \/ LoginFails
  BY <1>1, <1>5 DEF SubmitLogin, LoginFails, Dash!SubmitLogin, Dash!LoginFails, dbVars
<1>6. CASE SignOut
  BY <1>1, <1>3, <1>6 DEF SignOut, Dash!SignOut, dbVars
<1>7. CASE Reload
  <2>1. /\ socket' = [t \in Logins |-> IF t = token THEN "connecting" ELSE "none"]
        /\ UNCHANGED <<token, issued, expired>>
    BY <1>7 DEF Reload, Dash!Reload, dbVars
  <2>2. CASE token = NoLogin
    <3>1. answers' = {}
      BY <1>7, <2>2 DEF Reload, Dash!Reload
    <3> QED BY <2>1, <2>2, <3>1, NamesAssumption
  <2>3. CASE token # NoLogin
    <3>1. answers' = {Analytics(token)}
      BY <1>7, <2>3 DEF Reload, Dash!Reload
    <3>2. token \in Logins /\ socket[token] # "none"
      BY <1>0, <2>3
    <3> QED BY <1>2, <2>1, <2>3, <3>1, <3>2
  <2> QED BY <2>2, <2>3
<1>8. ASSUME NEW t \in Logins, LoggedIn(t) PROVE LoginInv'
  <2>1. PICK a \in [login : {t}, kind : {"data"}, list : SUBSET Sessions] :
          answers' = answers \cup {a}
    BY <1>8 DEF LoggedIn, Dash!LoggedIn, Active
  <2>2. /\ socket' = [socket EXCEPT ![t] = "connecting"] /\ token' = t
        /\ issued' = issued \cup {t} /\ expired' = expired
    BY <1>8 DEF LoggedIn, Dash!LoggedIn
  <2> QED BY <1>0, <2>1, <2>2
<1>9. ASSUME NEW t \in Logins, Poll(t) \/ OnMessage(t) PROVE LoginInv'
  <2>1. socket[t] # "none"
    BY <1>0, <1>9, AnswerTypes, NamesAssumption
    DEF Poll, OnMessage, Dash!Poll, Dash!OnMessage
  <2>2. /\ answers' = answers \cup {Analytics(t)}
        /\ UNCHANGED <<socket, token, issued, expired>>
    BY <1>9 DEF Poll, OnMessage, Dash!Poll, Dash!OnMessage, Dash!FetchAnalytics, dbVars
  <2> QED BY <1>1, <1>2, <2>1, <2>2
<1>10. ASSUME NEW a \in answers, Receive(a) PROVE LoginInv'
  <2>1. CASE a.kind = "unauthorized"
    BY <1>1, <1>3, <1>10, <2>1 DEF Receive, Dash!Receive, dbVars
  <2>2. CASE a.kind = "data"
    BY <1>1, <1>10, <2>2 DEF Receive, Dash!Receive, dbVars
  <2> QED BY <1>10, <2>1, <2>2 DEF Receive, Dash!Receive
<1>11. ASSUME NEW a \in answers, ReceiveFails(a) PROVE LoginInv'
  BY <1>1, <1>11 DEF ReceiveFails, Dash!ReceiveFails, dbVars
<1>12. ASSUME NEW a \in answers, Disconnected(a) PROVE LoginInv'
  <2>1. a.login \in Logins /\ socket[a.login] # "none"
    BY <1>0
  <2>2. /\ answers' = (answers \ {a}) \cup {Analytics(a.login)}
        /\ UNCHANGED <<socket, token, issued, expired>>
    BY <1>12 DEF Disconnected, Dash!Disconnected, dbVars
  <2> QED BY <1>1, <1>2, <2>1, <2>2
<1>13. ASSUME NEW s \in Sessions, Disconnect(s) PROVE LoginInv'
  <2>1. token \in Logins /\ socket[token] # "none"
    BY <1>0, <1>13 DEF Disconnect, Dash!Disconnect, Dash!Rows
  <2>2. /\ answers' \subseteq answers \cup {[login |-> token, kind |-> "revoked"]}
        /\ UNCHANGED <<socket, token, issued, expired>>
    BY <1>13 DEF Disconnect, Dash!Disconnect, Dash!FetchAnalytics
  <2> QED BY <1>1, <2>1, <2>2
<1>14. CASE DashboardStep
  BY <1>5, <1>6, <1>7, <1>8, <1>9, <1>10, <1>11, <1>12, <1>13, <1>14 DEF DashboardStep
<1>15. ASSUME NEW t \in Logins, OnOpen(t) \/ Join(t) \/ OnClose(t) \/ Reconnect(t)
       PROVE  LoginInv'
  <2>1. /\ \A u \in Logins : (socket'[u] # "none") <=> (socket[u] # "none")
        /\ UNCHANGED <<token, answers>>
    BY <1>0, <1>15
    DEF OnOpen, Join, OnClose, Reconnect, Dash!OnOpen, Dash!Joined, Dash!OnClose, Dash!Reconnect
  <2>2. UNCHANGED <<issued, expired>>
    BY <1>15 DEF OnOpen, Join, OnClose, Reconnect, dbVars
  <2> QED BY <1>1, <2>1, <2>2
<1>16. ASSUME NEW t \in Logins, WriteToDashboard(t) PROVE LoginInv'
  BY <1>1, <1>16 DEF WriteToDashboard, Dash!Deliver, dbVars
<1>17. CASE SocketStep
  BY <1>4, <1>15, <1>16, <1>17 DEF SocketStep, StartBroadcast, WriteToOther, dbVars
<1>18. CASE MobileStep
  BY <1>4, <1>18 DEF MobileStep, MobileFetch, MobileRevoke, dbVars
<1> QED BY <1>4, <1>14, <1>17, <1>18 DEF Next, Activate, Expire, vars, dbVars

\* A login whose token is good ends when the administrator says so, or by the
\* 401 that an earlier, expired login of the same page was waiting for.
THEOREM LoginIsKept == Spec => LoginEndsForCause
<1> DEFINE Cause == SignOut \/ \E t \in expired : socket[t] # "none"
<1>1. Init => LoginInv
  BY DEF Init, Dash!Init, LoginInv
<1>2. ASSUME TypeOK, LoginInv, [Next]_vars,
             token # NoLogin, Valid(token), token' = NoLogin
      PROVE  Cause
  <2>1. token \in Logins
    BY <1>2 DEF TypeOK, Dash!TypeOK
  <2>2. ASSUME NEW a \in answers, Receive(a) PROVE Cause
    <3>1. a.kind = "unauthorized"
      BY <1>2, <2>2 DEF Receive, Dash!Receive
    <3> QED BY <1>2, <3>1 DEF LoginInv
  <2>3. ASSUME NEW t \in Logins, LoggedIn(t) PROVE FALSE
    BY <1>2, <2>3, NamesAssumption DEF LoggedIn, Dash!LoggedIn
  <2>4. token' # token
    BY <1>2
  <2>5. CASE DashboardStep
    BY <2>2, <2>3, <2>4, <2>5
    DEF DashboardStep, SubmitLogin, LoginFails, Reload, Poll, OnMessage, ReceiveFails,
        Disconnected, Disconnect, Dash!SubmitLogin, Dash!LoginFails, Dash!Reload,
        Dash!Poll, Dash!OnMessage, Dash!ReceiveFails, Dash!Disconnected, Dash!Disconnect
  <2>6. CASE SocketStep
    BY <2>4, <2>6
    DEF SocketStep, OnOpen, Join, OnClose, Reconnect, StartBroadcast, WriteToDashboard,
        WriteToOther, Dash!OnOpen, Dash!Joined, Dash!OnClose, Dash!Reconnect,
        Dash!Deliver, dashVars
  <2> QED BY <1>2, <2>4, <2>5, <2>6
      DEF Next, Activate, Expire, MobileStep, MobileFetch, MobileRevoke, vars, dashVars
<1>3. TypeOK /\ LoginInv /\ [Next]_vars
        => [token # NoLogin /\ Valid(token) /\ token' = NoLogin => Cause]_vars
  BY <1>2
<1> QED BY <1>1, <1>3, TypeInit, TypeStep, LoginStep, PTL DEF Spec, LoginEndsForCause

=============================================================================
