------------------------------- MODULE Console -------------------------------
(***************************************************************************)
(* Administering the hotspot: the gateway with its sessions and its        *)
(* WebSocket hub, the dashboard in one browser tab, and the mobile         *)
(* application.                                                            *)
(*                                                                         *)
(*   payment service --payment_updates--> hub --message--> dashboard       *)
(*   dashboard, mobile --/admin/analytics, /admin/disconnect--> gateway    *)
(*                                                                         *)
(* The gateway answers a request in one step here; how an order to         *)
(* disconnect a client interleaves with the rest of the system is the      *)
(* subject of Hotspot.                                                     *)
(***************************************************************************)
EXTENDS Naturals, FiniteSets

CONSTANTS
  Sessions, Fabricated, Starting, Logins, NoLogin, NoData, Others,
  MaxLoad,     \* bound: logins, and answers on their way to the dashboard
  MaxFaults    \* bound: answers lost, connections broken, pages reloaded

ASSUME NamesAssumption ==
  /\ NoLogin \notin Logins
  /\ Logins \cap Others = {}

ASSUME BoundsAssumption == MaxLoad \in Nat /\ MaxFaults \in Nat

VARIABLES
  token, signing, shown, answers, socket, inbox, wsConnected,
  clients, queue, todo,
  listed,
  sessions,    \* status of each row of the gateway's table
  issued,      \* tokens given out
  expired,     \* tokens older than 24 hours
  reported,    \* sessions the gateway has ever listed to an application
  faults

Dash == INSTANCE Dashboard
Hub  == INSTANCE Broadcast WITH Sockets <- Logins
App  == INSTANCE Mobile

dashVars == <<token, signing, shown, answers, socket, inbox, wsConnected>>
hubVars  == <<clients, queue, todo>>
dbVars   == <<sessions, issued, expired>>
vars     == <<dashVars, hubVars, listed, dbVars, reported, faults>>

Status == {"inactive", "active", "disconnected"}

Init ==
  /\ Dash!Init
  /\ Hub!Init
  /\ App!Init
  /\ sessions = [s \in Sessions |-> "inactive"]
  /\ issued = {}
  /\ expired = {}
  /\ reported = {}
  /\ faults = 0

\* There may be another answer.
Room == Cardinality(issued) + Cardinality(answers) < MaxLoad

Fault == faults < MaxFaults /\ faults' = faults + 1

-----------------------------------------------------------------------------
(***************************************************************************)
(* The gateway                                                             *)
(***************************************************************************)
\* JWTMiddleware: nothing else than its age makes a token invalid.
Valid(t) == t \in issued \ expired

Active == {s \in Sessions : sessions[s] = "active"}

\* handleGetAnalytics as login t gets it, and as an application without a
\* token does.
Analytics(t) ==
  IF Valid(t) THEN [login |-> t, kind |-> "data", list |-> Active]
              ELSE [login |-> t, kind |-> "unauthorized"]

AnalyticsWithoutToken == [ok |-> FALSE]

\* What an application has been told of the sessions.
Report(answer) ==
  reported' = IF answer.kind = "data" THEN reported \cup answer.list ELSE reported

\* handleAdminDisconnect, for an order that carries a token (or none).
Allows(t, s) == Valid(t) /\ sessions[s] = "active"

Cut(s, ok) ==
  sessions' = IF ok THEN [sessions EXCEPT ![s] = "disconnected"] ELSE sessions

\* The payment service has switched a session on, and says so on the channel.
Activate(s) ==
  /\ sessions[s] = "inactive"
  /\ sessions' = [sessions EXCEPT ![s] = "active"]
  /\ Hub!Publish
  /\ UNCHANGED <<dashVars, listed, issued, expired, reported, faults>>

Expire(t) ==
  /\ t \in issued \ expired
  /\ expired' = expired \cup {t}
  /\ UNCHANGED <<dashVars, hubVars, listed, sessions, issued,
                 reported, faults>>

-----------------------------------------------------------------------------
(***************************************************************************)
(* The dashboard                                                           *)
(***************************************************************************)
SubmitLogin ==
  /\ Dash!SubmitLogin
  /\ UNCHANGED <<hubVars, listed, dbVars, reported, faults>>

LoginFails ==
  /\ Dash!LoginFails
  /\ UNCHANGED <<hubVars, listed, dbVars, reported, faults>>

\* The next of the logins.
Fresh(t) == Logins \ issued # {} /\ t = CHOOSE u \in Logins \ issued : TRUE

\* The first answer of a new login lists the active sessions.
LoggedIn(t) ==
  LET answer == [login |-> t, kind |-> "data", list |-> Active] IN
  /\ Fresh(t)
  /\ Room
  /\ issued' = issued \cup {t}
  /\ Dash!LoggedIn(t, answer)
  /\ Report(answer)
  /\ UNCHANGED <<hubVars, listed, sessions, expired, faults>>

SignOut ==
  /\ Dash!SignOut
  /\ UNCHANGED <<hubVars, listed, dbVars, reported, faults>>

Reload ==
  /\ Fault
  /\ \/ /\ token = NoLogin
        /\ Dash!Reload({})
        /\ UNCHANGED reported
     \/ /\ token # NoLogin
        /\ Dash!Reload({Analytics(token)})
        /\ Report(Analytics(token))
  /\ Hub!Unregister(Logins)
  /\ UNCHANGED <<listed, dbVars>>

Poll(t) ==
  /\ Room
  /\ Dash!Poll(Analytics(t))
  /\ Report(Analytics(t))
  /\ UNCHANGED <<hubVars, listed, dbVars, faults>>

OnMessage(t) ==
  /\ Room
  /\ Dash!OnMessage(Analytics(t))
  /\ Report(Analytics(t))
  /\ UNCHANGED <<hubVars, listed, dbVars, faults>>

Receive(answer) ==
  /\ Dash!Receive(answer)
  /\ UNCHANGED <<hubVars, listed, dbVars, reported, faults>>

ReceiveFails(answer) ==
  /\ Dash!ReceiveFails(answer)
  /\ Fault
  /\ UNCHANGED <<hubVars, listed, dbVars, reported>>

Disconnect(s) ==
  /\ Room
  /\ Dash!Disconnect(s, Allows(token, s))
  /\ Cut(s, Allows(token, s))
  /\ UNCHANGED <<hubVars, listed, issued, expired, reported, faults>>

Disconnected(answer) ==
  /\ Dash!Disconnected(answer, Analytics(answer.login))
  /\ Report(Analytics(answer.login))
  /\ UNCHANGED <<hubVars, listed, dbVars, faults>>

-----------------------------------------------------------------------------
(***************************************************************************)
(* The sockets, between the dashboard and the hub                          *)
(***************************************************************************)
OnOpen(t) ==
  /\ Dash!OnOpen(t)
  /\ UNCHANGED <<hubVars, listed, dbVars, reported, faults>>

Join(t) ==
  /\ Dash!Joined(t)
  /\ Hub!Register(t)
  /\ UNCHANGED <<listed, dbVars, reported, faults>>

\* The page closed the socket, or the connection broke or was refused.
OnClose(t) ==
  /\ Dash!OnClose(t)
  /\ Hub!Unregister({t})
  /\ \/ socket[t] = "closing" /\ UNCHANGED faults
     \/ socket[t] # "closing" /\ Fault
  /\ UNCHANGED <<listed, dbVars, reported>>

Reconnect(t) ==
  /\ Dash!Reconnect(t)
  /\ UNCHANGED <<hubVars, listed, dbVars, reported, faults>>

StartBroadcast ==
  /\ Hub!StartBroadcast
  /\ UNCHANGED <<dashVars, listed, dbVars, reported, faults>>

WriteToDashboard(t) ==
  /\ Hub!Write(t)
  /\ Dash!Deliver(t)
  /\ UNCHANGED <<listed, dbVars, reported, faults>>

\* Another browser takes its message, or fails to for good; or it does neither
\* and keeps the mutex locked.
WriteToOther(o) ==
  /\ Hub!Write(o) \/ Hub!WriteFails(o)
  /\ UNCHANGED <<dashVars, listed, dbVars, reported, faults>>

-----------------------------------------------------------------------------
(***************************************************************************)
(* The mobile application                                                  *)
(***************************************************************************)
MobileFetch ==
  /\ App!FetchTelemetry(AnalyticsWithoutToken)
  /\ UNCHANGED <<dashVars, hubVars, dbVars, reported, faults>>

\* Mutant: the route is not guarded.
MobileAllowsActive(s) == sessions[s] = "active"

\* An order without a token, for a row of the list.
MobileAllows(s) == FALSE

MobileRevoke(s) ==
  /\ App!Revoke(s, MobileAllows(s), AnalyticsWithoutToken)
  /\ Cut(s, MobileAllows(s))
  /\ UNCHANGED <<dashVars, hubVars, issued, expired, reported, faults>>

-----------------------------------------------------------------------------
DashboardStep ==
  \/ SubmitLogin \/ LoginFails \/ SignOut \/ Reload
  \/ \E t \in Logins : LoggedIn(t) \/ Poll(t) \/ OnMessage(t)
  \/ \E a \in answers : Receive(a) \/ ReceiveFails(a) \/ Disconnected(a)
  \/ \E s \in Sessions : Disconnect(s)

SocketStep ==
  \/ \E t \in Logins : OnOpen(t) \/ Join(t) \/ OnClose(t) \/ Reconnect(t)
  \/ StartBroadcast
  \/ \E t \in Logins : WriteToDashboard(t)
  \/ \E o \in Others : WriteToOther(o)

MobileStep ==
  \/ MobileFetch
  \/ \E s \in Sessions : MobileRevoke(s)

Next ==
  \/ \E s \in Sessions : Activate(s)
  \/ \E t \in Logins : Expire(t)
  \/ DashboardStep
  \/ SocketStep
  \/ MobileStep

Spec == Init /\ [][Next]_vars

\* The timer of the page runs, answers that are on their way arrive, and
\* sockets connect.  No person has to act, no token to expire, and no client
\* of the hub to read.
Fairness ==
  /\ \A t \in Logins :
       /\ WF_vars(Poll(t)) /\ WF_vars(OnMessage(t))
       /\ WF_vars(OnOpen(t)) /\ WF_vars(Join(t)) /\ WF_vars(Reconnect(t))
  /\ \A a \in Dash!Answers : WF_vars(Receive(a)) /\ WF_vars(Disconnected(a))

FairSpec == Spec /\ Fairness

-----------------------------------------------------------------------------
(***************************************************************************)
(* Properties                                                              *)
(***************************************************************************)

\* The type invariant: every variable holds a value of its kind.
TypeOK ==
  /\ Dash!TypeOK
  /\ Hub!TypeOK
  /\ App!TypeOK
  /\ sessions \in [Sessions -> Status]
  /\ issued \subseteq Logins
  /\ expired \subseteq issued
  /\ reported \subseteq Sessions
  /\ faults \in 0 .. MaxFaults

\* "Real-Time Sync Active" (dashboard App.tsx:495) is never shown on the
\* strength of a socket that is gone, although the sockets of all logins since
\* the page was loaded write to the one flag.
IndicatorIsTruthful == Dash!IndicatorIsTruthful

\* Only a session that the gateway has listed to an administrator can be
\* disconnected by one: the sessions the mobile application makes up have ids
\* of real ones, and it offers to revoke them.
CutWasReported ==
  \A s \in Sessions : sessions[s] = "disconnected" => s \in reported

\* A login that is still valid ends by signing out, or because an earlier one
\* of the same page has expired: its timer is gone, but not its socket, nor
\* the answers it waited for, and their 401 signs out whoever is signed in.
LoginEndsForCause ==
  [][token # NoLogin /\ Valid(token) /\ token' = NoLogin =>
       SignOut \/ \E t \in expired : socket[t] # "none"]_vars

\* Who stays signed in sees the sessions that are active, once these no longer
\* change: no answer that was overtaken, no message that was lost and no
\* client that blocks the hub keeps an old list on the screen.
CatchesUp ==
  <>[](token # NoLogin) => <>[](token # NoLogin /\ shown = Active)

=============================================================================
