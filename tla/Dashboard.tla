------------------------------ MODULE Dashboard ------------------------------
(***************************************************************************)
(* The administrator's dashboard in one browser tab                        *)
(* (apps/dashboard/src/App.tsx): signing in and out, the analytics it      *)
(* polls, the WebSocket that makes it poll at once, and disconnecting a    *)
(* client.  The tab for plans is in PlanPanel.                             *)
(*                                                                         *)
(* Every successful login gives a token of its own and runs the effect     *)
(* that depends on it: one timer, cleared when the token changes, and one  *)
(* chain of sockets, each opened five seconds after the last one closed.   *)
(* The clean-up closes the socket but not the chain: onclose opens the     *)
(* next one, and its callbacks go on with the token they were made with.   *)
(*                                                                         *)
(* A request is answered by the gateway when it is sent; the answer takes  *)
(* any time and may be overtaken by others.                                *)
(***************************************************************************)
CONSTANTS
  Logins,      \* successful logins, and the tokens they give
  NoLogin,     \* token = null
  Sessions,    \* sessions the gateway may report
  NoData       \* analytics = null

VARIABLES
  token,       \* the React state and localStorage, which always agree
  signing,     \* a login request is on its way (isLoading)
  shown,       \* the active sessions in analytics
  answers,     \* answers on their way to the page
  socket,      \* the chain of sockets of each login
  inbox,       \* logins whose socket holds a message for the page
  wsConnected

dashVars == <<token, signing, shown, answers, socket, inbox, wsConnected>>

\* Each answer comes back to the closure of a login.  "unauthorized" is status
\* 401, "revoked" the success of a disconnection.
Answers ==
  [login : Logins, kind : {"data"}, list : SUBSET Sessions]
    \cup [login : Logins, kind : {"unauthorized", "revoked"}]

Socket == {"none", "connecting", "open", "joined", "closing", "waiting"}

TypeOK ==
  /\ token \in Logins \cup {NoLogin}
  /\ signing \in BOOLEAN
  /\ shown \in (SUBSET Sessions) \cup {NoData}
  /\ answers \subseteq Answers
  /\ socket \in [Logins -> Socket]
  /\ inbox \subseteq {t \in Logins : socket[t] = "joined"}
  /\ wsConnected \in BOOLEAN

Init ==
  /\ token = NoLogin
  /\ signing = FALSE
  /\ shown = NoData
  /\ answers = {}
  /\ socket = [t \in Logins |-> "none"]
  /\ inbox = {}
  /\ wsConnected = FALSE

-----------------------------------------------------------------------------
(***************************************************************************)
(* The session of the administrator                                        *)
(***************************************************************************)
\* The clean-up of the effect: ws.close() on the socket the chain has now.  A
\* chain that waits for its timer is not stopped.
CleanUp(t) ==
  IF t # NoLogin /\ socket[t] \in {"connecting", "open", "joined"}
  THEN [socket EXCEPT ![t] = "closing"]
  ELSE socket

\* The answer to a closing socket's messages is no longer taken.
HandleLogout ==
  /\ token' = NoLogin
  /\ shown' = NoData
  /\ socket' = CleanUp(token)
  /\ inbox' = inbox \ {token}
  /\ UNCHANGED <<signing, wsConnected>>

\* The form is there without a token, its button while no request is running.
CanSignIn == token = NoLogin /\ ~signing

SubmitLogin ==
  /\ CanSignIn
  /\ signing' = TRUE
  /\ UNCHANGED <<token, shown, answers, socket, inbox, wsConnected>>

LoginFails ==
  /\ signing
  /\ signing' = FALSE
  /\ UNCHANGED <<token, shown, answers, socket, inbox, wsConnected>>

\* The gateway has given token t.  The effect fetches and connects.
LoggedIn(t, answer) ==
  /\ signing
  /\ socket[t] = "none"
  /\ signing' = FALSE
  /\ token' = t
  /\ answers' = answers \cup {answer}
  /\ socket' = [socket EXCEPT ![t] = "connecting"]
  /\ UNCHANGED <<shown, inbox, wsConnected>>

SignOut ==
  /\ token # NoLogin
  /\ HandleLogout
  /\ UNCHANGED answers

\* The page is loaded again: only localStorage is kept.
Reload(fetched) ==
  /\ signing' = FALSE
  /\ shown' = NoData
  /\ answers' = fetched
  /\ socket' = [t \in Logins |-> IF t = token THEN "connecting" ELSE "none"]
  /\ inbox' = {}
  /\ wsConnected' = FALSE
  /\ UNCHANGED token

-----------------------------------------------------------------------------
(***************************************************************************)
(* Analytics                                                               *)
(***************************************************************************)
\* fetchAnalytics of the closure of login t.
FetchAnalytics(answer) == answers' = answers \cup {answer}

\* Mutant: the page asks only while no socket promises to tell it.
PollUnlessConnected(answer) ==
  /\ token = answer.login
  /\ ~wsConnected
  /\ FetchAnalytics(answer)
  /\ UNCHANGED <<token, signing, shown, socket, inbox, wsConnected>>

\* The timer of the effect, or the button in the header.
Poll(answer) ==
  /\ token = answer.login
  /\ FetchAnalytics(answer)
  /\ UNCHANGED <<token, signing, shown, socket, inbox, wsConnected>>

\* An answer arrives.  401 signs out whoever is signed in now; data is shown
\* whether or not somebody is.
Receive(answer) ==
  /\ answer \in answers
  /\ answer.kind # "revoked"
  /\ answers' = answers \ {answer}
  /\ \/ /\ answer.kind = "unauthorized"
        /\ HandleLogout
     \/ /\ answer.kind = "data"
        /\ shown' = answer.list
        /\ UNCHANGED <<token, signing, socket, inbox, wsConnected>>

\* Mutant: any answer but a success signs out.
ReceiveFailsSigningOut(answer) ==
  /\ answer \in answers
  /\ answers' = answers \ {answer}
  /\ HandleLogout

\* No answer, or one that says neither 200 nor 401: an error message.
ReceiveFails(answer) ==
  /\ answer \in answers
  /\ answers' = answers \ {answer}
  /\ UNCHANGED <<token, signing, shown, socket, inbox, wsConnected>>

-----------------------------------------------------------------------------
(***************************************************************************)
(* The WebSocket of the effect                                             *)
(***************************************************************************)
OnOpen(t) ==
  /\ socket[t] = "connecting"
  /\ socket' = [socket EXCEPT ![t] = "open"]
  /\ wsConnected' = TRUE
  /\ UNCHANGED <<token, signing, shown, answers, inbox>>

\* The gateway has entered the connection in its map.
Joined(t) ==
  /\ socket[t] = "open"
  /\ socket' = [socket EXCEPT ![t] = "joined"]
  /\ UNCHANGED <<token, signing, shown, answers, inbox, wsConnected>>

\* Mutant: the message is still handled.
OnCloseKeepingMessage(t) ==
  /\ socket[t] \in {"connecting", "open", "joined", "closing"}
  /\ socket' = [socket EXCEPT ![t] = "waiting"]
  /\ wsConnected' = FALSE
  /\ UNCHANGED <<token, signing, shown, answers, inbox>>

\* Mutant: sockets of earlier logins no longer touch the flag.
OnCloseOfOwn(t) ==
  /\ socket[t] \in {"connecting", "open", "joined", "closing"}
  /\ socket' = [socket EXCEPT ![t] = "waiting"]
  /\ inbox' = inbox \ {t}
  /\ wsConnected' = IF t = token THEN FALSE ELSE wsConnected
  /\ UNCHANGED <<token, signing, shown, answers>>

\* onclose, after onerror if there was one: a timer is set, whoever closed it.
OnClose(t) ==
  /\ socket[t] \in {"connecting", "open", "joined", "closing"}
  /\ socket' = [socket EXCEPT ![t] = "waiting"]
  /\ inbox' = inbox \ {t}
  /\ wsConnected' = FALSE
  /\ UNCHANGED <<token, signing, shown, answers>>

\* connectWs, five seconds later.
Reconnect(t) ==
  /\ socket[t] = "waiting"
  /\ socket' = [socket EXCEPT ![t] = "connecting"]
  /\ UNCHANGED <<token, signing, shown, answers, inbox, wsConnected>>

\* A message written to the socket: one that is closing takes none.
Deliver(t) ==
  /\ inbox' = IF socket[t] = "joined" THEN inbox \cup {t} ELSE inbox
  /\ UNCHANGED <<token, signing, shown, answers, socket, wsConnected>>

OnMessage(answer) ==
  /\ answer.login \in inbox
  /\ inbox' = inbox \ {answer.login}
  /\ FetchAnalytics(answer)
  /\ UNCHANGED <<token, signing, shown, socket, wsConnected>>

-----------------------------------------------------------------------------
(***************************************************************************)
(* Disconnecting a client                                                  *)
(***************************************************************************)
\* Sessions with a Disconnect button, on the overview and in the table.
Rows == IF token = NoLogin \/ shown = NoData THEN {} ELSE shown

\* handleDisconnect, confirmed.  A refusal is only reported.
Disconnect(s, ok) ==
  /\ s \in Rows
  /\ IF ok THEN FetchAnalytics([login |-> token, kind |-> "revoked"])
           ELSE UNCHANGED answers
  /\ UNCHANGED <<token, signing, shown, socket, inbox, wsConnected>>

\* The success arrives: fetchAnalytics of the closure that was clicked.
Disconnected(answer, fetched) ==
  /\ answer \in answers
  /\ answer.kind = "revoked"
  /\ answers' = (answers \ {answer}) \cup {fetched}
  /\ UNCHANGED <<token, signing, shown, socket, inbox, wsConnected>>

-----------------------------------------------------------------------------
(***************************************************************************)
(* Properties of the page                                                  *)
(***************************************************************************)

\* "Real-Time Sync Active" in the side bar is true: whatever order the events
\* of the sockets of several logins come in, one of them is open, or was and
\* its onclose is still to come.
IndicatorIsTruthful ==
  wsConnected => \E t \in Logins : socket[t] \in {"open", "joined", "closing"}

=============================================================================
