------------------------------- MODULE Mobile --------------------------------
(***************************************************************************)
(* The administrator's mobile application (apps/mobile/App.tsx): it polls  *)
(* the gateway's analytics every six seconds and offers to revoke each     *)
(* client it lists.  It sends no token.  When an answer is not a success,  *)
(* it shows telemetry made up in the program, with sessions 1 and 2.       *)
(*                                                                         *)
(* An answer is taken when it is given.  The gateway's answers to a caller *)
(* without a token are all alike, so that it does not matter when they     *)
(* arrive, or in which order.                                              *)
(***************************************************************************)
CONSTANTS
  Sessions,    \* ids of sessions
  Fabricated,  \* the ids in the fallback telemetry
  Starting     \* nothing received yet: the spinner

VARIABLE listed   \* sessions on the screen

TypeOK == listed \in (SUBSET (Sessions \cup Fabricated)) \cup {Starting}

Init == listed = Starting

\* fetchTelemetry, on mounting, by the timer, or after a revocation.  reply is
\* what the gateway answers, if it answers: a list, or an error of any kind,
\* for which the fallback is shown.
FetchTelemetry(reply) ==
  listed' = IF reply.ok THEN reply.list ELSE Fabricated

\* Rows with a Revoke button.
Rows == IF listed = Starting THEN {} ELSE listed

\* handleDisconnect, confirmed, for a row of the list; ok is the gateway's
\* answer.  A success fetches anew, an error is only reported.
Revoke(s, ok, reply) ==
  /\ s \in Rows
  /\ IF ok THEN FetchTelemetry(reply) ELSE UNCHANGED listed

=============================================================================
