------------------------------ MODULE Broadcast ------------------------------
(***************************************************************************)
(* The gateway's WebSocket hub (apps/api/handlers.go): the map of clients, *)
(* the mutex that guards it and the goroutine that copies each message of  *)
(* the Redis channel payment_updates to every client.                      *)
(*                                                                         *)
(* The goroutine holds the mutex while it writes, and writes have no       *)
(* deadline: a client that does not read keeps it for as long as it likes. *)
(* A message is not looked into: it only says that something has changed.  *)
(***************************************************************************)
EXTENDS Naturals

CONSTANTS
  Sockets,   \* connections of the dashboard that is modelled
  Others     \* clients of other browsers, which may stop to read

VARIABLES
  clients,   \* wsClients
  queue,     \* messages of the channel that the goroutine has yet to take
  todo       \* clients the message at hand has yet to be written to

hubVars == <<clients, queue, todo>>

TypeOK ==
  /\ clients \subseteq Sockets \cup Others
  /\ queue \in Nat
  /\ todo \subseteq clients

Init ==
  /\ clients = Others
  /\ queue = 0
  /\ todo = {}

\* wsClientsMu is taken for the whole of a broadcast.  (With no client in the
\* map it is released at once.)
Locked == todo # {}

\* The connection of s is up.  Its handler enters it in the map.
Register(s) ==
  /\ ~Locked
  /\ clients' = clients \cup {s}
  /\ UNCHANGED <<queue, todo>>

\* The connections S are gone.  Their entries stay in the map until their
\* handlers get the mutex or a write fails; nobody can tell, so they leave now.
Unregister(S) ==
  /\ clients' = clients \ S
  /\ todo' = todo \ S
  /\ UNCHANGED queue

\* Redis hands a message to the subscription.
Publish ==
  /\ queue' = queue + 1
  /\ UNCHANGED <<clients, todo>>

StartBroadcast ==
  /\ ~Locked
  /\ queue > 0
  /\ queue' = queue - 1
  /\ todo' = clients
  /\ UNCHANGED clients

\* WriteMessage to s succeeds.
Write(s) ==
  /\ s \in todo
  /\ todo' = todo \ {s}
  /\ UNCHANGED <<clients, queue>>

\* WriteMessage to s fails: s is closed and deleted from the map.
WriteFails(s) ==
  /\ s \in todo
  /\ Unregister({s})

=============================================================================
