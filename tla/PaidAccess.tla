----------------------------- MODULE PaidAccess -----------------------------
(***************************************************************************)
(* What HotspotOS promises its operator, whatever the services do: the     *)
(* internet is open to a client only after a purchase of that client was   *)
(* reported paid, and while it is on it is shut off only by an             *)
(* administrator's order against one of the client's purchases or by a     *)
(* reboot of the gateway host.  Whether the report is true is between      *)
(* Safaricom and the operator: the services cannot tell.                   *)
(***************************************************************************)
EXTENDS Naturals

CONSTANTS
  Purchases,   \* one per checkout
  Clients      \* the devices that buy, by MAC address

VARIABLES
  buyer,       \* the client of each purchase (never changes)
  paid,        \* purchases that were reported paid
  ordered,     \* purchases an administrator ordered to be cut off
  open,        \* clients the firewall lets through
  reboots      \* reboots of the gateway host so far

promise == <<buyer, paid, ordered, open, reboots>>

Init ==
  /\ buyer \in [Purchases -> Clients]
  /\ paid = {}
  /\ ordered = {}
  /\ open = {}
  /\ reboots = 0

Pay(p) ==
  /\ paid' = paid \cup {p}
  /\ UNCHANGED <<buyer, ordered, open, reboots>>

Open(m) ==
  /\ \E p \in paid : buyer[p] = m
  /\ open' = open \cup {m}
  /\ UNCHANGED <<buyer, paid, ordered, reboots>>

\* Only a purchase that was reported paid can have anything to cut off.
Order(p) ==
  /\ p \in paid
  /\ ordered' = ordered \cup {p}
  /\ UNCHANGED <<buyer, paid, open, reboots>>

Close(m) ==
  /\ \E p \in ordered : buyer[p] = m
  /\ open' = open \ {m}
  /\ UNCHANGED <<buyer, paid, ordered, reboots>>

Reboot ==
  /\ open' = {}
  /\ reboots' = reboots + 1
  /\ UNCHANGED <<buyer, paid, ordered>>

Next ==
  \/ \E p \in Purchases : Pay(p) \/ Order(p)
  \/ \E m \in Clients : Open(m) \/ Close(m)
  \/ Reboot

Spec == Init /\ [][Next]_promise

\* The promise in one formula: who is let through is reported to have paid.
OpenOnlyIfPaid == \A m \in open : \E p \in paid : buyer[p] = m

=============================================================================
