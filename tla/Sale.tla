-------------------------------- MODULE Sale ---------------------------------
(***************************************************************************)
(* What HotspotOS promises a customer at the portal, whatever the          *)
(* administrator does meanwhile and whichever answers are late: a push     *)
(* names an offer that was up, the phone asks once, and for that price     *)
(* less its cents, the waiting screen names the price of a push that was   *)
(* recorded, and only a recorded push for a plan that was on sale switches *)
(* a session on.  The page waits for one push at a time, but a push it no  *)
(* longer waits for may still be asked for, beside the next.               *)
(***************************************************************************)
EXTENDS Naturals

CONSTANTS
  Pushes, Plans,
  Prices,      \* in cents
  Standing     \* offers that hold without being on sale

VARIABLES
  onSale,      \* <<plan, price>>: every offer there has been
  asked,       \* <<push, plan, price>>: what each push names
  prompts,     \* <<push, amount>>: what the phone has asked for
  awaiting,    \* the pushes a page waits for
  recorded,    \* the pushes whose purchase is in the database
  shown,       \* <<push, price>>: what the waiting screen names, if it is up
  granted      \* the pushes whose session was switched on

sale == <<onSale, asked, prompts, awaiting, recorded, shown, granted>>

Init ==
  /\ onSale \in SUBSET (Plans \X Prices)
  /\ asked = {} /\ prompts = {} /\ awaiting = {} /\ recorded = {} /\ shown = {} /\ granted = {}

\* One plan gets one price.
Sell(p, price) ==
  /\ onSale' = onSale \cup {<<p, price>>}
  /\ UNCHANGED <<asked, prompts, awaiting, recorded, shown, granted>>

\* The customer chooses an offer, on a page that waits for nothing; a push that
\* it has given up may still be on its way.
Ask(k, p, price) ==
  /\ awaiting = {} /\ shown = {}
  /\ \A a \in asked : a[1] # k
  /\ <<p, price>> \in onSale \cup Standing
  /\ asked' = asked \cup {<<k, p, price>>}
  /\ awaiting' = {k}
  /\ UNCHANGED <<onSale, prompts, recorded, shown, granted>>

\* The phone asks for the price in whole shillings, never for more.
Prompt(a) ==
  /\ \A q \in prompts : q[1] # a[1]
  /\ \E amount \in 0 .. a[3] :
       /\ a[3] < amount + 100
       /\ prompts' = prompts \cup {<<a[1], amount>>}
  /\ UNCHANGED <<onSale, asked, awaiting, recorded, shown, granted>>

\* The purchase is recorded, whether or not anybody still waits for it.
Record(a) ==
  /\ \E q \in prompts : q[1] = a[1]
  /\ \E offer \in onSale : offer[1] = a[2]
  /\ recorded' = recorded \cup {a[1]}
  /\ UNCHANGED <<onSale, asked, prompts, awaiting, shown, granted>>

\* The page learns that the push it waits for was recorded.
Show(a) ==
  /\ a[1] \in awaiting \cap recorded
  /\ awaiting' = {}
  /\ shown' = {<<a[1], a[3]>>}
  /\ UNCHANGED <<onSale, asked, prompts, recorded, granted>>

\* The page learns of an error, or gives up, or is left.
Part ==
  /\ awaiting' = {}
  /\ shown' \in {{}, shown}
  /\ UNCHANGED <<onSale, asked, prompts, recorded, granted>>

Grant(k) ==
  /\ k \in recorded
  /\ granted' = granted \cup {k}
  /\ UNCHANGED <<onSale, asked, prompts, awaiting, recorded, shown>>

Next ==
  \/ \E p \in Plans, price \in Prices :
       Sell(p, price) \/ \E k \in Pushes : Ask(k, p, price)
  \/ \E a \in asked : Prompt(a) \/ Record(a) \/ Show(a)
  \/ \E k \in Pushes : Grant(k)
  \/ Part

Spec == Init /\ [][Next]_sale

=============================================================================
