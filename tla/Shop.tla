-------------------------------- MODULE Shop ---------------------------------
(***************************************************************************)
(* Selling access: the table of plans and its handlers in the gateway, the *)
(* administrator's panel that changes it, the captive portal of one        *)
(* customer, and the pushes that the gateway passes on from the portal to  *)
(* the payment service.                                                    *)
(*                                                                         *)
(*   panel --/admin/plans--> gateway <--/plans-- portal                    *)
(*   portal --/payments/stk--> gateway --> payment service                 *)
(*                                                                         *)
(* The gateway gives up on the payment service after five seconds, while   *)
(* the payment service goes on.  What the payment service does with a push *)
(* step by step, and how a session becomes active, is in PaymentService.   *)
(***************************************************************************)
EXTENDS Naturals, FiniteSets

CONSTANTS
  Plans, NewPlan, NotSold, Seed, Requests,
  Prices,      \* in cents: a price is a decimal(10,2)
  Fallback, Pushes, NoPush, PollLimit,
  MaxClicks    \* bound: requests, pushes, and reloads of the portal

ASSUME PlansAssumption ==
  /\ NewPlan \notin Plans
  /\ Prices \subseteq Nat /\ NotSold \notin Prices
  /\ Seed \in [Plans -> Prices \cup {NotSold}]
  /\ Fallback \in [Plans -> Prices \cup {NotSold}]

ASSUME LimitsAssumption ==
  /\ PollLimit \in Nat \ {0}
  /\ MaxClicks \in Nat

VARIABLES
  plans, used, work,
  list, lists, isOpen, editing, opened,
  fetched, offers, screen, loading, amount, checkout, attempts,
  push,        \* each push: what it names, and who is at work on it
  prompts,     \* <<push, amount>>: what Safaricom was asked for
  active,      \* the customer's device has an active session
  sold,        \* history: every price a plan has had
  reloads

Catalog == INSTANCE PlanCatalog
Panel   == INSTANCE PlanPanel
Page    == INSTANCE Portal

catalogVars == <<plans, used, work>>
panelVars   == <<list, lists, isOpen, editing, opened>>
portalVars  == <<fetched, offers, screen, loading, amount, checkout, attempts>>
pushVars    == <<push, prompts, active>>
vars == <<catalogVars, panelVars, portalVars, pushVars, sold, reloads>>

Unsent == [call |-> "unsent"]

\* The gateway's call: "waiting", or over because it was answered or because
\* the gateway gave up ("abandoned"); "deserted" when the page that waited for
\* it is gone.
Calls == {"waiting", "answered", "abandoned", "deserted"}

Push ==
  {Unsent}
    \cup [call : Calls, plan : Plans, price : Prices,
          service : {"asking", "prompted", "accepted", "refused", "paid"}]

History == {<<p, plans[p]>> : p \in Catalog!Sold(plans)}

Init ==
  /\ Catalog!Init
  /\ Panel!Init
  /\ Page!Init
  /\ push = [k \in Pushes |-> Unsent]
  /\ prompts = {}
  /\ active = FALSE
  /\ sold = History
  /\ reloads = 0

\* Somebody may click once more.
MayClick ==
  Cardinality({r \in Requests : work[r] # Catalog!Idle})
    + Cardinality({k \in Pushes : push[k] # Unsent}) + reloads < MaxClicks

Fresh(S, x) == S # {} /\ x = CHOOSE y \in S : TRUE

-----------------------------------------------------------------------------
(***************************************************************************)
(* The administrator                                                       *)
(***************************************************************************)
\* The panel asks for the plans every five seconds.  Bound: not while an answer
\* is on its way.
PanelPoll ==
  /\ lists = {}
  /\ Panel!Poll(plans)
  /\ UNCHANGED <<catalogVars, portalVars, pushVars, sold, reloads>>

PanelShow(catalog) ==
  /\ Panel!ShowPlans(catalog)
  /\ UNCHANGED <<catalogVars, portalVars, pushVars, sold, reloads>>

OpenModal ==
  /\ Panel!AddPackage \/ \E p \in Plans : Panel!EditPackage(p)
  /\ UNCHANGED <<catalogVars, portalVars, pushVars, sold, reloads>>

CloseModal ==
  /\ Panel!Cancel
  /\ UNCHANGED <<catalogVars, portalVars, pushVars, sold, reloads>>

\* A request of the panel leaves.
Order(r, order) ==
  /\ MayClick
  /\ Fresh({q \in Requests : work[q] = Catalog!Idle}, r)
  /\ Catalog!Send(r, order)
  /\ UNCHANGED <<panelVars, portalVars, pushVars, sold, reloads>>

Save(r, target, price) ==
  /\ Panel!CanSave(target)
  /\ Order(r, [op |-> "save", plan |-> target, price |-> price])

Delete(r, p) ==
  /\ Panel!CanDelete(p)
  /\ Order(r, [op |-> "delete", plan |-> p])

Handle(r) ==
  /\ Catalog!Handle(r)
  /\ sold' = sold \cup History'
  /\ UNCHANGED <<panelVars, portalVars, pushVars, reloads>>

\* The answer to a request: fetchPlans after a success, otherwise a message.
Answered(r) ==
  /\ Catalog!Answer(r)
  /\ IF work[r].stage = "refused" THEN UNCHANGED panelVars
     ELSE IF work[r].order.op = "save" THEN Panel!Saved(plans)
     ELSE Panel!Deleted(plans)
  /\ UNCHANGED <<portalVars, pushVars, sold, reloads>>

-----------------------------------------------------------------------------
(***************************************************************************)
(* The customer                                                            *)
(***************************************************************************)
\* handleGetPlans answers, or fails to.
PortalPlans ==
  /\ Page!PlansArrive(plans) \/ Page!PlansFail \/ Page!PlansRefused
  /\ UNCHANGED <<catalogVars, panelVars, pushVars, sold, reloads>>

Pay(p, k) ==
  /\ MayClick
  /\ Fresh({j \in Pushes : push[j] = Unsent}, k)
  /\ Page!HandlePay(p)
  /\ push' = [push EXCEPT ![k] =
       [call |-> "waiting", plan |-> p, price |-> offers[p], service |-> "asking"]]
  /\ UNCHANGED <<catalogVars, panelVars, prompts, active, sold, reloads>>

\* The two branches of the timer.  The route is for administrators, and the
\* portal sends no token: the answer is 401.
Authorized == FALSE

Tick ==
  /\ Page!Poll(Authorized, active) \/ Page!GiveUp
  /\ UNCHANGED <<catalogVars, panelVars, pushVars, sold, reloads>>

Reload ==
  /\ MayClick
  /\ reloads' = reloads + 1
  /\ Page!Reload
  /\ push' = [k \in Pushes |-> IF push[k].call = "waiting"
                               THEN [push[k] EXCEPT !.call = "deserted"] ELSE push[k]]
  /\ UNCHANGED <<catalogVars, panelVars, prompts, active, sold>>

-----------------------------------------------------------------------------
(***************************************************************************)
(* Pushes, in the gateway and the payment service                          *)
(***************************************************************************)
Sent(k) == push[k] # Unsent

\* The payment service takes push k from one of the states "from" to "to".
Serve(k, from, to) ==
  /\ Sent(k)
  /\ push[k].service \in from
  /\ push' = [push EXCEPT ![k].service = to]

\* Mutant: to the nearest shilling.
Rounded(price) == (price + 50) - ((price + 50) % 100)

\* int(req.Amount): the cents are dropped.
Whole(price) == price - (price % 100)

\* Safaricom has taken the push: the customer's phone asks for the PIN.  (In the
\* mock flow nobody is asked.)
Prompt(k) ==
  /\ Serve(k, {"asking"}, "prompted")
  /\ push[k].price > 0
  /\ prompts' = prompts \cup {<<k, Whole(push[k].price)>>}
  /\ UNCHANGED <<catalogVars, panelVars, portalVars, active, sold, reloads>>

\* Mutant: the plan is not looked up.
AcceptUnlisted(k) ==
  /\ Serve(k, {"prompted"}, "accepted")
  /\ UNCHANGED <<catalogVars, panelVars, portalVars, prompts, active, sold, reloads>>

\* The plan is looked up only now.
Accept(k) ==
  /\ Serve(k, {"prompted"}, "accepted")
  /\ push[k].plan \in Catalog!Sold(plans)
  /\ UNCHANGED <<catalogVars, panelVars, portalVars, prompts, active, sold, reloads>>

\* An error: of Safaricom, of the database, or because there is no such plan or
\* nothing to pay.
RefusePush(k) ==
  /\ Serve(k, {"asking", "prompted"}, "refused")
  /\ UNCHANGED <<catalogVars, panelVars, portalVars, prompts, active, sold, reloads>>

\* The customer enters the PIN, and the session is switched on.
Confirm(k) ==
  /\ Serve(k, {"accepted"}, "paid")
  /\ active' = TRUE
  /\ UNCHANGED <<catalogVars, panelVars, portalVars, prompts, sold, reloads>>

Ended(k) == push[k].service \in {"accepted", "refused", "paid"}

\* handleSTKPush of the gateway hands the answer to the portal.
AnswerPush(k) ==
  /\ push[k].call = "waiting"
  /\ Ended(k)
  /\ push' = [push EXCEPT ![k].call = "answered"]
  /\ IF push[k].service = "refused" THEN Page!PushFailed ELSE Page!PushAccepted(k)
  /\ UNCHANGED <<catalogVars, panelVars, prompts, active, sold, reloads>>

\* The gateway's five seconds are over, or it is not there.
AbandonPush(k) ==
  /\ push[k].call = "waiting"
  /\ push' = [push EXCEPT ![k].call = "abandoned"]
  /\ Page!PushFailed
  /\ UNCHANGED <<catalogVars, panelVars, prompts, active, sold, reloads>>

-----------------------------------------------------------------------------
AdministratorStep ==
  \/ PanelPoll
  \/ \E catalog \in lists : PanelShow(catalog)
  \/ OpenModal \/ CloseModal
  \/ \E r \in Requests :
       \/ \E target \in Plans \cup {NewPlan}, price \in Prices : Save(r, target, price)
       \/ \E p \in Plans : Delete(r, p)
       \/ Handle(r) \/ Answered(r)

CustomerStep ==
  \/ PortalPlans \/ Tick \/ Reload
  \/ \E p \in Plans, k \in Pushes : Pay(p, k)

PushStep ==
  \E k \in Pushes :
    \/ Prompt(k) \/ Accept(k) \/ RefusePush(k) \/ Confirm(k)
    \/ AnswerPush(k) \/ AbandonPush(k)

Next == AdministratorStep \/ CustomerStep \/ PushStep

Spec == Init /\ [][Next]_vars

\* Timers fire and answers arrive; nobody has to click, and the gateway answers
\* the panel.
Fairness ==
  /\ WF_vars(PanelPoll) /\ WF_vars(Tick)
  /\ \A catalog \in Panel!Catalogs : WF_vars(PanelShow(catalog))
  /\ \A r \in Requests : WF_vars(Handle(r)) /\ WF_vars(Answered(r))

FairSpec == Spec /\ Fairness

-----------------------------------------------------------------------------
(***************************************************************************)
(* Properties                                                              *)
(***************************************************************************)

\* The type invariant: every variable holds a value of its kind.
TypeOK ==
  /\ Catalog!TypeOK
  /\ Panel!TypeOK
  /\ Page!TypeOK
  /\ push \in [Pushes -> Push]
  /\ prompts \subseteq Pushes \X Nat
  /\ active \in BOOLEAN
  /\ sold \subseteq Plans \X Prices
  /\ reloads \in Nat

\* The amount on the waiting screen (App.tsx:236), which the customer is asked
\* to authorize, is the one the push names and the payment records.  The phone
\* was asked for it once, for less than a shilling less and never for more: the
\* cents on the screen are not paid (payment-service main.go:172).  So it is
\* whatever pushes failed, were abandoned or timed out before.
AmountIsCharged ==
  screen = "waiting" =>
    /\ Sent(checkout) /\ push[checkout].price = amount
    /\ \E q \in prompts : q[1] = checkout
    /\ \A q \in prompts : q[1] = checkout => q[2] <= amount /\ amount < q[2] + 100

\* A page waits for one push at a time.  (A push that the gateway gave up may
\* still prompt the phone beside the next.)
OnePushAtATime ==
  \A j, k \in Pushes :
    push[j].call = "waiting" /\ push[k].call = "waiting" => j = k

\* The amount of a push comes from the browser and is never compared with the
\* plan.  It is a price that the plan has had once, or the one that the portal
\* makes up when it cannot reach the gateway; and each amount that a phone was
\* asked for is such a price without its cents.
Offers == sold \cup {<<p, Fallback[p]>> : p \in Plans}

ChargedAsSoldOnce ==
  /\ \A k \in Pushes : Sent(k) => <<push[k].plan, push[k].price>> \in Offers
  /\ \A q \in prompts : \E offer \in Offers :
       offer[1] = push[q[1]].plan /\ q[2] <= offer[2] /\ offer[2] < q[2] + 100

\* What the modal saves is what it was opened for, although the answer to an
\* earlier request may come back while it is open.
ModalIsWhatWasOpened == Panel!ModalIsWhatWasOpened

\* What the shop is to its customer, as Sale promises it: pushes and what became
\* of them, and what the page of the customer says of them.
Asked    == {<<k, push[k].plan, push[k].price>> : k \in {j \in Pushes : Sent(j)}}
Awaiting == {k \in Pushes : push[k].call = "waiting"}
Recorded == {k \in Pushes : Sent(k) /\ push[k].service \in {"accepted", "paid"}}
Shown    == IF screen = "waiting" THEN {<<checkout, amount>>} ELSE {}
Granted  == {k \in Pushes : Sent(k) /\ push[k].service = "paid"}

Promise == INSTANCE Sale WITH
  Standing <- {<<p, Fallback[p]>> : p \in Plans},
  onSale <- sold, asked <- Asked, awaiting <- Awaiting, recorded <- Recorded,
  shown <- Shown, granted <- Granted

\* The administrator's handlers, the payment service, the gateway's time-out and
\* the portal, with every order of their steps and every answer that comes late,
\* keep that promise: no push for an offer that never was, none while the page
\* waits for another, no phone asked twice for a push or for more than its price,
\* no waiting screen for a push that was not recorded, no session for a plan that
\* never was on sale (captive-portal App.tsx:55-101, handlers.go:94-113,
\* payment-service main.go:172, 239-243).
FairSale == Promise!Spec

\* A customer is never left on the waiting screen.
WaitingEnds == screen = "waiting" ~> screen # "waiting"

\* The table shows the plans that there are once they no longer change: no
\* answer that was overtaken keeps an old price on it.
PanelCatchesUp == <>[](list = plans)

\* README.md:113: the portal of a customer who has paid goes to the "Connected"
\* screen.
PortalConnects == screen = "waiting" /\ active ~> screen = "success"

=============================================================================
