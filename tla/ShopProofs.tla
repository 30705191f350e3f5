----------------------------- MODULE ShopProofs ------------------------------
(***************************************************************************)
(* Proofs about Shop, for any number of plans, prices, requests, pushes    *)
(* and clicks.                                                             *)
(***************************************************************************)
EXTENDS Shop, TLAPS

-----------------------------------------------------------------------------
(***************************************************************************)
(* Types of the table of plans and of the requests that change it          *)
(***************************************************************************)
Stages == {"sent", "loaded", "done", "refused", "answered"}

\* A request that has left carries its order from stage to stage.
LEMMA StageTypes ==
  ASSUME Catalog!TypeOK, NEW r \in Requests, NEW stage \in Stages,
         work[r].stage \in Stages, Catalog!Stage(r, stage)
  PROVE  /\ work' \in [Requests -> Catalog!Work]
         /\ work[r].order \in Catalog!Orders
<1>1. work[r] \in Catalog!Work /\ work[r] # Catalog!Idle
  BY DEF Catalog!TypeOK, Catalog!Idle, Stages
<1>2. PICK s \in Stages, o \in Catalog!Orders : work[r] = [stage |-> s, order |-> o]
  BY <1>1 DEF Catalog!Work, Stages
<1>3. [work[r] EXCEPT !.stage = stage] = [stage |-> stage, order |-> o]
  BY <1>2
<1> QED BY <1>2, <1>3 DEF Catalog!TypeOK, Catalog!Stage, Catalog!Work, Stages

LEMMA HandleTypes ==
  ASSUME Catalog!TypeOK, NEW r \in Requests, Catalog!Handle(r)
  PROVE  Catalog!TypeOK'
<1> USE StageTypes DEF Catalog!TypeOK, Catalog!Catalogs, Catalog!Sold, Catalog!Orders, Stages
<1>1. ASSUME NEW p \in Plans, Catalog!Create(r, p) PROVE Catalog!TypeOK'
  <2>1. /\ work' \in [Requests -> Catalog!Work]
        /\ work[r].order \in Catalog!Orders
    BY <1>1 DEF Catalog!Create
  <2>2. work[r].order.price \in Prices
    BY <1>1, <2>1, PlansAssumption DEF Catalog!Create
  <2> QED BY <1>1, <2>1, <2>2 DEF Catalog!Create
<1>2. CASE Catalog!Load(r)      BY <1>2 DEF Catalog!Load
<1>3. CASE Catalog!SaveRow(r)
  <2>1. /\ work' \in [Requests -> Catalog!Work]
        /\ work[r].order \in Catalog!Orders
    BY <1>3 DEF Catalog!SaveRow
  <2>2. work[r].order.price \in Prices
    BY <1>3, <2>1 DEF Catalog!SaveRow
  <2> QED BY <1>3, <2>1, <2>2 DEF Catalog!SaveRow
<1>4. CASE Catalog!RemoveRow(r) BY <1>4 DEF Catalog!RemoveRow
<1>5. CASE Catalog!Refuse(r)    BY <1>5 DEF Catalog!Refuse
<1> QED BY <1>1, <1>2, <1>3, <1>4, <1>5 DEF Catalog!Handle


LEMMA CatalogTypes == ASSUME TypeOK, [Next]_vars PROVE Catalog!TypeOK'
<1>0. Catalog!TypeOK
  BY DEF TypeOK
<1>1. ASSUME NEW r \in Requests, NEW order \in Catalog!Orders, Order(r, order)
      PROVE  Catalog!TypeOK'
  BY <1>0, <1>1 DEF Order, Catalog!Send, Catalog!TypeOK, Catalog!Work
<1>2. ASSUME NEW r \in Requests, NEW target \in Plans \cup {NewPlan},
             NEW price \in Prices, Save(r, target, price)
      PROVE  Catalog!TypeOK'
  BY <1>1, <1>2 DEF Save, Catalog!Orders
<1>3. ASSUME NEW r \in Requests, NEW p \in Plans, Delete(r, p)
      PROVE  Catalog!TypeOK'
  BY <1>1, <1>3 DEF Delete, Catalog!Orders
<1>4. ASSUME NEW r \in Requests, Handle(r) PROVE Catalog!TypeOK'
  BY <1>0, <1>4, HandleTypes DEF Handle
<1>5. ASSUME NEW r \in Requests, Answered(r) PROVE Catalog!TypeOK'
  BY <1>0, <1>5, StageTypes DEF Answered, Catalog!Answer, Catalog!TypeOK, Stages
<1>6. CASE UNCHANGED catalogVars
  BY <1>0, <1>6 DEF catalogVars, Catalog!TypeOK, Catalog!Sold
<1>7. CASE CustomerStep
  BY <1>6, <1>7 DEF CustomerStep, PortalPlans, Tick, Reload, Pay
<1>8. CASE PushStep
  BY <1>6, <1>8 DEF PushStep, Prompt, Accept, RefusePush, Confirm, AnswerPush, AbandonPush
<1>9. CASE PanelPoll \/ OpenModal \/ CloseModal \/ \E catalog \in lists : PanelShow(catalog)
  BY <1>6, <1>9 DEF PanelPoll, OpenModal, CloseModal, PanelShow
<1> QED BY <1>2, <1>3, <1>4, <1>5, <1>6, <1>7, <1>8, <1>9 DEF Next, AdministratorStep, vars

-----------------------------------------------------------------------------
(***************************************************************************)
(* Types of the panel, the portal and the pushes                           *)
(***************************************************************************)
LEMMA PanelTypes == ASSUME TypeOK, [Next]_vars PROVE Panel!TypeOK'
<1> USE DEF Panel!TypeOK, Panel!FetchPlans
<1>0. Panel!TypeOK /\ plans \in Panel!Catalogs
  BY DEF TypeOK, Catalog!TypeOK, Catalog!Catalogs, Panel!Catalogs
<1>1. CASE PanelPoll
  BY <1>0, <1>1 DEF PanelPoll, Panel!Poll
<1>2. ASSUME NEW catalog \in lists, PanelShow(catalog) PROVE Panel!TypeOK'
  BY <1>0, <1>2 DEF PanelShow, Panel!ShowPlans
<1>3. CASE OpenModal
  BY <1>0, <1>3 DEF OpenModal, Panel!AddPackage, Panel!EditPackage, Panel!OpenFor
<1>4. CASE CloseModal
  BY <1>0, <1>4 DEF CloseModal, Panel!Cancel
<1>5. ASSUME NEW r \in Requests, Answered(r) PROVE Panel!TypeOK'
  BY <1>0, <1>5 DEF Answered, Panel!Saved, Panel!Deleted, Panel!Poll, panelVars
<1>6. CASE UNCHANGED panelVars
  BY <1>0, <1>6 DEF panelVars
<1>7. CASE CustomerStep
  BY <1>6, <1>7 DEF CustomerStep, PortalPlans, Tick, Reload, Pay
<1>8. CASE PushStep
  BY <1>6, <1>8 DEF PushStep, Prompt, Accept, RefusePush, Confirm, AnswerPush, AbandonPush
<1>9. ASSUME NEW r \in Requests,
             \/ \E target \in Plans \cup {NewPlan}, price \in Prices : Save(r, target, price)
             \/ \E p \in Plans : Delete(r, p)
             \/ Handle(r)
      PROVE  Panel!TypeOK'
  BY <1>6, <1>9 DEF Save, Delete, Order, Handle
<1> QED BY <1>1, <1>2, <1>3, <1>4, <1>5, <1>6, <1>7, <1>8, <1>9 DEF Next, AdministratorStep, vars

LEMMA PageTypes == ASSUME TypeOK, [Next]_vars PROVE Page!TypeOK'
<1> USE LimitsAssumption, PlansAssumption DEF Page!TypeOK
<1>0. Page!TypeOK /\ plans \in [Plans -> Prices \cup {NotSold}]
  BY DEF TypeOK, Catalog!TypeOK, Catalog!Catalogs
<1>1. CASE PortalPlans
  BY <1>0, <1>1 DEF PortalPlans, Page!PlansArrive, Page!PlansFail, Page!PlansRefused
<1>2. CASE Tick
  BY <1>0, <1>2 DEF Tick, Page!Poll, Page!GiveUp
<1>3. CASE Reload
  <2>1. Page!Reload
    BY <1>3 DEF Reload
  <2>2. offers' \in [Plans -> Prices \cup {NotSold}]
    BY <2>1 DEF Page!Reload, Page!NoOffers
  <2>3. 0 \in 0 .. PollLimit
    OBVIOUS
  <2> QED BY <2>1, <2>2, <2>3 DEF Page!Reload
<1>4. ASSUME NEW p \in Plans, NEW k \in Pushes, Pay(p, k) PROVE Page!TypeOK'
  BY <1>0, <1>4 DEF Pay, Page!HandlePay
<1>5. ASSUME NEW k \in Pushes, AnswerPush(k) \/ AbandonPush(k) PROVE Page!TypeOK'
  <2>1. Page!PushFailed \/ Page!PushAccepted(k)
    BY <1>5 DEF AnswerPush, AbandonPush
  <2>2. 0 \in 0 .. PollLimit
    OBVIOUS
  <2>3. CASE Page!PushFailed
    BY <1>0, <2>3 DEF Page!PushFailed
  <2>4. CASE Page!PushAccepted(k)
    BY <1>0, <2>2, <2>4 DEF Page!PushAccepted
  <2> QED BY <2>1, <2>3, <2>4
<1>6. CASE UNCHANGED portalVars
  BY <1>0, <1>6 DEF portalVars
<1>7. CASE AdministratorStep
  BY <1>6, <1>7 DEF AdministratorStep, PanelPoll, PanelShow, OpenModal, CloseModal,
                    Save, Delete, Order, Handle, Answered
<1>8. ASSUME NEW k \in Pushes, Prompt(k) \/ Accept(k) \/ RefusePush(k) \/ Confirm(k)
      PROVE  Page!TypeOK'
  BY <1>6, <1>8 DEF Prompt, Accept, RefusePush, Confirm
<1> QED BY <1>1, <1>2, <1>3, <1>4, <1>5, <1>6, <1>7, <1>8 DEF Next, CustomerStep, PushStep, vars

Services == {"asking", "prompted", "accepted", "refused", "paid"}

\* The fields of a push that has left.
LEMMA PushShape ==
  ASSUME push \in [Pushes -> Push], NEW k \in Pushes, Sent(k)
  PROVE  \E c \in Calls, p \in Plans, x \in Prices, s \in Services :
           push[k] = [call |-> c, plan |-> p, price |-> x, service |-> s]
BY DEF Push, Sent, Services

LEMMA SentShape ==
  ASSUME NEW c \in Calls, NEW p \in Plans, NEW x \in Prices, NEW s \in Services
  PROVE  [call |-> c, plan |-> p, price |-> x, service |-> s] \in Push \ {Unsent}
BY DEF Push, Unsent, Calls, Services

\* A push that has left keeps what it asks for, whoever is at work on it.
LEMMA CallFields ==
  ASSUME push \in [Pushes -> Push], NEW k \in Pushes, Sent(k), NEW call \in Calls
  PROVE  /\ [push[k] EXCEPT !.call = call] \in Push \ {Unsent}
         /\ [push[k] EXCEPT !.call = call].call = call
         /\ [push[k] EXCEPT !.call = call].plan = push[k].plan
         /\ [push[k] EXCEPT !.call = call].price = push[k].price
         /\ [push[k] EXCEPT !.call = call].service = push[k].service
<1>1. PICK c \in Calls, p \in Plans, x \in Prices, s \in Services :
        push[k] = [call |-> c, plan |-> p, price |-> x, service |-> s]
  BY PushShape
<1>2. [push[k] EXCEPT !.call = call]
        = [call |-> call, plan |-> p, price |-> x, service |-> s]
  BY <1>1
<1> QED BY <1>1, <1>2, SentShape

LEMMA ServiceFields ==
  ASSUME push \in [Pushes -> Push], NEW k \in Pushes, Sent(k), NEW service \in Services
  PROVE  /\ [push[k] EXCEPT !.service = service] \in Push \ {Unsent}
         /\ [push[k] EXCEPT !.service = service].service = service
         /\ [push[k] EXCEPT !.service = service].call = push[k].call
         /\ [push[k] EXCEPT !.service = service].plan = push[k].plan
         /\ [push[k] EXCEPT !.service = service].price = push[k].price
<1>1. PICK c \in Calls, p \in Plans, x \in Prices, s \in Services :
        push[k] = [call |-> c, plan |-> p, price |-> x, service |-> s]
  BY PushShape
<1>2. [push[k] EXCEPT !.service = service]
        = [call |-> c, plan |-> p, price |-> x, service |-> service]
  BY <1>1
<1> QED BY <1>1, <1>2, SentShape

\* A call is over, or waits, only for a push that has left.
LEMMA CallMeansSent ==
  ASSUME NEW k \in Pushes, push[k].call \in Calls
  PROVE  Sent(k)
BY DEF Sent, Unsent, Calls

LEMMA PushTypes == ASSUME TypeOK, [Next]_vars PROVE push' \in [Pushes -> Push]
<1>0. push \in [Pushes -> Push]
  BY DEF TypeOK
<1>1. ASSUME NEW p \in Plans, NEW k \in Pushes, Pay(p, k)
      PROVE  push' \in [Pushes -> Push]
  <2>1. offers[p] \in Prices
    BY <1>1 DEF Pay, Page!HandlePay, TypeOK, Page!TypeOK
  <2> QED BY <1>0, <1>1, <2>1 DEF Pay, Push, Calls
<1>2. CASE Reload
  <2>1. ASSUME NEW k \in Pushes, push[k].call = "waiting"
        PROVE  [push[k] EXCEPT !.call = "deserted"] \in Push
    BY <1>0, <2>1, CallFields, CallMeansSent DEF Calls
  <2> QED BY <1>0, <1>2, <2>1 DEF Reload
<1>3. ASSUME NEW k \in Pushes, AnswerPush(k) \/ AbandonPush(k)
      PROVE  push' \in [Pushes -> Push]
  <2>1. \A call \in Calls : [push[k] EXCEPT !.call = call] \in Push
    BY <1>0, <1>3, CallFields, CallMeansSent DEF AnswerPush, AbandonPush, Calls
  <2> QED BY <1>0, <1>3, <2>1 DEF AnswerPush, AbandonPush, Calls
<1>4. ASSUME NEW k \in Pushes, Prompt(k) \/ Accept(k) \/ RefusePush(k) \/ Confirm(k)
      PROVE  push' \in [Pushes -> Push]
  <2>1. \A s \in {"prompted", "accepted", "refused", "paid"} :
          [push[k] EXCEPT !.service = s] \in Push
    BY <1>0, <1>4, ServiceFields DEF Prompt, Accept, RefusePush, Confirm, Serve, Services
  <2> QED BY <1>0, <1>4, <2>1 DEF Prompt, Accept, RefusePush, Confirm, Serve
<1>5. CASE UNCHANGED push
  BY <1>0, <1>5
<1>6. CASE AdministratorStep
  BY <1>5, <1>6 DEF AdministratorStep, PanelPoll, PanelShow, OpenModal, CloseModal,
                    Save, Delete, Order, Handle, Answered, pushVars
<1>7. CASE PortalPlans \/ Tick
  BY <1>5, <1>7 DEF PortalPlans, Tick, pushVars
<1> QED BY <1>1, <1>2, <1>3, <1>4, <1>5, <1>6, <1>7
        DEF Next, CustomerStep, PushStep, vars, pushVars

\* Of a price only the cents are dropped.
LEMMA WholeShillings ==
  ASSUME NEW x \in Nat
  PROVE  Whole(x) \in Nat /\ Whole(x) <= x /\ x < Whole(x) + 100
BY DEF Whole

LEMMA TypeInit == Init => TypeOK
<1> SUFFICES ASSUME Init PROVE TypeOK
  OBVIOUS
<1> USE PlansAssumption, LimitsAssumption DEF Init
<1>1. Catalog!TypeOK
  BY DEF Catalog!Init, Catalog!TypeOK, Catalog!Sold, Catalog!Work
<1>2. Panel!TypeOK
  BY DEF Panel!Init, Panel!TypeOK, Panel!Catalogs
<1>3. 0 \in 0 .. PollLimit
  OBVIOUS
<1>4. Page!TypeOK
  BY <1>3 DEF Page!Init, Page!TypeOK, Page!NoOffers
<1>5. sold \subseteq Plans \X Prices
  BY <1>1 DEF History, Catalog!TypeOK, Catalog!Catalogs, Catalog!Sold
<1> QED BY <1>1, <1>2, <1>3, <1>4, <1>5 DEF TypeOK, Push

LEMMA TypeStep == ASSUME TypeOK, [Next]_vars PROVE TypeOK'
<1>1. Catalog!TypeOK' /\ Panel!TypeOK' /\ Page!TypeOK' /\ push' \in [Pushes -> Push]
  BY CatalogTypes, PanelTypes, PageTypes, PushTypes
<1>2. /\ prompts' \subseteq Pushes \X Nat
      /\ active' \in BOOLEAN /\ sold' \subseteq Plans \X Prices /\ reloads' \in Nat
  <2> DEFINE Rest == /\ prompts \subseteq Pushes \X Nat
                     /\ active \in BOOLEAN /\ sold \subseteq Plans \X Prices /\ reloads \in Nat
  <2>0. Rest
    BY DEF TypeOK
  <2>1. ASSUME NEW r \in Requests, Handle(r) PROVE Rest'
    <3>1. History' \subseteq Plans \X Prices
      BY <1>1 DEF History, Catalog!TypeOK, Catalog!Catalogs, Catalog!Sold
    <3> QED BY <2>0, <2>1, <3>1 DEF Handle, pushVars
  <2>2. CASE UNCHANGED <<prompts, active, sold, reloads>>
    BY <2>0, <2>2
  <2>3. CASE \/ PanelPoll \/ OpenModal \/ CloseModal
             \/ \E catalog \in lists : PanelShow(catalog)
    BY <2>2, <2>3 DEF PanelPoll, OpenModal, CloseModal, PanelShow, pushVars
  <2>4. ASSUME NEW r \in Requests,
               \/ \E target \in Plans \cup {NewPlan}, price \in Prices : Save(r, target, price)
               \/ \E p \in Plans : Delete(r, p)
               \/ Answered(r)
        PROVE  Rest'
    BY <2>2, <2>4 DEF Save, Delete, Order, Answered, pushVars
  <2>5. CASE PortalPlans \/ Tick \/ \E p \in Plans, k \in Pushes : Pay(p, k)
    BY <2>2, <2>5 DEF PortalPlans, Tick, Pay, pushVars
  <2>6. CASE Reload
    BY <2>0, <2>6 DEF Reload
  <2>7. CASE PushStep
    <3>1. ASSUME NEW k \in Pushes, Prompt(k) PROVE Rest'
      <4>1. push[k] \in Push /\ push[k] # Unsent
        BY <3>1 DEF TypeOK, Prompt, Serve, Sent
      <4>2. Whole(push[k].price) \in Nat
        BY <4>1, PlansAssumption, WholeShillings DEF Push
      <4> QED BY <2>0, <3>1, <4>2 DEF Prompt
    <3> QED BY <2>0, <2>7, <3>1
            DEF PushStep, Accept, RefusePush, Confirm, AnswerPush, AbandonPush
  <2>8. CASE UNCHANGED vars
    BY <2>2, <2>8 DEF vars, pushVars
  <2> QED BY <2>1, <2>3, <2>4, <2>5, <2>6, <2>7, <2>8 DEF Next, AdministratorStep, CustomerStep
<1> QED BY <1>1, <1>2 DEF TypeOK

\* Every variable of the shop keeps its type.
THEOREM TypeCorrect == Spec => []TypeOK
BY TypeInit, TypeStep, PTL DEF Spec

-----------------------------------------------------------------------------
(***************************************************************************)
(* Prompts                                                                 *)
(***************************************************************************)
\* Whoever is at work on push k changes nothing else of it, and no other push.
LEMMA ServeEffect ==
  ASSUME TypeOK, NEW k \in Pushes,
         NEW s \in {"prompted", "accepted", "refused", "paid"}, NEW from, Serve(k, from, s)
  PROVE  /\ Sent(k)
         /\ \A j \in Pushes : (Sent(j)' <=> Sent(j)) /\ push'[j].call = push[j].call
                              /\ push'[j].plan = push[j].plan /\ push'[j].price = push[j].price
         /\ push'[k].service = s
         /\ \A j \in Pushes : j # k => push'[j].service = push[j].service
<1>1. push \in [Pushes -> Push] /\ Sent(k)
  BY DEF TypeOK, Serve
<1>2. push'[k] = [push[k] EXCEPT !.service = s] /\ \A j \in Pushes : j # k => push'[j] = push[j]
  BY <1>1 DEF Serve
<1>3. /\ [push[k] EXCEPT !.service = s] \in Push \ {Unsent}
      /\ [push[k] EXCEPT !.service = s].service = s
      /\ [push[k] EXCEPT !.service = s].call = push[k].call
      /\ [push[k] EXCEPT !.service = s].plan = push[k].plan
      /\ [push[k] EXCEPT !.service = s].price = push[k].price
  BY <1>1, ServiceFields DEF Services
<1> QED BY <1>1, <1>2, <1>3 DEF Sent

\* The end of a call changes nothing that the payment service works on.
LEMMA CallEffect ==
  ASSUME TypeOK, Reload \/ \E k \in Pushes : AnswerPush(k) \/ AbandonPush(k),
         NEW j \in Pushes
  PROVE  /\ Sent(j)' <=> Sent(j)
         /\ push'[j].plan = push[j].plan /\ push'[j].price = push[j].price
         /\ push'[j].service = push[j].service
<1>1. push \in [Pushes -> Push]
  BY DEF TypeOK
<1>2. \/ push'[j] = push[j]
      \/ \E call \in Calls : push[j].call = "waiting" /\ push'[j] = [push[j] EXCEPT !.call = call]
  BY <1>1 DEF Reload, AnswerPush, AbandonPush, Calls
<1>3. ASSUME NEW call \in Calls, push[j].call = "waiting",
             push'[j] = [push[j] EXCEPT !.call = call]
      PROVE  /\ Sent(j)' <=> Sent(j)
             /\ push'[j].plan = push[j].plan /\ push'[j].price = push[j].price
             /\ push'[j].service = push[j].service
  <2>1. Sent(j)
    BY <1>3, CallMeansSent DEF Calls
  <2>2. /\ [push[j] EXCEPT !.call = call] \in Push \ {Unsent}
        /\ [push[j] EXCEPT !.call = call].plan = push[j].plan
        /\ [push[j] EXCEPT !.call = call].price = push[j].price
        /\ [push[j] EXCEPT !.call = call].service = push[j].service
    BY <1>1, <2>1, CallFields
  <2> QED BY <1>3, <2>1, <2>2 DEF Sent
<1> QED BY <1>2, <1>3 DEF Sent

\* A phone was asked for what its push names without the cents, and whoever goes
\* on with a push has asked.
PromptInv ==
  /\ TypeOK
  /\ \A q \in prompts :
       /\ Sent(q[1]) /\ push[q[1]].service # "asking"
       /\ q[2] = Whole(push[q[1]].price)
  /\ \A k \in Pushes :
       Sent(k) /\ push[k].service \in {"prompted", "accepted", "paid"}
         => \E q \in prompts : q[1] = k

LEMMA PromptInit == Init => PromptInv
BY TypeInit DEF Init, PromptInv, Sent

LEMMA PromptStep == ASSUME PromptInv, [Next]_vars PROVE PromptInv'
<1>0. /\ TypeOK /\ TypeOK' /\ prompts \subseteq Pushes \X Nat /\ push \in [Pushes -> Push]
      /\ \A q \in prompts : q[1] \in Pushes
  BY TypeStep DEF PromptInv, TypeOK
<1>1. CASE UNCHANGED <<push, prompts>>
  BY <1>0, <1>1 DEF PromptInv, Sent
<1>2. ASSUME NEW p \in Plans, NEW k \in Pushes, Pay(p, k) PROVE PromptInv'
  <2>1. push[k] = Unsent /\ prompts' = prompts /\ \A j \in Pushes : j # k => push'[j] = push[j]
    BY <1>0, <1>2 DEF Pay, Fresh
  <2>2. push'[k].service = "asking"
    BY <1>0, <1>2 DEF Pay
  <2>3. \A q \in prompts : q[1] \in Pushes /\ q[1] # k
    BY <1>0, <2>1 DEF PromptInv, Sent
  <2> QED BY <1>0, <2>1, <2>2, <2>3 DEF PromptInv, Sent
<1>3. CASE Reload \/ \E k \in Pushes : AnswerPush(k) \/ AbandonPush(k)
  <2>1. prompts' = prompts
    BY <1>3 DEF Reload, AnswerPush, AbandonPush
  <2>2. \A j \in Pushes : /\ Sent(j)' <=> Sent(j)
                          /\ push'[j].price = push[j].price
                          /\ push'[j].service = push[j].service
    BY <1>0, <1>3, CallEffect
  <2> QED BY <1>0, <2>1, <2>2 DEF PromptInv
<1>4. ASSUME NEW k \in Pushes, Prompt(k) PROVE PromptInv'
  <2> DEFINE x == Whole(push[k].price)
  <2>1. /\ Serve(k, {"asking"}, "prompted") /\ prompts' = prompts \cup {<<k, x>>}
        /\ push[k].service = "asking"
    BY <1>4 DEF Prompt, Serve
  <2>2. /\ Sent(k) /\ push'[k].service = "prompted"
        /\ \A j \in Pushes : (Sent(j)' <=> Sent(j)) /\ push'[j].price = push[j].price
        /\ \A j \in Pushes : j # k => push'[j].service = push[j].service
    BY <1>0, <2>1, ServeEffect
  <2>3. x = Whole(push'[k].price)
    BY <2>2
  <2> HIDE DEF x
  <2>4. <<k, x>> \in prompts' /\ <<k, x>>[1] = k /\ <<k, x>>[2] = x
    BY <2>1
  <2>5. ASSUME NEW q \in prompts'
        PROVE  Sent(q[1])' /\ push'[q[1]].service # "asking" /\ q[2] = Whole(push'[q[1]].price)
    <3>1. CASE q = <<k, x>>
      BY <2>2, <2>3, <3>1
    <3>2. CASE q \in prompts
      <4>1. q[1] \in Pushes /\ q[1] # k
        BY <1>0, <2>1, <3>2 DEF PromptInv
      <4> QED BY <2>2, <3>2, <4>1 DEF PromptInv
    <3> QED BY <2>1, <3>1, <3>2
  <2>6. ASSUME NEW j \in Pushes, Sent(j)', push'[j].service \in {"prompted", "accepted", "paid"}
        PROVE  \E q \in prompts' : q[1] = j
    <3>1. CASE j = k
      BY <2>4, <3>1
    <3>2. CASE j # k
      BY <2>1, <2>2, <2>6, <3>2 DEF PromptInv
    <3> QED BY <3>1, <3>2
  <2> QED BY <1>0, <2>5, <2>6 DEF PromptInv
<1>5. ASSUME NEW k \in Pushes, NEW s \in {"accepted", "refused", "paid"}, NEW from,
             Serve(k, from, s), prompts' = prompts,
             s \in {"accepted", "paid"} => push[k].service \in {"prompted", "accepted", "paid"}
      PROVE  PromptInv'
  <2>1. /\ Sent(k) /\ push'[k].service = s
        /\ \A j \in Pushes : (Sent(j)' <=> Sent(j)) /\ push'[j].price = push[j].price
        /\ \A j \in Pushes : j # k => push'[j].service = push[j].service
    BY <1>0, <1>5, ServeEffect
  <2> QED BY <1>0, <1>5, <2>1 DEF PromptInv
<1>6. ASSUME NEW k \in Pushes, Accept(k) \/ RefusePush(k) \/ Confirm(k)
      PROVE  PromptInv'
  <2>1. prompts' = prompts
    BY <1>6 DEF Accept, RefusePush, Confirm
  <2>2. CASE Accept(k)
    BY <1>5, <2>1, <2>2 DEF Accept, Serve
  <2>3. CASE RefusePush(k)
    BY <1>5, <2>1, <2>3 DEF RefusePush
  <2>4. CASE Confirm(k)
    BY <1>5, <2>1, <2>4 DEF Confirm, Serve
  <2> QED BY <1>6, <2>2, <2>3, <2>4
<1>7. CASE PortalPlans \/ Tick \/ AdministratorStep \/ UNCHANGED vars
  BY <1>1, <1>7 DEF PortalPlans, Tick, AdministratorStep, PanelPoll, PanelShow, OpenModal,
                    CloseModal, Save, Delete, Order, Handle, Answered, vars, pushVars
<1> QED BY <1>2, <1>3, <1>4, <1>6, <1>7 DEF Next, CustomerStep, PushStep

-----------------------------------------------------------------------------
(***************************************************************************)
(* Amounts                                                                 *)
(***************************************************************************)

\* While the page waits for a push, it names its price and no other is waited
\* for; what it says while it waits for the customer is what was asked then, and
\* it waits for no answer any more.
PayInv ==
  /\ TypeOK
  /\ \A k \in Pushes : push[k].call = "waiting" => loading /\ push[k].price = amount
  /\ OnePushAtATime
  /\ screen = "waiting" =>
       /\ ~loading
       /\ checkout \in Pushes /\ Sent(checkout) /\ push[checkout].price = amount

LEMMA PayInit == Init => PayInv
BY TypeInit DEF Init, PayInv, OnePushAtATime, Unsent, Page!Init

\* Whoever is at work on a push leaves its price and its caller alone.
LEMMA ServeKeeps ==
  ASSUME PayInv, NEW k \in Pushes,
         Prompt(k) \/ Accept(k) \/ RefusePush(k) \/ Confirm(k)
  PROVE  /\ \A j \in Pushes : push'[j].call = push[j].call /\ push'[j].price = push[j].price
         /\ \A j \in Pushes : Sent(j) => Sent(j)'
         /\ UNCHANGED <<screen, loading, amount, checkout>>
<1>1. PICK s \in {"prompted", "accepted", "refused", "paid"} :
        Sent(k) /\ push' = [push EXCEPT ![k].service = s]
  BY DEF Prompt, Accept, RefusePush, Confirm, Serve
<1>2. push'[k] = [push[k] EXCEPT !.service = s]
  BY <1>1 DEF PayInv, TypeOK
<1>3. push'[k].call = push[k].call /\ push'[k].price = push[k].price /\ push'[k] # Unsent
  <2>1. push \in [Pushes -> Push]
    BY DEF PayInv, TypeOK
  <2>2. /\ [push[k] EXCEPT !.service = s] \in Push \ {Unsent}
        /\ [push[k] EXCEPT !.service = s].call = push[k].call
        /\ [push[k] EXCEPT !.service = s].price = push[k].price
    BY <1>1, <2>1, ServiceFields DEF Services
  <2> QED BY <1>2, <2>2
<1>4. \A j \in Pushes : j # k => push'[j] = push[j]
  BY <1>1 DEF PayInv, TypeOK
<1>5. UNCHANGED portalVars
  BY DEF Prompt, Accept, RefusePush, Confirm
<1> QED BY <1>3, <1>4, <1>5 DEF Sent, portalVars

\* The gateway's answer to push k ends its call and nothing else of any push.
LEMMA EndOfCall ==
  ASSUME PayInv, NEW k \in Pushes, AnswerPush(k) \/ AbandonPush(k)
  PROVE  /\ push[k].call = "waiting" /\ Sent(k)
         /\ push'[k].call # "waiting"
         /\ push'[k].price = push[k].price
         /\ push'[k] # Unsent
         /\ \A j \in Pushes : j # k => push'[j] = push[j]
<1>1. PICK c \in {"answered", "abandoned"} :
        push[k].call = "waiting" /\ push' = [push EXCEPT ![k].call = c]
  BY DEF AnswerPush, AbandonPush
<1>2. push \in [Pushes -> Push] /\ Sent(k) /\ c \in Calls
  BY <1>1, CallMeansSent DEF PayInv, TypeOK, Calls
<1>3. push'[k] = [push[k] EXCEPT !.call = c]
  BY <1>1, <1>2
<1>4. /\ [push[k] EXCEPT !.call = c].call = c
      /\ [push[k] EXCEPT !.call = c].price = push[k].price
      /\ [push[k] EXCEPT !.call = c] \in Push \ {Unsent}
  BY <1>2, CallFields
<1> QED BY <1>1, <1>2, <1>3, <1>4

LEMMA PayStep == ASSUME PayInv, [Next]_vars PROVE PayInv'
<1>0. TypeOK /\ TypeOK'
  BY TypeStep DEF PayInv
<1> USE DEF OnePushAtATime
<1>1. CASE UNCHANGED <<push, screen, loading, amount, checkout>>
  BY <1>0, <1>1 DEF PayInv, Sent
<1>2. ASSUME NEW p \in Plans, NEW k \in Pushes, Pay(p, k) PROVE PayInv'
  <2>1. /\ screen' = "form" /\ ~loading /\ loading' /\ amount' = offers[p]
    BY <1>2 DEF Pay, Page!HandlePay
  <2>2. \A j \in Pushes : push[j].call # "waiting"
    BY <2>1 DEF PayInv
  <2>3. push'[k].price = amount' /\ \A j \in Pushes : j # k => push'[j] = push[j]
    BY <1>0, <1>2, <2>1 DEF Pay, TypeOK
  <2> QED BY <1>0, <2>1, <2>2, <2>3 DEF PayInv
<1>3. CASE Reload
  <2>1. screen' = "form"
    BY <1>3 DEF Reload, Page!Reload
  <2>2. ASSUME NEW k \in Pushes PROVE push'[k].call # "waiting"
    <3>1. CASE push[k].call = "waiting"
      <4>1. push'[k] = [push[k] EXCEPT !.call = "deserted"]
        BY <1>3, <3>1 DEF Reload
      <4>2. [push[k] EXCEPT !.call = "deserted"].call = "deserted"
        BY <1>0, <3>1, CallFields, CallMeansSent DEF TypeOK, Calls
      <4> QED BY <4>1, <4>2
    <3>2. CASE push[k].call # "waiting"
      BY <1>3, <3>2 DEF Reload
    <3> QED BY <3>1, <3>2
  <2> QED BY <1>0, <2>1, <2>2 DEF PayInv
<1>4. ASSUME NEW k \in Pushes, AnswerPush(k) PROVE PayInv'
  <2>1. amount' = amount /\ push[k].price = amount
    BY <1>4, EndOfCall DEF AnswerPush, Page!PushFailed, Page!PushAccepted, PayInv
  <2>2. \A j \in Pushes : push'[j].call # "waiting"
    BY <1>4, EndOfCall DEF PayInv
  <2>3. CASE Page!PushAccepted(k)
    BY <1>0, <1>4, <2>1, <2>2, <2>3, EndOfCall DEF Page!PushAccepted, PayInv, Sent
  <2>4. CASE Page!PushFailed
    <3>1. screen' = screen /\ checkout' = checkout /\ ~loading'
      BY <2>4 DEF Page!PushFailed
    <3>2. \A j \in Pushes : Sent(j) => Sent(j)' /\ push'[j].price = push[j].price
      BY <1>4, EndOfCall DEF Sent
    <3> QED BY <1>0, <2>1, <2>2, <3>1, <3>2 DEF PayInv
  <2> QED BY <1>4, <2>3, <2>4 DEF AnswerPush
<1>5. ASSUME NEW k \in Pushes, AbandonPush(k) PROVE PayInv'
  <2>1. screen' = screen /\ checkout' = checkout /\ amount' = amount /\ ~loading'
    BY <1>5 DEF AbandonPush, Page!PushFailed
  <2>2. \A j \in Pushes : push'[j].call # "waiting"
    BY <1>5, EndOfCall DEF PayInv
  <2>3. \A j \in Pushes : Sent(j) => Sent(j)' /\ push'[j].price = push[j].price
    BY <1>5, EndOfCall DEF Sent
  <2> QED BY <1>0, <2>1, <2>2, <2>3 DEF PayInv
<1>6. ASSUME NEW k \in Pushes, Prompt(k) \/ Accept(k) \/ RefusePush(k) \/ Confirm(k)
      PROVE  PayInv'
  BY <1>0, <1>6, ServeKeeps DEF PayInv
<1>7. CASE PortalPlans \/ Tick
  <2>1. UNCHANGED <<push, loading, amount, checkout>> /\ (screen' = "waiting" => screen = "waiting")
    BY <1>7 DEF PortalPlans, Tick, pushVars, Page!PlansArrive, Page!PlansFail,
                Page!PlansRefused, Page!Poll, Page!GiveUp
  <2> QED BY <1>0, <2>1 DEF PayInv, Sent
<1>8. CASE AdministratorStep
  BY <1>1, <1>8 DEF AdministratorStep, PanelPoll, PanelShow, OpenModal, CloseModal,
                    Save, Delete, Order, Handle, Answered, pushVars, portalVars
<1>9. CASE UNCHANGED vars
  BY <1>1, <1>9 DEF vars, pushVars, portalVars
<1> QED BY <1>2, <1>3, <1>4, <1>5, <1>6, <1>7, <1>8, <1>9
        DEF Next, CustomerStep, PushStep

\* What the waiting screen shows was accepted by the payment service.
ShownInv ==
  /\ PayInv /\ PromptInv
  /\ screen = "waiting" => push[checkout].service \in {"accepted", "paid"}

LEMMA ShownStep == ASSUME ShownInv, [Next]_vars PROVE ShownInv'
<1>0. PayInv' /\ PromptInv' /\ TypeOK
  BY PayStep, PromptStep DEF ShownInv, PayInv
<1> SUFFICES ASSUME screen' = "waiting"
             PROVE  push'[checkout'].service \in {"accepted", "paid"}
  BY <1>0 DEF ShownInv
<1>1. CASE UNCHANGED <<push, checkout>> /\ screen = "waiting"
  BY <1>1 DEF ShownInv
<1>2. ASSUME NEW k \in Pushes, AnswerPush(k) \/ AbandonPush(k)
      PROVE  push'[checkout'].service \in {"accepted", "paid"}
  <2>1. \A j \in Pushes : push'[j].service = push[j].service
    BY <1>0, <1>2, CallEffect
  <2>2. CASE Page!PushFailed
    BY <2>1, <2>2 DEF Page!PushFailed, ShownInv, PayInv
  <2>3. CASE AnswerPush(k) /\ push[k].service # "refused"
    BY <2>1, <2>3 DEF AnswerPush, Ended, Page!PushAccepted
  <2> QED BY <1>2, <2>2, <2>3 DEF AnswerPush, AbandonPush
<1>3. ASSUME NEW k \in Pushes, Prompt(k) \/ Accept(k) \/ RefusePush(k) \/ Confirm(k)
      PROVE  push'[checkout'].service \in {"accepted", "paid"}
  <2>1. PICK s \in {"prompted", "accepted", "refused", "paid"} :
          /\ \E from \in {{"asking"}, {"prompted"}, {"asking", "prompted"}, {"accepted"}} :
               Serve(k, from, s)
          /\ push[k].service = "accepted" => s = "paid"
          /\ push[k].service # "paid"
    BY <1>3 DEF Prompt, Accept, RefusePush, Confirm, Serve
  <2>2. push'[k].service = s /\ \A j \in Pushes : j # k => push'[j].service = push[j].service
    BY <1>0, <2>1, ServeEffect
  <2>3. screen = "waiting" /\ checkout' = checkout /\ checkout \in Pushes
    BY <1>3 DEF Prompt, Accept, RefusePush, Confirm, portalVars, ShownInv, PayInv
  <2> QED BY <2>1, <2>2, <2>3 DEF ShownInv
<1>4. CASE PortalPlans \/ Tick
  BY <1>1, <1>4 DEF PortalPlans, Tick, pushVars, Page!PlansArrive, Page!PlansFail,
                    Page!PlansRefused, Page!Poll, Page!GiveUp
<1>5. CASE Reload \/ \E p \in Plans, k \in Pushes : Pay(p, k)
  BY <1>5 DEF Reload, Page!Reload, Pay, Page!HandlePay
<1>6. CASE AdministratorStep \/ UNCHANGED vars
  BY <1>1, <1>6 DEF AdministratorStep, PanelPoll, PanelShow, OpenModal, CloseModal, Save,
                    Delete, Order, Handle, Answered, vars, pushVars, portalVars
<1> QED BY <1>2, <1>3, <1>4, <1>5, <1>6 DEF Next, CustomerStep, PushStep

LEMMA ShownInvariant == Spec => []ShownInv
<1>1. Init => ShownInv
  BY PayInit, PromptInit DEF ShownInv, Init, Page!Init
<1> QED BY <1>1, ShownStep, PTL DEF Spec

\* For any number of pushes, whichever fail, are abandoned or time out, the
\* amount that the waiting screen asks the customer to authorize is the one its
\* push names, and the phone was asked for it, less its cents (captive-portal
\* App.tsx:80, payment-service main.go:172).
THEOREM AmountsAgree == Spec => []AmountIsCharged
<1>1. ShownInv => AmountIsCharged
  <2> SUFFICES ASSUME ShownInv, screen = "waiting" PROVE AmountIsCharged
    BY DEF AmountIsCharged
  <2>1. /\ checkout \in Pushes /\ Sent(checkout) /\ push[checkout].price = amount
        /\ push \in [Pushes -> Push]
    BY DEF ShownInv, PayInv, TypeOK
  <2>2. amount \in Nat
    BY <2>1, PlansAssumption DEF Push, Sent
  <2>3. \E q \in prompts : q[1] = checkout
    BY <2>1 DEF ShownInv, PromptInv
  <2>4. \A q \in prompts : q[1] = checkout => q[2] = Whole(amount)
    BY <2>1 DEF ShownInv, PromptInv
  <2>5. \A q \in prompts : q[1] = checkout => q[2] <= amount /\ amount < q[2] + 100
    BY <2>2, <2>4, WholeShillings
  <2> QED BY <2>1, <2>3, <2>5 DEF AmountIsCharged
<1> QED BY ShownInvariant, <1>1, PTL

\* However the gateway's time-out and reloads fall, a page never waits for two
\* pushes (captive-portal App.tsx:210).
THEOREM WaitsForOne == Spec => []OnePushAtATime
<1>1. PayInv => OnePushAtATime
  BY DEF PayInv
<1> QED BY PayInit, PayStep, <1>1, PTL DEF Spec

-----------------------------------------------------------------------------
(***************************************************************************)
(* Prices                                                                  *)
(***************************************************************************)

\* Every push names what has been on sale, or what the portal falls back to.
NamedAsOffered ==
  \A k \in Pushes : Sent(k) => <<push[k].plan, push[k].price>> \in Offers

\* Every price that can still reach a push is known.
PriceInv ==
  /\ TypeOK
  /\ \A p \in Plans : plans[p] # NotSold => <<p, plans[p]>> \in sold
  /\ \A p \in Plans : offers[p] # NotSold => <<p, offers[p]>> \in Offers
  /\ NamedAsOffered

LEMMA PriceInit == Init => PriceInv
<1> SUFFICES ASSUME Init PROVE PriceInv
  OBVIOUS
<1>1. \A p \in Plans : plans[p] # NotSold => <<p, plans[p]>> \in sold
  BY DEF Init, History, Catalog!Sold
<1>2. \A p \in Plans : offers[p] = NotSold
  BY DEF Init, Page!Init, Page!NoOffers
<1>3. NamedAsOffered
  BY DEF Init, NamedAsOffered, Sent
<1> QED BY TypeInit, <1>1, <1>2, <1>3 DEF PriceInv

\* No step changes what a push that has left asks for.
LEMMA PushKeepsOrder ==
  ASSUME TypeOK, PushStep \/ Reload, NEW j \in Pushes, Sent(j)'
  PROVE  Sent(j) /\ push'[j].plan = push[j].plan /\ push'[j].price = push[j].price
<1>0. push \in [Pushes -> Push]
  BY DEF TypeOK
<1>1. ASSUME NEW k \in Pushes, NEW call \in Calls,
             push[k].call = "waiting", push' = [push EXCEPT ![k].call = call]
      PROVE  Sent(j) /\ push'[j].plan = push[j].plan /\ push'[j].price = push[j].price
  <2>1. Sent(k)
    BY <1>1, CallMeansSent DEF Calls
  <2>2. push'[k] = [push[k] EXCEPT !.call = call] /\ (j # k => push'[j] = push[j])
    BY <1>0, <1>1
  <2>3. /\ [push[k] EXCEPT !.call = call].plan = push[k].plan
        /\ [push[k] EXCEPT !.call = call].price = push[k].price
    BY <1>0, <1>1, <2>1, CallFields
  <2> QED BY <2>1, <2>2, <2>3 DEF Sent
<1>2. ASSUME NEW k \in Pushes, AnswerPush(k) \/ AbandonPush(k)
      PROVE  Sent(j) /\ push'[j].plan = push[j].plan /\ push'[j].price = push[j].price
  BY <1>1, <1>2 DEF AnswerPush, AbandonPush, Calls
<1>3. ASSUME NEW k \in Pushes, Prompt(k) \/ Accept(k) \/ RefusePush(k) \/ Confirm(k)
      PROVE  Sent(j) /\ push'[j].plan = push[j].plan /\ push'[j].price = push[j].price
  <2>1. PICK s \in {"prompted", "accepted", "refused", "paid"} :
          Sent(k) /\ push' = [push EXCEPT ![k].service = s]
    BY <1>3 DEF Prompt, Accept, RefusePush, Confirm, Serve
  <2>2. push'[k] = [push[k] EXCEPT !.service = s] /\ (j # k => push'[j] = push[j])
    BY <1>0, <2>1
  <2>3. /\ [push[k] EXCEPT !.service = s].plan = push[k].plan
        /\ [push[k] EXCEPT !.service = s].price = push[k].price
    BY <1>0, <2>1, ServiceFields DEF Services
  <2> QED BY <2>1, <2>2, <2>3 DEF Sent
<1>4. CASE Reload
  <2>1. CASE push[j].call = "waiting"
    <3>1. push'[j] = [push[j] EXCEPT !.call = "deserted"]
      BY <1>4, <2>1 DEF Reload
    <3>2. /\ [push[j] EXCEPT !.call = "deserted"].plan = push[j].plan
          /\ [push[j] EXCEPT !.call = "deserted"].price = push[j].price
      BY <1>0, <2>1, CallFields, CallMeansSent DEF Calls
    <3> QED BY <2>1, <3>1, <3>2, CallMeansSent DEF Calls
  <2>2. CASE push[j].call # "waiting"
    BY <1>4, <2>2 DEF Reload, Sent
  <2> QED BY <2>1, <2>2
<1> QED BY <1>2, <1>3, <1>4 DEF PushStep

\* What is known stays known.
LEMMA OffersGrow == ASSUME sold \subseteq sold' PROVE Offers \subseteq Offers'
BY DEF Offers

LEMMA PriceStep == ASSUME PriceInv, [Next]_vars PROVE PriceInv'
<1>0. TypeOK /\ TypeOK'
  BY TypeStep DEF PriceInv
<1> USE DEF NamedAsOffered
<1>1. CASE UNCHANGED <<plans, offers, push, sold>>
  BY <1>0, <1>1 DEF PriceInv, Offers, Sent
<1>2. ASSUME NEW r \in Requests, Handle(r) PROVE PriceInv'
  <2>1. UNCHANGED <<offers, push>> /\ sold \subseteq sold' /\ History' \subseteq sold'
    BY <1>2 DEF Handle, portalVars, pushVars
  <2>2. \A p \in Plans : plans'[p] # NotSold => <<p, plans'[p]>> \in sold'
    BY <2>1 DEF History, Catalog!Sold
  <2> QED BY <1>0, <2>1, <2>2 DEF PriceInv, Offers, Sent
<1>3. CASE PortalPlans
  <2>1. UNCHANGED <<plans, push, sold>>
    BY <1>3 DEF PortalPlans, catalogVars, pushVars
  <2>2. \A p \in Plans : offers'[p] # NotSold => <<p, offers'[p]>> \in Offers
    BY <1>3 DEF PortalPlans, Page!PlansArrive, Page!PlansFail, Page!PlansRefused, PriceInv, Offers
  <2> QED BY <1>0, <2>1, <2>2 DEF PriceInv, Offers, Sent
<1>4. ASSUME NEW p \in Plans, NEW k \in Pushes, Pay(p, k) PROVE PriceInv'
  <2>1. UNCHANGED <<plans, sold, offers>> /\ offers[p] # NotSold
    BY <1>4 DEF Pay, Page!HandlePay, catalogVars
  <2>2. push'[k].plan = p /\ push'[k].price = offers[p]
        /\ \A j \in Pushes : j # k => push'[j] = push[j]
    BY <1>0, <1>4 DEF Pay, TypeOK
  <2> QED BY <1>0, <2>1, <2>2 DEF PriceInv, Offers, Sent
<1>5. CASE PushStep \/ Reload
  <2>1. UNCHANGED <<plans, sold>>
    BY <1>5 DEF PushStep, Prompt, Accept, RefusePush, Confirm, AnswerPush, AbandonPush,
                Reload, catalogVars
  <2>2. \A p \in Plans : offers'[p] # NotSold => <<p, offers'[p]>> \in Offers
    <3>1. CASE Reload
      BY <3>1 DEF Reload, Page!Reload, Page!NoOffers
    <3>2. CASE PushStep
      BY <3>2 DEF PushStep, Prompt, Accept, RefusePush, Confirm, AnswerPush, AbandonPush,
                  portalVars, Page!PushFailed, Page!PushAccepted, PriceInv
    <3> QED BY <1>5, <3>1, <3>2
  <2>3. NamedAsOffered'
    BY <1>0, <1>5, <2>1, PushKeepsOrder DEF PriceInv, Offers
  <2> QED BY <1>0, <2>1, <2>2, <2>3 DEF PriceInv, Offers
<1>6. CASE Tick
  BY <1>1, <1>6 DEF Tick, Page!Poll, Page!GiveUp, catalogVars, pushVars
<1>7. CASE \/ PanelPoll \/ OpenModal \/ CloseModal
           \/ \E catalog \in lists : PanelShow(catalog)
  BY <1>1, <1>7 DEF PanelPoll, OpenModal, CloseModal, PanelShow, catalogVars, pushVars, portalVars
<1>8. ASSUME NEW r \in Requests,
             \/ \E target \in Plans \cup {NewPlan}, price \in Prices : Save(r, target, price)
             \/ \E p \in Plans : Delete(r, p)
             \/ Answered(r)
      PROVE  PriceInv'
  BY <1>1, <1>8 DEF Save, Delete, Order, Answered, Catalog!Send, Catalog!Answer,
                    pushVars, portalVars
<1>9. CASE UNCHANGED vars
  BY <1>1, <1>9 DEF vars, catalogVars, pushVars, portalVars
<1> QED BY <1>2, <1>3, <1>4, <1>5, <1>6, <1>7, <1>8, <1>9
        DEF Next, AdministratorStep, CustomerStep

\* A push only ever names a price that the plan has had, or that the portal's own
\* list names for it (captive-portal App.tsx:44-51), whatever the administrator
\* does meanwhile; and a phone is only ever asked for such a price less its cents
\* (payment-service main.go:172).
THEOREM NoInventedPrice == Spec => []ChargedAsSoldOnce
<1>1. PriceInv /\ PromptInv => ChargedAsSoldOnce
  <2> SUFFICES ASSUME PriceInv, PromptInv, NEW q \in prompts
               PROVE  \E offer \in Offers :
                        offer[1] = push[q[1]].plan /\ q[2] <= offer[2] /\ offer[2] < q[2] + 100
    BY DEF ChargedAsSoldOnce, PriceInv, NamedAsOffered
  <2>1. q[1] \in Pushes /\ Sent(q[1]) /\ push[q[1]] \in Push
    BY DEF PromptInv, TypeOK
  <2>2. push[q[1]].price \in Nat
    BY <2>1, PlansAssumption DEF Push, Sent
  <2>3. <<push[q[1]].plan, push[q[1]].price>> \in Offers
    BY <2>1 DEF PriceInv, NamedAsOffered
  <2>4. q[2] <= push[q[1]].price /\ push[q[1]].price < q[2] + 100
    BY <2>2, WholeShillings DEF PromptInv
  <2> QED BY <2>3, <2>4
<1>2. Init => PriceInv /\ PromptInv
  BY PriceInit, PromptInit
<1>3. PriceInv /\ PromptInv /\ [Next]_vars => (PriceInv /\ PromptInv)'
  BY PriceStep, PromptStep
<1> QED BY <1>1, <1>2, <1>3, PTL DEF Spec

-----------------------------------------------------------------------------
(***************************************************************************)
(* The modal                                                               *)
(***************************************************************************)
LEMMA ModalStep ==
  ASSUME ModalIsWhatWasOpened, [Next]_vars
  PROVE  ModalIsWhatWasOpened'
<1> USE DEF ModalIsWhatWasOpened, Panel!ModalIsWhatWasOpened
<1>1. CASE UNCHANGED <<isOpen, editing, opened>>
  BY <1>1
<1>2. CASE OpenModal
  BY <1>2 DEF OpenModal, Panel!AddPackage, Panel!EditPackage, Panel!OpenFor
<1>3. CASE CloseModal
  BY <1>3 DEF CloseModal, Panel!Cancel
<1>4. ASSUME NEW r \in Requests, Answered(r) PROVE ModalIsWhatWasOpened'
  BY <1>4 DEF Answered, Panel!Saved, Panel!Deleted, Panel!Poll, panelVars
<1>5. CASE PanelPoll \/ \E catalog \in lists : PanelShow(catalog)
  BY <1>5 DEF PanelPoll, PanelShow, Panel!Poll, Panel!ShowPlans
<1>6. ASSUME NEW r \in Requests,
             \/ \E target \in Plans \cup {NewPlan}, price \in Prices : Save(r, target, price)
             \/ \E p \in Plans : Delete(r, p)
             \/ Handle(r)
      PROVE  ModalIsWhatWasOpened'
  BY <1>6 DEF Save, Delete, Order, Handle, panelVars
<1>7. CASE CustomerStep
  BY <1>7 DEF CustomerStep, PortalPlans, Tick, Reload, Pay, panelVars
<1>8. CASE PushStep
  BY <1>8 DEF PushStep, Prompt, Accept, RefusePush, Confirm, AnswerPush, AbandonPush, panelVars
<1>9. CASE UNCHANGED vars
  BY <1>9 DEF vars, panelVars
<1> QED BY <1>2, <1>3, <1>4, <1>5, <1>6, <1>7, <1>8, <1>9 DEF Next, AdministratorStep

\* Late answers never leave the modal open for something other than what the
\* administrator opened it for (dashboard App.tsx:218).
THEOREM ModalKept == Spec => []ModalIsWhatWasOpened
<1>1. Init => ModalIsWhatWasOpened
  BY DEF Init, Panel!Init, ModalIsWhatWasOpened, Panel!ModalIsWhatWasOpened
<1> QED BY <1>1, ModalStep, PTL DEF Spec

-----------------------------------------------------------------------------
(***************************************************************************)
(* The shop implements Sale                                                *)
(***************************************************************************)
FairInv == PayInv /\ PriceInv /\ PromptInv

\* What one order of the administrator does to the offers there have been.
LEMMA HandleSells ==
  ASSUME PriceInv, NEW r \in Requests, Handle(r)
  PROVE  sold' = sold \/ \E p \in Plans, x \in Prices : Promise!Sell(p, x)
<1>0. /\ plans \in [Plans -> Prices \cup {NotSold}]
      /\ sold' = sold \cup History'
      /\ UNCHANGED <<push, prompts, screen, amount, checkout>>
      /\ \A p \in Plans : plans[p] # NotSold => <<p, plans[p]>> \in sold
  BY DEF PriceInv, TypeOK, Catalog!TypeOK, Catalog!Catalogs, Handle, pushVars, portalVars
<1>1. UNCHANGED <<Asked, Awaiting, Recorded, Shown, Granted>>
  BY <1>0 DEF Asked, Awaiting, Recorded, Shown, Granted, Sent
<1>2. ASSUME NEW p \in Plans, NEW x \in Prices, plans' = [plans EXCEPT ![p] = x]
      PROVE  Promise!Sell(p, x)
  <2>1. x # NotSold
    BY PlansAssumption
  <2>2. \A q \in Plans : plans'[q] = IF q = p THEN x ELSE plans[q]
    BY <1>0, <1>2
  <2>3. <<p, x>> \in History' /\ History' \subseteq sold \cup {<<p, x>>}
    BY <1>0, <2>1, <2>2 DEF History, Catalog!Sold
  <2>4. sold' = sold \cup {<<p, x>>}
    BY <1>0, <2>3
  <2> QED BY <1>0, <1>1, <2>4 DEF Promise!Sell
<1>3. ASSUME plans' = plans \/ \E p : plans' = [plans EXCEPT ![p] = NotSold]
      PROVE  sold' = sold
  <2>1. \A q \in Plans : plans'[q] # NotSold => plans'[q] = plans[q]
    BY <1>0, <1>3
  <2>2. History' \subseteq sold
    BY <1>0, <2>1 DEF History, Catalog!Sold
  <2> QED BY <1>0, <2>2
<1>4. Catalog!TypeOK /\ Catalog!Handle(r)
  BY DEF PriceInv, TypeOK, Handle
<1>5. ASSUME work[r].stage \in {"sent", "loaded"}
      PROVE  /\ work[r].order \in Catalog!Orders
             /\ work[r].order.op = "save" =>
                  work[r].order.price \in Prices /\ work[r].order.plan \in Plans \cup {NewPlan}
             /\ work[r].order.plan = NewPlan => work[r].order.op = "save"
  <2>1. work[r] # Catalog!Idle /\ work[r] \in Catalog!Work
    BY <1>4, <1>5 DEF Catalog!TypeOK, Catalog!Idle
  <2>2. work[r].order \in Catalog!Orders
    BY <2>1 DEF Catalog!Work
  <2> QED BY <2>2, PlansAssumption DEF Catalog!Orders
<1>6. CASE \E p \in Plans : Catalog!Create(r, p)
  BY <1>2, <1>5, <1>6 DEF Catalog!Create
<1>7. CASE Catalog!SaveRow(r)
  <2>1. CASE work[r].order.plan \in Plans
    BY <1>2, <1>5, <1>7, <2>1 DEF Catalog!SaveRow
  <2>2. CASE work[r].order.plan \notin Plans
    BY <1>0, <1>3, <1>7, <2>2 DEF Catalog!SaveRow
  <2> QED BY <2>1, <2>2
<1>8. CASE Catalog!RemoveRow(r)
  BY <1>3, <1>8 DEF Catalog!RemoveRow
<1>9. CASE Catalog!Load(r) \/ Catalog!Refuse(r)
  BY <1>3, <1>9 DEF Catalog!Load, Catalog!Refuse
<1> QED BY <1>4, <1>6, <1>7, <1>8, <1>9 DEF Catalog!Handle

\* Whatever leaves the pushes, the offers and the waiting screen alone is no
\* business of the customer's.
LEMMA SaleUntouched ==
  ASSUME UNCHANGED <<sold, push, prompts>>,
         \/ UNCHANGED <<screen, checkout, amount>>
         \/ screen # "waiting" /\ screen' # "waiting"
  PROVE  UNCHANGED Promise!sale
BY DEF Promise!sale, Asked, Awaiting, Recorded, Shown, Granted, Sent

\* A customer asks for an offer on the page's list.
LEMMA PayAsks ==
  ASSUME FairInv, NEW p \in Plans, NEW k \in Pushes, Pay(p, k)
  PROVE  \E x \in Prices : Promise!Ask(k, p, x)
<1>1. /\ push \in [Pushes -> Push]
      /\ screen = "form" /\ screen' = "form" /\ ~loading
      /\ push[k] = Unsent
      /\ UNCHANGED <<sold, prompts>>
      /\ offers[p] \in Prices /\ <<p, offers[p]>> \in Offers
  <2>1. offers[p] # NotSold /\ offers \in [Plans -> Prices \cup {NotSold}]
    BY DEF Pay, Page!HandlePay, FairInv, PayInv, TypeOK, Page!TypeOK
  <2>2. <<p, offers[p]>> \in Offers
    BY <2>1 DEF FairInv, PriceInv
  <2>3. push[k] = Unsent
    BY DEF Pay, Fresh
  <2> QED BY <2>1, <2>2, <2>3 DEF Pay, Page!HandlePay, FairInv, PayInv, TypeOK
<1>2. PICK n : n = [call |-> "waiting", plan |-> p, price |-> offers[p], service |-> "asking"]
  OBVIOUS
<1>3. push' = [push EXCEPT ![k] = n]
  BY <1>2 DEF Pay
<1>4. n # Unsent /\ n.call = "waiting" /\ n.plan = p /\ n.price = offers[p] /\ n.service = "asking"
  BY <1>2 DEF Unsent
<1>5. push'[k] = n /\ \A j \in Pushes : j # k => push'[j] = push[j]
  BY <1>1, <1>3
<1>6. \A j \in Pushes : push[j].call # "waiting"
  BY <1>1 DEF FairInv, PayInv
<1>7. Awaiting = {} /\ Awaiting' = {k}
  BY <1>4, <1>5, <1>6 DEF Awaiting
<1>8. Asked' = Asked \cup {<<k, p, offers[p]>>} /\ \A a \in Asked : a[1] # k
  <2>1. \A j \in Pushes : Sent(j)' <=> Sent(j) \/ j = k
    BY <1>4, <1>5 DEF Sent
  <2>2. \A j \in Pushes : Sent(j) => j # k
    BY <1>1 DEF Sent
  <2> QED BY <1>4, <1>5, <2>1, <2>2 DEF Asked
<1>9. UNCHANGED <<Recorded, Granted>> /\ Shown = {} /\ Shown' = {}
  BY <1>1, <1>4, <1>5 DEF Recorded, Granted, Shown, Sent
<1> QED BY <1>1, <1>7, <1>8, <1>9 DEF Promise!Ask, Offers

\* The payment service records a push and switches its session on; the rest of
\* its work is no business of the customer's page.
LEMMA ServesSale ==
  ASSUME FairInv, NEW k \in Pushes,
         Prompt(k) \/ Accept(k) \/ RefusePush(k) \/ Confirm(k)
  PROVE  [Promise!Next]_(Promise!sale)
<1>0. TypeOK /\ UNCHANGED <<sold, screen, checkout, amount, plans>>
  BY DEF FairInv, PayInv, Prompt, Accept, RefusePush, Confirm, portalVars, catalogVars
<1>1. ASSUME NEW s \in {"prompted", "accepted", "refused", "paid"}, NEW from, Serve(k, from, s)
      PROVE  /\ UNCHANGED <<sold, Asked, Awaiting, Shown>>
             /\ Recorded' = IF s \in {"accepted", "paid"} THEN Recorded \cup {k} ELSE Recorded \ {k}
             /\ Granted' = IF s = "paid" THEN Granted \cup {k} ELSE Granted \ {k}
             /\ Sent(k) /\ push[k].service \in from
  <2>1. /\ Sent(k)
        /\ \A j \in Pushes : (Sent(j)' <=> Sent(j)) /\ push'[j].call = push[j].call
                              /\ push'[j].plan = push[j].plan /\ push'[j].price = push[j].price
        /\ push'[k].service = s
        /\ \A j \in Pushes : j # k => push'[j].service = push[j].service
    BY <1>0, <1>1, ServeEffect
  <2>2. Asked' = Asked
    BY <2>1 DEF Asked
  <2>3. Awaiting' = Awaiting
    BY <2>1 DEF Awaiting
  <2>4. Recorded' = IF s \in {"accepted", "paid"} THEN Recorded \cup {k} ELSE Recorded \ {k}
    BY <2>1 DEF Recorded
  <2>5. Granted' = IF s = "paid" THEN Granted \cup {k} ELSE Granted \ {k}
    BY <2>1 DEF Granted
  <2> QED BY <1>0, <1>1, <2>1, <2>2, <2>3, <2>4, <2>5 DEF Serve, Shown
<1>2. CASE Prompt(k)
  <2>1. k \notin Recorded /\ k \notin Granted /\ Serve(k, {"asking"}, "prompted")
        /\ push[k].service = "asking"
    BY <1>2 DEF Prompt, Serve, Recorded, Granted
  <2>2. UNCHANGED <<sold, Asked, Awaiting, Shown, Recorded, Granted>> /\ Sent(k)
    BY <1>1, <2>1
  <2> DEFINE a == <<k, push[k].plan, push[k].price>>
             x == Whole(push[k].price)
  <2>3. a \in Asked /\ push[k].price \in Nat
    BY <1>0, <2>2, PlansAssumption DEF Asked, TypeOK, Push, Sent
  <2>4. \A q \in prompts : q[1] # k
    BY <2>1 DEF FairInv, PromptInv
  <2>5. prompts' = prompts \cup {<<k, x>>} /\ x \in 0 .. a[3] /\ a[3] < x + 100
    <3>1. x \in Nat /\ x <= push[k].price /\ push[k].price < x + 100
      BY <2>3, WholeShillings
    <3> HIDE DEF x
    <3>2. prompts' = prompts \cup {<<k, x>>}
      BY <1>2 DEF Prompt, x
    <3> QED BY <2>3, <3>1, <3>2
  <2>6. Promise!Prompt(a)
    BY <2>2, <2>4, <2>5 DEF Promise!Prompt
  <2> QED BY <2>3, <2>6 DEF Promise!Next
<1>3. CASE RefusePush(k)
  <2>1. k \notin Recorded /\ k \notin Granted
    BY <1>3 DEF RefusePush, Serve, Recorded, Granted
  <2>2. prompts' = prompts
    BY <1>3 DEF RefusePush
  <2> QED BY <1>1, <1>3, <2>1, <2>2 DEF RefusePush, Promise!sale
<1>4. CASE Accept(k)
  <2>1. k \notin Granted /\ Serve(k, {"prompted"}, "accepted")
    BY <1>4 DEF Accept, Serve, Granted
  <2>2. UNCHANGED <<sold, Asked, Awaiting, Shown, Granted>> /\ Recorded' = Recorded \cup {k} /\ Sent(k)
    BY <1>1, <2>1
  <2>3. push[k].plan \in Plans /\ push[k].price \in Prices
    BY <1>0, <2>2 DEF TypeOK, Push, Sent
  <2>4. <<k, push[k].plan, push[k].price>> \in Asked
    BY <2>2 DEF Asked
  <2>5. <<push[k].plan, plans[push[k].plan]>> \in sold
    BY <1>4, <2>3 DEF Accept, Catalog!Sold, FairInv, PriceInv
  <2>6. prompts' = prompts /\ \E q \in prompts : q[1] = k
    BY <1>4, <2>2 DEF Accept, Serve, FairInv, PromptInv
  <2>7. Promise!Record(<<k, push[k].plan, push[k].price>>)
    BY <2>2, <2>5, <2>6 DEF Promise!Record
  <2> QED BY <2>4, <2>7 DEF Promise!Next
<1>5. CASE Confirm(k)
  <2>1. k \in Recorded /\ Serve(k, {"accepted"}, "paid")
    BY <1>5 DEF Confirm, Serve, Recorded
  <2>2. prompts' = prompts
    BY <1>5 DEF Confirm
  <2>3. Promise!Grant(k)
    BY <1>1, <2>1, <2>2 DEF Promise!Grant
  <2> QED BY <2>3 DEF Promise!Next
<1> QED BY <1>2, <1>3, <1>4, <1>5

\* The end of the gateway's call, as its page learns of it.
LEMMA EndsSale ==
  ASSUME FairInv, NEW k \in Pushes, AnswerPush(k) \/ AbandonPush(k)
  PROVE  [Promise!Next]_(Promise!sale)
<1>0. TypeOK /\ push \in [Pushes -> Push] /\ UNCHANGED <<sold, prompts>> /\ Sent(k)
  BY CallMeansSent DEF FairInv, PayInv, TypeOK, AnswerPush, AbandonPush, Calls
<1>1. PICK c \in {"answered", "abandoned"} :
        push[k].call = "waiting" /\ push' = [push EXCEPT ![k].call = c]
  BY DEF AnswerPush, AbandonPush
<1>2. push'[k] = [push[k] EXCEPT !.call = c] /\ \A j \in Pushes : j # k => push'[j] = push[j]
  BY <1>0, <1>1
<1>3. /\ [push[k] EXCEPT !.call = c] \in Push \ {Unsent}
      /\ [push[k] EXCEPT !.call = c].call = c
      /\ [push[k] EXCEPT !.call = c].plan = push[k].plan
      /\ [push[k] EXCEPT !.call = c].price = push[k].price
      /\ [push[k] EXCEPT !.call = c].service = push[k].service
  BY <1>0, CallFields DEF Calls
<1>4. \A j \in Pushes :
        (Sent(j)' <=> Sent(j)) /\ push'[j].plan = push[j].plan
        /\ push'[j].price = push[j].price /\ push'[j].service = push[j].service
  BY <1>0, <1>2, <1>3 DEF Sent
<1>5. Asked' = Asked
  BY <1>4 DEF Asked
<1>6. Recorded' = Recorded /\ Granted' = Granted
  BY <1>4 DEF Recorded, Granted
<1>7. Awaiting = {k} /\ Awaiting' = {}
  <2>1. \A j \in Pushes : push[j].call = "waiting" <=> j = k
    BY <1>1 DEF FairInv, PayInv, OnePushAtATime
  <2>2. \A j \in Pushes : push'[j].call # "waiting"
    BY <1>2, <1>3, <2>1
  <2> QED BY <2>1, <2>2 DEF Awaiting
<1>8. CASE Page!PushFailed
  <2>1. Shown' = Shown
    BY <1>8 DEF Page!PushFailed, Shown
  <2> QED BY <1>0, <1>5, <1>6, <1>7, <2>1 DEF Promise!Part, Promise!Next
<1>9. CASE AnswerPush(k) /\ push[k].service # "refused"
  <2>1. Page!PushAccepted(k) /\ push[k].service \in {"accepted", "paid"}
    BY <1>9 DEF AnswerPush, Ended
  <2>2. push[k].plan \in Plans /\ push[k].price \in Prices /\ push[k].price = amount
    BY <1>0, <1>1 DEF TypeOK, Push, Sent, FairInv, PayInv
  <2>3. Shown' = {<<k, push[k].price>>}
    BY <2>1, <2>2 DEF Page!PushAccepted, Shown
  <2>4. k \in Recorded /\ <<k, push[k].plan, push[k].price>> \in Asked
    BY <1>0, <2>1 DEF Recorded, Asked
  <2>5. Promise!Show(<<k, push[k].plan, push[k].price>>)
    BY <1>0, <1>5, <1>6, <1>7, <2>3, <2>4 DEF Promise!Show
  <2> QED BY <2>4, <2>5 DEF Promise!Next
<1> QED BY <1>8, <1>9 DEF AnswerPush, AbandonPush

\* A page that is loaded again waits for nothing and shows nothing.
LEMMA ReloadParts ==
  ASSUME FairInv, Reload
  PROVE  Promise!Part
<1>0. push \in [Pushes -> Push] /\ UNCHANGED <<sold, prompts>> /\ screen' = "form"
  BY DEF FairInv, PayInv, TypeOK, Reload, Page!Reload
<1>1. ASSUME NEW j \in Pushes
      PROVE  /\ Sent(j)' <=> Sent(j)
             /\ push'[j].plan = push[j].plan /\ push'[j].price = push[j].price
             /\ push'[j].service = push[j].service /\ push'[j].call # "waiting"
  <2>1. CASE push[j].call = "waiting"
    <3>1. push'[j] = [push[j] EXCEPT !.call = "deserted"] /\ Sent(j)
      BY <2>1, CallMeansSent DEF Reload, Calls
    <3>2. /\ [push[j] EXCEPT !.call = "deserted"] \in Push \ {Unsent}
          /\ [push[j] EXCEPT !.call = "deserted"].call = "deserted"
          /\ [push[j] EXCEPT !.call = "deserted"].plan = push[j].plan
          /\ [push[j] EXCEPT !.call = "deserted"].price = push[j].price
          /\ [push[j] EXCEPT !.call = "deserted"].service = push[j].service
      BY <1>0, <3>1, CallFields DEF Calls
    <3> QED BY <3>1, <3>2 DEF Sent
  <2>2. CASE push[j].call # "waiting"
    BY <2>2 DEF Reload, Sent
  <2> QED BY <2>1, <2>2
<1>2. Asked' = Asked
  BY <1>1 DEF Asked
<1>3. Recorded' = Recorded /\ Granted' = Granted
  BY <1>1 DEF Recorded, Granted
<1>4. Awaiting' = {} /\ Shown' = {}
  BY <1>0, <1>1 DEF Awaiting, Shown
<1> QED BY <1>0, <1>2, <1>3, <1>4 DEF Promise!Part

\* The timer either leaves the waiting screen or leaves it as it is, and plans
\* arrive on a page that is not waiting.
LEMMA PageSale ==
  ASSUME FairInv, Tick \/ PortalPlans
  PROVE  [Promise!Next]_(Promise!sale)
<1>0. UNCHANGED <<sold, push, prompts, checkout, amount>> /\ screen' \in {screen, "form", "blank"}
  BY DEF Tick, PortalPlans, Authorized, Page!Poll, Page!GiveUp, Page!PlansArrive,
         Page!PlansFail, Page!PlansRefused, pushVars
<1>1. UNCHANGED <<Asked, Recorded, Granted, Awaiting>>
  BY <1>0 DEF Asked, Recorded, Granted, Awaiting, Sent
<1>2. CASE screen' = screen
  BY <1>0, <1>2, SaleUntouched
<1>3. CASE screen' # screen /\ screen # "waiting"
  BY <1>0, <1>3, SaleUntouched
<1>4. CASE screen' # screen /\ screen = "waiting"
  <2>1. Awaiting = {} /\ Shown' = {}
    BY <1>0, <1>4 DEF Awaiting, Shown, FairInv, PayInv
  <2> QED BY <1>0, <1>1, <2>1 DEF Promise!Part, Promise!Next
<1> QED BY <1>2, <1>3, <1>4

LEMMA SaleInit == Init => Promise!Init
<1> SUFFICES ASSUME Init PROVE Promise!Init
  OBVIOUS
<1>1. sold \subseteq Plans \X Prices
  BY TypeInit DEF TypeOK
<1>2. \A k \in Pushes : ~Sent(k) /\ push[k].call = "unsent"
  BY DEF Init, Sent, Unsent
<1>3. prompts = {} /\ Asked = {} /\ Awaiting = {} /\ Recorded = {} /\ Granted = {}
  BY <1>2 DEF Init, Asked, Awaiting, Recorded, Granted
<1>4. Shown = {}
  BY DEF Init, Page!Init, Shown
<1> QED BY <1>1, <1>3, <1>4 DEF Promise!Init

LEMMA SaleStep == ASSUME FairInv, [Next]_vars PROVE [Promise!Next]_(Promise!sale)
<1>1. ASSUME NEW r \in Requests, Handle(r) PROVE [Promise!Next]_(Promise!sale)
  <2>1. UNCHANGED <<push, prompts, screen, checkout, amount>>
    BY <1>1 DEF Handle, pushVars, portalVars
  <2>2. CASE sold' = sold
    BY <2>1, <2>2, SaleUntouched
  <2>3. CASE \E p \in Plans, x \in Prices : Promise!Sell(p, x)
    BY <2>3 DEF Promise!Next
  <2> QED BY <1>1, <2>2, <2>3, HandleSells DEF FairInv
<1>2. ASSUME NEW p \in Plans, NEW k \in Pushes, Pay(p, k) PROVE [Promise!Next]_(Promise!sale)
  BY <1>2, PayAsks DEF Promise!Next
<1>3. CASE Reload
  BY <1>3, ReloadParts DEF Promise!Next
<1>4. CASE Tick \/ PortalPlans
  BY <1>4, PageSale
<1>5. CASE PushStep
  BY <1>5, ServesSale, EndsSale DEF PushStep
<1>6. CASE UNCHANGED <<sold, pushVars, portalVars>>
  BY <1>6, SaleUntouched DEF pushVars, portalVars
<1>7. CASE \/ PanelPoll \/ OpenModal \/ CloseModal
           \/ \E catalog \in lists : PanelShow(catalog)
  BY <1>6, <1>7 DEF PanelPoll, OpenModal, CloseModal, PanelShow
<1>8. ASSUME NEW r \in Requests,
             \/ \E target \in Plans \cup {NewPlan}, price \in Prices : Save(r, target, price)
             \/ \E p \in Plans : Delete(r, p)
             \/ Answered(r)
      PROVE  [Promise!Next]_(Promise!sale)
  BY <1>6, <1>8 DEF Save, Delete, Order, Answered
<1>9. CASE UNCHANGED vars
  BY <1>6, <1>9 DEF vars
<1> QED BY <1>1, <1>2, <1>3, <1>4, <1>5, <1>7, <1>8, <1>9
        DEF Next, AdministratorStep, CustomerStep

LEMMA FairInvariant == Spec => []FairInv
<1>1. Init => FairInv
  BY PayInit, PriceInit, PromptInit DEF FairInv
<1>2. FairInv /\ [Next]_vars => FairInv'
  BY PayStep, PriceStep, PromptStep DEF FairInv
<1> QED BY <1>1, <1>2, PTL DEF Spec

\* The shop keeps the promise of Sale to its customer, for any number of plans,
\* prices, orders, pushes and reloads: each of its steps is one of Sale's or none
\* (captive-portal App.tsx:55-101, handlers.go:94-113, payment-service
\* main.go:172, 239-243).
THEOREM SaleIsFair == Spec => FairSale
<1>1. FairInv /\ [Next]_vars => [Promise!Next]_(Promise!sale)
  BY SaleStep
<1> QED BY SaleInit, FairInvariant, <1>1, PTL DEF Spec, FairSale, Promise!Spec

=============================================================================
