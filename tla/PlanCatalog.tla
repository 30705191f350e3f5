----------------------------- MODULE PlanCatalog -----------------------------
(***************************************************************************)
(* The table of plans and the gateway's handlers that administer it        *)
(* (apps/api/handlers.go): creating, updating and deleting a plan.  Of a   *)
(* plan only the price is kept.                                            *)
(*                                                                         *)
(* An update or a deletion loads the row first and then writes, without a  *)
(* transaction; gorm's Save inserts a row that is not there.  Ids are a    *)
(* sequence of the database and are never used again.                      *)
(***************************************************************************)
CONSTANTS
  Plans,      \* ids of plans
  NewPlan,    \* no id: a plan is to be created
  Prices,
  NotSold,    \* the price of an id without a row
  Seed,       \* the catalog that database.go creates
  Requests    \* requests of the administrator

VARIABLES
  plans,      \* price of each row
  used,       \* ids given out
  work        \* state of each request

catalogVars == <<plans, used, work>>

Catalogs == [Plans -> Prices \cup {NotSold}]
Sold(catalog) == {p \in Plans : catalog[p] # NotSold}

Idle == [stage |-> "idle"]

\* What a request asks: a new price for a plan (or a new plan), or its removal.
Orders ==
  [op : {"save"}, plan : Plans \cup {NewPlan}, price : Prices]
    \cup [op : {"delete"}, plan : Plans]

Work ==
  {Idle}
    \cup [stage : {"sent", "loaded", "done", "refused", "answered"}, order : Orders]

TypeOK ==
  /\ plans \in Catalogs
  /\ used \subseteq Plans
  /\ work \in [Requests -> Work]

\* Creating the seed may have failed or been interrupted for any of its plans.  (A
\* later start creates some of those again, if the table is not empty.)
Init ==
  /\ plans \in Catalogs
  /\ \A p \in Sold(plans) : plans[p] = Seed[p]
  /\ used = Sold(plans)
  /\ work = [r \in Requests |-> Idle]

Stage(r, stage) == work' = [work EXCEPT ![r].stage = stage]

\* An administrator sends an order.
Send(r, order) ==
  /\ work[r] = Idle
  /\ work' = [work EXCEPT ![r] = [stage |-> "sent", order |-> order]]
  /\ UNCHANGED <<plans, used>>

\* handleAdminCreatePlan: any id that was never used.
Create(r, p) ==
  /\ work[r].stage = "sent"
  /\ work[r].order.plan = NewPlan
  /\ p \notin used
  /\ plans' = [plans EXCEPT ![p] = work[r].order.price]
  /\ used' = used \cup {p}
  /\ Stage(r, "done")

\* First of handleAdminUpdatePlan and handleAdminDeletePlan: 404 without a row.
Load(r) ==
  /\ work[r].stage = "sent"
  /\ work[r].order.plan # NewPlan
  /\ Stage(r, IF work[r].order.plan \in Sold(plans) THEN "loaded" ELSE "refused")
  /\ UNCHANGED <<plans, used>>

\* Save: the row is written, or inserted again if it was deleted meanwhile.
SaveRow(r) ==
  /\ work[r].stage = "loaded"
  /\ work[r].order.op = "save"
  /\ plans' = [plans EXCEPT ![work[r].order.plan] = work[r].order.price]
  /\ Stage(r, "done")
  /\ UNCHANGED used

\* Delete: a row that is gone already is no error.
RemoveRow(r) ==
  /\ work[r].stage = "loaded"
  /\ work[r].order.op = "delete"
  /\ plans' = [plans EXCEPT ![work[r].order.plan] = NotSold]
  /\ Stage(r, "done")
  /\ UNCHANGED used

\* A statement fails: the database is down, or a session refers to the plan.
Refuse(r) ==
  /\ work[r].stage \in {"sent", "loaded"}
  /\ Stage(r, "refused")
  /\ UNCHANGED <<plans, used>>

Handle(r) ==
  \/ \E p \in Plans : Create(r, p)
  \/ Load(r) \/ SaveRow(r) \/ RemoveRow(r) \/ Refuse(r)

\* The answer has reached the browser.
Answer(r) ==
  /\ work[r].stage \in {"done", "refused"}
  /\ Stage(r, "answered")
  /\ UNCHANGED <<plans, used>>

=============================================================================
