# HotspotOS, specified in TLA+

HotspotOS sells internet access over a captive portal. A client of the hotspot
picks a plan and pays for it with M-Pesa; the payment service records the
purchase and, when Safaricom confirms the payment, has the API gateway ask the
network manager to let the client's MAC address through the firewall. The
modules here model that path, the sale as the customer's portal sees it, and the
applications an administrator uses; they check them on small instances with TLC
and prove the main safety properties for all instances with TLAPS.

## Inventory

| Component | State | Operations | Talks to |
|---|---|---|---|
| Payment service (`services/payment-service/main.go`) | none of its own but running handlers and goroutines; rows of `payments`, `sessions`, `devices` | `handleSTKPush`, `handleMpesaCallback`, `triggerMockCallback`, `notifyApiToAuthorize` | PostgreSQL, Redis (`payment_updates`), Safaricom, gateway |
| API gateway (`apps/api`) | running handlers; WebSocket clients under `wsClientsMu`; the same database, also `plans` and `audit_logs` | proxies for push and callback, `handleInternalAuthorize`, `handleAdminDisconnect`, plan create/update/delete, reports, login, WebSocket hub, captive redirect | payment service, network manager, PostgreSQL, Redis |
| Network manager (`services/network-manager/main.go`) | map `activeClients` under `clientsMu` | `handleAuthorize`, `handleRevoke`, `handleListActive`, `handleGetMacByIP`, usage simulator | firewall controller, ARP table |
| Firewall controller (`firewall.go`) | `SimulationMode`; in the kernel: table, chains, rules and the set `authorized_macs` | `SetupPortal`, `AuthorizeClient`, `RevokeClient` | nftables |
| Database package (`packages/database`) | connections | connect with retries, migrate, seed admin and plans | PostgreSQL, Redis |
| Data model, auth, logger (`packages/...`) | none | row types, JWT, output | |
| Captive portal (`services/captive-portal`) | list of plans, screen, amount, checkout, polling timer | fetch plans or fall back, buy, poll, time out | gateway |
| Dashboard (`apps/dashboard`) | token, figures, one chain of WebSockets per login, list of plans, modal | sign in and out, poll, disconnect, add, edit and delete plans | gateway |
| Mobile app (`apps/mobile`) | telemetry on the screen | poll, revoke | gateway |

What is hard in this code:

* No handler opens a database transaction. `handleSTKPush` makes five
  statements and `handleMpesaCallback` up to six, all of them on rows the other
  handler also writes, and gorm's `Save` writes back every column of a copy
  read earlier. Several writes have their errors ignored.
* The callback comes when it will: before the push handler has recorded or
  linked the payment, several times, never. The handler takes each at its word:
  it looks at `ResultCode` and compares it with nothing.
* Safaricom is asked for `int(amount)`, while the record and the waiting screen
  have the whole price.
* Goroutines (mock callback, notification) die with the process and are not
  retried, while the rows they were to follow up stay.
* The network manager holds one truth (who is authorized) in three places: the
  kernel's set, its own map, and the sessions in the database. They are changed
  one after the other without a common lock, and a restart or a reboot loses
  some of them.
* Every call between services has a time-out of its own, after which the
  caller gives up and the callee goes on.
* The dashboard's callbacks are closures: a timer, a request or a socket that a
  login has started goes on with that login's token after signing out, and writes
  to the state of whoever is signed in then. Answers come back in any order.
* The gateway's WebSocket hub writes to its clients with the mutex of its map
  held and no deadline.
* The portal takes plans and prices from the browser, gives its amount to the
  payment service unchecked, and is told by the gateway after five seconds that
  a push has failed which goes on.

What makes each part correct: access is given only where payment was reported; a
payment, its session and the firewall tell the same story as long as the reports
do; what was completed stays so, unless the push handler overwrites it; a revocation
that the network manager has answered lasts until the client is authorized again
(which, as a run shows, a repeated callback is enough for); the ruleset is in force
whenever the daemon serves and does not simulate; nobody who was switched on is
forgotten while nothing fails; the page waits for one push at a time, for a price
that is one of a plan's, and the phone asks for that price without its cents; what
an administrator sees becomes true, and what an administrator does not do does not
happen.
`PROJECT.json` lists the hazards at their lines with the properties that cover
them, and says of those that no property covers, or only in part, why.

### Who calls what

The models assume of the calls that reach a service only what its code checks, with
the exceptions named here.

* *Callbacks.* `/payments/callback` is a public route of the gateway
  (`apps/api/main.go:85`, `handlers.go:116-142`) that passes any body on to the
  payment service (`payment-service/main.go:107`), and that service tests
  `ResultCode` alone (`main.go:307`). In the real flow the model therefore has
  callbacks of either outcome at any time, as many as `Tries`, in agreement or
  not. What the customer has really paid is not known to the code and is not in
  the model: every property speaks of what was *reported*. The properties that
  need the reports of one checkout to agree say so (`Agreed`); Safaricom decides a
  push once, so that they agree wherever the reports are Safaricom's.
* *The mock flow.* The one caller of the callback is taken to be
  `triggerMockCallback`, which comes once, after the push was linked, and reports
  success. The route is the same as in the real flow, so that this is an assumption
  of the runs and theorems about the mock flow, not a check the code makes.
* *The internal route.* `/internal/sessions/authorize` checks a preshared header
  (`middleware.go:35`), and the payment service is its one caller. The network
  manager's routes are called by the gateway only.
* *Amounts.* The gateway and the payment service take the amount from the request.
  The model's customer uses the portal, whose amount is the price on its form.

## Modules

| Module | Models |
|---|---|
| `PaymentService` | `handleSTKPush`, `handleMpesaCallback`, the mock callback and the notification goroutine, on the tables of the shared database; the callbacks posted to it; the gateway's writes to those tables |
| `NetworkManager` | the daemon's start (`SetupPortal`), `handleAuthorize`, `handleRevoke`, the client list, the kernel's rules and set; restarts and reboots |
| `Hotspot` | both of them, instantiated and joined by the gateway's `handleInternalAuthorize` and `handleAdminDisconnect` |
| `PaidAccess` | an abstract specification: only who was reported to have paid is let through, and shut out only by order or by a reboot |
| `Sale` | an abstract specification: what a customer is asked for, shown and given |
| `Dashboard` | the dashboard's page: signing in and out, polling, the chain of sockets of each login, disconnecting a client |
| `Broadcast` | the gateway's WebSocket hub: the map of clients, its mutex, the copying of messages |
| `Mobile` | the mobile application: polling, its made-up telemetry, revoking |
| `Console` | these three, instantiated and joined by the gateway's login, `/admin/analytics` and `/admin/disconnect` |
| `PlanCatalog` | the table of plans and the handlers that create, update and delete; seeding that was interrupted |
| `PlanPanel` | the dashboard's tab for plans: table, modal, deletion |
| `Portal` | the captive portal: plans and fallback, paying, polling, timing out |
| `Shop` | these three, instantiated and joined by the gateway's and the payment service's handling of a push |
| `MCPaymentService`, `MCNetworkManager`, `MCHotspot`, `MCShop` | symmetry sets, the requests of the network manager's runs, two restricted specifications, the seeded plans |
| `PaymentServiceProofs`, `NetworkManagerProofs`, `HotspotProofs`, `DeliveryProofs`, `ShopProofs`, `ConsoleProofs` | theorems and proofs |

### State and actions

**PaymentService.** A checkout (M-Pesa's `CheckoutRequestID`) names a request.
Each request inserts at most one payment and one session and no code deletes
either, so `payments` and `sessions` are functions on checkouts, with status
`"none"` for a row that does not exist. `devices` maps a MAC to the address
stored with it, which no code updates. `stk[c]` and `cb[d]` are the control
points of the two handlers, named for the statement that comes next; `d` is one
delivery of a callback, so two deliveries of one checkout run concurrently.
`readLinked[d]` is the one column of the handler's copy of the payment that
matters when it is saved back, and `report[d]` the outcome that the delivery
reports: deliveries of one checkout may contradict each other, and what each of them
does follows its own. One action is one database statement, which is the grain at which
handlers interleave, fail (`MaxFaults`) and are cut off by a crash
(`MaxCrashes`). Loading a session and saving it as active is a single action
because the save overwrites the status whatever it was meanwhile; so is loading
the device and starting the goroutine. Phone numbers, receipts, bandwidth and
times are left out: no control in the two handlers depends on them. What becomes of
the amount is in `Shop`. In real mode `RejectRequest` and `PushReal` cover every early return before
the payment is stored, including the one where Safaricom has prompted the
customer and its answer is lost.

**NetworkManager.** `setup` counts the commands `SetupPortal` has run;
requests are served only when all have, or when the daemon simulates. `rules`
and `nft` are the kernel's and survive `Restart`; `Reboot` empties them. A
handler runs nft (`"firewall"`) and then takes the lock for the map (`"map"`).
`crossed` is a history variable: the clients for which an authorization and a
revocation have run at the same time, for which the code orders nothing. A request
without a MAC (`NoMac`), or an authorization without an address (`NoIp`), is refused
(`Incomplete`). Rate limits are not modelled because the code only logs them. `handleListActive`
returns `active`.

**Hotspot.** The gateway adds the control points `authorizing[d]` (one call per
notification) and `disconnecting[o]` (one per administrator's order). A call
and its arrival at the network manager are one joint step; the answer is read in
a later one, so everything may happen in between. `gatewayFaults` counts calls
that are lost, time-outs that fire while the callee goes on, failed saves and
crashes of the gateway. A device without a stored address (`NoIp`) is refused
by the network manager. The gateway's write to `sessions` is spelled out here
without the guard of `PaymentService!SaveDisconnected`: that it keeps to that
guard is checked (`PaymentServiceAssumption`), which justifies the use of
`PaymentService` by itself in its own runs and proofs.

**PaidAccess** is implemented by `Hotspot` under the mapping `buyer` = the MAC
of each request, `paid` = the checkouts reported paid, `ordered` = those
with a disconnect order past the status check, `open` = the kernel's set, `reboots` =
the network manager's count of them, without which any emptying of the set could pass for
a reboot.

**Sale** is implemented by `Shop` under the mapping `asked` = the pushes that have
left with what they name, `prompts` = what Safaricom was asked for, `awaiting` = the
pushes whose call is waited for, `recorded`
and `granted` = those the payment service has accepted or confirmed, `shown` = the
amount of the waiting screen, `onSale` = `sold`. Its steps belong to
different actors: `Record` is the payment service's, whether or not the gateway still waits;
`Show` is the gateway's answer as the page takes it; `Part` is an error, a time-out,
the end of the timer or a reload. `Ask` needs a page that waits for nothing and shows
no waiting screen. It does not need the pushes before to be over: one that the gateway
has given up, or a page has left, may still prompt the phone and be paid.

**Dashboard.** A login is named for the token it gives; `token` is React state
and `localStorage` together. `socket[t]` is the state of the chain of sockets
that login `t` has started: the page's effect opens the first, `onclose` sets a
timer for the next, and the clean-up closes a socket but never ends the chain, so
that only a reload brings it back to `"none"`. A socket that is up is `"open"` on
the page before it is `"joined"` in the gateway's map. A request is evaluated by
the gateway when it is sent and its answer lies in `answers` until it is taken,
in any order. Line 253 of `App.tsx` is not TypeScript
(`=>>,StartLine:154,TargetContent: {`): as it stands the dashboard does not
compile, and it is read as `=> {`.

**Broadcast.** `todo` holds the clients to which the message at hand has yet to be
written; the mutex is locked exactly while there are some. Clients of other
browsers (`Others`) may keep a write from returning for ever. A message is not
looked into by the page, so that `queue` only counts.

**Mobile.** It sends no token and gets 401 for everything; then, as for any
error, it shows two sessions with ids 1 and 2, which may well exist.

**Console.** `sessions` is the gateway's table, with the status alone. `issued`
and `expired` describe tokens. `reported` is a history variable: the sessions
that `/admin/analytics` has ever listed to an application.

**PlanCatalog.** A plan is its price, in cents since the column is `decimal(10,2)`, and
an id without a row has price `NotSold`. The panel's form has the browser ask for whole
shillings, but the gateway takes any price that is not negative and so does the model.
`work[r]` is a request on its way through one handler: `"sent"`, then `"loaded"`
for those that read the row first, then `"done"` or `"refused"`, and
`"answered"`. Gorm's `Save` writes the row whether or not it is still there.

**PlanPanel.** One pair of variables, `isOpen` and `editing`, serves every use of
the modal; `opened` is a history variable, what it was last opened for. Nothing
keeps the modal's button from being clicked twice: `Save` may be taken again while a request
is on its way, and a new plan is then created twice, which no line of the
repository excludes.

**Portal.** `offers` is the list on the form, fetched once; `amount` is the copy of
the price that the waiting screen names. An error answer to `/plans` is taken for
the list, and the page is `"blank"`.

**Shop.** `push[k]` records what a push asks for, how far the payment service has
got (`service`) and whether the gateway's call for it is still waited for
(`call`). The gateway may give up at any time. `sold` is a history variable: every price
a plan has had. `Whole` is `int(req.Amount)`: what Safaricom is asked for
(`prompts`) is the price without its cents. The inside of the payment service is coarser here than in
`PaymentService`: one step prompts the customer, one looks up the plan and
records the session, one confirms.

## Runs

All runs say `CHECK_DEADLOCK FALSE`: requests are finite in number and the
services come to rest when they have been handled.

| Run | Instance | Distinct states | Shows |
|---|---|---|---|
| `payment_real` | 1 checkout, 3 callbacks of either outcome, real M-Pesa, 2 faults, 1 crash | 98,986 | `TypeOK`, `AccessOnlyIfReported`, `CompletedHasAccess`, `CompletedStays`, `SessionLifecycle` |
| `payment_mock` | 2 checkouts, 2 MACs, 2 plans, mock flow, 1 crash, fair | 56,360 | `ConfirmedIsActivated`, `CompletedIsFinal`, `SessionsAreBacked`, `AnsweredIsCompleted` |
| `payment_real_confirm` | 1 checkout, 2 callbacks, real M-Pesa, nothing fails | | **violated**: `ConfirmedIsActivated` |
| `firewall` | 2 authorizations and 2 revocations of one client, 1 call of another without an address, 1 revocation without a MAC, 1 nft error, 1 restart, 1 reboot | 653,279 | `TypeOK`, `ServingEnforces`, `ListedIsOpen`, `OpenIsListed`, `RevocationHolds` |
| `firewall_partial_setup` | the same requests, 1 nft error only | | **violated**: `AuthorizedForwards` |
| `hotspot_faults` | 1 checkout, 2 MACs, 2 callbacks, real M-Pesa, 1 order; network manager still starting; one failure of any kind | 703,474 | `KeepsPromise` (implements `PaidAccess`), `GrantedOnlyIfReported`, `TypeOK`, `DisconnectedWasRevoked`, `PaymentServiceAssumption` |
| `hotspot_live` | 2 checkouts, 1 MAC, mock flow, 1 order each, nothing fails, fair | 189,131 | `NobodyIsForgotten`, `BuyerGetsAccess` |
| `hotspot_reconnect` | 1 checkout, 2 callbacks, real M-Pesa, 1 order, nothing fails | | **violated**: `DisconnectedIsFinal` |
| `hotspot_disconnect` | 1 checkout, mock flow, 1 order, nothing fails | | **violated**: `DisconnectRevokes` |
| `console` | 1 session, 2 logins, 1 client of another browser, 1 fault, at most 3 logins and answers on their way, fair | 690,286 | `TypeOK`, `IndicatorIsTruthful`, `CutWasReported`, `LoginEndsForCause`, `CatchesUp` |
| `shop` | 1 plan, prices 20 and 19.50, 2 requests, 2 pushes, 3 clicks, 1 poll, fair | 518,672 | `TypeOK`, `AmountIsCharged`, `OnePushAtATime`, `ChargedAsSoldOnce`, `ModalIsWhatWasOpened`, `FairSale` (implements `Sale`), `WaitingEnds`, `PanelCatchesUp` |
| `portal_connects` | 1 plan, 1 price, 1 push, 1 click, fair | | **violated**: `PortalConnects` |

Why these bounds are enough to be interesting: checkouts meet only in the rows
of a device and a plan, which two of them, each free to choose, already share or
not in every order (`payment_mock`, `hotspot_live`; that more change nothing
for the safety properties is proved); three callbacks allow a duplicate to start,
overtake and follow another, and a third to contradict both; one
fault or crash can fall between any two statements, and two faults can hit both
writes of a handler. Two authorizations and two revocations of one client are
the least that lets the list and the set be crossed and crossed back.

`hotspot_faults` has one failure altogether (`OneFailureSpec`), of any kind and wherever
it falls: an nft error, a restart, a reboot, a lost call, a time-out whose callee goes
on, a failed save or a crash of the gateway. Two callbacks make for a duplicate
authorization and for contradicting reports. Faults and crashes of the payment service are
left to `payment_real`; the theorems about both properties have all of them at once.
`hotspot_live` starts purchases only when the network manager is up (`DaemonFirstSpec`),
for one device with two purchases, so that an order against one of them meets the
authorization of the other; `hotspot_faults` covers the other order.
A device without a MAC (`NoMac`) is among the network manager's requests in `firewall`
only.

In `console`, `MaxLoad` bounds logins given out and answers on their way together:
with 3, a first login may have two answers under way, or a second login one, so
that an answer can be overtaken and can come to a later login. `MaxFaults` is one lost answer,
broken connection or reload, which can fall anywhere; closing a socket is not a
fault. One session passes through all its statuses and is at the same time one of
those the mobile application makes up. In `shop`, `MaxClicks` bounds requests of
the administrator, pushes and reloads together: three are enough for two pushes
with a reload or a request between them, and for two requests that race with a
push. `PollLimit` is 1 where the code has 30: the portal's questions are all
alike. Of the two prices one has cents. The panel polls only while no answer to it is under way (`PanelPoll`); the
answers to its saves and deletions still overtake one another. The safety
properties of both are proved without these bounds.

The five violations are defects, described under `findings` in `PROJECT.json`:

1. *A callback that comes early.* `handleMpesaCallback` works on the payment row
   as it found it. Between the insertion of the row and the `Save` that links the
   session, it finds no session: the customer has paid, Safaricom is answered
   with success and will not call again, and the session stays inactive.
2. *A setup that fails half-way.* The chain that drops forwarded traffic is
   created before the set and the accept rule. If one of those fails, the daemon
   turns to simulation and answers every authorization with success.
3. *A disconnect that overtakes.* A session is active before the network
   manager has heard of it. An order in that window revokes nothing, which the
   gateway does not look at, and the authorization opens the firewall afterwards.
4. *A callback that comes twice.* The handler sets the session to active whatever it is,
   so that a second delivery of the callback, which payment gateways do send, switches a
   session on again that an administrator has disconnected meanwhile, and the gateway is
   told once more to open the firewall.
5. *A portal that is never told.* To learn whether its customer is connected, the
   portal asks `/admin/analytics`, which is for administrators, and sends no token.
   After 30 answers 401 it goes back to the form, although the customer has paid
   and is connected.

Three of them have a counterpart that is proved, which says what they need:
`LinkedConfirmationActivates`, `ForwardsWithoutErrors` and `MockDisconnectionIsFinal`
(below). The first property also holds in the mock flow (`payment_mock`), where the callback starts
after the last write of the push.

### Fairness

Handlers that have started run on, the mock callback fires after its sleep, the
notification goroutine makes its call, and the network manager answers: each is
weakly fair, because each is a goroutine that the Go scheduler keeps running and
that waits only for services which answer. A client, a customer, Safaricom and an administrator
need not do anything. Liveness is stated for the case that nothing fails and
nothing crashes, because the code retries nothing: `BuyerGetsAccess` asks besides that
the network manager was up when the session was stored and that the client's
address is known, since a call made too early or without an address is refused
once and for ever.

In `Console` the page's timer, the answers on their way and the sockets' events
are weakly fair: the browser runs timers and requests end. Signing in and out, the
expiry of tokens and other browsers are not; in particular no client of the hub
has to read, and the hub need not broadcast. `CatchesUp` is therefore about the
polling alone, which is what makes the page independent of a blocked hub. It is
stated for an administrator who stays signed in. In `Shop` the timers of the
panel and of the portal, the answers to the panel and the gateway's handlers are
weakly fair; no person, and no push, is.

## Proofs

TLAPS checks these for every value of the constants.

*`PaymentServiceProofs`.* `TypeCorrect`. `AccessIsReported` (`AccessOnlyIfReported`):
by itself the property says nothing of a callback that has activated its session
and is about to start the notification, nor of one that has not come, which may
have reported nothing; `AccessInv` adds both and is inductive.
`PaidForIsSwitchedOn` (`CompletedHasAccess`) and `CompletionIsKept`
(`CompletedStays`) share `CompletionInv`: rows appear in the order the push
handler makes them, a payment (and any copy of it) names its session only when
the push is answered, a running callback has found a payment and brings a
verdict, and, until a statement fails, it saves after it has activated. Both
properties speak of checkouts whose callbacks agree, the second of what the push handler
is not about to overwrite, because the code keeps neither otherwise. The
invariant explains why the lost update of `handleSTKPush` does no harm to the
first: the `Save` that links the session also takes the status back to
pending. A handler that wrote only `session_id` would break it, as the mutant
`LinkPaymentKeepingStatus` shows. For the mock flow, stated with `~RealSTK`, there
are `MockCompletionIsFinal` (`CompletedIsFinal`), and, for the case that no statement
fails, `MockConfirmationActivates` (`ConfirmedIsActivated`). They rest on `MockInv`: each
push has one callback, which comes after the last write of the push, and finds its session
still off; without faults each step finds what the one before it wrote.

`SessionsLive` (`SessionLifecycle`) and `SessionsHaveTheirRows` (`SessionsAreBacked`)
share `SessionInv`: besides `CompletionInv`, a failed session was reported declined, a
session has its device, plan and payment, and a push past its payment row has one. The plan
is the part that could break: it is deleted in the gateway without a transaction,
between the lookup and the insertion, and only the foreign key stands against it. The
life of a session rests on what a callback at its session statement implies
(`OneReports`): a session that is on, or was, has another callback behind it that
reported payment, so that one which now activates it is a repetition, and one which now
fails it a contradiction.
`LinkedConfirmationActivates` is for the real flow what `MockConfirmationActivates` is
for the mock flow: while no statement fails and the callbacks agree, a handled one that
reports payment and whose copy of the payment was linked has switched the session on. With
the run `payment_real_confirm` it says that the missing link is the one cause of that
defect. Its invariant, `HandledInv`, follows a callback back to where it left its statement.

*`NetworkManagerProofs`.* `TypeCorrect`. `RulesetInForce` (`ServingEnforces`): in
every life of the daemon, the commands run so far are in effect.
`ListIsTruthful` (`ListedIsOpen`): for a client whose requests have not crossed,
the running ones are of one kind, an authorization about to list it has opened
the firewall, and if it is listed but shut out a revocation is about to unlist
it. `ListIsComplete` (`OpenIsListed`) is the mirror image, for the daemon's first
life: the set is empty until it serves, and if a client is let through but not
listed an authorization is about to list it. `RevocationsLast` (`RevocationHolds`) is for
requests that do cross: whatever is in the set was asked for, and whatever a
revocation had nft delete was in it, so that the one authorization of that client has
done its work at the firewall and does not return to it; an authorization never goes
back to an earlier point, also when the daemon restarts. `ForwardsWithoutErrors`
(`AuthorizedForwards` while `errors = 0`) is the other side of the run
`firewall_partial_setup`: only a failed nft command can lead to it. It adds to these
that a client whose authorization passed the firewall, with no revocation asked for,
is in the set.

*`HotspotProofs`.* The payment service's lemmas are used as they were proved, by
instantiating `PaymentServiceProofs` beside the gateway (`PP`); `GatewayKeepsToTables`
shows that every step of the composition is a step of `PaymentService` or leaves
its variables alone. `PromiseInv` follows the report to the kernel: the gateway asks
for an authorization only for a checkout reported paid, goes through with an order only
for a session that was switched on (`WasOn`: its status may have changed since, even to
failed, but a callback behind it stays), and the network manager works on nothing else. From it come `OnlyReportedIsGranted` (`GrantedOnlyIfReported`),
`TablesAreShared` (`PaymentServiceAssumption`) and `PromiseIsKept` (`KeepsPromise`), the
refinement of `PaidAccess`: a callback read is `Pay` or a stutter, the check of
`handleAdminDisconnect` is `Order`, the network manager's commands are `Open` and
`Close`, and everything else stutters. `DisconnectionIsEarned`
(`DisconnectedWasRevoked`) needs besides that a session's device is known and never
changes, so that the call that was answered is the call that would be made now.
`MockDisconnectionIsFinal` uses `MockInv`: `DisconnectedIsFinal`, which the run
`hotspot_reconnect` violates in the real flow, holds where the callback comes once.
`TypeCorrect` joins the
types of both services.

*`DeliveryProofs`* follow a call to its end. `CallsAreAsAssumed` is the other half of
the composition: seen from the network manager, the gateway makes only calls that
`NetworkManager` allows for (`Hotspot` implements `NM!Spec`). It needs that a call is
about a device with a row, hence that the gateway is told only of pushes that were
answered (`CallInv`). With `TablesAreShared`, each service's theorems hold in the
composition: `NetworkManagerInService` draws that conclusion for the list, the set and
answered revocations. `NobodyForgotten` (`NobodyIsForgotten`) is about both: where nothing
fails, a device that was switched on and whose MAC is known is let through, or its
authorization is on its way, or came before the network manager served, or the device has
no address, or was ordered off. `DeliveryInv` is a chain of custody: a callback that reported payment and
found its session has told the gateway or is about to (`TakenIsTold`), which holds whatever
becomes of the session's status; a call of the gateway that is over was answered
or found nobody; an answer without an error means the client was put in the set, from
where only an order takes it. It is a safety property: it says where a customer can
be, `BuyerGetsAccess` that the call arrives in the end.

*`ShopProofs`.* `TypeCorrect`. `WaitsForOne` (`OnePushAtATime`) rests on `PayInv`:
while a call is waited for the page is loading, so that no other push leaves from it,
and its `amount` is the price of that push; on the waiting screen `checkout` is a push of
that price. It says nothing of pushes that nobody waits for any more, of which any number
may be at work. `AmountsAgree` (`AmountIsCharged`) adds `PromptInv` (a phone was asked for
what its push names without the cents, once, and a push that went on has asked) and that
the waiting screen is there only for a push the payment service accepted (`ShownInv`); the
one fact of arithmetic, that the cents are less than a shilling, is `WholeShillings`.
`NoInventedPrice` (`ChargedAsSoldOnce`) needs that everything the portal lists was sold
or is the fallback. `SaleIsFair` (`FairSale`) takes the invariants together (`FairInv`)
and maps each step to one of `Sale`'s or to none. `PayInv` gives that a page neither waits
nor shows anything when it asks, and that the price it shows is that of the push;
`PriceInv` that what it asks for was up, and that a plan that is looked up for the session
has been on sale; `PromptInv` that a push asks the phone before it is recorded, and once.
`Record` asks nothing of the price, which the payment service never compares. `ModalKept`
(`ModalIsWhatWasOpened`) is inductive once it is put next to the types: every answer closes
the modal.

*`ConsoleProofs`.* `TypeCorrect`. `IndicatorTells` (`IndicatorIsTruthful`): any
close clears the flag, which is crude but errs on one side only. `OnlyListedIsCut`
(`CutWasReported`) needs `ToldInv`: what the page shows or is about to be told has
been listed to it. `LoginIsKept` (`LoginEndsForCause`) needs `LoginInv`: every
answer under way belongs to a login with a chain of sockets, and a 401 to one
that has expired; a chain belongs to a token that was given out.

Assumptions used: the constants' (`RealSTKAssumption`, `BoundsAssumption`,
`SimulateAssumption`, `RequestsAssumption`, `LimitsAssumption`, `PlansAssumption`,
`NamesAssumption`, and in the composition `PurchaseAssumption`, `NetworkAssumption`
and `GatewayBoundAssumption`, which imply those of the services).

Model-checked only: the liveness properties (`AnsweredIsCompleted`,
`BuyerGetsAccess`, `CatchesUp`, `WaitingEnds`, `PanelCatchesUp`), which are out of
the prover's reach. Every safety property that a passing run checks is also
proved, `ConfirmedIsActivated` and `CompletedIsFinal` for the mock flow and the first of
them for the case that no statement fails, as in its run.

## Not modelled

* The captive redirect and the lookup of MAC addresses (`getMacForIP` and its
  fallback), and the phone number's format: pure text, no state.
* Whether a report of payment is true, as said under *Who calls what*.
* Reports and the figures of the analytics: read-only queries. Only the list of
  active sessions is modelled, which the applications act on.
* What is display: the dashboard's tabs, figures and payments table, the fields of its
  forms, the mobile application's restart button, which only shows a message.
  React's double run of effects in development is left out.
* The contents of rows no control depends on: durations, bandwidth, names,
  receipts, raw callbacks, audit records. JWT signatures and password hashes.
* The network manager's usage simulator, and session times: no code acts on a
  session's end.
* A request delayed in the network past its caller's time-out: a call that the
  caller gives up on has either arrived or been lost.
* Connecting to the database with retries, migration, logging and deployment.

## Plan

Done: the payment path (`PaymentService`, `NetworkManager`, `Hotspot`,
`PaidAccess`), the sale (`PlanCatalog`, `PlanPanel`, `Portal`, `Shop`), the
administrator's applications (`Dashboard`, `Broadcast`, `Mobile`, `Console`), and
the proofs above, which state every safety property of the passing runs. In order of
what remains:

1. Proofs: the positive counterpart of `hotspot_disconnect` (an order that comes after
   the authorization was answered shuts the device out), and a refinement for
   `Console`, of what an administrator's page may show and do.
2. `Lease`: session windows and time; duplicates that extend a window.
3. `Identity`: the lookup of MAC addresses and phone-number normalisation as pure
   functions.
