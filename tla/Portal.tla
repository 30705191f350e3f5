------------------------------- MODULE Portal --------------------------------
(***************************************************************************)
(* The captive portal in a customer's browser                              *)
(* (services/captive-portal/src/App.tsx): it fetches the plans once, sends *)
(* a push for the one selected, and then asks every three seconds whether  *)
(* the customer's session is active, at most PollLimit times.              *)
(*                                                                         *)
(* The gateway's answer to each of these questions is taken when it is     *)
(* given: all of them are alike, so that their order does not matter.      *)
(***************************************************************************)
EXTENDS Naturals

CONSTANTS
  Plans, NotSold,
  Prices,      \* in cents
  Fallback,    \* the plans shown when the gateway cannot be reached
  Pushes,      \* STK pushes
  NoPush,
  PollLimit    \* 30 in the code

VARIABLES
  fetched,     \* fetchPlans, which is called once, has ended
  offers,      \* plans: the prices on the form
  screen,      \* "blank" when rendering has failed
  loading,     \* handlePay waits for its answer
  amount,      \* the price the waiting screen names
  checkout,    \* checkoutRequestId
  attempts     \* of the timer of startPolling

portalVars == <<fetched, offers, screen, loading, amount, checkout, attempts>>

NoOffers == [p \in Plans |-> NotSold]

TypeOK ==
  /\ fetched \in BOOLEAN
  /\ offers \in [Plans -> Prices \cup {NotSold}]
  /\ screen \in {"form", "waiting", "success", "blank"}
  /\ loading \in BOOLEAN
  /\ amount \in Prices \cup {0}
  /\ checkout \in Pushes \cup {NoPush}
  /\ attempts \in 0 .. PollLimit

Init ==
  /\ fetched = FALSE
  /\ offers = NoOffers
  /\ screen = "form"
  /\ loading = FALSE
  /\ amount = 0
  /\ checkout = NoPush
  /\ attempts = 0

\* The page is loaded again.
Reload ==
  /\ fetched' = FALSE
  /\ offers' = NoOffers
  /\ screen' = "form"
  /\ loading' = FALSE
  /\ amount' = 0
  /\ checkout' = NoPush
  /\ attempts' = 0

-----------------------------------------------------------------------------
(***************************************************************************)
(* The plans                                                               *)
(***************************************************************************)
\* fetchPlans, of the effect on mounting, gets catalog, or no answer at all.
PlansArrive(catalog) ==
  /\ ~fetched
  /\ fetched' = TRUE
  /\ offers' = catalog
  /\ UNCHANGED <<screen, loading, amount, checkout, attempts>>

PlansFail == PlansArrive(Fallback)

\* The gateway answers with an error: the object it sends is taken for the
\* list, and rendering it fails.
PlansRefused ==
  /\ ~fetched
  /\ fetched' = TRUE
  /\ screen' = "blank"
  /\ UNCHANGED <<offers, loading, amount, checkout, attempts>>

-----------------------------------------------------------------------------
(***************************************************************************)
(* Paying                                                                  *)
(***************************************************************************)
\* Mutant: the button stays enabled.
HandlePayAgain(p) ==
  /\ screen = "form"
  /\ offers[p] # NotSold
  /\ loading' = TRUE
  /\ amount' = offers[p]
  /\ UNCHANGED <<fetched, offers, screen, checkout, attempts>>

\* Mutant: a plan that is not on the list is not refused.
HandlePayUnlisted(p) ==
  /\ screen = "form"
  /\ ~loading
  /\ loading' = TRUE
  /\ amount' = offers[p]
  /\ UNCHANGED <<fetched, offers, screen, checkout, attempts>>

\* handlePay up to its await, for the plan selected; the button is disabled
\* while a push is on its way.
HandlePay(p) ==
  /\ screen = "form"
  /\ ~loading
  /\ offers[p] # NotSold
  /\ loading' = TRUE
  /\ amount' = offers[p]
  /\ UNCHANGED <<fetched, offers, screen, checkout, attempts>>

PushAccepted(k) ==
  /\ loading' = FALSE
  /\ checkout' = k
  /\ screen' = "waiting"
  /\ attempts' = 0
  /\ UNCHANGED <<fetched, offers, amount>>

\* An error of any kind is reported and the form stays.
PushFailed ==
  /\ loading' = FALSE
  /\ UNCHANGED <<fetched, offers, screen, amount, checkout, attempts>>

-----------------------------------------------------------------------------
(***************************************************************************)
(* Waiting                                                                 *)
(***************************************************************************)
\* Mutant: the timer is cleared, but the screen stays.
GiveUpSilently ==
  /\ screen = "waiting"
  /\ attempts = PollLimit
  /\ UNCHANGED <<fetched, offers, screen, loading, amount, checkout, attempts>>

\* The timer runs out.
GiveUp ==
  /\ screen = "waiting"
  /\ attempts = PollLimit
  /\ screen' = "form"
  /\ attempts' = 0
  /\ UNCHANGED <<fetched, offers, loading, amount, checkout>>

\* Mutant: one more.
PollPastLimit(ok, found) ==
  /\ screen = "waiting"
  /\ attempts <= PollLimit
  /\ attempts' = attempts + 1
  /\ screen' = IF ok /\ found THEN "success" ELSE screen
  /\ UNCHANGED <<fetched, offers, loading, amount, checkout>>

\* The timer asks for the active sessions.  ok: the answer is a success;
\* found: the device is among them.
Poll(ok, found) ==
  /\ screen = "waiting"
  /\ attempts < PollLimit
  /\ attempts' = attempts + 1
  /\ screen' = IF ok /\ found THEN "success" ELSE screen
  /\ UNCHANGED <<fetched, offers, loading, amount, checkout>>

=============================================================================
