------------------------ MODULE NetworkManagerProofs ------------------------
(***************************************************************************)
(* Proofs about NetworkManager for every set of concurrent requests and    *)
(* every bound on nft errors, restarts and reboots.                        *)
(***************************************************************************)
EXTENDS NetworkManager, TLAPS

LEMMA SetupLength == Len(SetupCommands) = 7
BY DEF SetupCommands

\* A command of SetupPortal installs a rule, and every rule has its command.
LEMMA CommandsAreRules ==
  /\ \A i \in 1 .. Len(SetupCommands) : SetupCommands[i] \in Rules
  /\ \A x \in Rules : \E i \in 1 .. Len(SetupCommands) : x = SetupCommands[i]
BY DEF Rules

-----------------------------------------------------------------------------
(***************************************************************************)
(* Type correctness                                                        *)
(***************************************************************************)
LEMMA TypeInit == Init => TypeOK
BY SimulateAssumption, LimitsAssumption, SetupLength DEF Init, TypeOK, Points, Running

LEMMA TypeRequest ==
  ASSUME TypeOK, NEW r \in Requests, Receive(r) \/ Handler(r)
  PROVE  TypeOK'
<1> USE RequestsAssumption, LimitsAssumption
    DEF TypeOK, Step, NftError, Points, Running, kernel, process, bounds
<1>1. CASE Receive(r)        BY <1>1 DEF Receive
<1>2. CASE OpenFirewall(r)   BY <1>2 DEF OpenFirewall
<1>3. CASE ListClient(r)     BY <1>3 DEF ListClient
<1>4. CASE CloseFirewall(r)  BY <1>4 DEF CloseFirewall
<1>5. CASE UnlistClient(r)   BY <1>5 DEF UnlistClient
<1> QED BY <1>1, <1>2, <1>3, <1>4, <1>5 DEF Handler

LEMMA TypeStep == ASSUME TypeOK, [Next]_vars PROVE TypeOK'
<1> USE SimulateAssumption, LimitsAssumption, SetupLength
    DEF TypeOK, kernel, bounds
<1>1. CASE RunSetupCommand
  <2>1. setup + 1 \in 1 .. Len(SetupCommands)
    BY <1>1 DEF RunSetupCommand, Serving
  <2> QED BY <1>1, <2>1, CommandsAreRules DEF RunSetupCommand
<1>2. CASE FailSetupCommand
  BY <1>2 DEF FailSetupCommand, NftError
<1>3. CASE Restart
  BY <1>3 DEF Restart, StartOver, Points
<1>4. CASE Reboot
  BY <1>4 DEF Reboot, StartOver, Points
<1>5. CASE UNCHANGED vars
  BY <1>5 DEF vars
<1> QED BY <1>1, <1>2, <1>3, <1>4, <1>5, TypeRequest DEF Next, DaemonNext

\* NetworkManager is type-correct.
THEOREM TypeCorrect == Spec => []TypeOK
BY TypeInit, TypeStep, PTL DEF Spec

-----------------------------------------------------------------------------
(***************************************************************************)
(* The ruleset is in force                                                 *)
(***************************************************************************)

\* The commands that SetupPortal has run in this life are in effect.
SetupInv ==
  /\ TypeOK
  /\ \A i \in 1 .. setup : SetupCommands[i] \in rules

LEMMA SetupInit == Init => SetupInv
BY TypeInit DEF Init, SetupInv

LEMMA SetupStep == ASSUME SetupInv, [Next]_vars PROVE SetupInv'
<1>0. TypeOK /\ TypeOK'
  BY TypeStep DEF SetupInv
<1>1. CASE RunSetupCommand
  <2>1. \A i \in 1 .. setup' : i \in 1 .. setup \/ i = setup + 1
    BY <1>0, <1>1, SetupLength DEF RunSetupCommand, TypeOK
  <2> QED BY <1>0, <1>1, <2>1 DEF RunSetupCommand, SetupInv
<1>2. CASE Restart \/ Reboot
  BY <1>0, <1>2 DEF Restart, Reboot, StartOver, kernel, SetupInv
<1>3. CASE UNCHANGED <<rules, setup>>
  BY <1>0, <1>3 DEF SetupInv
<1>4. ASSUME NEW r \in Requests, Receive(r) \/ Handler(r)
      PROVE  UNCHANGED <<rules, setup>>
  BY <1>4
  DEF Receive, Handler, OpenFirewall, ListClient, CloseFirewall, UnlistClient,
      kernel, process
<1> QED
  BY <1>1, <1>2, <1>3, <1>4 DEF Next, DaemonNext, FailSetupCommand, kernel, vars

\* A daemon that serves requests and does not simulate has its whole ruleset in
\* force (SetupPortal, firewall.go:26-59), whatever failed or restarted before.
THEOREM RulesetInForce == Spec => []ServingEnforces
<1>1. SetupInv => ServingEnforces
  <2> SUFFICES ASSUME SetupInv, Serving, ~simulating PROVE rules = Rules
    BY DEF ServingEnforces
  <2>1. \A i \in 1 .. Len(SetupCommands) : SetupCommands[i] \in rules
    BY DEF Serving, SetupInv
  <2> QED BY <2>1, CommandsAreRules DEF SetupInv, TypeOK
<1> QED BY <1>1, SetupInit, SetupStep, PTL DEF Spec

-----------------------------------------------------------------------------
(***************************************************************************)
(* The list and the firewall                                               *)
(*                                                                         *)
(* ListedIsOpen speaks of clients without running requests.  Its           *)
(* strengthening says what the running ones are about to do, for a client  *)
(* whose authorizations and revocations have not crossed.                  *)
(***************************************************************************)
Straight(m) == ~simulating /\ m \notin crossed

\* Its running requests are all authorizations or all revocations.
OneKindRuns ==
  \A q, r \in Requests :
    q.mac = r.mac /\ r.mac \notin crossed /\ pc[q] \in Running /\ pc[r] \in Running
      => q.kind = r.kind

\* An authorization about to list its client has opened the firewall.
ListsWhatIsOpen ==
  \A r \in Requests :
    Straight(r.mac) /\ r.kind = "authorize" /\ pc[r] = "map" => r.mac \in nft

\* A client listed but shut out has a revocation about to unlist it.
ShutIsAboutToBeUnlisted ==
  \A m \in Macs :
    Straight(m) /\ m \in active /\ m \notin nft =>
      \E r \in Requests : r.kind = "revoke" /\ r.mac = m /\ pc[r] = "map"

ListInv ==
  TypeOK /\ OneKindRuns /\ ListsWhatIsOpen /\ ShutIsAboutToBeUnlisted

LEMMA ListInit == Init => ListInv
BY TypeInit
DEF Init, ListInv, OneKindRuns, ListsWhatIsOpen, ShutIsAboutToBeUnlisted, Running

LEMMA ListRequest ==
  ASSUME ListInv, NEW r \in Requests, Receive(r) \/ Handler(r)
  PROVE  ListInv'
<1> USE RequestsAssumption
    DEF ListInv, TypeOK, OneKindRuns, ListsWhatIsOpen, ShutIsAboutToBeUnlisted,
        Straight, Running, Step, kernel, process
<1>0. TypeOK'
  BY TypeRequest
<1>1. CASE Receive(r)        BY <1>0, <1>1 DEF Receive
<1>2. CASE OpenFirewall(r)   BY <1>0, <1>2 DEF OpenFirewall
<1>3. CASE ListClient(r)     BY <1>0, <1>3 DEF ListClient
<1>4. CASE CloseFirewall(r)  BY <1>0, <1>4 DEF CloseFirewall
<1>5. CASE UnlistClient(r)   BY <1>0, <1>5 DEF UnlistClient
<1> QED BY <1>1, <1>2, <1>3, <1>4, <1>5 DEF Handler

LEMMA ListStep == ASSUME ListInv, [Next]_vars PROVE ListInv'
<1> USE DEF ListInv, OneKindRuns, ListsWhatIsOpen, ShutIsAboutToBeUnlisted, Straight
<1>0. TypeOK /\ TypeOK'
  BY TypeStep
<1>1. CASE RunSetupCommand \/ FailSetupCommand
  BY <1>0, <1>1 DEF RunSetupCommand, FailSetupCommand, kernel
<1>2. CASE Restart \/ Reboot
  BY <1>0, <1>2 DEF Restart, Reboot, StartOver, Running, TypeOK
<1>3. CASE UNCHANGED vars
  BY <1>0, <1>3 DEF vars
<1> QED BY <1>1, <1>2, <1>3, ListRequest DEF Next, DaemonNext

\* Outside simulation, a client on the list of handleListActive with no request
\* running is in the firewall's set, unless its authorization and revocation
\* crossed (main.go:102-117,131-137).
THEOREM ListIsTruthful == Spec => []ListedIsOpen
<1>1. ListInv => ListedIsOpen
  BY DEF ListInv, ShutIsAboutToBeUnlisted, Straight, ListedIsOpen, Quiet, Running
<1> QED BY <1>1, ListInit, ListStep, PTL DEF Spec

-----------------------------------------------------------------------------
(***************************************************************************)
(* The firewall and the list                                               *)
(*                                                                         *)
(* The converse, which holds until the daemon is restarted: from then on   *)
(* the kernel may let clients through that the new list does not name.     *)
(***************************************************************************)
\* Requests run, and fill the set, only when the daemon serves; it fills
\* nothing when it simulates.
EmptyUntilServing ==
  /\ \A r \in Requests : pc[r] \in Running => Serving
  /\ restarts = 0 /\ (simulating \/ ~Serving) => nft = {}

\* A revocation about to unlist its client has shut it out.
UnlistsWhatIsShut ==
  \A r \in Requests :
    restarts = 0 /\ r.mac \notin crossed /\ r.kind = "revoke" /\ pc[r] = "map"
      => r.mac \notin nft

\* A client let through but not listed has an authorization about to list it.
OpenIsAboutToBeListed ==
  \A m \in Macs :
    restarts = 0 /\ m \notin crossed /\ m \in nft /\ m \notin active =>
      \E r \in Requests : r.kind = "authorize" /\ r.mac = m /\ pc[r] = "map"

OpenInv ==
  ListInv /\ EmptyUntilServing /\ UnlistsWhatIsShut /\ OpenIsAboutToBeListed

LEMMA OpenInit == Init => OpenInv
BY ListInit
DEF Init, OpenInv, EmptyUntilServing, UnlistsWhatIsShut, OpenIsAboutToBeListed, Running

LEMMA OpenRequest ==
  ASSUME OpenInv, NEW r \in Requests, Receive(r) \/ Handler(r)
  PROVE  OpenInv'
<1> USE RequestsAssumption
    DEF TypeOK, OneKindRuns, EmptyUntilServing, UnlistsWhatIsShut, OpenIsAboutToBeListed,
        Running, Step, kernel, process, bounds, NftError
<1>0. TypeOK /\ OneKindRuns /\ ListInv'
      /\ EmptyUntilServing /\ UnlistsWhatIsShut /\ OpenIsAboutToBeListed
  BY ListRequest DEF OpenInv, ListInv
<1>1. CASE Receive(r)        BY <1>0, <1>1 DEF Receive, OpenInv, Serving
<1>2. CASE OpenFirewall(r)   BY <1>0, <1>2 DEF OpenFirewall, OpenInv, Serving
<1>3. CASE ListClient(r)     BY <1>0, <1>3 DEF ListClient, OpenInv, Serving
<1>4. CASE CloseFirewall(r)  BY <1>0, <1>4 DEF CloseFirewall, OpenInv, Serving
<1>5. CASE UnlistClient(r)   BY <1>0, <1>5 DEF UnlistClient, OpenInv, Serving
<1> QED BY <1>1, <1>2, <1>3, <1>4, <1>5 DEF Handler

LEMMA OpenStep == ASSUME OpenInv, [Next]_vars PROVE OpenInv'
<1> USE DEF OpenInv, EmptyUntilServing, UnlistsWhatIsShut, OpenIsAboutToBeListed
<1>0. ListInv' /\ TypeOK
  BY ListStep DEF ListInv
<1>1. CASE RunSetupCommand \/ FailSetupCommand
  BY <1>0, <1>1 DEF RunSetupCommand, FailSetupCommand, NftError, Serving, kernel, bounds
<1>2. CASE Restart \/ Reboot
  BY <1>0, <1>2 DEF Restart, Reboot, StartOver, Running, TypeOK
<1>3. CASE UNCHANGED vars
  BY <1>0, <1>3 DEF vars, Serving, kernel, process, bounds
<1> QED BY <1>1, <1>2, <1>3, OpenRequest DEF Next, DaemonNext

\* Until the daemon is restarted, a client with no request running that the
\* firewall lets through is on the list of handleListActive, unless its
\* authorization and revocation crossed (main.go:102-117,131-137).
THEOREM ListIsComplete == Spec => []OpenIsListed
<1>1. OpenInv => OpenIsListed
  BY DEF OpenInv, OpenIsAboutToBeListed, OpenIsListed, Quiet, Running
<1> QED BY <1>1, OpenInit, OpenStep, PTL DEF Spec

-----------------------------------------------------------------------------
(***************************************************************************)
(* What a revocation leaves                                                *)
(*                                                                         *)
(* nft refuses to delete what is not in the set, so a revocation that gets *)
(* through has met the client's authorization: none is left to undo it.    *)
(***************************************************************************)
Past == {"map", "ok", "lost"}

\* Without errors the daemon simulates only if it was told to.
SimulatesAsTold == errors = 0 => simulating = Simulate

\* A client in the set has an authorization that put it there.
OpenWasAsked ==
  \A m \in nft : \E q \in Requests : q.kind = "authorize" /\ q.mac = m /\ pc[q] \in Past

\* A client whose revocation got through had one that it undid.
RevokedWasAsked ==
  \A r \in Requests :
    NeverSimulated /\ r.kind = "revoke" /\ pc[r] \in {"map", "ok"} =>
      \E q \in Requests : q.kind = "authorize" /\ q.mac = r.mac /\ pc[q] \in Past

\* RevocationHolds, from the moment the firewall is closed.
RevokedIsShut ==
  \A r \in Requests :
    NeverSimulated /\ r.kind = "revoke" /\ pc[r] \in {"map", "ok"} /\ AuthorizedOnce(r.mac)
      => r.mac \notin nft

RevokeInv ==
  TypeOK /\ SimulatesAsTold /\ OpenWasAsked /\ RevokedWasAsked /\ RevokedIsShut

LEMMA RevokeInit == Init => RevokeInv
BY TypeInit
DEF Init, RevokeInv, SimulatesAsTold, OpenWasAsked, RevokedWasAsked, RevokedIsShut

\* The requests seen so far only grow, and one that did its work at the
\* firewall never returns to it.
LEMMA RequestsAdvance ==
  ASSUME TypeOK, [Next]_vars
  PROVE  /\ \A q \in Requests : pc[q] # "idle" => pc'[q] # "idle"
         /\ \A q \in Requests : pc[q] \in Past => pc'[q] \in Past
<1> USE DEF TypeOK, Past, Step
<1>1. ASSUME NEW r \in Requests, Receive(r) \/ Handler(r)
      PROVE  /\ \A q \in Requests : pc[q] # "idle" => pc'[q] # "idle"
             /\ \A q \in Requests : pc[q] \in Past => pc'[q] \in Past
  BY <1>1
  DEF Receive, Handler, OpenFirewall, ListClient, CloseFirewall, UnlistClient
<1>2. CASE Restart \/ Reboot
  BY <1>2 DEF Restart, Reboot, StartOver, Running
<1>3. CASE UNCHANGED pc
  BY <1>3
<1> QED
  BY <1>1, <1>2, <1>3 DEF Next, DaemonNext, RunSetupCommand, FailSetupCommand, vars

\* Having never simulated, and having authorized once, are never regained.
LEMMA NotRegained ==
  ASSUME RevokeInv, [Next]_vars
  PROVE  /\ SimulatesAsTold'
         /\ NeverSimulated' => NeverSimulated
         /\ \A m \in Macs : AuthorizedOnce(m)' => AuthorizedOnce(m)
<1> USE SimulateAssumption, LimitsAssumption
    DEF RevokeInv, TypeOK, SimulatesAsTold, NeverSimulated
<1>0. \A m \in Macs : AuthorizedOnce(m)' => AuthorizedOnce(m)
  BY RequestsAdvance DEF AuthorizedOnce
<1>1. ASSUME NEW r \in Requests, Receive(r) \/ Handler(r)
      PROVE  /\ SimulatesAsTold'
             /\ NeverSimulated' => NeverSimulated
  BY <1>1
  DEF Receive, Handler, OpenFirewall, ListClient, CloseFirewall, UnlistClient,
      NftError, process, bounds
<1>2. CASE RunSetupCommand
  BY <1>0, <1>2 DEF RunSetupCommand, bounds
<1>3. CASE FailSetupCommand
  <2>1. errors' # 0 /\ simulating' = TRUE
    BY <1>3 DEF FailSetupCommand, NftError
  <2> QED BY <1>0, <2>1
<1>4. CASE Restart \/ Reboot
  <2>1. errors' = errors /\ simulating' = Simulate /\ ~(restarts' = 0 /\ reboots' = 0)
    BY <1>4 DEF Restart, Reboot, StartOver
  <2> QED BY <1>0, <2>1
<1>5. CASE UNCHANGED vars
  BY <1>0, <1>5 DEF vars
<1> QED BY <1>0, <1>1, <1>2, <1>3, <1>4, <1>5 DEF Next, DaemonNext

LEMMA RevokeRequest ==
  ASSUME RevokeInv, NEW r \in Requests, Receive(r) \/ Handler(r)
  PROVE  OpenWasAsked' /\ RevokedWasAsked' /\ RevokedIsShut'
<1>0. /\ TypeOK /\ SimulatesAsTold /\ OpenWasAsked /\ RevokedWasAsked /\ RevokedIsShut
      /\ [Next]_vars
  BY DEF RevokeInv, Next, DaemonNext
<1>1. /\ NeverSimulated' => NeverSimulated
      /\ \A m \in Macs : AuthorizedOnce(m)' => AuthorizedOnce(m)
      /\ \A q \in Requests : pc[q] # "idle" => pc'[q] # "idle"
      /\ \A q \in Requests : pc[q] \in Past => pc'[q] \in Past
  BY <1>0, NotRegained, RequestsAdvance
<1>2. CASE UNCHANGED nft /\ \A q \in Requests : q.kind = "revoke" /\ pc'[q] \in {"map", "ok"}
                                                  => pc[q] \in {"map", "ok"}
  BY <1>0, <1>1, <1>2, RequestsAssumption
  DEF OpenWasAsked, RevokedWasAsked, RevokedIsShut
<1>3. CASE Receive(r) \/ ListClient(r) \/ UnlistClient(r)
  BY <1>0, <1>2, <1>3
  DEF Receive, ListClient, UnlistClient, Step, kernel, TypeOK
<1>4. CASE OpenFirewall(r)
  <2>1. /\ r.kind = "authorize" /\ pc[r] = "firewall" /\ r.mac \in Macs
        /\ \A q \in Requests : q # r => pc'[q] = pc[q]
        /\ \A q \in Requests : q.kind = "revoke" /\ pc'[q] \in {"map", "ok"}
                                 => pc[q] \in {"map", "ok"}
    BY <1>0, <1>4, RequestsAssumption DEF OpenFirewall, Step, TypeOK
  <2>2. CASE UNCHANGED nft
    BY <1>2, <2>1, <2>2
  <2>3. CASE nft' = nft \cup {r.mac} /\ pc'[r] = "map"
    <3>1. OpenWasAsked'
      BY <1>0, <1>1, <2>1, <2>3 DEF OpenWasAsked, Past
    <3>2. RevokedWasAsked'
      BY <1>0, <1>1, <2>1 DEF RevokedWasAsked
    <3>3. ASSUME NEW q \in Requests, NeverSimulated', q.kind = "revoke",
                 pc'[q] \in {"map", "ok"}, AuthorizedOnce(q.mac)'
          PROVE  q.mac \notin nft'
      <4>1. q.mac \in Macs /\ pc[q] \in {"map", "ok"} /\ NeverSimulated /\ AuthorizedOnce(q.mac)
        BY <1>1, <2>1, <3>3, RequestsAssumption
      <4>2. PICK a \in Requests : a.kind = "authorize" /\ a.mac = q.mac /\ pc[a] \in Past
        BY <1>0, <3>3, <4>1 DEF RevokedWasAsked
      <4>3. a # r
        BY <2>1, <4>2 DEF Past
      <4>4. q.mac # r.mac
        BY <2>1, <4>1, <4>2, <4>3 DEF AuthorizedOnce, Past
      <4> QED BY <1>0, <2>3, <3>3, <4>1, <4>4 DEF RevokedIsShut
    <3> QED BY <3>1, <3>2, <3>3 DEF RevokedIsShut
  <2> QED BY <1>0, <1>4, <2>2, <2>3 DEF OpenFirewall, Step, TypeOK
<1>5. CASE CloseFirewall(r)
  <2>1. /\ r.kind = "revoke"
        /\ \A q \in Requests : q # r => pc'[q] = pc[q]
        /\ nft' \in SUBSET nft
    BY <1>0, <1>5 DEF CloseFirewall, Step, TypeOK
  <2>2. NeverSimulated' /\ pc'[r] \in {"map", "ok"} => r.mac \in nft /\ r.mac \notin nft'
    BY <1>0, <1>1, <1>5 DEF CloseFirewall, Step, TypeOK, NeverSimulated
  <2>3. OpenWasAsked'
    BY <1>0, <1>1, <2>1 DEF OpenWasAsked
  <2>4. RevokedWasAsked'
    BY <1>0, <1>1, <2>1, <2>2 DEF RevokedWasAsked, OpenWasAsked
  <2>5. RevokedIsShut'
    BY <1>0, <1>1, <2>1, <2>2, RequestsAssumption DEF RevokedIsShut
  <2> QED BY <2>3, <2>4, <2>5
<1> QED BY <1>3, <1>4, <1>5 DEF Handler

LEMMA RevokeStep == ASSUME RevokeInv, [Next]_vars PROVE RevokeInv'
<1>0. /\ TypeOK' /\ SimulatesAsTold'
      /\ TypeOK /\ OpenWasAsked /\ RevokedWasAsked /\ RevokedIsShut
      /\ NeverSimulated' => NeverSimulated
      /\ \A m \in Macs : AuthorizedOnce(m)' => AuthorizedOnce(m)
      /\ \A q \in Requests : pc[q] \in Past => pc'[q] \in Past
  BY TypeStep, NotRegained, RequestsAdvance DEF RevokeInv
<1>1. CASE /\ nft' \in SUBSET nft
           /\ \A q \in Requests : pc'[q] \in {"map", "ok"} => pc[q] = pc'[q]
  BY <1>0, <1>1, RequestsAssumption
  DEF RevokeInv, OpenWasAsked, RevokedWasAsked, RevokedIsShut
<1>2. CASE RunSetupCommand \/ FailSetupCommand \/ UNCHANGED vars
  BY <1>1, <1>2 DEF RunSetupCommand, FailSetupCommand, kernel, vars
<1>3. CASE Restart \/ Reboot
  BY <1>0, <1>1, <1>3 DEF Restart, Reboot, StartOver, Running, TypeOK, kernel
<1>4. CASE \E r \in Requests : Receive(r) \/ Handler(r)
  BY <1>0, <1>4, RevokeRequest DEF RevokeInv
<1> QED BY <1>2, <1>3, <1>4 DEF Next, DaemonNext

\* A client whose revocation was answered with success (main.go:125-140) stays
\* out of the firewall's set, unless a second authorization of it was received
\* or nft commands were skipped in simulation.
THEOREM RevocationsLast == Spec => []RevocationHolds
<1>1. RevokeInv => RevocationHolds
  BY DEF RevokeInv, RevokedIsShut, RevocationHolds
<1> QED BY <1>1, RevokeInit, RevokeStep, PTL DEF Spec

-----------------------------------------------------------------------------
(***************************************************************************)
(* What an authorization promises                                          *)
(*                                                                         *)
(* AuthorizedForwards fails when a command of SetupPortal does: the drop   *)
(* chain is in force, simulation is turned on and no client enters the     *)
(* set.  That is its only way to fail.                                     *)
(***************************************************************************)

\* A daemon that was told to simulate has no ruleset.
SimulationSetsUpNothing == errors = 0 /\ Simulate => rules = {}

\* An authorization that got through has its client in the set, if the client
\* was never asked to leave it.
AuthorizedIsOpen ==
  \A r \in Requests :
    /\ ~simulating /\ restarts = 0 /\ reboots = 0
    /\ r.kind = "authorize" /\ pc[r] \in {"map", "ok"}
    /\ \A q \in Requests : q.kind = "revoke" /\ q.mac = r.mac => pc[q] = "idle"
    => r.mac \in nft

ForwardInv ==
  RevokeInv /\ SetupInv /\ SimulationSetsUpNothing /\ AuthorizedIsOpen

LEMMA ForwardInit == Init => ForwardInv
BY RevokeInit, SetupInit
DEF Init, ForwardInv, SimulationSetsUpNothing, AuthorizedIsOpen

LEMMA OpenRequestStays ==
  ASSUME TypeOK, AuthorizedIsOpen, NEW r \in Requests, Receive(r) \/ Handler(r)
  PROVE  AuthorizedIsOpen'
<1> USE RequestsAssumption
    DEF TypeOK, AuthorizedIsOpen, Step, kernel, process, bounds, NftError
<1>1. CASE Receive(r)        BY <1>1 DEF Receive
<1>2. CASE OpenFirewall(r)   BY <1>2 DEF OpenFirewall
<1>3. CASE ListClient(r)     BY <1>3 DEF ListClient
<1>4. CASE CloseFirewall(r)  BY <1>4 DEF CloseFirewall
<1>5. CASE UnlistClient(r)   BY <1>5 DEF UnlistClient
<1> QED BY <1>1, <1>2, <1>3, <1>4, <1>5 DEF Handler

LEMMA ForwardStep == ASSUME ForwardInv, [Next]_vars PROVE ForwardInv'
<1> USE DEF ForwardInv, SimulationSetsUpNothing
<1>0. RevokeInv' /\ SetupInv' /\ TypeOK /\ SimulatesAsTold
  BY RevokeStep, SetupStep DEF RevokeInv
<1>1. CASE RunSetupCommand \/ FailSetupCommand \/ UNCHANGED vars
  <2>1. AuthorizedIsOpen'
    BY <1>0, <1>1
    DEF RunSetupCommand, FailSetupCommand, NftError, AuthorizedIsOpen, kernel, bounds, vars
  <2>2. CASE RunSetupCommand
    <3>1. errors' = errors /\ ~simulating
      BY <2>2 DEF RunSetupCommand, Serving, bounds
    <3>2. ~(errors = 0 /\ Simulate)
      BY <1>0, <3>1 DEF SimulatesAsTold
    <3> QED BY <1>0, <2>1, <3>1, <3>2
  <2>3. CASE FailSetupCommand
    <3>1. errors' # 0
      BY <1>0, <2>3 DEF FailSetupCommand, NftError, TypeOK
    <3> QED BY <1>0, <2>1, <3>1
  <2>4. CASE UNCHANGED vars
    BY <1>0, <2>1, <2>4 DEF vars
  <2> QED BY <1>1, <2>2, <2>3, <2>4
<1>2. CASE Restart \/ Reboot
  BY <1>0, <1>2, LimitsAssumption
  DEF Restart, Reboot, StartOver, kernel, TypeOK, AuthorizedIsOpen
<1>3. ASSUME NEW r \in Requests, Receive(r) \/ Handler(r)
      PROVE  ForwardInv'
  <2>1. AuthorizedIsOpen'
    BY <1>0, <1>3, OpenRequestStays
  <2>2. UNCHANGED rules /\ (errors' = 0 => errors = 0)
    BY <1>0, <1>3, LimitsAssumption
    DEF Receive, Handler, OpenFirewall, ListClient, CloseFirewall, UnlistClient,
        kernel, process, bounds, NftError, TypeOK
  <2> QED BY <1>0, <2>1, <2>2
<1> QED BY <1>1, <1>2, <1>3 DEF Next, DaemonNext

\* While no nft command has failed, "allow authorized MACs to forward traffic"
\* (firewall.go:42) holds: once the daemon serves, a client whose authorization
\* it has answered with success gets through.
THEOREM ForwardsWithoutErrors == Spec => [](errors = 0 => AuthorizedForwards)
<1>1. ForwardInv => (errors = 0 => AuthorizedForwards)
  <2> SUFFICES ASSUME ForwardInv, errors = 0, NEW r \in Requests,
                      Serving, restarts = 0, reboots = 0,
                      r.kind = "authorize", pc[r] = "ok",
                      \A q \in Requests : q.kind = "revoke" /\ q.mac = r.mac => pc[q] = "idle"
               PROVE  Forwarded(r.mac)
    BY DEF AuthorizedForwards
  <2>0. /\ TypeOK /\ (simulating = Simulate) /\ AuthorizedIsOpen
        /\ SimulationSetsUpNothing /\ SetupInv
    BY DEF ForwardInv, RevokeInv, SimulatesAsTold
  <2>1. CASE Simulate
    BY <2>0, <2>1 DEF SimulationSetsUpNothing, Forwarded
  <2>2. CASE ~Simulate
    <3>1. r.mac \in nft
      BY <2>0, <2>2 DEF AuthorizedIsOpen
    <3>2. SetupCommands[6] \in rules /\ SetupCommands[6] = "acceptRule"
      BY <2>0, <2>2, SetupLength DEF Serving, SetupInv, SetupCommands
    <3> QED BY <3>1, <3>2 DEF Forwarded
  <2> QED BY <2>1, <2>2
<1> QED BY <1>1, ForwardInit, ForwardStep, PTL DEF Spec

-----------------------------------------------------------------------------
(***************************************************************************)
(* How an authorization ends                                               *)
(***************************************************************************)

\* It is refused only for want of a MAC or address; it fails only with nft, and is
\* lost only with the daemon.
AuthorizationsEnd ==
  \A r \in Requests : r.kind = "authorize" =>
    /\ pc[r] = "refused" => Incomplete(r)
    /\ pc[r] = "failed" => errors # 0
    /\ pc[r] = "lost" => restarts # 0 \/ reboots # 0

LEMMA EndInit == Init => AuthorizationsEnd
BY DEF Init, AuthorizationsEnd

\* The bounded counters count.
LEMMA CountersGrow ==
  ASSUME TypeOK, [Next]_vars
  PROVE  /\ errors' = 0 => errors = 0
         /\ restarts' = 0 => restarts = 0
         /\ reboots' = 0 => reboots = 0
<1> USE LimitsAssumption DEF TypeOK
<1>1. ASSUME NEW r \in Requests, Receive(r) \/ Handler(r)
      PROVE  (errors' = 0 => errors = 0) /\ UNCHANGED <<restarts, reboots>>
  BY <1>1
  DEF Receive, Handler, OpenFirewall, ListClient, CloseFirewall, UnlistClient, NftError,
      bounds
<1>2. CASE RunSetupCommand \/ FailSetupCommand
  BY <1>2 DEF RunSetupCommand, FailSetupCommand, NftError, bounds
<1>3. CASE Restart \/ Reboot
  BY <1>3 DEF Restart, Reboot, StartOver
<1>4. CASE UNCHANGED vars
  BY <1>4 DEF vars
<1> QED BY <1>1, <1>2, <1>3, <1>4 DEF Next, DaemonNext

LEMMA EndStep ==
  ASSUME TypeOK, AuthorizationsEnd, [Next]_vars
  PROVE  AuthorizationsEnd'
<1> USE LimitsAssumption DEF TypeOK, AuthorizationsEnd, Step, NftError, bounds
<1>1. ASSUME NEW r \in Requests, Receive(r) \/ Handler(r)
      PROVE  AuthorizationsEnd'
  <2>1. CASE Receive(r)        BY <2>1 DEF Receive
  <2>2. CASE OpenFirewall(r)   BY <2>2 DEF OpenFirewall
  <2>3. CASE ListClient(r)     BY <2>3 DEF ListClient
  <2>4. CASE CloseFirewall(r)  BY <2>4 DEF CloseFirewall
  <2>5. CASE UnlistClient(r)   BY <2>5 DEF UnlistClient
  <2> QED BY <1>1, <2>1, <2>2, <2>3, <2>4, <2>5 DEF Handler
<1>2. CASE RunSetupCommand \/ FailSetupCommand
  BY <1>2 DEF RunSetupCommand, FailSetupCommand
<1>3. CASE Restart \/ Reboot
  BY <1>3 DEF Restart, Reboot, StartOver
<1>4. CASE UNCHANGED vars
  BY <1>4 DEF vars
<1> QED BY <1>1, <1>2, <1>3, <1>4 DEF Next, DaemonNext

=============================================================================
