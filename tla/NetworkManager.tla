--------------------------- MODULE NetworkManager ---------------------------
(***************************************************************************)
(* The network manager (services/network-manager/main.go, firewall.go): a  *)
(* daemon that owns the nftables rules of the captive portal and the set   *)
(* of MAC addresses allowed through, and that lists its active clients in  *)
(* a map of its own.                                                       *)
(*                                                                         *)
(* The two are updated one after the other: handleAuthorize and            *)
(* handleRevoke run nft first, without holding clientsMu, and take the     *)
(* lock only for the map.  Requests run concurrently, so an authorization  *)
(* and a revocation of the same MAC can cross.  The kernel's state (rules  *)
(* and set) survives the daemon; the map does not.                         *)
(***************************************************************************)
EXTENDS Naturals, Sequences

CONSTANTS
  Macs,         \* client MAC addresses
  NoMac,        \* the empty mac of a request that carries none, if it is in Macs
  Ips,          \* client IP addresses
  NoIp,         \* the empty ip of a request that carries none
  Requests,     \* the calls made: [kind, mac, ip] with whatever tells them apart
  Simulate,     \* the -simulate flag or SIMULATE variable
  MaxNftErrors, \* bound: nft commands that fail for a reason of their own
  MaxRestarts,  \* bound: restarts of the daemon
  MaxReboots    \* bound: reboots of the host, which empty the kernel's state

ASSUME SimulateAssumption == Simulate \in BOOLEAN
ASSUME RequestsAssumption ==
  \A r \in Requests : /\ r.kind \in {"authorize", "revoke"}
                      /\ r.mac \in Macs
                      /\ r.ip \in Ips \cup {NoIp}
ASSUME LimitsAssumption ==
  MaxNftErrors \in Nat /\ MaxRestarts \in Nat /\ MaxReboots \in Nat

\* The nft commands of SetupPortal, in the order they are run.
SetupCommands == <<"table", "redirectChain", "dropChain", "macSet",
                   "redirectRule", "acceptRule", "dnsRule">>
Rules == {SetupCommands[i] : i \in 1 .. Len(SetupCommands)}

VARIABLES
  rules,      \* kernel: what SetupPortal has installed
  nft,        \* kernel: the set authorized_macs
  simulating, \* firewall.SimulationMode
  setup,      \* commands SetupPortal has run; done at Len(SetupCommands)
  active,     \* the map activeClients: MACs listed
  pc,         \* control point of the handler of each request
  crossed,    \* history: MACs with an authorization and a revocation that ran
              \* at the same time
  errors, restarts, reboots

kernel  == <<rules, nft>>
process == <<simulating, setup>>
bounds  == <<errors, restarts, reboots>>
vars    == <<rules, nft, simulating, setup, active, pc, crossed,
             errors, restarts, reboots>>

Running == {"firewall", "map"}
Points  == Running \cup {"idle", "refused", "failed", "ok", "lost"}

Serving == simulating \/ setup = Len(SetupCommands)

\* The accept rule lets the set through; without the drop chain all pass.
Forwarded(m) ==
  "dropChain" \in rules => "acceptRule" \in rules /\ m \in nft

Init ==
  /\ rules = {}
  /\ nft = {}
  /\ simulating = Simulate
  /\ setup = 0
  /\ active = {}
  /\ pc = [r \in Requests |-> "idle"]
  /\ crossed = {}
  /\ errors = 0
  /\ restarts = 0
  /\ reboots = 0

NftError == errors < MaxNftErrors /\ errors' = errors + 1
            /\ UNCHANGED <<restarts, reboots>>

Step(r, from, to) == pc[r] = from /\ pc' = [pc EXCEPT ![r] = to]

-----------------------------------------------------------------------------
\* SetupPortal runs its commands in order before the daemon serves requests.
\* Repeating a command that took effect in an earlier life is harmless.
RunSetupCommand ==
  /\ ~Serving
  /\ rules' = rules \cup {SetupCommands[setup + 1]}
  /\ setup' = setup + 1
  /\ UNCHANGED <<nft, simulating, active, pc, crossed, bounds>>

\* Mutant: a command that fails is skipped.
SkipSetupCommand ==
  /\ ~Serving
  /\ NftError
  /\ setup' = setup + 1
  /\ UNCHANGED <<kernel, simulating, active, pc, crossed>>

\* The first command that fails turns simulation on; what was installed stays.
FailSetupCommand ==
  /\ ~Serving
  /\ NftError
  /\ simulating' = TRUE
  /\ UNCHANGED <<kernel, setup, active, pc, crossed>>

-----------------------------------------------------------------------------
\* An authorization needs mac and ip, a revocation a mac.
Incomplete(r) == r.mac = NoMac \/ (r.kind = "authorize" /\ r.ip = NoIp)

Receive(r) ==
  /\ Serving
  /\ IF Incomplete(r)
     THEN Step(r, "idle", "refused") /\ UNCHANGED crossed
     ELSE /\ Step(r, "idle", "firewall")
          /\ crossed' =
               IF \E q \in Requests : pc[q] \in Running /\ q.mac = r.mac /\ q.kind # r.kind
               THEN crossed \cup {r.mac}
               ELSE crossed
  /\ UNCHANGED <<kernel, process, active, bounds>>

\* AuthorizeClient: adding an element that is there already succeeds.
OpenFirewall(r) ==
  /\ r.kind = "authorize"
  /\ \/ /\ Step(r, "firewall", "map")
        /\ nft' = IF simulating THEN nft ELSE nft \cup {r.mac}
        /\ UNCHANGED bounds
     \/ /\ ~simulating
        /\ Step(r, "firewall", "failed")
        /\ NftError
        /\ UNCHANGED nft
  /\ UNCHANGED <<rules, process, active, crossed>>

\* Mutant: clients are listed by address.
ListAddress(r) ==
  /\ r.kind = "authorize"
  /\ Step(r, "map", "ok")
  /\ active' = active \cup {r.ip}
  /\ UNCHANGED <<kernel, process, crossed, bounds>>

\* A new entry replaces the client's old one.
ListClient(r) ==
  /\ r.kind = "authorize"
  /\ Step(r, "map", "ok")
  /\ active' = active \cup {r.mac}
  /\ UNCHANGED <<kernel, process, crossed, bounds>>

\* Mutant: the error of nft is logged and the client unlisted all the same.
CloseFirewallAnyway(r) ==
  /\ r.kind = "revoke"
  /\ Step(r, "firewall", "map")
  /\ \/ nft' = (IF simulating THEN nft ELSE nft \ {r.mac}) /\ UNCHANGED bounds
     \/ ~simulating /\ NftError /\ UNCHANGED nft
  /\ UNCHANGED <<rules, process, active, crossed>>

\* RevokeClient: deleting an element that is not there is an error.
CloseFirewall(r) ==
  /\ r.kind = "revoke"
  /\ \/ /\ simulating \/ r.mac \in nft
        /\ Step(r, "firewall", "map")
        /\ nft' = IF simulating THEN nft ELSE nft \ {r.mac}
        /\ UNCHANGED bounds
     \/ /\ ~simulating
        /\ Step(r, "firewall", "failed")
        /\ \/ r.mac \notin nft /\ UNCHANGED bounds
           \/ NftError
        /\ UNCHANGED nft
  /\ UNCHANGED <<rules, process, active, crossed>>

\* Mutant: the entry is left on the list.
UnlistNobody(r) ==
  /\ r.kind = "revoke"
  /\ Step(r, "map", "ok")
  /\ UNCHANGED <<kernel, process, active, crossed, bounds>>

UnlistClient(r) ==
  /\ r.kind = "revoke"
  /\ Step(r, "map", "ok")
  /\ active' = active \ {r.mac}
  /\ UNCHANGED <<kernel, process, crossed, bounds>>

Handler(r) == OpenFirewall(r) \/ ListClient(r) \/ CloseFirewall(r) \/ UnlistClient(r)

-----------------------------------------------------------------------------
\* The daemon dies with its map and its handlers and starts over.
StartOver ==
  /\ simulating' = Simulate
  /\ setup' = 0
  /\ active' = {}
  /\ pc' = [r \in Requests |-> IF pc[r] \in Running THEN "lost" ELSE pc[r]]
  /\ UNCHANGED <<crossed, errors>>

\* Mutant: the portal's table is deleted when the daemon stops.
RestartFlushing ==
  /\ restarts < MaxRestarts
  /\ restarts' = restarts + 1
  /\ rules' = {}
  /\ nft' = {}
  /\ StartOver
  /\ UNCHANGED reboots

Restart ==
  /\ restarts < MaxRestarts
  /\ restarts' = restarts + 1
  /\ StartOver
  /\ UNCHANGED <<kernel, reboots>>

Reboot ==
  /\ reboots < MaxReboots
  /\ reboots' = reboots + 1
  /\ rules' = {}
  /\ nft' = {}
  /\ StartOver
  /\ UNCHANGED restarts

\* Everything but the arrival of a request.
DaemonNext ==
  \/ RunSetupCommand \/ FailSetupCommand \/ Restart \/ Reboot
  \/ \E r \in Requests : Handler(r)

Next == DaemonNext \/ \E r \in Requests : Receive(r)

Spec == Init /\ [][Next]_vars

-----------------------------------------------------------------------------
(***************************************************************************)
(* Properties                                                              *)
(***************************************************************************)

\* The type invariant: every variable holds a value of its kind.
TypeOK ==
  /\ rules \in SUBSET Rules
  /\ nft \in SUBSET Macs
  /\ simulating \in BOOLEAN
  /\ setup \in 0 .. Len(SetupCommands)
  /\ active \in SUBSET Macs
  /\ pc \in [Requests -> Points]
  /\ crossed \in SUBSET Macs
  /\ errors \in 0 .. MaxNftErrors
  /\ restarts \in 0 .. MaxRestarts
  /\ reboots \in 0 .. MaxReboots

\* A daemon that serves requests and does not simulate has the whole ruleset
\* in place, through restarts, reboots and setups that failed half-way.
ServingEnforces ==
  Serving /\ ~simulating => rules = Rules

Quiet(m) == \A r \in Requests : r.mac = m => pc[r] \notin Running

\* Outside simulation a client on the daemon's list is in the firewall's set:
\* once no request for it is running, the list does not claim a client that
\* the firewall blocks, unless an authorization and a revocation crossed.
ListedIsOpen ==
  \A m \in Macs :
    ~simulating /\ Quiet(m) /\ m \notin crossed /\ m \in active => m \in nft

\* The converse, which a restart breaks because the kernel keeps its set: a
\* client the firewall lets through is on the list.
OpenIsListed ==
  \A m \in Macs :
    restarts = 0 /\ Quiet(m) /\ m \notin crossed /\ m \in nft => m \in active

\* No nft command was ever skipped because the daemon simulated: it does not
\* now, and in an earlier life only an error could have made it.
NeverSimulated ==
  ~simulating /\ (errors = 0 \/ (restarts = 0 /\ reboots = 0))

\* At most one authorization of the client was received.
AuthorizedOnce(m) ==
  \A p, q \in Requests :
    /\ p.kind = "authorize" /\ p.mac = m /\ pc[p] # "idle"
    /\ q.kind = "authorize" /\ q.mac = m /\ pc[q] # "idle"
    => p = q

\* A revocation that was answered with success lasts: unless a second
\* authorization of the client was received, the client is out of the set,
\* also when requests cross and when the daemon restarts without its list.
RevocationHolds ==
  \A r \in Requests :
    NeverSimulated /\ r.kind = "revoke" /\ pc[r] = "ok" /\ AuthorizedOnce(r.mac)
      => r.mac \notin nft

\* "Allow authorized MACs to forward traffic to the internet" (firewall.go:42):
\* once the daemon serves, a client whose authorization it has answered with
\* success, with no revocation asked for and no restart since, gets through.
AuthorizedForwards ==
  \A r \in Requests :
    /\ Serving /\ restarts = 0 /\ reboots = 0
    /\ r.kind = "authorize" /\ pc[r] = "ok"
    /\ \A q \in Requests : q.kind = "revoke" /\ q.mac = r.mac => pc[q] = "idle"
    => Forwarded(r.mac)

=============================================================================
