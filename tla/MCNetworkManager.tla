-------------------------- MODULE MCNetworkManager --------------------------
(***************************************************************************)
(* NetworkManager with a handful of concurrent requests.                   *)
(***************************************************************************)
EXTENDS NetworkManager

CONSTANTS m1, m2, ip1

MCMacs == {m1, m2, NoMac}
MCIps  == {ip1}

\* Two authorizations and two revocations of one client, for another a call
\* without an ip, and a revocation of nobody: the requests of different clients
\* meet only in setup, restarts and the error budget.
MCRequests ==
  [kind : {"authorize", "revoke"}, mac : {m1}, ip : {ip1}, id : {1, 2}]
    \cup [kind : {"authorize"}, mac : {m2}, ip : {NoIp}, id : {3}]
    \cup [kind : {"revoke"}, mac : {NoMac}, ip : {ip1}, id : {4}]

=============================================================================
