----------------------------- MODULE MCNodeAgent -----------------------------
(* An instance of NodeAgent.tla: one pod with one claim of a macvlan       *)
(* device, run in two sandboxes one after the other.                       *)
EXTENDS NodeAgent

CONSTANTS pod1, sb1, sb2, claim1

MCClaimsOf == [p \in {pod1} |-> <<claim1>>]
MCPodOf == [s \in {sb1, sb2} |-> pod1]

MCResults ==
    [c \in {claim1} |-> <<[driver |-> "devicenetwork", type |-> "Macvlan", device |-> "eth0"]>>]

MCForeign == [c \in {claim1} |-> <<>>]

MCDeviceStatuses == {[driver |-> "devicenetwork", type |-> "Macvlan", name |-> "a1"]}
=============================================================================
