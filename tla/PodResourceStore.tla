-------------------------- MODULE PodResourceStore --------------------------
(***************************************************************************)
(* The in-memory store of prepared ResourceClaims, pkg/store/memory.go.    *)
(* The DRA driver adds a claim under the UID of the pod it is reserved for *)
(* and the NRI plugin reads all the claims of a pod when the pod's sandbox *)
(* is run.  Every method holds the store's mutex from its first to its     *)
(* last line and never blocks inside, so each is one operator on the value *)
(* of the store.                                                           *)
(*                                                                         *)
(* Memory.Delete has no operator: no code of the program calls it.         *)
(***************************************************************************)
EXTENDS Naturals, Sequences

CONSTANTS
    Pods,            \* UIDs of the pods scheduled to the node
    ClaimUIDs,       \* UIDs of ResourceClaims
    DeviceStatuses   \* what one element of claim.Status.Devices can be

(* What the store keeps of a ResourceClaim: its UID and Status.Devices.    *)
StoredClaim == [uid : ClaimUIDs, devices : Seq(DeviceStatuses)]

(* podResources: a pod without an entry in the Go map is one mapped to the *)
(* empty sequence here, which Get cannot tell apart.                       *)
Store == [Pods -> Seq(StoredClaim)]

NewMemory == [p \in Pods |-> <<>>]

Holds(claims, uid) == \E k \in DOMAIN claims : claims[k].uid = uid

(* A mutated Add that drops the "already stored" check.                    *)
AddAlways(store, p, claim) == [store EXCEPT ![p] = Append(@, claim)]

(* Add keeps the first claim stored under a UID: a later Add of the same   *)
(* UID for the same pod changes nothing, whatever its status says.         *)
Add(store, p, claim) ==
    IF Holds(store[p], claim.uid)
    THEN store
    ELSE [store EXCEPT ![p] = Append(@, claim)]

Get(store, p) == store[p]
=============================================================================
