---------------------------- MODULE ClaimHandover ----------------------------
(***************************************************************************)
(* What the node agent promises of a pod's claims, from the kubelet to the *)
(* pod's network namespace, without calls, reservations, errors, locks and *)
(* cursors.                                                                *)
(*                                                                         *)
(* Claims are stored for pods at any time, and a pod is prepared only when *)
(* all of its claims are.  A sandbox is run for a prepared pod, is handed  *)
(* what is stored for the pod at that moment, and its work is finished     *)
(* only when each of the claims handed to it has been dealt with.  Nothing *)
(* is taken from the store again, except by a restart, which forgets it    *)
(* all, ends all work, and is not followed by a second preparation of the  *)
(* pods that were prepared.                                                *)
(***************************************************************************)
CONSTANTS
    Pods, Sandboxes, PodOf, Claims,
    ClaimsOfPod              \* the claims a pod is prepared with

VARIABLES
    prepared,    \* the pods whose preparation has succeeded
    stored,      \* the claims known to the agent, by pod
    forgotten,   \* the pods prepared when the agent was restarted
    work,        \* of a sandbox: none, begun or finished
    handed,      \* the claims a sandbox was run with
    settled      \* those of them that have been dealt with

vars == <<prepared, stored, forgotten, work, handed, settled>>

TypeOK ==
    /\ prepared \subseteq Pods
    /\ stored \in [Pods -> SUBSET Claims]
    /\ forgotten \subseteq Pods
    /\ work \in [Sandboxes -> {"none", "begun", "finished"}]
    /\ handed \in [Sandboxes -> SUBSET Claims]
    /\ settled \in [Sandboxes -> SUBSET Claims]

NothingKnown ==
    /\ stored = [p \in Pods |-> {}]
    /\ work = [s \in Sandboxes |-> "none"]
    /\ handed = [s \in Sandboxes |-> {}]
    /\ settled = [s \in Sandboxes |-> {}]

Init == prepared = {} /\ forgotten = {} /\ NothingKnown

StoreClaim(p, c) ==
    /\ stored' = [stored EXCEPT ![p] = @ \cup {c}]
    /\ UNCHANGED <<prepared, forgotten, work, handed, settled>>

Prepare(p) ==
    /\ ClaimsOfPod[p] \subseteq stored[p]
    /\ prepared' = prepared \cup {p}
    /\ UNCHANGED <<stored, forgotten, work, handed, settled>>

DeletePod(p) ==
    /\ prepared' = prepared \ {p}
    /\ UNCHANGED <<stored, forgotten, work, handed, settled>>

HandOver(s) ==
    /\ PodOf[s] \in prepared
    /\ work[s] = "none"
    /\ work' = [work EXCEPT ![s] = "begun"]
    /\ handed' = [handed EXCEPT ![s] = stored[PodOf[s]]]
    /\ UNCHANGED <<prepared, stored, forgotten, settled>>

Settle(s, c) ==
    /\ work[s] = "begun"
    /\ c \in handed[s]
    /\ settled' = [settled EXCEPT ![s] = @ \cup {c}]
    /\ UNCHANGED <<prepared, stored, forgotten, work, handed>>

Finish(s) ==
    /\ work[s] = "begun"
    /\ settled[s] = handed[s]
    /\ work' = [work EXCEPT ![s] = "finished"]
    /\ UNCHANGED <<prepared, stored, forgotten, handed, settled>>

Restart ==
    /\ forgotten' = forgotten \cup prepared
    /\ NothingKnown'
    /\ UNCHANGED prepared

Next ==
    \/ \E p \in Pods : Prepare(p) \/ DeletePod(p) \/ \E c \in Claims : StoreClaim(p, c)
    \/ \E s \in Sandboxes : HandOver(s) \/ Finish(s) \/ \E c \in Claims : Settle(s, c)
    \/ Restart

Spec == Init /\ [][Next]_vars

-----------------------------------------------------------------------------
(* Work that is finished has dealt with all the claims of its pod, unless  *)
(* a restart forgot them.                                                  *)
AllClaimsSettled ==
    \A s \in Sandboxes :
        work[s] = "finished" /\ PodOf[s] \notin forgotten =>
            ClaimsOfPod[PodOf[s]] \subseteq settled[s]

(* It is inductive with what is stored and handed over before.             *)
HandoverInv ==
    /\ TypeOK
    /\ \A p \in prepared \ forgotten : ClaimsOfPod[p] \subseteq stored[p]
    /\ \A s \in Sandboxes :
          work[s] # "none" /\ PodOf[s] \notin forgotten =>
              ClaimsOfPod[PodOf[s]] \subseteq handed[s]
    /\ \A s \in Sandboxes : work[s] = "finished" => settled[s] = handed[s]
=============================================================================
