----------------------------- MODULE SandboxGate -----------------------------
(***************************************************************************)
(* What the NRI plugin promises, without its locks, channels and cursors.  *)
(*                                                                         *)
(* Each sandbox with claims gets a task (the configuration of its pod's    *)
(* devices), and the gate tracks at most one task per pod, the one of the  *)
(* latest sandbox.  A pod stops being tracked, by the start of a container *)
(* or by a removal, only when its tracked task is not at work; a tracked   *)
(* pod's container is admitted by the same step that stops tracking it.    *)
(* A pending task is not at work: it may start after the gate let go of it,*)
(* which is the weak spot of the implementation and is stated here so that *)
(* the abstract specification does not promise what the code does not do.  *)
(***************************************************************************)
CONSTANTS Sandboxes, Pods, PodOf, None

VARIABLES
    tracked,     \* the sandbox whose task stands between a pod and its start
    task,        \* progress of each sandbox's task
    admitted     \* sandboxes that had a container started

vars == <<tracked, task, admitted>>

TypeOK ==
    /\ tracked \in [Pods -> Sandboxes \cup {None}]
    /\ task \in [Sandboxes -> {"absent", "pending", "working", "finished"}]
    /\ admitted \subseteq Sandboxes

Init ==
    /\ tracked = [p \in Pods |-> None]
    /\ task = [s \in Sandboxes |-> "absent"]
    /\ admitted = {}

AtWork(p) == tracked[p] # None /\ task[tracked[p]] = "working"

Track(s) ==
    /\ task[s] = "absent"
    /\ task' = [task EXCEPT ![s] = "pending"]
    /\ tracked' = [tracked EXCEPT ![PodOf[s]] = s]
    /\ UNCHANGED admitted

Begin(s) ==
    /\ task[s] = "pending"
    /\ task' = [task EXCEPT ![s] = "working"]
    /\ UNCHANGED <<tracked, admitted>>

Finish(s) ==
    /\ task[s] = "working"
    /\ task' = [task EXCEPT ![s] = "finished"]
    /\ UNCHANGED <<tracked, admitted>>

Admit(s) ==
    /\ ~AtWork(PodOf[s])
    /\ tracked' = [tracked EXCEPT ![PodOf[s]] = None]
    /\ admitted' = admitted \cup {s}
    /\ UNCHANGED task

Remove(p) ==
    /\ ~AtWork(p)
    /\ tracked' = [tracked EXCEPT ![p] = None]
    /\ UNCHANGED <<task, admitted>>

(* Retries of a refused start leave a sandbox admitted before not admitted *)
(* a second time: the last answer counts.                                  *)
Refuse(s) ==
    /\ AtWork(PodOf[s])
    /\ admitted' = admitted \ {s}
    /\ UNCHANGED <<tracked, task>>

Next ==
    \/ \E s \in Sandboxes :
          Track(s) \/ Begin(s) \/ Finish(s) \/ Admit(s) \/ Refuse(s)
    \/ \E p \in Pods : Remove(p)

SafeSpec == Init /\ [][Next]_vars

Spec == SafeSpec /\ \A s \in Sandboxes : WF_vars(Begin(s)) /\ WF_vars(Finish(s))
=============================================================================
