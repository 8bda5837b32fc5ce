---------------------------- MODULE AdvertisedPool ----------------------------
(***************************************************************************)
(* What the agent promises of the pool of devices it advertises, without   *)
(* polls, snapshots, channels, work queues and listings that are not       *)
(* atomic.                                                                 *)
(*                                                                         *)
(* What the agent has of an interface changes before it is told of the     *)
(* change; until then the interface is owed.  Being told, and a change of  *)
(* the networks, makes a new pool due.  Only a pool that is due is         *)
(* advertised, and what is then no longer due shows each network and       *)
(* interface as they are, but for the interfaces that are owed.            *)
(***************************************************************************)
CONSTANTS
    Networks, Names, Specs, Absent,
    Exposes                  \* which network exposes which interface in which state

VARIABLES
    listed,      \* the networks the agent has
    device,      \* what it has of each interface
    owed,        \* the interfaces with changes it has not been told of
    due,         \* a pool must be advertised
    advertised   \* the last pool

vars == <<listed, device, owed, due, advertised>>

TypeOK ==
    /\ listed \subseteq Networks
    /\ device \in [Names -> Specs \cup {Absent}]
    /\ owed \subseteq Names
    /\ due \in BOOLEAN
    /\ advertised \subseteq Exposes

Current == {r \in Exposes : r[1] \in listed /\ device[r[2]] = r[3]}

(* The pools agree on all interfaces but those that are owed.              *)
Agree(pool1, pool2) ==
    \A r \in Exposes : r[2] \notin owed => (r \in pool1 <=> r \in pool2)

Init ==
    /\ listed \subseteq Networks
    /\ device = [n \in Names |-> Absent]
    /\ owed = {}
    /\ due \in BOOLEAN
    /\ due \/ listed = {}
    /\ advertised = {}

Change(n, spec) ==
    /\ device' = [device EXCEPT ![n] = spec]
    /\ owed' = owed \cup {n}
    /\ UNCHANGED <<listed, due, advertised>>

(* It may be told of an earlier change and stay owed.                      *)
Hear(n, spec) ==
    /\ n \in owed
    /\ device' = [device EXCEPT ![n] = spec]
    /\ owed' \in {owed, owed \ {n}}
    /\ due' = TRUE
    /\ UNCHANGED <<listed, advertised>>

ListNetwork(network) ==
    /\ listed' \in {listed \cup {network}, listed \ {network}}
    /\ due' = TRUE
    /\ UNCHANGED <<device, owed, advertised>>

Remind ==
    /\ due' = TRUE
    /\ UNCHANGED <<listed, device, owed, advertised>>

Advertise(pool) ==
    /\ due
    /\ advertised' = pool
    /\ due' \in BOOLEAN
    /\ due' \/ Agree(pool, Current)
    /\ UNCHANGED <<listed, device, owed>>

Next ==
    \/ \E n \in Names, spec \in Specs \cup {Absent} : Change(n, spec) \/ Hear(n, spec)
    \/ \E network \in Networks : ListNetwork(network)
    \/ Remind
    \/ \E pool \in SUBSET Exposes : Advertise(pool)

Spec == Init /\ [][Next]_vars

-----------------------------------------------------------------------------
(* A pool that is not due for replacement is right about every interface   *)
(* that is not owed.                                                       *)
PoolIsCurrent == due \/ Agree(advertised, Current)

PoolInv == TypeOK /\ PoolIsCurrent
=============================================================================
