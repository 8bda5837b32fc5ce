----------------------- MODULE DeviceNetworkController -----------------------
(***************************************************************************)
(* The controller that advertises devices:                                 *)
(* pkg/controllers/devicenetwork/devicenetwork.go and reconciler.go.       *)
(*                                                                         *)
(* Every event of a DeviceNetwork or of a host device queues the same key. *)
(* The worker takes it, lists the DeviceNetworks once, lists the cached    *)
(* devices for each of their selectors, and publishes the devices that     *)
(* result as the node's whole pool, or queues the key again.               *)
(*                                                                         *)
(* Granularity.  The queue holds one key, so it is a Boolean; an event     *)
(* that arrives while the worker reconciles sets it again.  Each listing   *)
(* is a step, since devices and networks change in between.  A network is  *)
(* taken to have one device selector.  A node that is not found leaves the *)
(* key in the queue and changes nothing.                                   *)
(***************************************************************************)
EXTENDS Naturals

CONSTANTS
    Networks,        \* names of DeviceNetwork objects
    Names, Specs, Absent,
    Exposes,         \* <<network, name, spec>>: the network's selectors match
                     \* the device and a configurator supports it
    MaxEdits         \* bound on the creations and deletions of networks

VARIABLES
    networks,        \* the DeviceNetworks in the API server
    lister,          \* those the informer's lister shows
    store,           \* the device cache's store
    dirty,           \* the key is in dnc.queue
    stage,           \* where Reconcile is
    todo,            \* networks of this reconcile not dealt with yet
    resources,       \* the devices gathered so far
    published,       \* the pool handed to the kubelet plugin helper
    edits            \* how much of MaxEdits is used up

vars == <<networks, lister, store, dirty, stage, todo, resources, published, edits>>

Resources == SUBSET (Networks \X Names \X Specs)

TypeOK ==
    /\ networks \subseteq Networks /\ lister \subseteq Networks
    /\ dirty \in BOOLEAN
    /\ stage \in {"idle", "listing"}
    /\ todo \subseteq Networks
    /\ resources \in Resources /\ published \in Resources
    /\ edits \in 0..MaxEdits

NewDeviceNetworkController ==
    /\ stage = "idle"
    /\ todo = {} /\ resources = {} /\ published = {}

(* Once the informer has synced and called onEvent for what it has.        *)
Init ==
    /\ NewDeviceNetworkController
    /\ networks \in SUBSET Networks
    /\ lister = networks
    /\ dirty = (lister # {})
    /\ store \in [Names -> Specs \cup {Absent}]
    /\ edits = 0

-----------------------------------------------------------------------------

(* A user creates or deletes a DeviceNetwork.                              *)
EditNetwork(network) ==
    /\ edits < MaxEdits
    /\ networks' = IF network \in networks
                   THEN networks \ {network} ELSE networks \cup {network}
    /\ edits' = edits + 1
    /\ UNCHANGED <<lister, store, dirty, stage, todo, resources, published>>

(* The informer brings its lister up to date and calls onEvent ...         *)
NetworkEvent(network) ==
    /\ network \in lister <=> network \notin networks
    /\ lister' = IF network \in networks
                 THEN lister \cup {network} ELSE lister \ {network}
    /\ dirty' = TRUE
    /\ UNCHANGED <<networks, store, stage, todo, resources, published, edits>>

(* An informer made with a resync period of 0.                             *)
ResyncNever == FALSE /\ UNCHANGED vars

(* ... and reports an update of everything it has every 30 seconds.        *)
Resync ==
    /\ lister # {}
    /\ dirty' = TRUE
    /\ UNCHANGED <<networks, lister, store, stage, todo, resources, published, edits>>

(* A worker that goes on with what an earlier reconcile has gathered.      *)
ReconcileOnwards ==
    /\ stage = "idle"
    /\ dirty
    /\ dirty' = FALSE
    /\ stage' = "listing"
    /\ todo' = lister
    /\ UNCHANGED <<networks, lister, store, resources, published, edits>>

(* The worker takes the key and lists the networks.                        *)
Reconcile ==
    /\ stage = "idle"
    /\ dirty
    /\ dirty' = FALSE
    /\ stage' = "listing"
    /\ todo' = lister
    /\ resources' = {}
    /\ UNCHANGED <<networks, lister, store, published, edits>>

Exposed(network) ==
    {resource \in Exposes :
        resource[1] = network /\ store[resource[2]] = resource[3]}

ListDevices(network) ==
    /\ stage = "listing"
    /\ network \in todo
    /\ resources' = resources \cup Exposed(network)
    /\ todo' = todo \ {network}
    /\ UNCHANGED <<networks, lister, store, dirty, stage, published, edits>>

(* A worker that takes the key out of the queue when it is done with it.   *)
PublishAndClear ==
    /\ stage = "listing"
    /\ todo = {}
    /\ published' = resources
    /\ stage' = "idle"
    /\ dirty' = FALSE
    /\ UNCHANGED <<networks, lister, store, todo, resources, edits>>

Publish ==
    /\ stage = "listing"
    /\ todo = {}
    /\ published' = resources
    /\ stage' = "idle"
    /\ UNCHANGED <<networks, lister, store, dirty, todo, resources, edits>>

(* AddRateLimited: the key is queued again, after a while.                 *)
PublishFails ==
    /\ stage = "listing"
    /\ todo = {}
    /\ stage' = "idle"
    /\ dirty' = TRUE
    /\ UNCHANGED <<networks, lister, store, todo, resources, published, edits>>

Next ==
    \/ \E network \in Networks :
          EditNetwork(network) \/ NetworkEvent(network) \/ ListDevices(network)
    \/ Resync
    \/ Reconcile
    \/ Publish \/ PublishFails

Spec == Init /\ [][Next]_vars
=============================================================================
