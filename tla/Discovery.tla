------------------------------ MODULE Discovery ------------------------------
(***************************************************************************)
(* From the host's links to the advertised devices: the device cache       *)
(* (DeviceCache.tla) whose informer feeds the controller                   *)
(* (DeviceNetworkController.tla).  The controller lists the cache's store  *)
(* and is woken by the cache's event handlers; the two share nothing else. *)
(***************************************************************************)
EXTENDS Naturals, Sequences

CONSTANTS Names, Specs, Absent, ChannelSize, MaxChanges,
          Networks, Exposes, MaxEdits

ASSUME DiscoveryAssumption ==
    /\ Absent \notin Specs \cup Names
    /\ Exposes \subseteq Networks \X Names \X Specs
    /\ ChannelSize \in Nat /\ MaxChanges \in Nat /\ MaxEdits \in Nat

VARIABLES
    links, queue, syncing, step, snapshot, watching, watch, fate, changes,
    store, dirty,                                                 \* shared
    networks, lister, stage, todo, resources, published, edits

C == INSTANCE DeviceCache
K == INSTANCE DeviceNetworkController

cacheOnly == <<links, queue, syncing, step, snapshot, watching, watch, fate, changes>>
controllerOnly == <<networks, lister, stage, todo, resources, published, edits>>
vars == <<cacheOnly, controllerOnly, store, dirty>>

Init == C!Init /\ K!Init

CacheStep == C!Next /\ UNCHANGED controllerOnly
ControllerStep == K!Next /\ UNCHANGED cacheOnly

Next == CacheStep \/ ControllerStep

Spec == Init /\ [][Next]_vars

(* The ticker ticks and finds the links, the goroutines run, and the work  *)
(* queue, first in first out, does not pass over a name for ever.          *)
cache == <<cacheOnly, store, dirty>>
CacheFairness ==
    /\ WF_cache(C!PollDevices)
    /\ \A n \in Names : SF_cache(C!Sync(n))
    /\ WF_cache(C!Worker)
    /\ WF_cache(C!StartWatch)
    /\ WF_cache(C!Deliver)

(* Informers deliver and resync, the worker runs, and publishing does not  *)
(* fail for ever.                                                          *)
controller == <<controllerOnly, store, dirty>>
ControllerFairness ==
    /\ \A network \in Networks :
          /\ WF_controller(K!NetworkEvent(network))
          /\ WF_controller(K!ListDevices(network))
    /\ WF_controller(K!Resync)
    /\ WF_controller(K!Reconcile)
    /\ WF_controller(K!Publish \/ K!PublishFails)
    /\ SF_controller(K!Publish)

FairSpec == Spec /\ CacheFairness /\ ControllerFairness

-----------------------------------------------------------------------------
TypeOK == C!TypeOK /\ K!TypeOK

StoreFollowsSnapshot == C!StoreFollowsSnapshot

(* What the node should advertise for what the caches show.                *)
Current == UNION {K!Exposed(network) : network \in lister}

(* A change of the store that the handlers have not been told of.          *)
Untold(n) == syncing = n \/ fate[n] # "sent" \/ C!Pending(n) # {}

(* While the controller sleeps, what it has published is up to date but    *)
(* for devices whose event is still to come (or was lost): an event during *)
(* a reconcile, or a failed publication, is never forgotten                *)
(* (devicenetwork.go:140-161).                                             *)
NoLostWakeup ==
    stage = "idle" /\ ~dirty =>
        \A resource \in Exposes :
            ~Untold(resource[2]) => (resource \in published <=> resource \in Current)

(* What a reconcile has gathered so far is up to date as well, unless an   *)
(* event has queued the next one.                                          *)
GatheredIsCurrent ==
    stage = "listing" /\ ~dirty =>
        /\ todo \subseteq lister
        /\ \A resource \in Exposes : ~Untold(resource[2]) =>
              IF resource[1] \in todo
              THEN resource \notin resources
              ELSE resource \in resources <=> resource \in Current

(* Nothing but what a network exposes is gathered or published.            *)
OnlyExposed == resources \cup published \subseteq Exposes

(* All of them together are preserved by every step.                       *)
IInv ==
    /\ TypeOK
    /\ OnlyExposed
    /\ C!UnwatchedIsWritten
    /\ StoreFollowsSnapshot
    /\ GatheredIsCurrent
    /\ NoLostWakeup

(* Cache and controller implement AdvertisedPool.tla: a pool is due from   *)
(* the event that queues the key to the publication that leaves the queue  *)
(* empty.  So what is advertised changes for an event only, the key is     *)
(* never lost on the way, and an interface the controller is not told of   *)
(* is one with an event in flight, without a watcher or dropped            *)
(* (cache.go:243-300, devicenetwork.go:116-161, reconciler.go:75-102).     *)
Pool == INSTANCE AdvertisedPool WITH
    listed <- lister, device <- store, owed <- {n \in Names : Untold(n)},
    due <- (dirty \/ stage = "listing"), advertised <- published

ImplementsPool == Pool!Spec

(* Once links and networks stop changing, every link of the host that a    *)
(* network exposes is advertised as it is, and nothing of a deleted        *)
(* network is (docs/proposal.md:578), also if the events of the first      *)
(* devices had no watcher yet; but for devices whose event was dropped.    *)
PresentAdvertised ==
    <>[](\A resource \in Networks \X Names \X Specs :
            links[resource[2]] # Absent /\ fate[resource[2]] # "dropped" =>
                (resource \in published <=>
                    /\ resource \in Exposes
                    /\ resource[1] \in networks
                    /\ resource[3] = links[resource[2]]))

(* docs/proposal.md:578: when "an existing interface is removed", the      *)
(* agent "updates the ResourceSlices accordingly".  The poll queues only   *)
(* the links there are, so a link that is gone stays advertised.           *)
RemovedWithdrawn ==
    <>[](\A resource \in published : links[resource[2]] # Absent)
=============================================================================
