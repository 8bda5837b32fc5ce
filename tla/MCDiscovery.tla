----------------------------- MODULE MCDiscovery -----------------------------
(* An instance of Discovery.tla: an interface, exposed by a network        *)
(* whatever its properties and by another one in one of its two states.    *)
EXTENDS Discovery

CONSTANTS net1, net2, eth0, up, rdma

MCExposes == {<<net1, eth0, up>>, <<net1, eth0, rdma>>, <<net2, eth0, rdma>>}
=============================================================================
