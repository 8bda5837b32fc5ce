----------------------------- MODULE MCPodNetwork -----------------------------
(* An instance of PodNetwork.tla: two sandboxes that take an interface     *)
(* with two RDMA devices one after the other, and a sandbox with a dummy   *)
(* interface and two macvlans on the first one.  Addresses have two bytes  *)
(* of three bits, so that masks end within a byte and between two.         *)
EXTENDS PreparedAddresses

CONSTANTS s1, s2, s3, rdma1, rdma2

Interface(name, type) ==
    [interfaceName |-> name, deviceType |-> type, parentIndex |-> 0,
     masterIndex |-> 0, linkLayerType |-> "ether"]

eth0 == Interface("eth0", "device")
dummy0 == Interface("dummy0", "dummy")

MCTasks == {"host1", "host2", "dummy", "macvlan1", "macvlan2"}

MCSandboxOf == [t \in Tasks |->
    CASE t = "host1" -> s1 [] t = "host2" -> s2 [] OTHER -> s3]

MCEarlier == [t \in Tasks |->
    CASE t = "macvlan1" -> {"dummy"}
      [] t = "macvlan2" -> {"dummy", "macvlan1"}
      [] OTHER -> {}]

MCHostDevice == [t \in Tasks |->
    IF t = "dummy" THEN dummy0 ELSE eth0]

MCConfigurationOf == [t \in Tasks |->
    [deviceType |-> IF t \in {"macvlan1", "macvlan2"} THEN "Macvlan" ELSE Nil, macvlan |-> Nil]]

MCHostDevices == {eth0, dummy0}

(* The two random names are the same, so that the second macvlan is        *)
(* refused if the first one is there, and made if it is not.               *)
MCRandomNames == [t \in Tasks |-> {"name"}]

MCNetdevOf == [r \in RdmaDevices |-> eth0]
=============================================================================
