------------------------------ MODULE MCDriver ------------------------------
(* An instance of Driver.tla: a pod with a claim of its own and one it     *)
(* shares with a second pod.  The own claim has a macvlan device next to a *)
(* device of another driver, the shared one a host device.                 *)
EXTENDS Driver

CONSTANTS pod1, pod2, claim1, claim2

MCClaimsOf == [p \in {pod1, pod2} |-> IF p = pod1 THEN <<claim1, claim2>> ELSE <<claim2>>]

Result(driver, type, device) == [driver |-> driver, type |-> type, device |-> device]

MCResults ==
    [c \in {claim1, claim2} |->
        IF c = claim1
        THEN <<Result("other", "None", "gpu0"), Result("devicenetwork", "Macvlan", "eth0")>>
        ELSE <<Result("devicenetwork", "HostDevice", "eth1")>>]

Status(driver, type, name) == [driver |-> driver, type |-> type, name |-> name]

MCForeign ==
    [c \in {claim1, claim2} |->
        IF c = claim1 THEN <<Status("other", "None", "gpu0")>> ELSE <<>>]

MCDeviceStatuses ==
    { Status("other", "None", "gpu0"),
      Status("devicenetwork", "Macvlan", "a1"), Status("devicenetwork", "Macvlan", "b2"),
      Status("devicenetwork", "HostDevice", "eth1") }
=============================================================================
