----------------------------- MODULE MCNriPlugin -----------------------------
(* Two small instances of NriPlugin.tla: a pod with one sandbox after the  *)
(* other.                                                                  *)
EXTENDS NriPlugin

CONSTANTS pod1, sb1, sb2, claim1, claim2

macvlan == [driver |-> "devicenetwork", type |-> "Macvlan"]
garbled == [driver |-> "devicenetwork", type |-> "Unknown"]
foreign == [driver |-> "other", type |-> "Unknown"]
MCDeviceStatuses == {macvlan, garbled, foreign}

MCPodOf == [s \in {sb1, sb2} |-> pod1]

Claim(uid, devices) == [uid |-> uid, devices |-> devices]

(* A claim with a device of another driver and one without usable data,    *)
(* and a claim whose device can be configured, stored in either order.     *)
TwoClaims ==
    { <<pod1, Claim(claim1, <<foreign, garbled>>)>>,
      <<pod1, Claim(claim2, <<macvlan>>)>> }

(* A single device that can be configured.                                 *)
OneDevice == { <<pod1, Claim(claim2, <<macvlan>>)>> }

(* The two sandboxes are interchangeable: sb1 is the one that comes first. *)
InOrder == phase'[sb2] # "absent" => phase[sb1] # "absent"

OrderedSpec == Init /\ [][Next /\ InOrder]_vars /\ Fairness
=============================================================================
