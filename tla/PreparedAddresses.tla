-------------------------- MODULE PreparedAddresses --------------------------
(* What a claim is prepared with before its sandbox runs: the devices that *)
(* PodNetwork.tla configures and the addresses of RandomIPAM.tla.          *)
EXTENDS PodNetwork, RandomIPAM

(* When claims have been prepared and no sandbox runs yet: the addresses   *)
(* that common.go:81-164 may have allocated are usable, in every subnet of *)
(* the addresses (RandomIPUsable).                                         *)
PreparedAddressesUsable ==
    (\A s \in Sandboxes : namespace[s] = "none") => RandomIPUsable
=============================================================================
