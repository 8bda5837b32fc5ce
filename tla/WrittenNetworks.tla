--------------------------- MODULE WrittenNetworks ---------------------------
(***************************************************************************)
(* The system of Allocation.tla with the reference of                      *)
(* DocumentedNetworks.tla: what validation and the reconciler make of an   *)
(* object that a user writes.                                              *)
(***************************************************************************)
EXTENDS Allocation, DocumentedNetworks

(* What the two modules without state say is evaluated where the agent has *)
(* seen no network and no interface yet.                                   *)
Fresh ==
    /\ hostDevices = {} /\ deviceChanges = 0
    /\ \A n \in Networks : networks[n] = [spec |-> Nil, revision |-> 0]

(* Before any network is written: whichever of the samples a user writes,  *)
(* validation.go:26-170 accepts it if types.go documents it as valid, and  *)
(* otherwise refuses it unless only rules are broken that no check stands  *)
(* behind (ValidUpToUncheckedRules).                                       *)
WritesValidUpToUncheckedRules == Fresh => ValidUpToUncheckedRules

(* ... and reconciler.go:104-199 would advertise of the sample interfaces  *)
(* those that each of its configurations selects (ExposesSelected).        *)
WritesExposeSelected == Fresh => ExposesSelected
=============================================================================
