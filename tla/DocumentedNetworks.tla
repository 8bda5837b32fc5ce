-------------------------- MODULE DocumentedNetworks --------------------------
(***************************************************************************)
(* What the comments of apis/v1alpha1/types.go say of a DeviceNetwork, as  *)
(* a reference for the validation (DeviceNetworkValidation.tla) and for    *)
(* the devices a node advertises for it (Advertising.tla).                 *)
(***************************************************************************)
EXTENDS Advertising, DeviceNetworkValidation, FiniteSets

CONSTANTS
    NoCEL,           \* the expressions that are no CEL, or cost more than is allowed
    CIDRs,           \* the texts that denote a subnet
    Samples,         \* the objects the reference is compared on
    SampleDevices    \* the host devices they are to select from

ASSUME SamplesAssumption == \A spec \in Samples : IsDeviceNetworkSpec(spec)

Distinct(list) == \A i, j \in DOMAIN list : list[i].name = list[j].name => i = j

(* A requirement of a node selector as the Kubernetes API documents it.    *)
DocumentedRequirement(requirement) ==
    /\ requirement.key \in LabelNames
    /\ ToSet(requirement.values) \subseteq LabelValues
    /\ \/ requirement.operator \in {"In", "NotIn"} /\ requirement.values # <<>>
       \/ requirement.operator \in {"Exists", "DoesNotExist"} /\ requirement.values = <<>>
       \/ requirement.operator \in {"Gt", "Lt"} /\ Len(requirement.values) = 1

DocumentedField(requirement) ==
    /\ requirement.key = "metadata.name"
    /\ requirement.operator \in {"In", "NotIn"}
    /\ \E node \in NodeNames : requirement.values = <<node>>

DocumentedNodeSelector(nodeSelector) ==
    /\ nodeSelector.nodeSelectorTerms # <<>>
    /\ \A term \in ToSet(nodeSelector.nodeSelectorTerms) :
          /\ \A r \in ToSet(term.matchExpressions) : DocumentedRequirement(r)
          /\ \A r \in ToSet(term.matchFields) : DocumentedField(r)

(* types.go:116-144 and 147-184.  A required text is not empty.            *)
DocumentedSelector(spec, s) ==
    /\ s.name # ""
    /\ \E c \in ToSet(spec.deviceConfigurations) : s.name \in ToSet(c.deviceSelectors)
    /\ Len(s.selectors) <= 1
    /\ \A x \in ToSet(s.selectors) : x.cel \notin {Nil} \cup TooLong \cup NoCEL
    /\ s.nodeSelector # Nil => DocumentedNodeSelector(s.nodeSelector)

(* types.go:195-284.                                                       *)
DocumentedConfiguration(spec, c) ==
    /\ c.name # <<>>
    /\ c.deviceSelectors # <<>>
    /\ IsInjective(c.deviceSelectors)
    /\ ToSet(c.deviceSelectors) \subseteq {s.name : s \in ToSet(spec.deviceSelectors)}
    /\ c.deviceType \in DeviceType \cup {Nil}
    /\ c.macvlan # Nil => /\ c.deviceType = "Macvlan"
                         /\ c.macvlan.mode \in MacvlanMode \cup {Nil}
    /\ c.hostDevice # Nil => c.deviceType \in {"HostDevice", Nil}

(* types.go:287-320.                                                       *)
DocumentedIPAM(i) ==
    /\ i.provider \in {"DHCP", "Random"}
    /\ i.random # Nil => i.provider = "Random" /\ i.random \in CIDRs

(* types.go:84-109; the names identify, and there are at most four.        *)
Documented(spec) ==
    /\ Len(spec.deviceSelectors) \in 1..4 /\ Distinct(spec.deviceSelectors)
    /\ Len(spec.deviceConfigurations) \in 1..4 /\ Distinct(spec.deviceConfigurations)
    /\ \A s \in ToSet(spec.deviceSelectors) : DocumentedSelector(spec, s)
    /\ \A c \in ToSet(spec.deviceConfigurations) : DocumentedConfiguration(spec, c)
    /\ \A i \in ToSet(spec.ipam) : DocumentedIPAM(i)

(* The documented rules that no line of the validation looks at: required  *)
(* names (types.go:124, 199), the syntax and the cost of an expression     *)
(* (160-182, a TODO at validation.go:107-113), the modes of a macvlan      *)
(* (252-284) and everything about addresses (287-320).                     *)
KeepsUncheckedRules(spec) ==
    /\ \A s \in ToSet(spec.deviceSelectors) :
          s.name # "" /\ \A x \in ToSet(s.selectors) : x.cel \notin NoCEL
    /\ \A c \in ToSet(spec.deviceConfigurations) :
          c.name # <<>> /\ (c.macvlan # Nil => c.macvlan.mode \in MacvlanMode \cup {Nil})
    /\ \A i \in ToSet(spec.ipam) : DocumentedIPAM(i)

(* The validation refuses no object that the API documents as valid, and   *)
(* what it accepts and the API does not breaks one of the rules above: its *)
(* checks of items, sets, references between the two lists and node        *)
(* selectors miss nothing else (validation.go:26-170).                     *)
ValidUpToUncheckedRules ==
    \A spec \in Samples :
       Documented(spec) <=> ValidateDeviceNetwork(spec) = {} /\ KeepsUncheckedRules(spec)

(* A configuration selects a device if one of its selectors applies to the *)
(* node and each of that selector's expressions is satisfied               *)
(* (types.go:120-144, 205-212).                                            *)
Selects(spec, c, d) ==
    \E s \in ToSet(spec.deviceSelectors) :
       /\ s.name \in ToSet(c.deviceSelectors)
       /\ s.nodeSelector = Nil \/ s.nodeSelector \in MatchingNode
       /\ \A x \in ToSet(s.selectors) : x.cel = Nil \/ Eval(x.cel, d) = "true"

(* If the selectors' names are distinct, a node advertises of each         *)
(* configuration the supported devices it selects and no others, in valid  *)
(* objects and in those validation would refuse: narrowing lists selector  *)
(* by selector, overwriting map entries and skipping unknown names         *)
(* (reconciler.go:115-160, cache.go:209-241) amounts to that.  Not so if   *)
(* an expression fails for one of the host's devices, which leaves all of  *)
(* them selected (cache.go:231).                                           *)
ExposesSelected ==
    \A spec \in {s \in Samples : Distinct(s.deviceSelectors)}, devices \in SUBSET SampleDevices :
       (\A s \in ToSet(spec.deviceSelectors) : \A x \in ToSet(s.selectors) :
            x.cel = Nil \/ ~Fails(x.cel, devices)) =>
          {<<r.deviceConfiguration, r.hostDeviceName>> :
              r \in GetResources([n \in {<<>>} |-> spec], devices)}
          = UNION {{<<c.name, d.interfaceName>> :
                       d \in {e \in devices : IsSupported(e, c) /\ Selects(spec, c, e)}} :
                   c \in ToSet(spec.deviceConfigurations)}
=============================================================================
