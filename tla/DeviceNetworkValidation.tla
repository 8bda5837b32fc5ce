----------------------- MODULE DeviceNetworkValidation -----------------------
(***************************************************************************)
(* apis/v1alpha1/validation/validation.go with pkg/validation: which       *)
(* DeviceNetworks are valid.  Nothing calls it yet, so the program may     *)
(* meet objects it would reject.                                           *)
(*                                                                         *)
(* A validator returns the errors it finds, each a kind and a field; their *)
(* positions and texts are left out.  What is to be done with each item of *)
(* a list, validateItem and itemKey, is a function on the items.           *)
(***************************************************************************)
EXTENDS DeviceTypes

CONSTANTS
    TooLong,         \* the expressions longer than CELSelectorExpressionMaxLength
    LabelNames,      \* keys that are well formed label names
    LabelValues,     \* values that are well formed label values
    NodeNames        \* values that are well formed node names

DeviceSelectorMaxSize == 4
DeviceConfigurationMaxSize == 4
SelectorPerDeviceConfigurationMaxSize == DeviceSelectorMaxSize
SelectorPerDeviceSelectorMaxSize == 1

Error(condition, kind, field) == IF condition THEN {<<kind, field>>} ELSE {}

-----------------------------------------------------------------------------
(* pkg/validation/helpers.go                                               *)

ValidateItems(slice, validateItem) ==
    UNION {validateItem[item] : item \in ToSet(slice)}

(* A list beyond its maximum size is not looked into.                      *)
ValidateSlice(slice, maxSize, validateItem, field) ==
    IF Len(slice) > maxSize
    THEN {<<"TooMany", field>>}
    ELSE ValidateItems(slice, validateItem)

(* A set without the check for duplicates.                                 *)
ValidateList(slice, maxSize, validateItem, itemKey, field) ==
    ValidateSlice(slice, maxSize, validateItem, field)

ValidateSet(slice, maxSize, validateItem, itemKey, field) ==
    LET duplicate == \E i, j \in DOMAIN slice :
                        i < j /\ itemKey[slice[i]] = itemKey[slice[j]]
    IN  ValidateSlice(slice, maxSize, validateItem, field) \cup
        Error(Len(slice) <= maxSize /\ duplicate, "Duplicate", field)

-----------------------------------------------------------------------------
(* pkg/validation/kubernetes.go                                            *)

ValidateNodeSelectorRequirement(requirement) ==
    LET op == requirement.operator
        n == Len(requirement.values)
    IN  Error(op \in {"In", "NotIn"} /\ n = 0, "Required", "values") \cup
        Error(op \in {"Exists", "DoesNotExist"} /\ n > 0, "Forbidden", "values") \cup
        Error(op \in {"Gt", "Lt"} /\ n # 1, "Required", "values") \cup
        Error(op \notin {"In", "NotIn", "Exists", "DoesNotExist", "Gt", "Lt"},
              "Invalid", "operator") \cup
        Error(requirement.key \notin LabelNames, "Invalid", "key") \cup
        Error(~ (ToSet(requirement.values) \subseteq LabelValues), "Invalid", "values")

ValidateNodeFieldSelectorRequirement(requirement) ==
    LET op == requirement.operator
    IN  Error(op \in {"In", "NotIn"} /\ Len(requirement.values) # 1, "Required", "values") \cup
        Error(op \notin {"In", "NotIn"}, "Invalid", "operator") \cup
        IF requirement.key # "metadata.name"
        THEN {<<"Invalid", "key">>}
        ELSE Error(~ (ToSet(requirement.values) \subseteq NodeNames), "Invalid", "values")

ValidateNodeSelectorTerm(term) ==
    UNION ({ValidateNodeSelectorRequirement(r) : r \in ToSet(term.matchExpressions)} \cup
           {ValidateNodeFieldSelectorRequirement(r) : r \in ToSet(term.matchFields)})

ValidateNodeSelector(nodeSelector) ==
    IF nodeSelector.nodeSelectorTerms = <<>>
    THEN {<<"Required", "nodeSelectorTerms">>}
    ELSE UNION {ValidateNodeSelectorTerm(t) : t \in ToSet(nodeSelector.nodeSelectorTerms)}

-----------------------------------------------------------------------------
(* validation.go                                                           *)

ListSelectorNames(deviceSelectors) == {s.name : s \in ToSet(deviceSelectors)}

ListUsedSelectorNames(deviceConfigurations) ==
    UNION {ToSet(c.deviceSelectors) : c \in ToSet(deviceConfigurations)}

(* The expression is not compiled: a TODO of the code.                     *)
ValidateCELSelector(expression) ==
    Error(expression \in TooLong, "TooLong", "expression")

ValidateSelector(selector) ==
    IF selector.cel = Nil
    THEN {<<"Required", "cel">>} ELSE ValidateCELSelector(selector.cel)

ValidateDeviceSelector(deviceSelector, usedSelectors) ==
    Error(deviceSelector.name \notin usedSelectors, "Forbidden", "deviceSelectors") \cup
    ValidateSlice(deviceSelector.selectors, SelectorPerDeviceSelectorMaxSize,
                  [s \in ToSet(deviceSelector.selectors) |-> ValidateSelector(s)],
                  "selectors") \cup
    IF deviceSelector.nodeSelector = Nil
    THEN {} ELSE ValidateNodeSelector(deviceSelector.nodeSelector)

ValidateDeviceConfiguration(configuration, selectors) ==
    LET type == GetDeviceType(configuration)
        names == ToSet(configuration.deviceSelectors)
        known == [n \in names |-> Error(n \notin selectors, "NotFound", "deviceSelectors")]
        itself == [n \in names |-> n]
    IN  Error(configuration.deviceSelectors = <<>>, "Required", "deviceSelectors") \cup
        ValidateSet(configuration.deviceSelectors, SelectorPerDeviceConfigurationMaxSize,
                    known, itself, "deviceSelectors") \cup
        Error(type = "HostDevice" /\ configuration.macvlan # Nil, "Forbidden", "macvlan") \cup
        Error(type = "Macvlan" /\ configuration.hostDevice # Nil, "Forbidden", "hostDevice") \cup
        Error(type \notin DeviceType, "Invalid", "deviceType")

ValidateDeviceNetwork(spec) ==
    LET selectors == ListSelectorNames(spec.deviceSelectors)
        usedSelectors == ListUsedSelectorNames(spec.deviceConfigurations)
        validSelector == [s \in ToSet(spec.deviceSelectors) |->
                             ValidateDeviceSelector(s, usedSelectors)]
        validConfiguration == [c \in ToSet(spec.deviceConfigurations) |->
                                  ValidateDeviceConfiguration(c, selectors)]
        Names(list) == [item \in ToSet(list) |-> item.name]
    IN  Error(spec.deviceSelectors = <<>>, "Forbidden", "deviceSelectors") \cup
        ValidateSet(spec.deviceSelectors, DeviceSelectorMaxSize, validSelector,
                    Names(spec.deviceSelectors), "deviceSelectors") \cup
        Error(spec.deviceConfigurations = <<>>, "Forbidden", "deviceConfigurations") \cup
        ValidateSet(spec.deviceConfigurations, DeviceConfigurationMaxSize, validConfiguration,
                    Names(spec.deviceConfigurations), "deviceConfigurations")
=============================================================================
