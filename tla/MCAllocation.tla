----------------------------- MODULE MCAllocation -----------------------------
(* An instance of Allocation.tla: an interface that two networks expose,   *)
(* each in one of three ways; the names of the networks and of two         *)
(* configurations can be joined to one.  The objects that validation and   *)
(* the reconciler's lists are compared with the documentation on are small *)
(* ones and ones that differ from a valid one in one respect.              *)
EXTENDS WrittenNetworks, TLC

CONSTANTS a, b, c, d, eth, wifi, rdma, isEth, faulty, long, text, claim1, claim2, claim3

MCNetworks == {<<a>>, <<a, b>>}

AllSelected(cel) == <<[name |-> "sel", selectors |-> cel, nodeSelector |-> Nil]>>

Configuration(name, type) ==
    [name |-> name, deviceSelectors |-> <<"sel">>, deviceType |-> type,
     macvlan |-> Nil, hostDevice |-> Nil]

Network(cel, configurations) ==
    [deviceSelectors |-> AllSelected(cel), deviceConfigurations |-> configurations,
     ipam |-> <<>>]

MCSpecs == {
    Network(<<>>, <<Configuration(<<c>>, Nil)>>),
    Network(<<>>, <<Configuration(<<c>>, "Macvlan"), Configuration(<<d>>, "Macvlan")>>),
    Network(<<[cel |-> rdma]>>, <<Configuration(<<b, c>>, "HostDevice")>>)}

Interface(name, capable, parent, layer) ==
    [interfaceName |-> <<name>>, rdmaCapable |-> capable, parentIndex |-> parent,
     masterIndex |-> 0, linkLayerType |-> layer, deviceType |-> "device"]

MCDevices == {Interface(eth, capable, 0, "ether") : capable \in BOOLEAN}

MCEval(expression, device) ==
    CASE expression = rdma -> IF device.rdmaCapable THEN "true" ELSE "false"
      [] expression = isEth -> IF device.interfaceName = <<eth>> THEN "true" ELSE "false"
      [] expression = text -> "error"
      [] OTHER -> IF device.rdmaCapable THEN "true" ELSE "error"

Symmetric == Permutations(Claims)

-----------------------------------------------------------------------------
(* Samples                                                                 *)

MCSampleDevices == {Interface(eth, TRUE, 0, "ether"), Interface(wifi, FALSE, 0, "ether"),
                    Interface(b, TRUE, 3, "ether"), Interface(d, TRUE, 0, "infiniband")}

Requirement(key, operator, values) == [key |-> key, operator |-> operator, values |-> values]

Term(expressions, fields) == [matchExpressions |-> expressions, matchFields |-> fields]

Terms(terms) == [nodeSelectorTerms |-> terms]

Here == Terms(<<Term(<<>>, <<Requirement("metadata.name", "In", <<"node1">>)>>)>>)
There == Terms(<<Term(<<Requirement("zone", "Exists", <<>>)>>, <<>>)>>)

MCMatchingNode == {Here}

Requirements ==
    {Requirement(key, operator, values) :
        key \in {"zone", "metadata.name", "not a key"},
        operator \in {"In", "NotIn", "Exists", "DoesNotExist", "Gt", "Lt", "Like"},
        values \in {<<>>, <<"node1">>, <<"node1", "7">>, <<"not a value">>}}

NodeSelectors ==
    {Terms(<<>>), Here, There} \cup
    {Terms(<<Term(<<r>>, <<>>)>>) : r \in Requirements} \cup
    {Terms(<<Term(<<>>, <<>>), Term(<<>>, <<r>>)>>) : r \in Requirements}

Cels == {<<>>, <<rdma>>, <<isEth>>, <<faulty>>, <<long>>, <<text>>, <<Nil>>, <<rdma, isEth>>}

Sel(name, cels, nodeSelector) ==
    [name |-> name, selectors |-> [i \in DOMAIN cels |-> [cel |-> cels[i]]],
     nodeSelector |-> nodeSelector]

SelectorLists ==
    {<<>>} \cup
    {<<Sel("s1", cels, node)>> : cels \in Cels, node \in {Nil, Here, There}} \cup
    {<<Sel("s1", cels, Nil), Sel(name, <<isEth>>, There)>> :
        cels \in {<<>>, <<rdma>>}, name \in {"s1", "s2"}} \cup
    {[i \in 1..n |-> Sel(<<"s1", "s2", "s3", "s4", "s5">>[i], <<>>, Nil)] : n \in 4..5}

Conf(name, refs, type, macvlan, hostDevice) ==
    [name |-> name, deviceSelectors |-> refs, deviceType |-> type,
     macvlan |-> macvlan, hostDevice |-> hostDevice]

References == {<<>>, <<"s1">>, <<"s2">>, <<"s1", "s2">>, <<"s2", "s1", "s2">>,
               <<"s4", "s3", "s2", "s1">>, <<"s1", "s2", "s3", "s4", "s5">>}

Macvlans == {Nil, [mode |-> Nil], [mode |-> "vepa"], [mode |-> "nat"]}

ConfigurationLists ==
    {<<>>} \cup
    {<<Conf(<<c>>, refs, type, macvlan, host)>> :
        refs \in References, type \in {Nil, "HostDevice", "Macvlan", "Vlan"},
        macvlan \in Macvlans, host \in {Nil, "set"}} \cup
    {<<Conf(<<c>>, refs, "Macvlan", Nil, Nil), Conf(<<name>>, <<"s1">>, Nil, Nil, Nil)>> :
        refs \in References, name \in {c, d}} \cup
    {[i \in 1..n |-> Conf(<<i>>, <<"s1">>, Nil, Nil, Nil)] : n \in 4..5}

Sample(selectors, configurations) ==
    [deviceSelectors |-> selectors, deviceConfigurations |-> configurations, ipam |-> <<>>]

Simple(selector, cels, nodeSelector, configuration) ==
    Sample(<<Sel(selector, cels, nodeSelector)>>,
           <<Conf(configuration, <<selector>>, Nil, Nil, Nil)>>)

IPAMs ==
    {[provider |-> provider, random |-> random] :
        provider \in {"", "DHCP", "Random"}, random \in {Nil, "10.0.0.0/24", "10.0.0.0"}}

MCSamples ==
    {Sample(selectors, configurations) :
        selectors \in SelectorLists, configurations \in ConfigurationLists} \cup
    {Simple("s1", <<rdma>>, node, <<c>>) : node \in NodeSelectors} \cup
    {Simple(selector, <<>>, Nil, configuration) :
        selector \in {"", "s1"}, configuration \in {<<>>, <<c>>}} \cup
    {[Simple("s1", cels, Nil, <<c>>) EXCEPT !.ipam = list] :
        cels \in {<<>>, <<long>>}, list \in {<<i>> : i \in IPAMs} \cup (IPAMs \X IPAMs)}
=============================================================================
