------------------------------ MODULE RandomIPAM ------------------------------
(***************************************************************************)
(* The addresses that the configurators allocate: Allocate and             *)
(* generateRandomIP of pkg/configurators/common.go.                        *)
(*                                                                         *)
(* An address is a sequence of bytes of ByteBits bits.  A subnet is the    *)
(* masked address ip with the length ones of its mask, as ParseCIDR        *)
(* returns it; a CIDR that is empty or does not parse is no subnet.        *)
(* Operators return the set of results that the random bytes may lead to,  *)
(* empty if the code returns an error.                                     *)
(***************************************************************************)
EXTENDS Naturals, Sequences, SequencesExt

CONSTANTS
    ByteBits,        \* 8 in the code
    AddressBytes,    \* 4 or 16
    NoSubnet         \* a CIDR, or a Random field, that is not usable

ASSUME RandomIPAMAssumption ==
    /\ ByteBits \in Nat \ {0} /\ AddressBytes \in Nat \ {0}
    /\ NoSubnet \notin [ip : [1..AddressBytes -> Nat], ones : Nat]

Bits == ByteBits * AddressBytes

Byte == 0..(2^ByteBits - 1)

Address == [1..AddressBytes -> Byte]

(* Of byte i, the bits that the mask leaves to the host: ^netIP.Mask[i].   *)
HostMask(ones, i) ==
    LET before == ByteBits * (i - 1)
        masked == IF ones < before THEN 0 ELSE Min({ones - before, ByteBits})
    IN  2^(ByteBits - masked) - 1

(* What rand & ^netIP.Mask[i] may be in each byte.                         *)
HostBits(ones) == {h \in Address : \A i \in 1..AddressBytes : h[i] <= HostMask(ones, i)}

(* Host bits that are not both all zero and all one.                       *)
UsableOr(h, ones) ==
    \/ \E i \in 1..AddressBytes : h[i] # 0
    \/ \E i \in 1..AddressBytes : h[i] # HostMask(ones, i)

Usable(h, ones) ==
    /\ \E i \in 1..AddressBytes : h[i] # 0
    /\ \E i \in 1..AddressBytes : h[i] # HostMask(ones, i)

(* The masked bits are zero, so that or is plus.                           *)
GenerateRandomIP(subnet) ==
    IF Bits - subnet.ones < 2
    THEN {}
    ELSE {[i \in 1..AddressBytes |-> subnet.ip[i] + h[i]] :
             h \in {h \in HostBits(subnet.ones) : Usable(h, subnet.ones)}}

(* One pass through the loop over the entries: the lists of addresses that *)
(* the earlier entries may lead to, each with one that this may.           *)
AppendIP(results, entry) ==
    IF entry.provider # "Random" THEN results
    ELSE {Append(ips, ip) : ips \in results,
                            ip \in IF entry.subnet = NoSubnet THEN {}
                                   ELSE GenerateRandomIP(entry.subnet)}

(* One address for each entry of provider Random, in their order; an error *)
(* for any is an error for all.                                            *)
AllocateIPs(ipam) == FoldLeft(AppendIP, {<<>>}, ipam)

-----------------------------------------------------------------------------
(* Reference                                                               *)

Value(address) ==
    FoldLeft(LAMBDA sum, byte : sum * 2^ByteBits + byte, 0, address)

Subnets == {s \in [ip : Address, ones : 0..Bits] : Value(s.ip) % 2^(Bits - s.ones) = 0}

(* A random address may be any of its subnet but the first, which names    *)
(* the subnet, and the last, its broadcast address; where there is no      *)
(* other, and only there, an error is returned instead of looping for ever *)
(* (common.go:134-164).  A list of IPAM entries yields one such address    *)
(* for each random entry (common.go:103-126).                              *)
RandomIPUsable ==
    \A s \in Subnets :
        LET first == Value(s.ip)
            last == first + 2^(Bits - s.ones) - 1
            ips == AllocateIPs(<<[provider |-> "DHCP", subnet |-> NoSubnet],
                                 [provider |-> "Random", subnet |-> s]>>)
        IN  /\ {Value(i) : i \in GenerateRandomIP(s)} = {v \in first..last : first < v /\ v < last}
            /\ {x[1] : x \in ips} = GenerateRandomIP(s)
            /\ AllocateIPs(<<[provider |-> "Random", subnet |-> s],
                             [provider |-> "Random", subnet |-> NoSubnet]>>) = {}
=============================================================================
