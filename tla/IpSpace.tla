------------------------------ MODULE IpSpace ------------------------------
(***************************************************************************)
(* Addresses and networks, as std::net::IpAddr and cidr::IpCidr order them, *)
(* and the rewriting of IPv4-mapped IPv6 forms (src/canonical.rs).          *)
(*                                                                         *)
(* The derived order of IpAddr puts every IPv4 address before every IPv6   *)
(* address, so one number line carries both families: the IPv4 addresses   *)
(* come first and the IPv6 addresses follow them.  A network is the        *)
(* interval between its first and its last address.                        *)
(***************************************************************************)
EXTENDS Integers

CONSTANTS
  V4Count,       \* number of IPv4 addresses (2^32)
  V6Count,       \* number of IPv6 addresses (2^128)
  MappedOffset,  \* offset of ::ffff:0:0 inside the IPv6 addresses
  BlockSizes     \* sizes a network can have, one per prefix length

(***************************************************************************)
(* A shorter prefix covers a whole number of longer ones, and the          *)
(* IPv4-mapped range ::ffff:0:0/96 is itself a network.                    *)
(***************************************************************************)
ASSUME IpSpaceAssumption ==
  /\ V4Count \in Nat \ {0}
  /\ V6Count \in Nat \ {0}
  /\ BlockSizes \subseteq Nat \ {0}
  /\ V4Count \in BlockSizes
  /\ \A s, t \in BlockSizes : s <= t => \E m \in 1..t : t = m * s
  /\ \E j \in 0..V6Count : MappedOffset = j * V4Count
  /\ MappedOffset + V4Count <= V6Count

IpAddr == 0 .. (V4Count + V6Count - 1)

MappedFirst == V4Count + MappedOffset

\* Ipv6Addr::to_ipv4_mapped returns Some.
IsMapped(ip) == ip \in MappedFirst .. (MappedFirst + V4Count - 1)

\* canonical_ip
CanonicalIp(ip) == IF IsMapped(ip) THEN ip - MappedFirst ELSE ip

-----------------------------------------------------------------------------

Size(cidr) == cidr.last - cidr.first + 1

\* An aligned block inside the addresses base .. base + count - 1.
IsBlock(cidr, base, count) ==
  /\ Size(cidr) \in BlockSizes
  /\ cidr.last < base + count
  /\ \E k \in 0..count : cidr.first = base + k * Size(cidr)

IpCidr ==
  {cidr \in [first : IpAddr, last : IpAddr] :
     IsBlock(cidr, 0, V4Count) \/ IsBlock(cidr, V4Count, V6Count)}

Contains(cidr, ip) == cidr.first <= ip /\ ip <= cidr.last

Overlap(c, d) == \E ip \in IpAddr : Contains(c, ip) /\ Contains(d, ip)

\* Faulty: networks are left as they were written.
CidrAsWritten(cidr) == cidr

(***************************************************************************)
(* canonical_cidr.  A prefix shorter than 96 bits, which is a block larger *)
(* than the IPv4 space, has no IPv4 form and is kept.                      *)
(***************************************************************************)
CanonicalCidr(cidr) ==
  IF Size(cidr) <= V4Count /\ IsMapped(cidr.first)
    THEN [first |-> cidr.first - MappedFirst, last |-> cidr.last - MappedFirst]
    ELSE cidr

=============================================================================
