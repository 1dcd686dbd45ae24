--------------------------- MODULE PrivateNetworks ---------------------------
(***************************************************************************)
(* The arithmetic of PrivateNetworkGuard: how it reads addresses and       *)
(* networks, and which addresses it takes for members of a network.        *)
(*                                                                         *)
(* A text is a record of what the parsers tell apart: its form, the groups *)
(* before "::" and those after it, None when it has no "::".  A zone       *)
(* (%eth0) is cut off before anything else, so a text has none.  IPv6 with *)
(* a dotted tail is here only as ::ffff:a.b.c.d, the one form the code      *)
(* reads as IPv4: written in hex, the same address is an IPv6 one.          *)
(***************************************************************************)
EXTENDS Naturals, Sequences

CONSTANTS
  Octets, OctetBits,   \* an IPv4 address: 4 octets of 8 bits
  Groups, GroupBits,   \* an IPv6 address: 8 groups of 16 bits
  None

ASSUME WidthsAssumption ==
  /\ Octets \in Nat \ {0} /\ OctetBits \in Nat \ {0}
  /\ Groups \in Nat \ {0} /\ GroupBits \in Nat \ {0}

Versions == {4, 6}

Texts == [form : {"v4", "mapped", "v6", "other"}, head : Seq(Nat), tail : Seq(Nat) \cup {None}]

\* "address/prefix": without a prefix, with an empty one, a number, or something
\* refused whatever the width ("nan": no number, negative or fractional).
EntryTexts ==
  [address : Texts, prefix : {"absent", "empty", "nan", "number"}, prefixNumber : Nat]

\* 2^n, as a function that can be reasoned about.
TwoTo[n \in Nat] == IF n = 0 THEN 1 ELSE 2 * TwoTo[n - 1]

Bits(version) == IF version = 4 THEN OctetBits ELSE GroupBits

TotalBits(version) == (IF version = 4 THEN Octets ELSE Groups) * Bits(version)

-----------------------------------------------------------------------------
(* Addresses.                                                               *)

\* net.isIP, with ::ffff:a.b.c.d read as a.b.c.d.
IsV4(text) ==
  /\ text.form \in {"v4", "mapped"}
  /\ Len(text.head) = Octets
  /\ \A k \in 1..Octets : text.head[k] < TwoTo[OctetBits]

IsV6(text) ==
  /\ text.form = "v6"
  /\ \A k \in 1..Len(text.head) : text.head[k] < TwoTo[GroupBits]
  /\ IF text.tail = None
     THEN Len(text.head) = Groups
     ELSE /\ Len(text.head) + Len(text.tail) < Groups
          /\ \A k \in 1..Len(text.tail) : text.tail[k] < TwoTo[GroupBits]

IsIp(text) == IsV4(text) \/ IsV6(text)

\* ipv6ToBigInt: "::" stands for as many zeros as are missing.
Expanded(text) ==
  IF text.tail = None THEN text.head
  ELSE text.head \o [i \in 1..(Groups - Len(text.head) - Len(text.tail)) |-> 0] \o text.tail

\* The reduce of ipv4ToBigInt and ipv6ToBigInt.
Value(groups, bits) ==
  LET value[k \in 0..Len(groups)] ==
        IF k = 0 THEN 0 ELSE value[k - 1] * TwoTo[bits] + groups[k]
  IN value[Len(groups)]

ParseIp(text) ==
  IF IsV4(text) THEN [version |-> 4, value |-> Value(text.head, OctetBits)]
                ELSE [version |-> 6, value |-> Value(Expanded(text), GroupBits)]

-----------------------------------------------------------------------------
(* Networks.                                                                *)

\* Number(prefixText): an empty text is 0.
PrefixOf(entry, version) ==
  CASE entry.prefix = "absent" -> TotalBits(version)
    [] entry.prefix = "empty" -> 0
    [] OTHER -> entry.prefixNumber

\* parseCidr does not throw.
IsCidr(entry) ==
  /\ IsIp(entry.address)
  /\ entry.prefix # "nan"
  /\ LET version == ParseIp(entry.address).version IN
     PrefixOf(entry, version) <= TotalBits(version)

ParseCidr(entry) ==
  LET ip == ParseIp(entry.address) IN
  [version |-> ip.version, value |-> ip.value, prefix |-> PrefixOf(entry, ip.version)]

\* Mutant: as many bits are masked as should be compared.
Matches_hostBits(ip, cidr) ==
  /\ ip.version = cidr.version
  /\ ip.value \div TwoTo[cidr.prefix] = cidr.value \div TwoTo[cidr.prefix]

\* Equal under the mask: what is left of the host bits.
Matches(ip, cidr) ==
  LET hostBits == TotalBits(cidr.version) - cidr.prefix IN
  /\ ip.version = cidr.version
  /\ ip.value \div TwoTo[hostBits] = cidr.value \div TwoTo[hostBits]

-----------------------------------------------------------------------------
(* The same from the texts and not from their parsed values.                *)

GroupAt(text, k) ==
  LET zeros == Groups - Len(text.head) - Len(text.tail) IN
  CASE k <= Len(text.head) -> text.head[k]
    [] k > Len(text.head) + zeros -> text.tail[k - Len(text.head) - zeros]
    [] OTHER -> 0

\* Bit i, from the left, of the address a text stands for.
Bit(text, i) ==
  LET bits == IF IsV4(text) THEN OctetBits ELSE GroupBits
      group == ((i - 1) \div bits) + 1
      fromRight == bits - 1 - ((i - 1) % bits)
      value == IF IsV4(text) \/ text.tail = None THEN text.head[group] ELSE GroupAt(text, group)
  IN (value \div TwoTo[fromRight]) % 2

\* The caller's address begins with the entry's prefix.
IsInBlock(caller, entry) ==
  /\ \/ IsV4(caller) /\ IsV4(entry.address)
     \/ IsV6(caller) /\ IsV6(entry.address)
  /\ \A i \in 1..PrefixOf(entry, IF IsV4(caller) THEN 4 ELSE 6) :
       Bit(caller, i) = Bit(entry.address, i)

=============================================================================
