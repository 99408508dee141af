------------------------------- MODULE IpPool -------------------------------
(***************************************************************************)
(* Address allocation: db.rs next_ipv4 / next_ipv6, wg/config_gen.rs       *)
(* server_ip and the CIDR membership test used by the client handlers.     *)
(*                                                                         *)
(* A CIDR is the address as it was typed (host bits included: neither      *)
(* change_cidr nor update_interface normalises it) and the size of its     *)
(* block, 2^(width - prefix).  Addresses are 0..MaxAddr.                   *)
(***************************************************************************)
EXTENDS Integers

CONSTANTS
  MaxAddr,      \* 2^32 - 1 for IPv4, 2^128 - 1 for IPv6
  BlockSizes,   \* the block sizes in use: powers of two up to MaxAddr + 1
  NoAddr        \* the allocator's error: no address left in the CIDR

ASSUME PoolAssumption ==
  /\ MaxAddr \in Nat
  /\ BlockSizes \subseteq 1 .. (MaxAddr + 1)
  /\ \A s \in BlockSizes : (MaxAddr + 1) % s = 0
  /\ NoAddr \notin Int

Addr == 0 .. MaxAddr

Cidr == [addr : Addr, size : BlockSizes]

(***************************************************************************)
(* The ipnet crate's view of a CIDR.                                       *)
(***************************************************************************)
Network(c)   == c.addr - (c.addr % c.size)
Broadcast(c) == Network(c) + c.size - 1

\* db::ip_in_cidr
InCidr(a, c) == a \in Network(c) .. Broadcast(c)

\* Ipv4Net::hosts(): all but the two ends, except in a /31 or a /32.
HostsV4(c) ==
  IF c.size > 2 THEN Network(c) + 1 .. Broadcast(c) - 1
                ELSE Network(c) .. Broadcast(c)

\* Ipv6Net::hosts(): the whole block.
HostsV6(c) == Network(c) .. Broadcast(c)

\* The server takes the address after the one typed; the release build's
\* addition wraps.
ServerAddr(c) == (c.addr + 1) % (MaxAddr + 1)

FirstOf(S) ==
  IF S = {} THEN NoAddr ELSE CHOOSE a \in S : \A b \in S : a <= b

\* Faulty variant: the allocator starts after the highest address in use.
NextIpv4_NoReuse(c, used) ==
  FirstOf({a \in HostsV4(c) \ {ServerAddr(c)} : \A u \in used : u < a})

\* db::next_ipv4: the first host that is neither the server's nor in use.
NextIpv4(c, used) == FirstOf(HostsV4(c) \ ({ServerAddr(c)} \union used))

\* db::next_ipv6 also skips the address typed, which it takes for the
\* network address.
NextIpv6(c, used) ==
  FirstOf(HostsV6(c) \ ({c.addr, ServerAddr(c)} \union used))
=============================================================================
