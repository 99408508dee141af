------------------------------ MODULE MCIpPool ------------------------------
(***************************************************************************)
(* The allocator over every CIDR of a 4-bit address space, driven the way  *)
(* the handlers drive it: create_client allocates, an admin moves a client *)
(* to a chosen address of the CIDR, delete_client returns an address.      *)
(***************************************************************************)
EXTENDS IpPool, FiniteSets, Sequences, FiniteSetsExt

CONSTANT MaxUsed    \* bound on the addresses in use at a time

VARIABLES cidr, used

poolVars == <<cidr, used>>

PoolInit == cidr \in Cidr /\ used = {}

AllocateV4 ==
  /\ Cardinality(used) < MaxUsed
  /\ NextIpv4(cidr, used) # NoAddr
  /\ used' = used \union {NextIpv4(cidr, used)}
  /\ UNCHANGED cidr

AllocateV6 ==
  /\ Cardinality(used) < MaxUsed
  /\ NextIpv6(cidr, used) # NoAddr
  /\ used' = used \union {NextIpv6(cidr, used)}
  /\ UNCHANGED cidr

Move ==
  \E a \in used, b \in Addr \ used :
    /\ InCidr(b, cidr)
    /\ used' = (used \ {a}) \union {b}
    /\ UNCHANGED cidr

Release == \E a \in used : used' = used \ {a} /\ UNCHANGED cidr

PoolNext == AllocateV4 \/ AllocateV6 \/ Move \/ Release

PoolSpec == PoolInit /\ [][PoolNext]_poolVars

(***************************************************************************)
(* Reference: the loops as the code writes them.  The server's address is  *)
(* taken from server_ip of the generated configuration, because the point  *)
(* of holding it back is not to collide with the interface's own address.  *)
(***************************************************************************)
InterfaceAddr(c) == IF c.addr = MaxAddr THEN 0 ELSE c.addr + 1

Scan(first, last, taken) ==
  LET scan[a \in first .. last + 1] ==
        IF a > last THEN NoAddr ELSE IF a \notin taken THEN a ELSE scan[a + 1]
  IN  scan[first]

\* next_ipv4 and next_ipv6 return what their loops over the block return, for
\* every CIDR (host bits set, /31, /32, the last block) and every set in use:
\* the first free address, never the interface's own, of a /31 or /32 as well.
FirstFit ==
  /\ NextIpv4(cidr, used) =
       IF cidr.size <= 2
       THEN Scan(Network(cidr), Broadcast(cidr), used \union {InterfaceAddr(cidr)})
       ELSE Scan(Network(cidr) + 1, Broadcast(cidr) - 1,
                 used \union {InterfaceAddr(cidr)})
  /\ NextIpv6(cidr, used) =
       Scan(Network(cidr), Broadcast(cidr),
            used \union {cidr.addr, InterfaceAddr(cidr)})

\* "Skip both the network address and the server IP" (db.rs:2674-2676).
NetworkAddressSkippedV6 == NextIpv6(cidr, used) # Network(cidr)
=============================================================================
