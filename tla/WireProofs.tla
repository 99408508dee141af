------------------------------ MODULE WireProofs ------------------------------
(***************************************************************************)
(* What the proxy writes on the wire, and the addresses and parameters it is*)
(* written with, for every input: the address pool against its loops, the  *)
(* parameters from the generator to the proxy, the classification of       *)
(* packets, the imitations in the padding and the answers to probes.  Last,*)
(* that a SIP dialog only moves forward, that a deferred task answers its  *)
(* own call and that it is registered while it may, for every number of    *)
(* calls, deferred tasks and teardowns.                                    *)
(*                                                                         *)
(* An input is the sample of a state, of which no more is assumed than what*)
(* the code can be given; that the samples TLC draws are such inputs is a  *)
(* theorem of its own.                                                     *)
(***************************************************************************)
EXTENDS SipDialog, MCAlgorithms, FiniteSetTheorems, WellFoundedInduction, TLAPS

\* A non-empty set of naturals has a least element.
LEMMA NatLeast ==
  ASSUME NEW Q \in SUBSET Nat, Q # {}
  PROVE  \E a \in Q : \A b \in Q : a <= b
<1>1. IsWellFoundedOn(OpToRel(<, Nat), Nat)
  BY NatLessThanWellFounded
<1>2. PICK x \in Q : \A y \in Q : ~ (<<y, x>> \in OpToRel(<, Nat))
  BY <1>1, WFMin
<1>3. ASSUME NEW y \in Q PROVE x <= y
  <2>1. x \in Nat /\ y \in Nat
    OBVIOUS
  <2>2. ~ (y < x)
    BY <1>2, <2>1 DEF OpToRel
  <2> QED
    BY <2>1, <2>2
<1> QED
  BY <1>3

\* Least finds it.
LEMMA LeastOf ==
  ASSUME NEW Q \in SUBSET Nat, Q # {}
  PROVE  Least(Q) \in Q /\ \A b \in Q : Least(Q) <= b
BY NatLeast DEF Least

-----------------------------------------------------------------------------
(***************************************************************************)
(* Sums.  FoldLeft takes the last index first, from subsets of the indices,*)
(* and its function is a CHOOSE; the facts below are proved by the least   *)
(* counterexample.                                                         *)
(***************************************************************************)
\* The last of some indices.
LEMMA LastIndex ==
  ASSUME NEW n \in Nat, NEW s \in SUBSET (1 .. n), s # {}
  PROVE  Max(s) \in s /\ \A i \in s : i <= Max(s)
<1> DEFINE Q == {n - i : i \in s}
<1>0. \A i \in s : i \in Nat /\ n - i \in Nat
  OBVIOUS
<1>1. Q \in SUBSET Nat /\ Q # {}
  BY <1>0
<1>2. PICK a \in Q : \A b \in Q : a <= b
  BY <1>1, NatLeast
<1>3. PICK j \in s : a = n - j
  BY <1>2
<1>4. ASSUME NEW i \in s PROVE i <= j
  <2>1. n - i \in Q
    OBVIOUS
  <2>2. a <= n - i
    BY <1>2, <2>1
  <2> QED
    BY <1>0, <1>3, <2>2
<1> QED
  BY <1>4 DEF Max

\* What the fold is defined by: the sum over each subset of the indices.
Totals(f, seq, m) ==
  f = [s \in SUBSET (1 .. m) |-> IF s = {} THEN 0 ELSE f[s \ {Max(s)}] + seq[Max(s)]]

\* The total up to an index.
LEMMA NextTotal ==
  ASSUME NEW n \in Nat, NEW seq, NEW f, Totals(f, seq, n), NEW m \in 1 .. n
  PROVE  f[1 .. m] = f[1 .. m - 1] + seq[m]
<1>1. 1 .. m \in SUBSET (1 .. n) /\ m \in 1 .. m /\ 1 .. m # {} /\ m \in Nat
  OBVIOUS
<1>2. Max(1 .. m) = m
  <2>1. Max(1 .. m) \in 1 .. m /\ \A i \in 1 .. m : i <= Max(1 .. m)
    BY <1>1, LastIndex
  <2> QED
    BY <1>1, <2>1
<1>3. (1 .. m) \ {m} = 1 .. m - 1
  OBVIOUS
<1>4. \A s \in SUBSET (1 .. n) : s # {} => f[s] = f[s \ {Max(s)}] + seq[Max(s)]
  BY ONLY Totals(f, seq, n) DEF Totals
<1>5. f[1 .. m] = f[(1 .. m) \ {Max(1 .. m)}] + seq[Max(1 .. m)]
  BY ONLY <1>1, <1>4
<1> QED
  BY ONLY <1>2, <1>3, <1>5

\* There is such a function.
LEMMA TotalsThere ==
  ASSUME NEW seq, NEW n \in Nat
  PROVE  \E f : Totals(f, seq, n)
<1> DEFINE Missing == {m \in 0 .. n : ~ \E f : Totals(f, seq, m)}
<1> SUFFICES ASSUME Missing # {} PROVE FALSE
  OBVIOUS
<1>0. Missing \in SUBSET Nat
  OBVIOUS
<1>1. PICK m \in Missing : \A k \in Missing : m <= k
  BY <1>0, NatLeast
<1>2. CASE m = 0
  <2> DEFINE f == [s \in SUBSET (1 .. 0) |-> 0]
  <2>1. Totals(f, seq, 0)
    <3>1. \A s \in SUBSET (1 .. 0) : s = {}
      OBVIOUS
    <3> QED
      BY <3>1 DEF Totals
  <2> QED
    BY <1>2, <2>1
<1>3. CASE m # 0
  <2>1. m - 1 \in 0 .. n /\ m \in 1 .. n /\ m - 1 \notin Missing
    BY <1>1, <1>3
  <2>2. PICK g : Totals(g, seq, m - 1)
    BY <2>1
  <2> DEFINE f == [s \in SUBSET (1 .. m) |-> IF m \in s THEN g[s \ {m}] + seq[m] ELSE g[s]]
  <2>3. ASSUME NEW s \in SUBSET (1 .. m)
        PROVE  f[s] = IF s = {} THEN 0 ELSE f[s \ {Max(s)}] + seq[Max(s)]
    <3>1. CASE m \in s
      <4>1. Max(s) \in s /\ \A i \in s : i <= Max(s)
        <5>1. s # {} /\ m \in Nat
          BY <3>1, <2>1
        <5> QED
          BY <5>1, LastIndex
      <4>2. Max(s) = m
        <5>1. m <= Max(s) /\ Max(s) \in 1 .. m
          BY <4>1, <3>1
        <5> QED
          BY <5>1, <2>1
      <4>3. s \ {m} \in SUBSET (1 .. m) /\ m \notin s \ {m}
        OBVIOUS
      <4>4. f[s \ {m}] = g[s \ {m}]
        BY <4>3
      <4> QED
        BY <3>1, <4>2, <4>4
    <3>2. CASE m \notin s
      <4>1. s \in SUBSET (1 .. m - 1)
        BY <3>2, <2>1
      <4>2. f[s] = g[s]
        BY <3>2
      <4>3. g[s] = IF s = {} THEN 0 ELSE g[s \ {Max(s)}] + seq[Max(s)]
        BY <2>2, <4>1 DEF Totals
      <4>4. m \notin s \ {Max(s)} /\ s \ {Max(s)} \in SUBSET (1 .. m)
        BY <3>2
      <4>5. f[s \ {Max(s)}] = g[s \ {Max(s)}]
        BY <4>4
      <4> QED
        BY <4>2, <4>3, <4>5
    <3> QED
      BY <3>1, <3>2
  <2> HIDE DEF f
  <2>4. DOMAIN f = SUBSET (1 .. m) /\ f = [s \in DOMAIN f |-> f[s]]
    BY DEF f
  <2>5. Totals(f, seq, m)
    BY <2>3, <2>4 DEF Totals
  <2> QED
    BY <2>5
<1> QED
  BY <1>2, <1>3

\* P has the sums of the first elements.
Partial(P, seq, n) ==
  DOMAIN seq = 1 .. n /\ P[0] = 0 /\ \A i \in 1 .. n : P[i] = P[i - 1] + seq[i]

\* The fold computes the last of the partial sums.
LEMMA SumIs ==
  ASSUME NEW n \in Nat, NEW seq, NEW P, Partial(P, seq, n)
  PROVE  Sum(seq) = P[n]
<1> USE DEF Partial
<1> DEFINE iter == CHOOSE f : Totals(f, seq, n)
           Wrong == {m \in 0 .. n : iter[1 .. m] # P[m]}
<1>1. Sum(seq) = iter[1 .. n]
  BY DEF Sum, FoldLeft, MapThenFoldSet, Totals
<1>2. Totals(iter, seq, n)
  BY TotalsThere
<1> HIDE DEF iter
<1>3. ASSUME NEW m \in Wrong, \A k \in Wrong : m <= k PROVE FALSE
  <2>1. CASE m = 0
    <3>1. 1 .. 0 = {}
      OBVIOUS
    <3> QED
      BY <1>2, <1>3, <2>1, <3>1 DEF Totals
  <2>2. CASE m # 0
    <3>1. m \in 1 .. n /\ m - 1 \in 0 .. n /\ m - 1 \notin Wrong
      BY <1>3, <2>2
    <3>5. iter[1 .. m] = iter[1 .. m - 1] + seq[m]
      BY <1>2, <3>1, NextTotal
    <3> QED
      BY <1>3, <3>1, <3>5
  <2> QED
    BY <2>1, <2>2
<1>4. Wrong = {}
  <2>1. Wrong \in SUBSET Nat
    OBVIOUS
  <2> QED
    BY <1>3, <2>1, NatLeast
<1>5. iter[1 .. n] = P[n]
  BY <1>4
<1> QED
  BY <1>1, <1>5

\* Sums of lengths, line by line.
LEMMA SumOfPrefix ==
  ASSUME NEW seq \in Seq(Nat)
  PROVE  /\ Sum(SubSeq(seq, 1, 0)) = 0
         /\ \A m \in 0 .. Len(seq) : Sum(SubSeq(seq, 1, m)) \in Nat
         /\ \A m \in 1 .. Len(seq) :
              Sum(SubSeq(seq, 1, m)) = Sum(SubSeq(seq, 1, m - 1)) + seq[m]
         /\ Sum(seq) = Sum(SubSeq(seq, 1, Len(seq)))
<1> DEFINE n == Len(seq)
           f == CHOOSE g : Totals(g, seq, n)
           P == [m \in 0 .. n |-> f[1 .. m]]
           Wrong == {m \in 0 .. n : P[m] \notin Nat}
<1>0. n \in Nat /\ DOMAIN seq = 1 .. n /\ \A i \in 1 .. n : seq[i] \in Nat
  OBVIOUS
<1>1. Totals(f, seq, n)
  BY <1>0, TotalsThere
<1> HIDE DEF f
<1>2. P[0] = 0
  <2>1. 1 .. 0 = {}
    OBVIOUS
  <2> QED
    BY <1>0, <1>1, <2>1 DEF Totals
<1>3. ASSUME NEW m \in 1 .. n PROVE P[m] = P[m - 1] + seq[m]
  <2>1. m - 1 \in 0 .. n
    BY <1>0
  <2>2. n \in Nat /\ Totals(f, seq, n) /\ m \in 1 .. n
    BY <1>0, <1>1
  <2> HIDE DEF n
  <2>4. f[1 .. m] = f[1 .. m - 1] + seq[m]
    BY ONLY <2>2, NextTotal, Zenon
  <2>5. m \in 0 .. n
    BY <1>0
  <2> QED
    BY <2>1, <2>4, <2>5
<1> HIDE DEF P
<1>4. ASSUME NEW m \in Wrong, \A k \in Wrong : m <= k PROVE FALSE
  <2>1. CASE m = 0
    BY <1>2, <2>1
  <2>2. CASE m # 0
    <3>1. m \in 1 .. n /\ m - 1 \in 0 .. n /\ m - 1 \notin Wrong
      BY <1>0, <1>4, <2>2
    <3> QED
      BY <1>0, <1>3, <3>1
  <2> QED
    BY <2>1, <2>2
<1>5. \A m \in 0 .. n : P[m] \in Nat
  <2>1. Wrong \in SUBSET Nat
    BY <1>0
  <2>2. Wrong = {}
    BY <1>4, <2>1, NatLeast
  <2> QED
    BY <2>2
<1>6. ASSUME NEW m \in 0 .. n PROVE Sum(SubSeq(seq, 1, m)) = P[m]
  <2>1. /\ DOMAIN SubSeq(seq, 1, m) = 1 .. m /\ m \in Nat
        /\ \A i \in 1 .. m : SubSeq(seq, 1, m)[i] = seq[i]
    BY <1>0
  <2>2. \A i \in 1 .. m : P[i] = P[i - 1] + SubSeq(seq, 1, m)[i]
    BY <1>0, <1>3, <2>1
  <2> DEFINE t == SubSeq(seq, 1, m)
  <2>3. DOMAIN t = 1 .. m /\ \A i \in 1 .. m : P[i] = P[i - 1] + t[i]
    BY <2>1, <2>2
  <2> HIDE DEF t
  <2>4. Partial(P, t, m)
    BY <1>2, <2>3 DEF Partial
  <2>5. Sum(t) = P[m]
    BY <2>1, <2>4, SumIs
  <2> QED
    BY <2>5 DEF t
<1>7. Sum(seq) = P[n]
  <2>1. Partial(P, seq, n)
    BY <1>0, <1>2, <1>3 DEF Partial
  <2> QED
    BY <1>0, <2>1, SumIs
<1>8. \A m \in 1 .. n : m \in 0 .. n /\ m - 1 \in 0 .. n
  BY <1>0
<1>9. 0 \in 0 .. n /\ n \in 0 .. n
  BY <1>0
<1> HIDE DEF n
<1>10. /\ Sum(SubSeq(seq, 1, 0)) = 0
       /\ \A m \in 0 .. n : Sum(SubSeq(seq, 1, m)) \in Nat
       /\ \A m \in 1 .. n : Sum(SubSeq(seq, 1, m)) = Sum(SubSeq(seq, 1, m - 1)) + seq[m]
       /\ Sum(seq) = Sum(SubSeq(seq, 1, n))
  BY <1>2, <1>3, <1>5, <1>6, <1>7, <1>8, <1>9
<1> QED
  BY <1>10 DEF n

\* A sum of lengths is a length.
LEMMA SumNat ==
  ASSUME NEW seq \in Seq(Nat)
  PROVE  Sum(seq) \in Nat
BY SumOfPrefix

\* Sums of few.
LEMMA SumFew ==
  ASSUME NEW a \in Int, NEW b \in Int
  PROVE  Sum(<<>>) = 0 /\ Sum(<<a>>) = a /\ Sum(<<a, b>>) = a + b
<1>1. Sum(<<>>) = 0
  <2> DEFINE P == [m \in 0 .. 0 |-> 0]
  <2>1. DOMAIN <<>> = 1 .. 0
    OBVIOUS
  <2>2. P[0] = 0 /\ \A i \in 1 .. 0 : P[i] = P[i - 1] + <<>>[i]
    OBVIOUS
  <2>3. Partial(P, <<>>, 0)
    BY <2>1, <2>2 DEF Partial
  <2>4. Sum(<<>>) = P[0]
    BY <2>3, SumIs
  <2> QED
    BY <2>2, <2>4
<1>2. Sum(<<a>>) = a
  <2> DEFINE P == [m \in 0 .. 1 |-> IF m = 0 THEN 0 ELSE a]
  <2>1. DOMAIN <<a>> = 1 .. 1
    OBVIOUS
  <2>2. P[0] = 0 /\ P[1] = a /\ \A i \in 1 .. 1 : P[i] = P[i - 1] + <<a>>[i]
    OBVIOUS
  <2>3. Partial(P, <<a>>, 1)
    BY <2>1, <2>2 DEF Partial
  <2>4. Sum(<<a>>) = P[1]
    BY <2>3, SumIs
  <2> QED
    BY <2>2, <2>4
<1>3. Sum(<<a, b>>) = a + b
  <2> DEFINE P == [m \in 0 .. 2 |-> IF m = 0 THEN 0 ELSE IF m = 1 THEN a ELSE a + b]
  <2>1. DOMAIN <<a, b>> = 1 .. 2
    OBVIOUS
  <2>2. P[0] = 0 /\ P[2] = a + b /\ \A i \in 1 .. 2 : P[i] = P[i - 1] + <<a, b>>[i]
    OBVIOUS
  <2>3. Partial(P, <<a, b>>, 2)
    BY <2>1, <2>2 DEF Partial
  <2>4. Sum(<<a, b>>) = P[2]
    BY <2>3, SumIs
  <2> QED
    BY <2>2, <2>4
<1> QED
  BY <1>1, <1>2, <1>3

-----------------------------------------------------------------------------
(***************************************************************************)
(* The address pool.                                                       *)
(***************************************************************************)
IsScan(f, first, last, taken) ==
  f = [a \in first .. last + 1 |->
         IF a > last THEN NoAddr ELSE IF a \notin taken THEN a ELSE f[a + 1]]

\* The first free address, one address at a time.
LEMMA FirstOfStep ==
  ASSUME NEW a \in Int, NEW last \in Int, NEW taken
  PROVE  FirstOf((a .. last) \ taken) =
           IF a > last THEN NoAddr
           ELSE IF a \notin taken THEN a ELSE FirstOf((a + 1 .. last) \ taken)
<1>1. CASE a > last
  BY <1>1 DEF FirstOf
<1>2. CASE a <= last /\ a \notin taken
  <2> DEFINE S == (a .. last) \ taken
  <2>1. a \in S /\ \A b \in S : b \in Int /\ a <= b
    BY <1>2
  <2>2. \A x \in S : (\A b \in S : x <= b) => x = a
    BY <2>1
  <2> HIDE DEF S
  <2>3. FirstOf(S) = a
    BY <2>1, <2>2 DEF FirstOf
  <2> QED
    BY <1>2, <2>3 DEF S
<1>3. CASE a <= last /\ a \in taken
  <2>1. (a .. last) \ taken = (a + 1 .. last) \ taken
    BY <1>3
  <2> QED
    BY <1>3, <2>1
<1> QED
  BY <1>1, <1>2, <1>3

\* Such a scan ends at the first free address.
LEMMA ScanFinds ==
  ASSUME NEW first \in Int, NEW last \in Int, first <= last + 1, NEW taken
  PROVE  Scan(first, last, taken) = FirstOf((first .. last) \ taken)
<1> DEFINE D == first .. last + 1
           F(a) == FirstOf((a .. last) \ taken)
           f == [a \in D |-> F(a)]
           g == CHOOSE h : IsScan(h, first, last, taken)
           Q == {last + 1 - a : a \in {b \in D : g[b] # F(b)}}
<1>0. \A a \in Int :
        F(a) = IF a > last THEN NoAddr ELSE IF a \notin taken THEN a ELSE F(a + 1)
  <2> SUFFICES ASSUME NEW a \in Int
               PROVE  F(a) = IF a > last THEN NoAddr
                             ELSE IF a \notin taken THEN a ELSE F(a + 1)
    OBVIOUS
  <2> QED
    BY ONLY FirstOfStep, a \in Int, last \in Int, Zenon DEF F
<1>9. F(first) = FirstOf((first .. last) \ taken)
  OBVIOUS
<1> HIDE DEF F
<1>1. IsScan(f, first, last, taken)
  <2>1. ASSUME NEW a \in D
        PROVE  f[a] = IF a > last THEN NoAddr ELSE IF a \notin taken THEN a ELSE f[a + 1]
    <3>1. a \in Int /\ (~ (a > last) => a + 1 \in D)
      OBVIOUS
    <3> QED
      BY <3>1, <1>0
  <2> QED
    BY <2>1 DEF IsScan
<1>2. IsScan(g, first, last, taken)
  BY <1>1
<1>3. Scan(first, last, taken) = g[first]
  BY DEF Scan, IsScan
<1> HIDE DEF f, g
<1>4. \A a \in D : a \in Int /\ last + 1 - a \in Nat
  OBVIOUS
<1>5. ASSUME NEW a \in D, g[a] # F(a),
             \A q \in Q : last + 1 - a <= q
      PROVE  FALSE
  <2>1. g[a] = IF a > last THEN NoAddr ELSE IF a \notin taken THEN a ELSE g[a + 1]
    BY <1>2 DEF IsScan
  <2>2. F(a) = IF a > last THEN NoAddr ELSE IF a \notin taken THEN a ELSE F(a + 1)
    BY <1>0, <1>4
  <2>3. ~ (a > last) /\ g[a + 1] # F(a + 1)
    BY <1>5, <2>1, <2>2
  <2>4. a + 1 \in D
    BY <1>4, <2>3
  <2>5. last + 1 - (a + 1) \in Q
    BY <2>3, <2>4
  <2>6. last + 1 - a <= last + 1 - (a + 1)
    BY <1>5, <2>5
  <2> QED
    BY <1>4, <2>6
<1>6. Q \in SUBSET Nat
  BY <1>4
<1>7. Q = {}
  <2> SUFFICES ASSUME Q # {} PROVE FALSE
    OBVIOUS
  <2>1. PICK q \in Q : \A r \in Q : q <= r
    BY <1>6, NatLeast
  <2>2. PICK a \in D : q = last + 1 - a /\ g[a] # F(a)
    OBVIOUS
  <2> QED
    BY <1>5, <2>1, <2>2
<1>8. first \in D
  OBVIOUS
<1>10. g[first] = F(first)
  BY <1>7, <1>8
<1> QED
  BY <1>3, <1>9, <1>10

\* The address held back is the interface's.
LEMMA ServerIsInterface ==
  ASSUME NEW c \in Cidr
  PROVE  ServerAddr(c) = InterfaceAddr(c)
<1>1. c.addr \in 0 .. MaxAddr /\ MaxAddr \in Nat
  BY PoolAssumption DEF Cidr, Addr
<1>2. CASE c.addr = MaxAddr
  <2>1. (MaxAddr + 1) % (MaxAddr + 1) = 0
    BY <1>1
  <2> QED
    BY <1>2, <2>1 DEF ServerAddr, InterfaceAddr
<1>3. CASE c.addr # MaxAddr
  <2>1. c.addr + 1 \in 0 .. MaxAddr
    BY <1>1, <1>3
  <2>2. (c.addr + 1) % (MaxAddr + 1) = c.addr + 1
    BY <1>1, <2>1
  <2> QED
    BY <1>3, <2>2 DEF ServerAddr, InterfaceAddr
<1> QED
  BY <1>2, <1>3

\* next_ipv4 and next_ipv6 return what their loops return, the first address of
\* the block that is neither in use nor the interface's, for every size of the
\* address space and of the block, whatever has been allocated, moved and
\* released before.
THEOREM FirstFitEver == PoolSpec => []FirstFit
<1>1. PoolInit => cidr \in Cidr
  BY DEF PoolInit
<1>2. cidr \in Cidr /\ [PoolNext]_poolVars => (cidr \in Cidr)'
  BY DEF PoolNext, poolVars, AllocateV4, AllocateV6, Move, Release
<1>3. ASSUME cidr \in Cidr PROVE FirstFit
  <2>1. cidr.size \in Int /\ cidr.size >= 1 /\ Network(cidr) \in Int
    <3>1. cidr.addr \in Nat /\ cidr.size \in Nat /\ cidr.size >= 1
      <4>1. cidr.addr \in 0 .. MaxAddr /\ cidr.size \in 1 .. MaxAddr + 1 /\ MaxAddr \in Nat
        BY <1>3, PoolAssumption DEF Cidr, Addr
      <4> QED
        BY <4>1
    <3> QED
      BY <3>1 DEF Network
  <2> DEFINE n == Network(cidr)
             b == Broadcast(cidr)
             s == InterfaceAddr(cidr)
  <2>2. b = n + cidr.size - 1
    BY DEF Broadcast
  <2>3. s = ServerAddr(cidr)
    BY <1>3, ServerIsInterface
  <2>4. n \in Int /\ b \in Int /\ n <= b + 1 /\ (cidr.size > 2 => n + 1 <= (b - 1) + 1)
    BY <2>1, <2>2
  <2> HIDE DEF n, b, s
  <2>5. /\ Scan(n, b, used \union {s}) = FirstOf((n .. b) \ (used \union {s}))
        /\ Scan(n, b, used \union {cidr.addr, s}) = FirstOf((n .. b) \ (used \union {cidr.addr, s}))
    BY <2>4, ScanFinds
  <2>6. cidr.size > 2 =>
          Scan(n + 1, b - 1, used \union {s}) = FirstOf((n + 1 .. b - 1) \ (used \union {s}))
    BY <2>4, ScanFinds
  <2>7. used \union {s} = {s} \union used
        /\ used \union {cidr.addr, s} = {cidr.addr, s} \union used
    OBVIOUS
  <2>8. NextIpv4(cidr, used) =
          IF cidr.size <= 2 THEN Scan(n, b, used \union {s})
          ELSE Scan(n + 1, b - 1, used \union {s})
    <3>1. CASE cidr.size > 2
      <4>1. ~ (cidr.size <= 2) /\ HostsV4(cidr) = n + 1 .. b - 1
        BY <2>1, <3>1 DEF HostsV4, n, b
      <4> QED
        BY <2>3, <2>6, <2>7, <3>1, <4>1 DEF NextIpv4
    <3>2. CASE ~ (cidr.size > 2)
      <4>1. cidr.size <= 2 /\ HostsV4(cidr) = n .. b
        BY <2>1, <3>2 DEF HostsV4, n, b
      <4> QED
        BY <2>3, <2>5, <2>7, <4>1 DEF NextIpv4
    <3> QED
      BY <3>1, <3>2
  <2>9. NextIpv6(cidr, used) = Scan(n, b, used \union {cidr.addr, s})
    BY <2>3, <2>5, <2>7 DEF NextIpv6, HostsV6, n, b
  <2> QED
    BY <2>8, <2>9 DEF FirstFit, n, b, s
<1> QED
  BY <1>1, <1>2, <1>3, PTL DEF PoolSpec

-----------------------------------------------------------------------------
(***************************************************************************)
(* The parameters: eight split points have one of every rank, so that the  *)
(* windows are in order and apart.                                         *)
(***************************************************************************)
\* The tags of init specs, and one that is none of them.
Tag == {"t", "c", "b", "r", "rc", "rd", "unknown"}

InitSpecs == Seq(Seq([tag : Tag, n : Int \union {Blank}]))

\* Parameter sets, generated or sent to the admin API.
Params ==
  [jc : Int, jmin : Int, jmax : Int, i : InitSpecs,
   s : [Kind -> Int \union {Blank}], h : [Kind -> [lo : Int, hi : Int]]]

\* The elements below x.
Below(S, x) == {y \in S : y < x}

\* Eight numbers have one of every rank: after the first r - 1 of them comes
\* the least of the rest.
LEMMA NextSplit ==
  ASSUME NEW S \in SUBSET Nat, IsFiniteSet(S), NEW r \in Nat, r < Cardinality(S),
         NEW A \in SUBSET S, Cardinality(A) = r, \A a \in A, b \in S \ A : a < b
  PROVE  \E x \in S : /\ Below(S, x) = A
                      /\ Cardinality(A \union {x}) = r + 1
                      /\ \A a \in A \union {x}, b \in S \ (A \union {x}) : a < b
<1>0. \A x \in S : x \in Nat
  OBVIOUS
<1>1. S \ A # {}
  <2>1. S \ A = {} => S = A
    OBVIOUS
  <2> QED
    BY <2>1
<1>2. PICK x \in S \ A : \A b \in S \ A : x <= b
  BY <1>1, NatLeast
<1>3. Below(S, x) = A
  <2>1. \A a \in A : a < x
    BY <1>2
  <2>2. \A y \in S \ A : ~ (y < x)
    BY <1>0, <1>2
  <2> QED
    BY <2>1, <2>2 DEF Below
<1>4. IsFiniteSet(A)
  BY FS_Subset
<1>5. Cardinality(A \union {x}) = r + 1
  BY <1>2, <1>4, FS_AddElement
<1>6. \A b \in S \ (A \union {x}) : x < b
  BY <1>2
<1> QED
  BY <1>2, <1>3, <1>5, <1>6

\* Eight numbers have one of each rank.
LEMMA Ranked ==
  ASSUME NEW S \in SUBSET Nat, IsFiniteSet(S), Cardinality(S) = 8
  PROVE  \A r \in 1 .. 8 : Sorted(S, r) \in S /\ Cardinality(Below(S, Sorted(S, r))) = r - 1
<1> DEFINE Cut(A, r) == /\ A \in SUBSET S /\ Cardinality(A) = r
                        /\ \A a \in A, b \in S \ A : a < b
           Found(r) == \E x \in S : Cardinality(Below(S, x)) = r - 1
<1>1. Cut({}, 0)
  BY FS_EmptySet
<1>2. ASSUME NEW r \in 0 .. 7, NEW A, Cut(A, r)
      PROVE  Found(r + 1) /\ \E B : Cut(B, r + 1)
  <2>1. r \in Nat /\ r < Cardinality(S) /\ (r + 1) - 1 = r
    OBVIOUS
  <2>2. PICK x \in S : /\ Below(S, x) = A
                       /\ Cardinality(A \union {x}) = r + 1
                       /\ \A a \in A \union {x}, b \in S \ (A \union {x}) : a < b
    BY <1>2, <2>1, NextSplit
  <2>3. Cut(A \union {x}, r + 1)
    BY <1>2, <2>2
  <2> QED
    BY <1>2, <2>1, <2>2, <2>3
<1> HIDE DEF Cut, Found
<1>3. Found(1) /\ \E B : Cut(B, 1)
  BY <1>1, <1>2
<1>4. Found(2) /\ \E B : Cut(B, 2)
  BY <1>3, <1>2
<1>5. Found(3) /\ \E B : Cut(B, 3)
  BY <1>4, <1>2
<1>6. Found(4) /\ \E B : Cut(B, 4)
  BY <1>5, <1>2
<1>7. Found(5) /\ \E B : Cut(B, 5)
  BY <1>6, <1>2
<1>8. Found(6) /\ \E B : Cut(B, 6)
  BY <1>7, <1>2
<1>9. Found(7) /\ \E B : Cut(B, 7)
  BY <1>8, <1>2
<1>10. Found(8)
  BY <1>9, <1>2
<1>11. \A r \in 1 .. 8 : Found(r)
  BY <1>3, <1>4, <1>5, <1>6, <1>7, <1>8, <1>9, <1>10
<1> QED
  BY <1>11 DEF Found, Sorted, Below

\* The split points are in order.
LEMMA SortedUp ==
  ASSUME NEW S \in SUBSET Nat, IsFiniteSet(S), Cardinality(S) = 8,
         NEW q \in 1 .. 8, NEW r \in 1 .. 8, q < r
  PROVE  Sorted(S, q) < Sorted(S, r)
<1> DEFINE a == Sorted(S, q)
           b == Sorted(S, r)
<1>1. a \in S /\ b \in S /\ Cardinality(Below(S, a)) = q - 1 /\ Cardinality(Below(S, b)) = r - 1
  BY Ranked
<1> HIDE DEF a, b
<1>0. \A x \in S : x \in Nat
  OBVIOUS
<1>2. ASSUME b <= a PROVE FALSE
  <2>1. \A y \in S : y < b => y < a
    BY <1>0, <1>1, <1>2
  <2>2a. Below(S, b) \subseteq Below(S, a)
    BY <2>1 DEF Below
  <2>2. IsFiniteSet(Below(S, a))
    BY FS_Subset DEF Below
  <2>3. Cardinality(Below(S, b)) <= Cardinality(Below(S, a))
    BY <2>2a, <2>2, FS_Subset
  <2> QED
    BY <1>1, <2>3
<1>3. a < b
  BY <1>0, <1>1, <1>2
<1> QED
  BY <1>3 DEF a, b

\* The windows drawn are in order, apart, and in the space of the headers.
LEMMA WindowsApart ==
  ASSUME NEW S \in Splits, NEW h, h = Windows(S)
  PROVE  /\ \A k \in Kind : h[k] \in [lo : Int, hi : Int] /\ WindowParses(h[k]) /\ h[k].lo < h[k].hi
         /\ \A j, k \in Kind : j < k => h[j].hi < h[k].lo
<1>1. /\ S \in SUBSET Nat /\ IsFiniteSet(S) /\ Cardinality(S) = 8
      /\ \A x \in S : 0 <= x /\ x <= MaxWord
  <2>1. S \subseteq HMin .. HMax - 1 /\ Cardinality(S) = 8
    BY DEF Splits
  <2>2. IsFiniteSet(HMin .. HMax - 1)
    BY ParamsAssumption, FS_Interval
  <2>3. IsFiniteSet(S)
    BY <2>1, <2>2, FS_Subset
  <2>4. \A x \in HMin .. HMax - 1 : x \in Nat /\ x <= MaxWord
    BY ParamsAssumption
  <2> QED
    BY <2>1, <2>3, <2>4
<1>2. \A k \in Kind : 2 * k - 1 \in 1 .. 8 /\ 2 * k \in 1 .. 8
  BY DEF Kind
<1>2a. \A k \in Kind : /\ h[k] = [lo |-> h[k].lo, hi |-> h[k].hi]
                       /\ h[k].lo = Sorted(S, 2 * k - 1) /\ h[k].hi = Sorted(S, 2 * k)
  BY DEF Windows
<1>3. \A r \in 1 .. 8 : Sorted(S, r) \in S
  BY <1>1, Ranked
<1>4. \A q, r \in 1 .. 8 : q < r => Sorted(S, q) < Sorted(S, r)
  BY <1>1, SortedUp
<1>5. ASSUME NEW k \in Kind
      PROVE  h[k] \in [lo : Int, hi : Int] /\ WindowParses(h[k]) /\ h[k].lo < h[k].hi
  <2>0. 2 * k - 1 < 2 * k
    BY DEF Kind
  <2>1. Sorted(S, 2 * k - 1) < Sorted(S, 2 * k)
    BY <1>2, <1>4, <2>0
  <2>2. Sorted(S, 2 * k - 1) \in S /\ Sorted(S, 2 * k) \in S
    BY <1>2, <1>3
  <2>3. h[k].lo = Sorted(S, 2 * k - 1) /\ h[k].hi = Sorted(S, 2 * k)
    BY <1>2a
  <2>4. h[k].lo \in S /\ h[k].hi \in S /\ h[k].lo < h[k].hi
    BY <2>1, <2>2, <2>3
  <2>5. h[k].lo \in 0 .. MaxWord /\ h[k].hi \in 0 .. MaxWord
    <3>1. \A x \in S : x \in Nat /\ 0 <= x /\ x <= MaxWord
      BY <1>1
    <3> QED
      BY <3>1, <2>4, ParamsAssumption
  <2>6. h[k] = [lo |-> h[k].lo, hi |-> h[k].hi]
    BY <1>2a
  <2> HIDE DEF WindowParses
  <2>7. WindowParses(h[k])
    BY <2>4, <2>5 DEF WindowParses
  <2>8. h[k] \in [lo : Int, hi : Int]
    BY <2>5, <2>6
  <2> QED
    BY <2>4, <2>7, <2>8
<1>6. ASSUME NEW j \in Kind, NEW k \in Kind, j < k PROVE h[j].hi < h[k].lo
  <2>1. 2 * j < 2 * k - 1
    BY <1>6 DEF Kind
  <2>2. Sorted(S, 2 * j) < Sorted(S, 2 * k - 1)
    BY <1>2, <1>4, <2>1
  <2>3. h[j].hi = Sorted(S, 2 * j) /\ h[k].lo = Sorted(S, 2 * k - 1)
    BY <1>2a
  <2> QED
    BY <2>2, <2>3
<1> QED
  BY <1>5, <1>6

\* What the proxy makes of a row.
LEMMA RowRead ==
  ASSUME NEW p \in Params
  PROVE  LET q == ProxyParams(p)
         IN /\ q.jc = p.jc /\ q.jmin = p.jmin /\ q.jmax = p.jmax
            /\ \A k \in Kind : /\ q.s[k] = (IF p.s[k] = Blank THEN 0 ELSE p.s[k])
                               /\ q.h[k] = NormH(p.h[k])
BY DEF Params, ProxyParams

\* The bounds.
LEMMA BoundsFact ==
  /\ MaxJunk \in Nat /\ MaxJunk > 80
  /\ \A k \in Kind : MaxPad[k] \in Nat /\ MaxPad[k] > 150
BY DEF MaxJunk, MaxPad, Kind

\* What the generator draws.
LEMMA GeneratedFits ==
  ASSUME NEW p \in Params, Generates(p)
  PROVE  Valid(p) /\ ProxyParses(p)
<1>1. PICK S \in Splits : p.h = Windows(S)
  BY DEF Generates
<1>2. /\ \A k \in Kind : p.h[k] \in [lo : Int, hi : Int] /\ WindowParses(p.h[k]) /\ p.h[k].lo < p.h[k].hi
      /\ \A j, k \in Kind : j < k => p.h[j].hi < p.h[k].lo
  BY <1>1, WindowsApart
<1>3. /\ \A k \in Kind : p.s[k] # Blank /\ p.s[k] \in 15 .. 150
      /\ p.jc \in 4 .. 12 /\ p.jmin \in 8 .. 80 /\ p.jmax \in p.jmin + 1 .. MaxJunk
      /\ p.s[2] # p.s[1] + 56 /\ p.s[3] + 56 # p.s[4] /\ p.s[4] + 56 # p.s[3]
  BY DEF Generates
<1>4. 1 \in Kind /\ 2 \in Kind /\ 3 \in Kind /\ 4 \in Kind /\ Kind \subseteq Int
  BY DEF Kind
<1>5. \A j, k \in Kind : j # k => p.h[j] # p.h[k]
  <2> SUFFICES ASSUME NEW j \in Kind, NEW k \in Kind, j < k PROVE p.h[j] # p.h[k]
    BY <1>4
  <2>1. p.h[j].hi < p.h[k].lo /\ p.h[k].lo < p.h[k].hi
    BY <1>2
  <2>2. p.h[j].hi \in Int /\ p.h[k].lo \in Int /\ p.h[k].hi \in Int
    BY <1>2
  <2> QED
    BY <2>1, <2>2
<1>6. Valid(p)
  <2>1. \A k \in Kind : p.s[k] \in 0 .. MaxPad[k]
    <3>1. \A k \in Kind : p.s[k] \in Nat /\ p.s[k] <= 150
      BY <1>3
    <3> QED
      BY <3>1, BoundsFact
  <2>2. p.jc \in 1 .. 128
    BY <1>3
  <2>3. p.jmin \in Nat /\ 8 <= p.jmin /\ p.jmin <= 80
    BY <1>3
  <2>4. p.jmax \in 1 .. MaxJunk /\ p.jmax > p.jmin
    BY <1>3, <2>3, BoundsFact
  <2>5. p.jmin \in 0 .. MaxJunk
    BY <2>3, BoundsFact
  <2>6. SizesApart(p)
    BY <1>3, <1>4 DEF SizesApart
  <2>7. p.s[3] + 56 # p.s[4] /\ p.s[4] + 56 # p.s[3]
    BY <1>3
  <2> QED
    BY <1>4, <1>5, <2>1, <2>2, <2>4, <2>5, <2>6, <2>7 DEF Valid
<1>7. ProxyParses(p)
  <2> DEFINE q == ProxyParams(p)
  <2>1. /\ q.jc = p.jc /\ q.jmin = p.jmin /\ q.jmax = p.jmax
        /\ \A k \in Kind : /\ q.s[k] = (IF p.s[k] = Blank THEN 0 ELSE p.s[k])
                           /\ q.h[k] = NormH(p.h[k])
    BY RowRead
  <2> HIDE DEF q
  <2>2. \A k \in Kind : q.s[k] = p.s[k] /\ q.h[k] = p.h[k]
    BY <1>2, <1>3, <2>1, ParamsAssumption DEF NormH
  <2>3. \A k \in Kind : q.s[k] >= 0 /\ WindowParses(q.h[k])
    BY <1>2, <1>3, <2>2
  <2>4. ASSUME NEW j \in Kind, NEW k \in Kind, j < k PROVE ~ Overlap(q.h[j], q.h[k])
    <3>1. p.h[j].hi < p.h[k].lo /\ p.h[j].hi \in Int /\ p.h[k].lo \in Int
      BY <1>2, <2>4
    <3> QED
      BY <2>2, <3>1 DEF Overlap
  <2>5. (\A n \in {q.jc, q.jmin, q.jmax} : n >= 0) /\ q.jmin <= q.jmax
    BY <1>3, <2>1
  <2> QED
    BY <2>3, <2>4, <2>5 DEF ProxyParses, q
<1> QED
  BY <1>6, <1>7

\* What the API lets through.
LEMMA AcceptedFits ==
  ASSUME NEW p \in Params, ApiAccepts(p), \A k \in Kind : WindowParses(p.h[k])
  PROVE  ProxyParses(p)
<1>1. /\ p.jc \in Int /\ p.jmin \in Int /\ p.jmax \in Int
      /\ \A k \in Kind : p.h[k] \in [lo : Int, hi : Int] /\ p.h[k] # Blank
  BY ParamsAssumption DEF Params
<1>2. p.jc >= 0 /\ p.jmin >= 0 /\ p.jmax >= 0 /\ p.jmin <= p.jmax
  <2>1. p.jc # Blank /\ p.jmin # Blank /\ p.jmax # Blank
    BY <1>1, ParamsAssumption
  <2>2. /\ p.jc \in 0 .. 128 /\ p.jmin \in 0 .. MaxJunk /\ p.jmax \in 1 .. MaxJunk
        /\ ~ (p.jmax > 0 /\ p.jmax < p.jmin)
    BY <2>1 DEF ApiAccepts
  <2>3. p.jc >= 0 /\ p.jmin >= 0
    BY <2>2, BoundsFact
  <2>4. p.jmax > 0
    BY <2>2, BoundsFact
  <2>5. p.jmin <= p.jmax
    BY <1>1, <2>2, <2>4
  <2> QED
    BY <1>1, <2>3, <2>4, <2>5
<1>3. \A k \in Kind : p.s[k] # Blank => p.s[k] >= 0
  <2>1. \A k \in Kind : p.s[k] # Blank => p.s[k] \in 0 .. MaxS[k]
    BY DEF ApiAccepts
  <2>2. \A k \in Kind : MaxS[k] \in Int
    BY DEF MaxS, Kind
  <2> QED
    BY <2>1, <2>2
<1>4. \A j, k \in Kind : j < k => p.h[j].hi < p.h[k].lo \/ p.h[k].hi < p.h[j].lo
  BY <1>1 DEF ApiAccepts
<1> DEFINE q == ProxyParams(p)
<1>5. /\ q.jc = p.jc /\ q.jmin = p.jmin /\ q.jmax = p.jmax
      /\ \A k \in Kind : /\ q.s[k] = (IF p.s[k] = Blank THEN 0 ELSE p.s[k])
                         /\ q.h[k] = NormH(p.h[k])
  BY RowRead
<1> HIDE DEF q
<1>6. \A k \in Kind : q.s[k] >= 0 /\ q.h[k] = p.h[k] /\ WindowParses(q.h[k])
  BY <1>1, <1>3, <1>5 DEF NormH
<1>7. ASSUME NEW j \in Kind, NEW k \in Kind, j < k PROVE ~ Overlap(q.h[j], q.h[k])
  <2>1. /\ p.h[j].lo \in Int /\ p.h[j].hi \in Int /\ p.h[k].lo \in Int /\ p.h[k].hi \in Int
        /\ p.h[j].lo <= p.h[j].hi /\ p.h[k].lo <= p.h[k].hi
    BY <1>1 DEF WindowParses
  <2>2. p.h[j].hi < p.h[k].lo \/ p.h[k].hi < p.h[j].lo
    BY <1>4, <1>7
  <2> QED
    BY <1>6, <2>1, <2>2 DEF Overlap
<1> QED
  BY <1>2, <1>5, <1>6, <1>7 DEF ProxyParses, q

\* generate_awg_params draws what validate_awg_params accepts and
\* build_awg_params reads, and so does a complete body of the admin API whose
\* windows are written in order and fit in a u32: for every set of parameters
\* and every space the headers are drawn from.
THEOREM ImitationStaysOnEver ==
  ASSUME sample.of = "params" => sample.p \in Params
  PROVE  ImitationStaysOn
BY GeneratedFits, AcceptedFits DEF ImitationStaysOn

\* A packet of a peer with the parameters p, as the proxy has read them.
Genuine(x) ==
  /\ x.p \in Params /\ x.p.s \in [Kind -> Nat] /\ x.kind \in Kind
  /\ \E n \in Nat : n >= MinData /\ x.pkt.len = GenuineLen(x.p.s, x.kind, n)
  /\ LET w == x.p.h[x.kind] IN x.pkt.word[x.p.s[x.kind]] \in w.lo .. w.hi

\* The rule that keeps the two handshakes apart.
LEMMA ValidApart ==
  ASSUME NEW p, Valid(p)
  PROVE  p.s[1] + 56 # p.s[2]
<1>1. SizesApart(p)
  BY SMT DEF Valid
<1> QED
  BY <1>1 DEF SizesApart

\* classify_awg_packet takes an initiation and a response for what they are,
\* whatever the S values, the windows and the words read at the other offsets:
\* the two sizes that could be confused differ by the one difference that
\* validate_awg_params rules out.
THEOREM HandshakesToldApartEver ==
  ASSUME sample.of = "packet" => Genuine(sample)
  PROVE  HandshakesToldApart
<1> SUFFICES ASSUME Genuine(sample), Valid(sample.p), sample.kind \in {1, 2}
             PROVE  /\ Classify(sample.p, sample.pkt) = sample.kind
                    /\ Overwritten(sample.p, sample.pkt) = sample.p.s[sample.kind]
  BY DEF HandshakesToldApart
<1> DEFINE p == sample.p
           k == sample.kind
           pkt == sample.pkt
           fits == {j \in Kind : /\ SizeFits(p, pkt.len, j)
                                 /\ pkt.word[p.s[j]] \in p.h[j].lo .. p.h[j].hi}
<1>1. p.s[1] \in Nat /\ p.s[2] \in Nat /\ p.s[1] + 56 # p.s[2]
  <2>1. p.s \in [1 .. 4 -> Nat]
    BY DEF Genuine, Kind
  <2>2. p.s[1] + 56 # p.s[2]
    <3>1. Valid(p)
      OBVIOUS
    <3> QED
      BY <3>1, ValidApart
  <2>3. 1 \in 1 .. 4 /\ 2 \in 1 .. 4
    OBVIOUS
  <2> HIDE DEF p
  <2> QED
    BY <2>1, <2>2, <2>3
<1>2. k = 1 \/ k = 2
  OBVIOUS
<1>3. MessageSize[1] = 148 /\ MessageSize[2] = 92
  BY DEF MessageSize
<1>4. pkt.len = p.s[k] + MessageSize[k]
  BY <1>2 DEF Genuine, GenuineLen
<1>5. k \in fits
  BY <1>2, <1>4 DEF SizeFits, Genuine
<1>6. \A j \in fits : k <= j
  <2>1. k = 2 => 1 \notin fits
    BY <1>1, <1>3, <1>4 DEF SizeFits
  <2>2. fits \subseteq 1 .. 4
    BY DEF Kind
  <2> HIDE DEF fits
  <2> QED
    BY <1>2, <2>1, <2>2
<1>7. fits \in SUBSET Nat /\ fits # {}
  BY <1>5 DEF Kind
<1>8. Classify(p, pkt) = Least(fits) /\ Least(fits) = k
  <2>1. Classify(p, pkt) = Least(fits)
    BY <1>7 DEF Classify
  <2>2. Least(fits) \in fits /\ \A j \in fits : Least(fits) <= j
    BY <1>7, LeastOf
  <2> HIDE DEF fits
  <2>3. Least(fits) \in Nat /\ Least(fits) <= k /\ k <= Least(fits)
    BY <1>5, <1>6, <1>7, <2>2
  <2>4. Least(fits) = k
    BY <1>2, <2>3
  <2> QED
    BY <2>1, <2>4
<1>9. p.s[k] < pkt.len /\ k # 0
  BY <1>1, <1>2, <1>3, <1>4
<1> QED
  BY <1>8, <1>9 DEF Overwritten

-----------------------------------------------------------------------------
(***************************************************************************)
(* The imitations in the padding.                                          *)
(***************************************************************************)
\* The longest UDP datagram.
MaxDatagram == 65535

\* What the padding of a datagram is written from: pad of its total bytes.
PadInput(s) ==
  /\ s.pad \in Nat
  /\ s.of \in {"dns", "sip"} => s.total \in Nat /\ s.pad <= s.total
  /\ s.of = "dns" => s.name \in Nat \union {Blank}
  /\ s.of = "sip" => s.total <= MaxDatagram /\ s.st \in 1 .. 3 /\ s.host \in Nat

\* The last record of a DNS answer reaches to the end of the datagram.
LEMMA DnsFramed ==
  ASSUME NEW pad \in Nat, NEW total \in Nat, pad <= total, NEW name \in Nat \union {Blank}
  PROVE  LET a   == DnsPadding(pad, total, name)
             end == HeaderLen + a.qd * a.question + a.rr * OptLen
         IN /\ a.qd + a.rr > 0 => a.fixed <= pad
            /\ a.rr = 1 => end + a.record = total
            /\ a.option # Blank => end + OptionLen + a.option = total
            /\ pad >= 28 => a.rr = 1
<1> DEFINE a == DnsPadding(pad, total, name)
<1>1. CASE pad >= OptMin
  <2> DEFINE q == Question(pad, name)
             r == total - (HeaderLen + q + OptLen)
             o == total - (HeaderLen + q + OptLen + OptionLen)
             f == HeaderLen + q + OptLen + OptionLen
  <2>1. q \in Nat /\ f <= pad
    <3>1. CASE name # Blank /\ name + 4 <= 259 /\ HeaderLen + name + 4 + OptLen + OptionLen <= pad
      <4>1. name \in Nat /\ q = name + 4
        BY <3>1 DEF Question
      <4> QED
        BY <3>1, <4>1 DEF HeaderLen, OptLen, OptionLen
    <3>2. CASE ~ (name # Blank /\ name + 4 <= 259 /\ HeaderLen + name + 4 + OptLen + OptionLen <= pad)
      <4>1. q = RootLen
        BY <3>2 DEF Question
      <4> QED
        BY <1>1, <4>1 DEF HeaderLen, OptLen, OptionLen, RootLen, OptMin
    <3> QED
      BY <3>1, <3>2
  <2>2. a = [qd |-> 1, rr |-> 1, question |-> q, record |-> r, option |-> o, fixed |-> f]
    BY <1>1 DEF DnsPadding
  <2>3. r = total - (HeaderLen + q + OptLen) /\ o = total - (HeaderLen + q + OptLen + OptionLen)
    OBVIOUS
  <2> HIDE DEF q, r, o, f, a
  <2>4. a.qd = 1 /\ a.rr = 1 /\ a.question = q /\ a.record = r /\ a.option = o /\ a.fixed = f
    BY <2>2
  <2> HIDE DEF a
  <2>5. /\ a.fixed <= pad
        /\ HeaderLen + a.qd * a.question + a.rr * OptLen = HeaderLen + q + OptLen
    BY <2>1, <2>4 DEF HeaderLen, OptLen
  <2>6. /\ HeaderLen + q + OptLen + a.record = total
        /\ HeaderLen + q + OptLen + OptionLen + a.option = total
    BY <2>1, <2>3, <2>4 DEF HeaderLen, OptLen, OptionLen
  <2> QED
    BY <2>4, <2>5, <2>6 DEF a
<1>2. CASE ~ (pad >= OptMin)
  <2> DEFINE qd == IF pad >= 17 THEN 1 ELSE 0
             rr == IF pad >= 28 THEN 1 ELSE 0
             r  == IF total >= 28 THEN total - 28 ELSE 0
             f  == IF pad >= 28 THEN 28 ELSE IF pad >= 17 THEN 17 ELSE 12
  <2>1. a = [qd |-> qd, rr |-> rr, question |-> RootLen, record |-> r, option |-> Blank,
             fixed |-> f]
    BY <1>2 DEF DnsPadding
  <2>2. /\ qd \in {0, 1} /\ rr \in {0, 1}
        /\ qd + rr > 0 => f <= pad
        /\ rr = 1 => qd = 1 /\ r = total - 28
        /\ pad >= 28 => rr = 1
    OBVIOUS
  <2> HIDE DEF qd, rr, r, f, a
  <2>3. a.qd = qd /\ a.rr = rr /\ a.question = RootLen /\ a.record = r /\ a.option = Blank
        /\ a.fixed = f
    BY <2>1
  <2>4. a.rr = 1 => HeaderLen + a.qd * a.question + a.rr * OptLen = 28 /\ a.record = total - 28
    BY <2>2, <2>3 DEF HeaderLen, OptLen, RootLen
  <2> QED
    BY <2>2, <2>3, <2>4 DEF a
<1> QED
  BY <1>1, <1>2

\* The length of a SOFTWARE attribute.
LEMMA SoftwareIs ==
  ASSUME NEW room \in Nat, room >= 4
  PROVE  Software(room) = IF room - 4 <= 124 THEN room - 4 ELSE 124
<1> DEFINE Q == {room - 4, 124}
<1>1. Q \in SUBSET Nat /\ Q # {}
  OBVIOUS
<1>2. Least(Q) \in Q /\ \A b \in Q : Least(Q) <= b
  BY <1>1, LeastOf
<1> QED
  BY <1>2 DEF Software

\* The length a STUN message advertises, by its attributes.
LEMMA StunLengthOf ==
  ASSUME NEW a \in Nat, NEW b \in Nat
  PROVE  StunLength(<<>>) = 0 /\ StunLength(<<a>>) = a + 4 /\ StunLength(<<a, b>>) = a + b + 8
<1>1. Len(<<>>) = 0 /\ Len(<<a>>) = 1 /\ Len(<<a, b>>) = 2
  OBVIOUS
<1>2. Sum(<<>>) = 0 /\ Sum(<<a>>) = a /\ Sum(<<a, b>>) = a + b
  BY SumFew
<1> QED
  BY <1>1, <1>2 DEF StunLength

\* XOR-MAPPED-ADDRESS, then SOFTWARE.
LEMMA TwoAttributes ==
  ASSUME NEW n \in Int
  PROVE  <<8>> \o <<n>> = <<8, n>>
<1> DEFINE s == <<8>> \o <<n>>
           t == <<8, n>>
<1>1. s \in Seq(Int) /\ Len(s) = 2 /\ s[1] = 8 /\ s[2] = n
  OBVIOUS
<1>2. t \in Seq(Int) /\ Len(t) = 2 /\ t[1] = 8 /\ t[2] = n
  OBVIOUS
<1> HIDE DEF s, t
<1>3. \A i \in 1 .. 2 : s[i] = t[i]
  BY <1>1, <1>2
<1>4. s = t
  BY <1>1, <1>2, <1>3
<1> QED
  BY <1>4 DEF s, t

\* The attributes of a STUN message fill the length it advertises.
LEMMA StunFramed ==
  ASSUME NEW pad \in Nat
  PROVE  LET attrs == StunPadding(pad)
         IN /\ StunLength(attrs) % 4 = 0
            /\ attrs # <<>> => 20 + StunLength(attrs) <= pad
            /\ \A k \in DOMAIN attrs : attrs[k] % 4 = 0 /\ attrs[k] < 128
            /\ pad \in 20 .. 155 => pad - (20 + StunLength(attrs)) < 4
<1> DEFINE c      == IF pad > 20 THEN (pad - 20) \div 4 ELSE 0
           body   == IF pad > 20 THEN ((pad - 20) \div 4) * 4 ELSE 0
           mapped == IF body >= 12 THEN <<8>> ELSE <<>>
           room   == body - 12 * Len(mapped)
           attrs  == StunPadding(pad)
<1>1. /\ c \in Nat /\ body = 4 * c /\ body \in Nat
      /\ pad > 20 => 4 * c <= pad - 20 /\ pad - 20 < 4 * c + 4
      /\ ~ (pad > 20) => c = 0
  OBVIOUS
<1>2. attrs = mapped \o (IF room >= 4 THEN <<Software(room)>> ELSE <<>>)
  BY DEF StunPadding
<1>2a. Len(<<>>) = 0 /\ Len(<<8>>) = 1
  OBVIOUS
<1>2b. body < 12 => mapped = <<>> /\ room = body
  BY <1>1, <1>2a
<1>2c. body >= 12 => mapped = <<8>> /\ room = body - 12
  BY <1>1, <1>2a
<1> HIDE DEF c, body, mapped, room, attrs
<1>3. CASE c = 0
  <2>1. mapped = <<>> /\ room = 0
    BY <1>1, <1>2b, <1>3
  <2>2. attrs = <<>>
    BY <1>2, <2>1
  <2>3. StunLength(attrs) = 0
    BY <2>2, StunLengthOf
  <2> QED
    BY <1>1, <1>3, <2>2, <2>3 DEF attrs
<1>4. CASE c \in {1, 2}
  <2>1. mapped = <<>> /\ room = 4 * c /\ room \in Nat /\ room >= 4
    BY <1>1, <1>2b, <1>4
  <2>2. Software(room) = 4 * c - 4
    BY <1>4, <2>1, SoftwareIs
  <2>3. attrs = <<4 * c - 4>>
    BY <1>2, <2>1, <2>2
  <2> DEFINE v == 4 * c - 4
  <2>4a. v \in Nat /\ v + 4 = 4 * c
    BY <1>4
  <2> HIDE DEF v
  <2>4b. StunLength(<<v>>) = v + 4
    BY <2>4a, StunLengthOf
  <2>4. StunLength(attrs) = 4 * c
    BY <2>3, <2>4a, <2>4b DEF v
  <2> QED
    BY <1>1, <1>4, <2>3, <2>4 DEF attrs
<1>5. CASE c = 3
  <2>1. mapped = <<8>> /\ room = 0
    BY <1>1, <1>2c, <1>5
  <2>2. attrs = <<8>>
    BY <1>2, <2>1
  <2>3a. StunLength(<<8>>) = 8 + 4
    BY StunLengthOf
  <2>3. StunLength(attrs) = 12
    BY <2>2, <2>3a
  <2> QED
    BY <1>1, <1>5, <2>2, <2>3 DEF attrs
<1>6. CASE c > 3
  <2> DEFINE s == IF c - 4 <= 31 THEN c - 4 ELSE 31
  <2>1. mapped = <<8>> /\ room = 4 * c - 12 /\ room \in Nat /\ room >= 4
    BY <1>1, <1>2c, <1>6
  <2>2. Software(room) = IF room - 4 <= 124 THEN room - 4 ELSE 124
    BY <2>1, SoftwareIs
  <2>3. s \in Nat /\ s <= c - 4 /\ s <= 31 /\ Software(room) = 4 * s
        /\ (c <= 35 => s = c - 4)
    BY <1>1, <1>6, <2>1, <2>2
  <2> HIDE DEF s
  <2>5. 4 * s \in Nat
    BY <2>3
  <2>3a. attrs = <<8>> \o <<4 * s>>
    BY <1>2, <2>1, <2>3
  <2>4. attrs = <<8, 4 * s>>
    BY <2>3a, <2>5, TwoAttributes
  <2>5a. StunLength(<<8, 4 * s>>) = 8 + 4 * s + 8
    BY <2>5, StunLengthOf
  <2>6. StunLength(attrs) = 16 + 4 * s
    BY <2>3, <2>4, <2>5a
  <2>6a. (16 + 4 * s) % 4 = 0 /\ (4 * s) % 4 = 0
    BY <2>3
  <2>7. \A k \in DOMAIN attrs : attrs[k] % 4 = 0 /\ attrs[k] < 128
    BY <2>3, <2>4, <2>6a
  <2>8. 20 + (16 + 4 * s) <= pad /\ (pad \in 20 .. 155 => pad - (20 + (16 + 4 * s)) < 4)
    BY <1>1, <1>6, <2>3
  <2> QED
    BY <2>6, <2>6a, <2>7, <2>8 DEF attrs
<1> QED
  BY <1>1, <1>3, <1>4, <1>5, <1>6

\* The bound on datagrams.
LEMMA DatagramFact == MaxDatagram \in Nat /\ MaxDatagram < 100000
BY DEF MaxDatagram

\* The number of digits of a length.
LEMMA DigitsAre ==
  ASSUME NEW n \in 0 .. MaxDatagram
  PROVE  Digits(n) = IF n < 10 THEN 1 ELSE IF n < 100 THEN 2 ELSE IF n < 1000 THEN 3
                     ELSE IF n < 10000 THEN 4 ELSE 5
<1> DEFINE Q == {d \in 1 .. 9 : n < 10 ^ d}
           D == Least(Q)
<1>1. 10 ^ 1 = 10 /\ 10 ^ 2 = 100 /\ 10 ^ 3 = 1000 /\ 10 ^ 4 = 10000 /\ 10 ^ 5 = 100000
  OBVIOUS
<1>2. 5 \in Q /\ Q \in SUBSET Nat
  BY <1>1, DatagramFact
<1>3. D \in Q /\ \A b \in Q : D <= b
  BY <1>2, LeastOf
<1> HIDE DEF D
<1>3a. Q \subseteq 1 .. 9
  OBVIOUS
<1> HIDE DEF Q
<1>4. D \in {1, 2, 3, 4, 5}
  BY <1>2, <1>3, <1>3a
<1>5. D = IF n < 10 THEN 1 ELSE IF n < 100 THEN 2 ELSE IF n < 1000 THEN 3
          ELSE IF n < 10000 THEN 4 ELSE 5
  <2>1. CASE n < 10
    <3>1. 1 \in Q
      BY <1>1, <2>1 DEF Q
    <3> QED
      BY <1>3, <1>4, <2>1, <3>1
  <2>2. CASE ~ (n < 10) /\ n < 100
    <3>1. 2 \in Q /\ 1 \notin Q
      BY <1>1, <2>2 DEF Q
    <3> QED
      BY <1>3, <1>4, <2>2, <3>1
  <2>3. CASE ~ (n < 100) /\ n < 1000
    <3>1. 3 \in Q /\ 1 \notin Q /\ 2 \notin Q
      BY <1>1, <2>3 DEF Q
    <3> QED
      BY <1>3, <1>4, <2>3, <3>1
  <2>4. CASE ~ (n < 1000) /\ n < 10000
    <3>1. 4 \in Q /\ 1 \notin Q /\ 2 \notin Q /\ 3 \notin Q
      BY <1>1, <2>4 DEF Q
    <3> QED
      BY <1>3, <1>4, <2>4, <3>1
  <2>5. CASE ~ (n < 10000)
    <3>1. 1 \notin Q /\ 2 \notin Q /\ 3 \notin Q /\ 4 \notin Q
      BY <1>1, <2>5 DEF Q
    <3> QED
      BY <1>3, <1>4, <2>5, <3>1
  <2> QED
    BY <2>1, <2>2, <2>3, <2>4, <2>5
<1> QED
  BY <1>5 DEF D, Q, Digits

\* One of the two spacings has a width that agrees with the number written.
\* With one space it fails only when a power of ten lies between the length for
\* this width and the length for the next; the second space then takes the
\* length below that power.
LEMMA WidthThere ==
  ASSUME NEW pos \in Nat, NEW pad \in Nat, NEW total \in 0 .. MaxDatagram, pad <= total,
         pos + 15 + 2 + Digits(total) + 4 <= pad
  PROVE  Widths(pos, pad, total) # {}
<1> DEFINE D == Digits(total)
           T == total - pos - 20
<1>0. total <= MaxDatagram /\ total \in Nat /\ MaxDatagram \in Nat /\ MaxDatagram < 100000
  BY DatagramFact
<1>1. D = IF total < 10 THEN 1 ELSE IF total < 100 THEN 2 ELSE IF total < 1000 THEN 3
          ELSE IF total < 10000 THEN 4 ELSE 5
  BY DigitsAre
<1>2. D \in 1 .. 5
  BY <1>1
<1>3. ASSUME NEW c \in Spaces, NEW w \in 1 .. D,
             Digits(total - (pos + 15 + c + w + 4)) = w
      PROVE  Widths(pos, pad, total) # {}
  <2>1. <<c, w>> \in Spaces \X (1 .. Digits(total))
    OBVIOUS
  <2>2. pos + 15 + c + w + 4 <= pad
    BY <1>2 DEF Spaces
  <2>3. <<c, w>> \in Widths(pos, pad, total)
    BY <1>3, <2>1, <2>2 DEF Widths
  <2> QED
    BY <2>3
<1>4. T \in Nat /\ T >= D + 1 /\ T + 20 <= total
  BY <1>2
<1>5. ASSUME NEW c \in Spaces, NEW w \in 1 .. D, NEW n, n = T + 1 - c - w
      PROVE  n \in 0 .. MaxDatagram /\ total - (pos + 15 + c + w + 4) = n
  <2>1. c \in {1, 2} /\ w \in Nat /\ w <= D
    BY <1>2 DEF Spaces
  <2> HIDE DEF D
  <2>2. n \in Nat /\ n <= T /\ total - (pos + 15 + c + w + 4) = n
    BY <1>2, <1>4, <1>5, <2>1
  <2> HIDE DEF T
  <2>3. n <= MaxDatagram
    BY <1>0, <1>4, <2>2
  <2> QED
    BY <1>0, <2>2, <2>3
<1>6. ASSUME NEW c \in Spaces, NEW w \in 1 .. D, Digits(T + 1 - c - w) = w
      PROVE  Widths(pos, pad, total) # {}
  BY <1>3, <1>5, <1>6
<1> HIDE DEF T, D
<1>7. 1 \in Spaces /\ 2 \in Spaces
  BY DEF Spaces
<1>8. CASE T <= 10
  <2>1. 1 \in 1 .. D /\ T + 1 - 1 - 1 < 10
    BY <1>2, <1>4, <1>8
  <2>2. T + 1 - 1 - 1 \in 0 .. MaxDatagram
    BY <1>5, <1>7, <2>1
  <2>3. Digits(T + 1 - 1 - 1) = 1
    BY <2>1, <2>2, DigitsAre
  <2> QED
    BY <1>6, <1>7, <2>1, <2>3
<1>9. CASE T = 11
  <2>1. 1 \in 1 .. D /\ T + 1 - 2 - 1 < 10
    BY <1>2, <1>4, <1>9
  <2>2. T + 1 - 2 - 1 \in 0 .. MaxDatagram
    BY <1>5, <1>7, <2>1
  <2>3. Digits(T + 1 - 2 - 1) = 1
    BY <2>1, <2>2, DigitsAre
  <2> QED
    BY <1>6, <1>7, <2>1, <2>3
<1>10. ASSUME NEW w \in 2 .. 5, NEW low \in Nat, NEW high \in Nat, <<w, low, high>> \in
              {<<2, 10, 100>>, <<3, 100, 1000>>, <<4, 1000, 10000>>, <<5, 10000, 100000>>},
              low + w <= T, T <= high + w
       PROVE  Widths(pos, pad, total) # {}
  <2>1. w \in 1 .. D
    BY <1>1, <1>2, <1>4, <1>10
  <2>2. CASE T < high + w
    <3>1. T + 1 - 1 - w \in 0 .. MaxDatagram /\ T + 1 - 1 - w >= low /\ T + 1 - 1 - w < high
      <4>1. T + 1 - 1 - w \in 0 .. MaxDatagram
        BY <1>5, <1>7, <2>1
      <4> QED
        BY <1>4, <1>10, <2>2, <4>1
    <3>2. Digits(T + 1 - 1 - w) = w
      BY <1>10, <3>1, DigitsAre
    <3> QED
      BY <1>6, <1>7, <2>1, <3>2
  <2>3. CASE T = high + w
    <3>1. T + 1 - 2 - w \in 0 .. MaxDatagram /\ T + 1 - 2 - w >= low /\ T + 1 - 2 - w < high
      <4>1. T + 1 - 2 - w \in 0 .. MaxDatagram
        BY <1>5, <1>7, <2>1
      <4> QED
        BY <1>4, <1>10, <2>3, <4>1
    <3>2. Digits(T + 1 - 2 - w) = w
      BY <1>10, <3>1, DigitsAre
    <3> QED
      BY <1>6, <1>7, <2>1, <3>2
  <2> QED
    BY <1>4, <1>10, <2>2, <2>3
<1>11. CASE 12 <= T /\ T <= 102
  BY <1>10, <1>11
<1>12. CASE 103 <= T /\ T <= 1003
  BY <1>10, <1>12
<1>13. CASE 1004 <= T /\ T <= 10004
  BY <1>10, <1>13
<1>14. CASE 10005 <= T
  <2>1. T <= 100000 + 5
    BY <1>0, <1>4
  <2> QED
    BY <1>10, <1>14, <2>1
<1> QED
  BY <1>4, <1>8, <1>9, <1>11, <1>12, <1>13, <1>14

\* The search over spacings and widths has a first.
LEMMA FirstWidthIn ==
  ASSUME NEW pos \in Nat, NEW pad \in Nat, NEW total \in 0 .. MaxDatagram,
         Widths(pos, pad, total) # {}
  PROVE  FirstWidth(Widths(pos, pad, total)) \in Widths(pos, pad, total)
<1> DEFINE ws == Widths(pos, pad, total)
           Q == {10 * w[1] + w[2] : w \in ws}
<1>1. Digits(total) \in 1 .. 5
  BY DigitsAre
<1>2. \A w \in ws : w[1] \in {1, 2} /\ w[2] \in 1 .. 5
  BY <1>1 DEF Widths, Spaces
<1> HIDE DEF ws
<1>3. Q \in SUBSET Nat /\ Q # {}
  BY <1>2 DEF ws
<1>4. PICK a \in Q : \A b \in Q : a <= b
  BY <1>3, NatLeast
<1>5. PICK w \in ws : a = 10 * w[1] + w[2]
  BY <1>4
<1>6. ASSUME NEW v \in ws PROVE w[1] < v[1] \/ (w[1] = v[1] /\ w[2] <= v[2])
  <2>1. 10 * w[1] + w[2] <= 10 * v[1] + v[2]
    BY <1>4, <1>5
  <2> QED
    BY <1>2, <2>1
<1> QED
  BY <1>6 DEF FirstWidth, ws

\* The mandatory headers written end at a position.
LEMMA HeadersFit ==
  ASSUME NEW start \in Nat, NEW lines \in Seq(Nat), NEW pad \in Nat
  PROVE  /\ Fitting(start, lines, pad) \in 0 .. Len(lines)
         /\ start + Sum(SubSeq(lines, 1, Fitting(start, lines, pad))) \in Nat
<1> DEFINE Q == {n \in 0 .. Len(lines) :
                   n = Len(lines) \/ ~ Put(start + Sum(SubSeq(lines, 1, n)), lines[n + 1], pad)}
<1>0. Len(lines) \in Nat
  OBVIOUS
<1>1. Q \in SUBSET Nat /\ Len(lines) \in Q
  BY <1>0
<1>2. Fitting(start, lines, pad) = Least(Q)
  BY DEF Fitting
<1>3. Least(Q) \in Q
  BY <1>1, LeastOf
<1>4. Fitting(start, lines, pad) \in 0 .. Len(lines)
  BY <1>2, <1>3
<1>5. Sum(SubSeq(lines, 1, Fitting(start, lines, pad))) \in Nat
  BY <1>4, SumOfPrefix
<1> QED
  BY <1>4, <1>5

\* 18 bytes have room for a status line.
LEMMA StatusFits ==
  ASSUME NEW st \in 1 .. 3, NEW pad \in Nat
  PROVE  /\ StatusOf(st, pad) \in 0 .. 3
         /\ pad >= 18 => StatusOf(st, pad) # 0
<1> DEFINE fits == {k \in 0 .. 2 : Put(0, StatusLines[((st + k - 1) % 3) + 1], pad)}
<1>1. fits # {} => Least(fits) \in 0 .. 2
  <2>1. fits \in SUBSET Nat
    OBVIOUS
  <2> QED
    BY <2>1, LeastOf
<1>2. StatusOf(st, pad) = IF fits = {} THEN 0 ELSE ((st + Least(fits) - 1) % 3) + 1
  BY DEF StatusOf
<1>3. ASSUME pad >= 18 PROVE fits # {}
  <2>1. 3 - st \in 0 .. 2 /\ ((st + (3 - st) - 1) % 3) + 1 = 3
    OBVIOUS
  <2>2. Put(0, StatusLines[3], pad)
    BY <1>3 DEF Put, StatusLines
  <2>3. 3 - st \in fits
    BY <2>1, <2>2
  <2> QED
    BY <2>3
<1> HIDE DEF fits
<1>4. fits # {} => ((st + Least(fits) - 1) % 3) + 1 \in 1 .. 3
  BY <1>1
<1> QED
  BY <1>2, <1>3, <1>4

\* A SIP head declares the rest of the datagram as its body.
LEMMA SipFramed ==
  ASSUME NEW pad \in Nat, NEW total \in 0 .. MaxDatagram, pad <= total,
         NEW st \in 1 .. 3, NEW host \in Nat
  PROVE  LET m    == SipPadding(pad, total, st, host, 5, 6)
             full == StatusLines[StatusOf(st, pad)] + Sum(Mandatory(host, 5, 6))
         IN /\ pad >= 18 => m.lines >= 1
            /\ m.declared # Blank => m.head <= pad /\ m.head + m.declared = total
            /\ m.lines = 6 /\ full + 15 + 2 + Digits(total) + 4 <= pad => m.declared # Blank
<1> DEFINE status == StatusOf(st, pad)
           lines  == Mandatory(host, 5, 6)
           start  == StatusLines[status]
           n      == Fitting(start, lines, pad)
           pos    == start + Sum(SubSeq(lines, 1, n))
           ws     == IF n = Len(lines) THEN Widths(pos, pad, total) ELSE {}
           w      == FirstWidth(ws)
           end    == pos + 15 + w[1] + w[2] + 4
           m      == SipPadding(pad, total, st, host, 5, 6)
<1>1. status \in 0 .. 3 /\ (pad >= 18 => status # 0)
  BY StatusFits
<1>2. lines \in Seq(Nat) /\ Len(lines) = 5
  BY DEF Mandatory
<1>3. m = IF status = 0
          THEN [lines |-> 0, declared |-> Blank, head |-> pad]
          ELSE IF ws = {}
          THEN [lines |-> 1 + n, declared |-> Blank, head |-> pos + 2]
          ELSE [lines |-> 1 + n, declared |-> total - end, head |-> end]
  BY DEF SipPadding
<1> HIDE DEF m, status, lines
<1>4. CASE status = 0
  <2>1. m.lines = 0 /\ m.declared = Blank
    BY <1>3, <1>4
  <2> QED
    BY <1>1, <1>4, <2>1 DEF m
<1>5. CASE status # 0
  <2>1. start \in Nat
    BY <1>1, <1>5 DEF StatusLines
  <2> HIDE DEF start
  <2>2. n \in 0 .. 5 /\ pos \in Nat
    BY <1>2, <2>1, HeadersFit
  <2>2a. n = 5 => pos = start + Sum(lines)
    BY <1>2, SumOfPrefix
  <2> HIDE DEF n, pos
  <2>3. CASE ws = {}
    <3>1. m.lines = 1 + n /\ m.declared = Blank
      BY <1>3, <1>5, <2>3
    <3>2. ASSUME m.lines = 6, start + Sum(lines) + 15 + 2 + Digits(total) + 4 <= pad
          PROVE  FALSE
      <4>1. n = 5 /\ n = Len(lines)
        BY <1>2, <2>2, <3>1, <3>2
      <4>2. pos + 15 + 2 + Digits(total) + 4 <= pad
        BY <2>2a, <3>2, <4>1
      <4>3. Widths(pos, pad, total) # {}
        BY <2>2, <4>2, WidthThere
      <4> QED
        BY <2>3, <4>1, <4>3
    <3> QED
      BY <2>2, <3>1, <3>2 DEF m, start, status, lines
  <2>4. CASE ws # {}
    <3>1. ws = Widths(pos, pad, total)
      BY <2>4
    <3>2. w \in ws
      BY <2>2, <2>4, <3>1, FirstWidthIn
    <3> HIDE DEF w
    <3>2a. Digits(total) \in 1 .. 5
      BY DigitsAre
    <3>3. w[1] \in Nat /\ w[2] \in Nat /\ end <= pad
      BY <3>1, <3>2, <3>2a DEF Widths, Spaces
    <3>4. end \in Nat
      BY <2>2, <3>3
    <3> HIDE DEF end, ws
    <3>5. m = [lines |-> 1 + n, declared |-> total - end, head |-> end]
      BY <1>3, <1>5, <2>4
    <3>6. m.lines = 1 + n /\ m.declared = total - end /\ m.head = end
      BY <3>5
    <3>7. m.declared \in Int /\ Blank \notin Int
      BY <3>4, <3>6, ParamsAssumption
    <3>8. m.lines >= 1 /\ m.head <= pad /\ m.head + m.declared = total /\ m.declared # Blank
      BY <2>2, <3>3, <3>4, <3>6, <3>7
    <3> QED
      BY <3>8 DEF m
  <2> QED
    BY <2>3, <2>4
<1> QED
  BY <1>4, <1>5

\* apply_dns_padding, apply_stun_padding and apply_sip_padding write messages
\* that parse, for every padding, payload, name and host: in particular a
\* Content-Length is declared, and is right, whenever the headers and the longer
\* form of its line fit (transform.rs:710-713).
THEOREM FramedEver ==
  ASSUME sample.of \in {"dns", "stun", "sip"} => PadInput(sample)
  PROVE  Framed
<1>1. ASSUME sample.of = "dns"
      PROVE  sample.pad \in Nat /\ sample.total \in Nat /\ sample.pad <= sample.total
             /\ sample.name \in Nat \union {Blank}
  BY <1>1 DEF PadInput
<1>2. ASSUME sample.of = "stun" PROVE sample.pad \in Nat
  BY <1>2 DEF PadInput
<1>3. ASSUME sample.of = "sip"
      PROVE  sample.pad \in Nat /\ sample.total \in 0 .. MaxDatagram /\ sample.pad <= sample.total
             /\ sample.st \in 1 .. 3 /\ sample.host \in Nat
  <2>1. /\ sample.pad \in Nat /\ sample.total \in Nat /\ sample.pad <= sample.total
        /\ sample.total <= MaxDatagram /\ sample.st \in 1 .. 3 /\ sample.host \in Nat
    BY <1>3 DEF PadInput
  <2>2. MaxDatagram \in Nat
    BY DEF MaxDatagram
  <2> QED
    BY <2>1, <2>2
<1>4. CASE sample.of = "dns"
  BY <1>1, <1>4, DnsFramed DEF Framed
<1>5. CASE sample.of = "stun"
  BY <1>2, <1>5, StunFramed DEF Framed
<1>6. CASE sample.of = "sip"
  BY <1>3, <1>6, SipFramed DEF Framed
<1>7. CASE sample.of \notin {"dns", "stun", "sip"}
  BY <1>7 DEF Framed
<1> QED
  BY <1>4, <1>5, <1>6, <1>7

-----------------------------------------------------------------------------
(***************************************************************************)
(* The answers.                                                            *)
(***************************************************************************)
\* A datagram, by the protocol its first bytes suggest.
Datagram(d) ==
  /\ d.len \in Nat
  /\ d.view = "quic" => d.dcid \in Nat /\ d.scid \in Nat
  /\ d.view = "stun" => d.attrs \in Nat
  /\ d.view = "dns" => d.labels \in Seq(Nat) /\ d.qd \in Nat
  /\ d.view = "sip" => d.lines \in Seq(Nat)

\* A name that is accepted has 255 bytes at most.
LEMMA NameFacts ==
  ASSUME NEW labels \in Seq(Nat)
  PROVE  /\ NameLen(labels) \in Nat /\ NameLen(labels) >= 1
         /\ NameAccepted(labels) => NameLen(labels) <= 255
BY SumNat DEF NameLen, NameAccepted

\* The 100 Trying that repeats the header lines stops before it is too long.
LEMMA TryingFits ==
  ASSUME NEW lens \in Seq(Nat)
  PROVE  Trying(lens) <= MaxResponse
<1> DEFINE end(n) == StatusLen["trying"] + 2 + Lines(SubSeq(lens, 1, n))
           Q == {k \in 0 .. Len(lens) : k = Len(lens) \/ end(k + 1) + Closing > MaxResponse}
           n == Least(Q)
<1>1. Trying(lens) = end(n) + Closing
  BY DEF Trying
<1>2. Len(lens) \in Nat
  OBVIOUS
<1>3. \A k \in 0 .. Len(lens) : Sum(SubSeq(lens, 1, k)) \in Nat /\ Len(SubSeq(lens, 1, k)) = k
  BY SumOfPrefix
<1>4. \A k \in 0 .. Len(lens) : end(k) \in Nat
  BY <1>3 DEF Lines, StatusLen
<1>5. end(0) = 20
  <2>1. Sum(SubSeq(lens, 1, 0)) = 0
    BY SumOfPrefix
  <2> QED
    BY <1>2, <1>3, <2>1 DEF Lines, StatusLen
<1> HIDE DEF end
<1>6. Q \in SUBSET Nat /\ Len(lens) \in Q
  BY <1>2
<1>7. n \in Q /\ \A k \in Q : n <= k
  BY <1>6, LeastOf
<1> HIDE DEF n
<1>8. end(n) + Closing <= MaxResponse
  <2>1. CASE n = 0
    BY <1>5, <2>1 DEF Closing, MaxResponse
  <2>2. CASE n # 0
    <3>1. n - 1 \in 0 .. Len(lens) /\ n - 1 # Len(lens) /\ n \in 0 .. Len(lens) /\ (n - 1) + 1 = n
      BY <1>2, <1>7, <2>2
    <3>2. n - 1 \notin Q
      <4>1. n \in Nat /\ ~ (n <= n - 1)
        BY <1>2, <3>1
      <4> HIDE DEF Q
      <4> QED
        BY <1>7, <4>1
    <3>3. ~ (end(n) + Closing > MaxResponse)
      BY <3>1, <3>2
    <3> QED
      BY <1>4, <3>1, <3>3 DEF Closing, MaxResponse
  <2> QED
    BY <2>1, <2>2
<1> QED
  BY <1>1, <1>8 DEF n

\* The fields of an answer.
LEMMA AnswerFields ==
  ASSUME NEW x, NEW t, NEW n, x = [echoes |-> t, len |-> n]
  PROVE  x.echoes = t /\ x.len = n
OBVIOUS

\* Whatever is detected is answered, in the buffer.
LEMMA ProbeAnswered ==
  ASSUME NEW d, Datagram(d), Detect(d) # "none"
  PROVE  Answer(d, FALSE).echoes /\ Answer(d, FALSE).len <= MaxResponse
<1>1. CASE LooksQuic(d)
  <2>1. Answer(d, FALSE) = VersionNegotiation(d)
    BY <1>1 DEF Answer, Detect
  <2>2. /\ d.len \in Nat /\ d.dcid \in Nat /\ d.scid \in Nat /\ d.len >= 7
        /\ d.dcid <= MaxCid /\ d.len > 6 + d.dcid
        /\ d.scid <= MaxCid /\ d.len >= 7 + d.dcid + d.scid
    BY <1>1 DEF LooksQuic, Datagram
  <2>3. d.len >= 6
    BY <2>2
  <2>4. VersionNegotiation(d) = [echoes |-> TRUE, len |-> 11 + (d.dcid + d.scid)]
    BY <2>2, <2>3, Zenon DEF VersionNegotiation
  <2>5. 11 + (d.dcid + d.scid) <= MaxResponse
    BY <2>2 DEF MaxCid, MaxResponse
  <2>6. Answer(d, FALSE).echoes = TRUE /\ Answer(d, FALSE).len = 11 + (d.dcid + d.scid)
    BY <2>1, <2>4, AnswerFields, Zenon
  <2> QED
    BY <2>5, <2>6
<1>2. CASE LooksStun(d) /\ ~ LooksQuic(d)
  <2>1. Answer(d, FALSE) = BindingSuccess(d, FALSE)
    BY <1>2 DEF Answer, Detect
  <2>2. d.len >= 20
    BY <1>2 DEF LooksStun
  <2> DEFINE n == 20 + 4 + (IF FALSE THEN 20 ELSE 8)
  <2>3. BindingSuccess(d, FALSE) = [echoes |-> TRUE, len |-> n]
    BY <2>2, Zenon DEF BindingSuccess
  <2>5. n <= MaxResponse
    BY DEF MaxResponse
  <2> HIDE DEF n
  <2>4. Answer(d, FALSE).echoes = TRUE /\ Answer(d, FALSE).len = n
    BY <2>1, <2>3, AnswerFields, Zenon
  <2> QED
    BY <2>4, <2>5, Zenon
<1>3. CASE LooksDns(d) /\ ~ LooksQuic(d) /\ ~ LooksStun(d)
  <2>1. Answer(d, FALSE) = Servfail(d)
    BY <1>3 DEF Answer, Detect
  <2>2. d.labels \in Seq(Nat) /\ NameAccepted(d.labels) /\ d.len \in Nat
        /\ d.len >= HeaderLen + NameLen(d.labels) + 4
    BY <1>3 DEF LooksDns, Datagram
  <2>3. NameLen(d.labels) \in Nat /\ NameLen(d.labels) >= 1 /\ NameLen(d.labels) <= 255
    BY <2>2, NameFacts
  <2> DEFINE end == HeaderLen + NameLen(d.labels) + 4
  <2>4. end \in Nat /\ d.len > HeaderLen /\ end <= d.len /\ end <= MaxResponse
    BY <2>2, <2>3 DEF HeaderLen, MaxResponse
  <2>5. Servfail(d) = [echoes |-> TRUE, len |-> end]
    BY <2>2, <2>4, Zenon DEF Servfail
  <2> HIDE DEF end
  <2>6. Answer(d, FALSE).echoes = TRUE /\ Answer(d, FALSE).len = end
    BY <2>1, <2>5, AnswerFields, Zenon
  <2> QED
    BY <2>4, <2>6
<1>4. CASE LooksSip(d) /\ ~ LooksQuic(d) /\ ~ LooksStun(d) /\ ~ LooksDns(d)
  <2>1. Answer(d, FALSE) = [echoes |-> TRUE, len |-> Trying(d.lines)]
    BY <1>4 DEF Answer, Detect
  <2>2. d.lines \in Seq(Nat)
    BY <1>4 DEF LooksSip, Datagram
  <2>3. Trying(d.lines) <= MaxResponse
    BY <2>2, TryingFits
  <2>4. Answer(d, FALSE).echoes = TRUE /\ Answer(d, FALSE).len = Trying(d.lines)
    BY <2>1, AnswerFields, Zenon
  <2> QED
    BY <2>3, <2>4
<1> QED
  BY <1>1, <1>2, <1>3, <1>4 DEF Detect

\* A name kept for the cover traffic comes from a query that is answered.
LEMMA EchoAnswered ==
  ASSUME NEW d, Datagram(d), EchoOf(d) # Blank, d.qd = 1
  PROVE  Detect(d) = "dns"
<1>1. /\ d.view = "dns" /\ d.len >= HeaderLen /\ d.query /\ NameAccepted(d.labels)
      /\ d.len >= HeaderLen + NameLen(d.labels) + 4 /\ d.class = 1
  BY DEF EchoOf
<1>2. LooksDns(d)
  BY <1>1 DEF LooksDns
<1>3. ~ LooksQuic(d) /\ ~ LooksStun(d)
  BY <1>1 DEF LooksQuic, LooksStun
<1> QED
  BY <1>2, <1>3 DEF Detect

\* No answer of a dialog outgrows its buffer, whatever later request of the
\* call has updated its headers.
LEMMA RepliesFit ==
  ASSUME NEW r, NEW later, Opens(r)
  PROVE  LET d == DialogOf(r)
         IN \A n \in Replies(d) \union Replies(UpdatedBy(d, later)) : n <= MaxResponse
<1> DEFINE d == DialogOf(r)
           e == UpdatedBy(d, later)
<1>1. Fits(d)
  BY DEF Opens
<1>2. d = [via |-> r.via, inviteVia |-> r.via, from |-> r.from, to |-> r.to,
           tagged |-> r.tagged, callId |-> r.callId, cseq |-> r.cseq, inviteCseq |-> r.cseq]
  BY DEF DialogOf
<1>2a. d.inviteVia = d.via /\ d.inviteCseq = d.cseq /\ d = [x \in DOMAIN d |-> d[x]]
       /\ DOMAIN d = {"via", "inviteVia", "from", "to", "tagged", "callId", "cseq", "inviteCseq"}
  BY <1>2
<1> HIDE DEF d
<1>3. ASSUME NEW v, NEW s
      PROVE  LET c == [d EXCEPT !.via = v, !.cseq = s]
             IN [c EXCEPT !.via = c.inviteVia, !.cseq = c.inviteCseq] = d
  <2> DEFINE c == [d EXCEPT !.via = v, !.cseq = s]
             b == [c EXCEPT !.via = c.inviteVia, !.cseq = c.inviteCseq]
  <2>1. DOMAIN c = DOMAIN d /\ c.inviteVia = d.via /\ c.inviteCseq = d.cseq
        /\ \A x \in DOMAIN d : x \notin {"via", "cseq"} => c[x] = d[x]
    BY <1>2a
  <2> HIDE DEF c
  <2>2. DOMAIN b = DOMAIN d /\ b = [x \in DOMAIN b |-> b[x]] /\ \A x \in DOMAIN d : b[x] = d[x]
    BY <1>2a, <2>1
  <2> HIDE DEF b
  <2>3. b = d
    BY <1>2a, <2>2
  <2> QED
    BY <2>3 DEF b, c
<1>3a. [d EXCEPT !.via = d.inviteVia, !.cseq = d.inviteCseq] = d
  <2> DEFINE b == [d EXCEPT !.via = d.inviteVia, !.cseq = d.inviteCseq]
  <2>2. DOMAIN b = DOMAIN d /\ b = [x \in DOMAIN b |-> b[x]] /\ \A x \in DOMAIN d : b[x] = d[x]
    BY <1>2a
  <2> HIDE DEF b
  <2>3. b = d
    BY <1>2a, <2>2
  <2> QED
    BY <2>3 DEF b
<1>4. Fits(e) /\ [e EXCEPT !.via = e.inviteVia, !.cseq = e.inviteCseq] = d
  <2>1. CASE e = d
    <3> HIDE DEF e
    <3> QED
      BY <1>1, <1>3a, <2>1
  <2>2. CASE e # d
    <3> DEFINE v == IF later.via = <<>> THEN d.via ELSE later.via
               s == IF later.cseq = 0 THEN d.cseq ELSE later.cseq
               c == [d EXCEPT !.via = v, !.cseq = s]
    <3>1. e = c /\ Fits(c)
      BY <2>2 DEF UpdatedBy
    <3> HIDE DEF v, s, e
    <3>2. [c EXCEPT !.via = c.inviteVia, !.cseq = c.inviteCseq] = d
      BY <1>3
    <3> HIDE DEF c
    <3> QED
      BY <3>1, <3>2
  <2> QED
    BY <2>1, <2>2
<1>5. DOMAIN StatusLen = {"trying", "ringing", "ok", "terminated"}
  BY DEF StatusLen
<1>6. \A n \in Replies(d) : n <= MaxResponse
  BY <1>1, <1>3a, <1>5 DEF Replies, Fits
<1>7. \A n \in Replies(e) : n <= MaxResponse
  BY <1>1, <1>4, <1>5 DEF Replies, Fits
<1> QED
  BY <1>6, <1>7 DEF d

\* generate_response_for_client answers every probe detect_protocol recognises
\* with its own identity; a name parse_dns_query_echo_ref keeps is one of a query
\* answered as such; and no SIP answer outgrows the buffer it is reflected in,
\* for header lines of every number and length and every later request of the
\* call.
THEOREM AnswersFitEver ==
  ASSUME sample.of = "probe" => Datagram(sample.d)
  PROVE  AnswersFit
BY ProbeAnswered, EchoAnswered, RepliesFit DEF AnswersFit

-----------------------------------------------------------------------------
(***************************************************************************)
(* The samples.                                                            *)
(***************************************************************************)
\* The inputs the theorems are about.
Inputs ==
  /\ sample.of = "params" => sample.p \in Params
  /\ sample.of = "packet" => Genuine(sample)
  /\ sample.of \in {"dns", "stun", "sip"} => PadInput(sample)
  /\ sample.of = "probe" => Datagram(sample.d)

\* The init specs of the samples.
LEMMA SpecsFact == {Spec1, Spec2} \subseteq InitSpecs
<1> DEFINE R == [tag : Tag, n : Int \union {Blank}]
           r == [tag |-> "r", n |-> 2]
           b == [tag |-> "b", n |-> 96]
           c == [tag |-> "r", n |-> 1001]
<1>1. "r" \in Tag /\ "b" \in Tag
  BY DEF Tag
<1>2. r \in R /\ b \in R /\ c \in R
  BY <1>1
<1> HIDE DEF R, r, b, c
<1>3. <<r, b>> \in Seq(R) /\ <<c>> \in Seq(R)
  BY <1>2
<1>4. \A q \in Seq(R) : <<q>> \in Seq(Seq(R))
  OBVIOUS
<1>5. <<<<r, b>>>> \in Seq(Seq(R)) /\ <<<<c>>>> \in Seq(Seq(R))
  BY <1>3, <1>4
<1>6. Spec1 = <<<<r, b>>>> /\ Spec2 = <<<<c>>>>
  BY DEF Spec1, Spec2, r, b, c
<1> QED
  BY <1>5, <1>6 DEF InitSpecs, R

\* The samples of parameters are parameters.
LEMMA ParamSampleFits ==
  ASSUME sample \in ParamSamples \/ sample \in BodySamples
  PROVE  sample.of = "params" /\ sample.p \in Params
<1>1. CASE sample \in ParamSamples
  <2>1. \A S \in Splits : Windows(S) \in [Kind -> [lo : Int, hi : Int]]
    <3>1. ASSUME NEW S \in Splits PROVE Windows(S) \in [Kind -> [lo : Int, hi : Int]]
      <4>1. \A k \in Kind : Windows(S)[k] \in [lo : Int, hi : Int]
        BY WindowsApart
      <4>2. Windows(S) = [k \in Kind |-> Windows(S)[k]]
        BY DEF Windows
      <4> QED
        BY <4>1, <4>2
    <3> QED
      BY <3>1
  <2>2. /\ {4, 12} \subseteq Int /\ {8, 80} \subseteq Int /\ {9, 81, 1279, 1280} \subseteq Int
        /\ {f \in [Kind -> {14, 15, 71, 94, 150}] : f[3] <= f[4]} \subseteq [Kind -> Int \union {Blank}]
    OBVIOUS
  <2>3. {Windows(S) : S \in Splits} \subseteq [Kind -> [lo : Int, hi : Int]]
    BY <2>1
  <2> QED
    BY <1>1, <2>2, <2>3, SpecsFact DEF ParamSamples, Params
<1>2. CASE sample \in BodySamples
  <2>1. {<<15, 15, 15, 15>>} \subseteq [Kind -> Int \union {Blank}]
    BY DEF Kind
  <2>2. [Kind -> [lo : 1 .. 4, hi : 2 .. 4]] \subseteq [Kind -> [lo : Int, hi : Int]]
    OBVIOUS
  <2>3. /\ {0, 4} \subseteq Int /\ {8} \subseteq Int /\ {8, 80} \subseteq Int
    OBVIOUS
  <2> QED
    BY <1>2, <2>1, <2>2, <2>3, SpecsFact DEF BodySamples, Params
<1> QED
  BY <1>1, <1>2

\* The sample packets are a peer's.
LEMMA PacketSampleFits ==
  ASSUME PacketSample
  PROVE  sample.of = "packet" /\ Genuine(sample)
<1>1. PICK k \in Kind, s \in [Kind -> SValues], n \in DataSize, other \in 0 .. 4 :
         /\ k # 4 => n = 32
         /\ sample =
              [of |-> "packet", kind |-> k,
               p |-> [jc |-> 4, jmin |-> 8, jmax |-> 80, s |-> s, h |-> FixedH, i |-> Spec1],
               pkt |-> [len |-> GenuineLen(s, k, n),
                        word |-> [o \in SValues |-> IF o = s[k] THEN 3 * k ELSE 3 * other]]]
  BY DEF PacketSample
<1> DEFINE w == [o \in SValues |-> IF o = s[k] THEN 3 * k ELSE 3 * other]
           p == [jc |-> 4, jmin |-> 8, jmax |-> 80, s |-> s, h |-> FixedH, i |-> Spec1]
<1>2. s[k] \in SValues /\ w[s[k]] = 3 * k
  OBVIOUS
<1>3. FixedH \in [Kind -> [lo : Int, hi : Int]]
      /\ FixedH[k].lo = 3 * k /\ FixedH[k].hi = 3 * k + 1
  BY DEF FixedH, Kind
<1>4. s \in [Kind -> Nat] /\ s \in [Kind -> Int \union {Blank}]
  BY DEF SValues
<1>5. p \in Params
  BY <1>3, <1>4, SpecsFact DEF Params
<1>6. n \in Nat /\ n >= MinData
  BY DEF DataSize, MinData
<1>7. 3 * k \in FixedH[k].lo .. FixedH[k].hi
  BY <1>3 DEF Kind
<1> HIDE DEF w, p
<1>8. sample = [of |-> "packet", kind |-> k, p |-> p,
                pkt |-> [len |-> GenuineLen(s, k, n), word |-> w]]
  BY <1>1 DEF w, p
<1>9. p.s = s /\ p.h = FixedH
  BY DEF p
<1>10. /\ sample.of = "packet" /\ sample.kind = k /\ sample.p = p
       /\ sample.pkt.len = GenuineLen(s, k, n) /\ sample.pkt.word = w
  BY <1>8
<1> QED
  BY <1>2, <1>4, <1>5, <1>6, <1>7, <1>9, <1>10 DEF Genuine

\* The sample paddings are parts of datagrams.
LEMMA PadSampleFits ==
  ASSUME PadSample
  PROVE  sample.of \in {"dns", "stun", "sip"} /\ PadInput(sample)
<1> DEFINE Done == sample.of \in {"dns", "stun", "sip"} /\ PadInput(sample)
           Dns(pad, payload, name) ==
             sample = [of |-> "dns", pad |-> pad, total |-> pad + payload, name |-> name]
           Stun(pad) == sample = [of |-> "stun", pad |-> pad]
           Sip(pad, payload, st, host) ==
             sample = [of |-> "sip", pad |-> pad, total |-> pad + payload, st |-> st, host |-> host]
<1>1. ASSUME NEW pad \in 1 .. 70, NEW payload \in {32, 92, 1400},
             NEW name \in {Blank, 1, 12, 13, 14, 38, 39, 255}, Dns(pad, payload, name)
      PROVE  Done
  BY <1>1 DEF PadInput
<1>2. ASSUME NEW pad \in 1 .. 200, Stun(pad)
      PROVE  Done
  BY <1>2 DEF PadInput
<1>3. ASSUME NEW pad \in 15 .. 24 \union 215 .. 262,
             NEW payload \in 32 .. 36 \union 76 .. 90 \union 970 .. 984,
             NEW st \in 1 .. 3, NEW host \in {7, 14}, Sip(pad, payload, st, host)
      PROVE  Done
  BY <1>3 DEF PadInput, MaxDatagram
<1>4. \/ \E pad \in 1 .. 70, payload \in {32, 92, 1400},
            name \in {Blank, 1, 12, 13, 14, 38, 39, 255} : Dns(pad, payload, name)
      \/ \E pad \in 1 .. 200 : Stun(pad)
      \/ \E pad \in 15 .. 24 \union 215 .. 262,
            payload \in 32 .. 36 \union 76 .. 90 \union 970 .. 984,
            st \in 1 .. 3, host \in {7, 14} : Sip(pad, payload, st, host)
  BY Zenon DEF PadSample
<1> HIDE DEF Dns, Stun, Sip, Done
<1>5. Done
  BY ONLY <1>1, <1>2, <1>3, <1>4, SMT
<1> QED
  BY <1>5 DEF Done

\* The sample probes are datagrams.
LEMMA ProbeSampleFits ==
  ASSUME ProbeSample \/ ReplySample
  PROVE  /\ sample.of \in {"probe", "reply"}
         /\ sample.of = "probe" => Datagram(sample.d)
<1> DEFINE Done == /\ sample.of \in {"probe", "reply"}
                   /\ sample.of = "probe" => Datagram(sample.d)
           Quic(len, dcid, scid, v) ==
             sample = [of |-> "probe", d |-> [view |-> "quic", len |-> len, version |-> v,
                                               dcid |-> dcid, scid |-> scid]]
           Stun(len, attrs, r) ==
             sample = [of |-> "probe", d |-> [view |-> "stun", len |-> len, request |-> r,
                                               attrs |-> attrs]]
           Dns(labels, more, qd, class, q) ==
             sample = [of |-> "probe", d |-> [view |-> "dns",
                                               len |-> HeaderLen + NameLen(labels) + more,
                                               query |-> q, qd |-> qd, labels |-> labels,
                                               class |-> class]]
           Sip(a, b, c) ==
             sample = [of |-> "probe", d |-> [view |-> "sip", len |-> 60, method |-> TRUE,
                                               lines |-> <<a, b, c>>]]
           Reply(r1, r2) == sample = [of |-> "reply", first |-> r1, second |-> r2]
           Some == {10, 100, 180, 181, 182, 300}
           Names == {<<>>, <<63>>, <<64>>, <<3, 3>>, <<63, 63, 63, 61>>, <<63, 63, 63, 62>>}
<1>1. ASSUME NEW len \in {6, 7, 8, 27, 28, 47, 48, 1200}, NEW dcid \in {0, 1, 20, 21},
             NEW scid \in {0, 1, 20, 21}, NEW v \in BOOLEAN, Quic(len, dcid, scid, v)
      PROVE  Done
  BY <1>1 DEF Datagram
<1>2. ASSUME NEW len \in {19, 20, 22, 24}, NEW attrs \in {0, 2, 4}, NEW r \in BOOLEAN,
             Stun(len, attrs, r)
      PROVE  Done
  BY <1>2 DEF Datagram
<1>3. ASSUME NEW labels \in Names, NEW more \in {-5, 3, 4, 5}, NEW qd \in 0 .. 2,
             NEW class \in {1, 3, 255, 7}, NEW q \in BOOLEAN, Dns(labels, more, qd, class, q)
      PROVE  Done
  <2>1. labels \in Seq(Nat)
    <3>1. <<>> \in Seq(Nat) /\ \A a \in Nat : <<a>> \in Seq(Nat)
      OBVIOUS
    <3>2. \A a, b \in Nat : <<a, b>> \in Seq(Nat)
      OBVIOUS
    <3>3. \A a, b, c, d \in Nat : <<a, b, c, d>> \in Seq(Nat)
      OBVIOUS
    <3>4. \/ labels = <<>> \/ labels = <<63>> \/ labels = <<64>> \/ labels = <<3, 3>>
          \/ labels = <<63, 63, 63, 61>> \/ labels = <<63, 63, 63, 62>>
      BY Zenon
    <3>5. CASE labels = <<3, 3>>
      BY <3>2, <3>5
    <3>6. CASE labels = <<63, 63, 63, 61>>
      BY <3>3, <3>6
    <3>7. CASE labels = <<63, 63, 63, 62>>
      BY <3>3, <3>7
    <3>8. CASE labels = <<>> \/ labels = <<63>> \/ labels = <<64>>
      BY <3>1, <3>8
    <3> QED
      BY <3>4, <3>5, <3>6, <3>7, <3>8
  <2>2. NameLen(labels) \in Nat /\ NameLen(labels) >= 1
    BY <2>1, NameFacts
  <2>3. HeaderLen + NameLen(labels) + more \in Nat
    BY <2>2 DEF HeaderLen
  <2> HIDE DEF Names
  <2> QED
    BY <1>3, <2>1, <2>3 DEF Datagram
<1>4. ASSUME NEW a \in Some, NEW b \in Some, NEW c \in Some, Sip(a, b, c)
      PROVE  Done
  <2>1. /\ sample.of = "probe" /\ sample.d.view = "sip" /\ sample.d.len = 60
        /\ sample.d.lines = <<a, b, c>>
    BY <1>4
  <2>2. a \in Nat /\ b \in Nat /\ c \in Nat
    OBVIOUS
  <2>3. \A x, y, z \in Nat : <<x, y, z>> \in Seq(Nat)
    OBVIOUS
  <2> QED
    BY <2>1, <2>2, <2>3 DEF Datagram
<1>5. ASSUME NEW r1 \in Requests, NEW r2 \in Requests, Reply(r1, r2)
      PROVE  Done
  BY <1>5
<1>6. ProbeSample =>
        \/ \E len \in {6, 7, 8, 27, 28, 47, 48, 1200}, dcid, scid \in {0, 1, 20, 21},
              v \in BOOLEAN : Quic(len, dcid, scid, v)
        \/ \E len \in {19, 20, 22, 24}, attrs \in {0, 2, 4}, r \in BOOLEAN : Stun(len, attrs, r)
        \/ \E labels \in Names, more \in {-5, 3, 4, 5}, qd \in 0 .. 2, class \in {1, 3, 255, 7},
              q \in BOOLEAN : Dns(labels, more, qd, class, q)
  BY Zenon DEF ProbeSample
<1>7. ReplySample => \/ \E r1, r2 \in Requests : Reply(r1, r2)
                     \/ \E a, b, c \in Some : Sip(a, b, c)
  BY DEF ReplySample
<1> HIDE DEF Quic, Stun, Dns, Sip, Reply, Some, Names, Done
<1>8. ProbeSample => Done
  BY ONLY <1>1, <1>2, <1>3, <1>6, SMT
<1>9. ReplySample => Done
  BY ONLY <1>4, <1>5, <1>7, SMT
<1>10. Done
  BY <1>8, <1>9
<1> QED
  BY <1>10 DEF Done

\* Every sample TLC draws is an input of the theorems above, so what they say of
\* generate_awg_params, classify_awg_packet, the paddings and the answers they
\* say of each state of that run.
THEOREM SamplesAreInputs == AlgSpec => []Inputs
<1>1. AlgInit => Inputs
  <2>1. CASE sample = None
    BY <2>1 DEF None, Inputs
  <2>2. CASE sample \in ParamSamples \/ sample \in BodySamples
    BY <2>2, ParamSampleFits DEF Inputs
  <2>3. CASE PacketSample
    BY <2>3, PacketSampleFits DEF Inputs
  <2>4. CASE PadSample
    BY <2>4, PadSampleFits DEF Inputs
  <2>5. CASE ProbeSample \/ ReplySample
    BY <2>5, ProbeSampleFits DEF Inputs
  <2> QED
    BY <2>1, <2>2, <2>3, <2>4, <2>5 DEF AlgInit
<1>2. Inputs /\ [AlgNext]_<<poolVars, sample>> => Inputs'
  <2> SUFFICES ASSUME Inputs, [AlgNext]_<<poolVars, sample>> PROVE Inputs'
    OBVIOUS
  <2>1. sample' = sample
    BY DEF AlgNext
  <2> QED
    BY <2>1 DEF Inputs, Genuine, PadInput, Datagram
<1> QED
  BY <1>1, <1>2, PTL DEF AlgSpec

\* The four together, of every behaviour of the specification that run checks.
THEOREM AlgorithmsEver ==
  AlgSpec => [](ImitationStaysOn /\ HandshakesToldApart /\ Framed /\ AnswersFit)
<1>1. Inputs => ImitationStaysOn
  BY ImitationStaysOnEver DEF Inputs
<1>2. Inputs => HandshakesToldApart
  BY HandshakesToldApartEver DEF Inputs
<1>3. Inputs => Framed
  BY FramedEver DEF Inputs
<1>4. Inputs => AnswersFit
  BY AnswersFitEver DEF Inputs
<1> QED
  BY <1>1, <1>2, <1>3, <1>4, SamplesAreInputs, PTL

-----------------------------------------------------------------------------
(***************************************************************************)
(* SIP dialogs.                                                            *)
(***************************************************************************)
Lives   == {"new", "ring", "ok", "done"}
IsRx(q) == {"at", "method", "call", "before"} \subseteq DOMAIN q /\ q.call \in Calls

Shape ==
  /\ dialog \in Dialog
  /\ calls \in Nat
  /\ task \in [Task -> [at : Lives, call : Calls]]
  /\ nextTask \in Nat \ {0}
  /\ IsRx(rx)

(***************************************************************************)
(* The action properties lean on what the loop cannot meet.  The entry has *)
(* the number of the last dialog at most, and the default when there is    *)
(* none; an INVITE at work never looks at a terminated dialog, which it    *)
(* would otherwise take back to Invited; and a generation that has not     *)
(* been given out has no task.                                             *)
(***************************************************************************)
Numbered == dialog.nr <= calls /\ (~Open => dialog = NoDialog)
Fresh    == rx.at \in {"build", "send"} /\ rx.method = "INVITE" /\ Open
              => dialog.stage # "Terminated"
Unborn   == \A g \in Task : g >= nextTask => task[g].at = "new"

DialogInv == Shape /\ Numbered /\ Fresh /\ Unborn

-----------------------------------------------------------------------------
\* The order of the stages.
LEMMA RankFact ==
  /\ Rank("Idle") = 1 /\ Rank("Invited") = 2 /\ Rank("Ringing") = 3
  /\ Rank("Established") = 4 /\ Rank("Terminated") = 5
BY DEF Rank, Stages

\* The five stages.
LEMMA StageFact ==
  Stage = {"Idle", "Invited", "Ringing", "Established", "Terminated"}
BY DEF Stage, Stages

\* No stage comes after Terminated, and ranks are numbers.
LEMMA RankOrder == \A s \in Stage : Rank(s) \in 1..5 /\ Rank(s) <= Rank("Terminated")
BY RankFact, StageFact

\* There is a call to put into the empty entry.
LEMMA CallFact == AnyCall \in Calls
BY SipAssumption DEF AnyCall

\* The empty entry is a dialog.
LEMMA NoDialogFact ==
  NoDialog \in Dialog /\ NoDialog.nr = 0 /\ NoDialog.stage = "Idle"
BY SipAssumption, CallFact, StageFact DEF NoDialog, Dialog, Methods

\* Nothing has arrived.
LEMMA DialogInit == Init => DialogInv
<1> SUFFICES ASSUME Init PROVE DialogInv
  OBVIOUS
<1>1. dialog \in Dialog /\ dialog.nr = 0 /\ dialog = NoDialog
  BY NoDialogFact DEF Init
<1>2. task \in [Task -> [at : Lives, call : Calls]]
  BY CallFact DEF Init, Lives
<1>3. Shape
  BY <1>1, <1>2, CallFact DEF Init, Shape, IdleRx, IsRx
<1>4. Numbered /\ Fresh /\ Unborn
  BY <1>1 DEF Init, Numbered, Fresh, Unborn, IdleRx, Open
<1> QED
  BY <1>3, <1>4 DEF DialogInv

-----------------------------------------------------------------------------
\* A dialog that an INVITE opens.
LEMMA NewDialogFact ==
  ASSUME Shape, NEW call \in Calls, calls < MaxCalls,
         NEW d, d = [nr |-> calls + 1, call |-> call, stage |-> "Idle", cseq |-> "INVITE"]
  PROVE  d \in Dialog /\ d.nr = calls + 1 /\ d.stage = "Idle"
BY SipAssumption, StageFact DEF Shape, Dialog, Methods

\* A header that is taken over leaves the rest of the entry.
LEMMA UpdatedFact ==
  ASSUME Shape, NEW method \in Methods, NEW fits \in BOOLEAN
  PROVE  LET d == Updated(method, fits)
         IN d \in Dialog /\ d.nr = dialog.nr /\ d.stage = dialog.stage /\ d.call = dialog.call
BY DEF Shape, Dialog, Updated

\* A stage that is written leaves the rest of the entry.
LEMMA StagedFact ==
  ASSUME dialog \in Dialog, NEW s \in Stage
  PROVE  LET d == [dialog EXCEPT !.stage = s]
         IN d \in Dialog /\ d.nr = dialog.nr /\ d.stage = s /\ d.call = dialog.call
BY DEF Dialog

(***************************************************************************)
(* The stage the loop writes after its answers is not before the one it    *)
(* finds: whatever the deferred task did in between, an INVITE at work     *)
(* finds no terminated dialog, and the other methods only end one.         *)
(***************************************************************************)
LEMMA StageAfterForward ==
  ASSUME DialogInv, Open, rx.at = "send"
  PROVE  /\ StageAfter(dialog.stage) \in Stage
         /\ Rank(StageAfter(dialog.stage)) >= Rank(dialog.stage)
         /\ rx.method = "INVITE" => StageAfter(dialog.stage) # "Terminated"
<1> DEFINE s == dialog.stage
<1>1. s \in Stage
  BY DEF DialogInv, Shape, Dialog
<1>2. CASE rx.method = "INVITE"
  <2>1. s # "Terminated"
    BY <1>2 DEF DialogInv, Fresh
  <2>2. \/ StageAfter(s) = s
        \/ StageAfter(s) = "Invited" /\ s = "Idle"
        \/ StageAfter(s) = "Ringing" /\ s = "Invited"
    BY <1>2, <2>1 DEF StageAfter
  <2> QED
    BY <1>1, <2>1, <2>2, RankFact, RankOrder, StageFact
<1>3. CASE rx.method # "INVITE"
  <2>1. StageAfter(s) = s \/ StageAfter(s) = "Terminated"
    BY <1>3 DEF StageAfter, NextStage
  <2> QED
    BY <1>1, <1>3, <2>1, RankFact, RankOrder, StageFact
<1> QED
  BY <1>2, <1>3

-----------------------------------------------------------------------------
(***************************************************************************)
(* The steps, each with the invariant and the two action properties.       *)
(***************************************************************************)
Forward == dialog'.nr = dialog.nr => Rank(dialog'.stage) >= Rank(dialog.stage)
Own     == \A g \in Task : task[g].at \in {"ring", "ok"} /\ task'[g] # task[g] =>
             dialog'.stage = dialog.stage \/ dialog.call = task[g].call

\* A step that leaves the entry alone and starts no task.
LEMMA QuietKeeps ==
  ASSUME DialogInv, UNCHANGED <<dialog, calls, nextTask>>,
         task' \in [Task -> [at : Lives, call : Calls]],
         \A g \in Task : task[g].at = "new" => task'[g] = task[g],
         IsRx(rx'),
         rx'.at \in {"build", "send"} => rx.at \in {"build", "send"} /\ rx'.method = rx.method
  PROVE  DialogInv' /\ Forward /\ Own
<1>1. Shape' /\ Numbered' /\ Unborn'
  BY DEF DialogInv, Shape, Numbered, Unborn, Open
<1>2. Fresh'
  BY DEF DialogInv, Fresh, Open
<1>3. Forward
  BY RankOrder DEF DialogInv, Shape, Dialog, Forward
<1>4. Own
  BY DEF Own
<1> QED
  BY <1>1, <1>2, <1>3, <1>4 DEF DialogInv

\* A step that empties the entry, and touches nothing else of it.
LEMMA ForgetKeeps ==
  ASSUME DialogInv, dialog' = NoDialog, UNCHANGED <<rx, task, calls, nextTask>>
  PROVE  DialogInv' /\ Forward /\ Own
<1>1. Shape' /\ Unborn'
  BY NoDialogFact DEF DialogInv, Shape, Unborn
<1>2. Numbered' /\ Fresh'
  BY NoDialogFact DEF DialogInv, Shape, Numbered, Fresh, Open
<1>3. Forward
  <2> SUFFICES ASSUME dialog.nr = 0 PROVE Rank(dialog'.stage) >= Rank(dialog.stage)
    BY NoDialogFact DEF Forward
  <2>1. dialog = NoDialog
    BY DEF DialogInv, Numbered, Open
  <2> QED
    BY <2>1, NoDialogFact, RankFact
<1>4. Own
  BY DEF Own
<1> QED
  BY <1>1, <1>2, <1>3, <1>4 DEF DialogInv

\* An INVITE opens a dialog of the next number, or is a retransmission within
\* one that has not ended.
LEMMA InviteKeeps ==
  ASSUME DialogInv, NEW call \in Calls, NEW fits \in BOOLEAN, Invite(call, fits)
  PROVE  DialogInv' /\ Forward /\ Own
<1> DEFINE new == ~Open \/ dialog.stage \in {"Idle", "Terminated"} \/ dialog.call # call
<1>1. /\ UNCHANGED <<task, nextTask>> /\ calls < MaxCalls
      /\ rx' = [IdleRx EXCEPT !.at = "build", !.method = "INVITE", !.call = call, !.fresh = new]
  BY DEF Invite
<1>2. IsRx(rx')
  BY <1>1 DEF IdleRx, IsRx
<1>3. Own
  BY <1>1 DEF Own
<1>4. CASE new
  <2>1. dialog' = [nr |-> calls + 1, call |-> call, stage |-> "Idle", cseq |-> "INVITE"]
    BY <1>4 DEF Invite
  <2>2. calls' = calls + 1
    BY <1>4 DEF Invite
  <2>3. dialog' \in Dialog /\ dialog'.nr = calls + 1 /\ dialog'.stage = "Idle"
    BY <2>1, <1>1, NewDialogFact DEF DialogInv
  <2>4. calls \in Nat /\ dialog.nr <= calls /\ dialog.nr \in Nat
    BY SipAssumption DEF DialogInv, Shape, Numbered, Dialog
  <2>5. Shape' /\ Unborn'
    BY <1>1, <1>2, <2>2, <2>3, <2>4 DEF DialogInv, Shape, Unborn
  <2>6. Numbered' /\ Fresh'
    BY <2>2, <2>3, <2>4 DEF Numbered, Fresh, Open
  <2>7. Forward
    BY <2>3, <2>4 DEF Forward
  <2> QED
    BY <1>3, <2>5, <2>6, <2>7 DEF DialogInv
<1>5. CASE ~new
  <2>1. dialog' = Updated("INVITE", fits)
    BY <1>5 DEF Invite
  <2>2. calls' = calls
    BY <1>5 DEF Invite
  <2>3. "INVITE" \in Methods /\ Shape
    BY DEF Methods, DialogInv
  <2>4. dialog' \in Dialog /\ dialog'.nr = dialog.nr /\ dialog'.stage = dialog.stage
    BY <2>1, <2>3, UpdatedFact
  <2>5. Shape' /\ Unborn'
    BY <1>1, <1>2, <2>2, <2>4 DEF DialogInv, Shape, Unborn
  <2>6. Numbered' /\ Fresh'
    BY <1>5, <2>2, <2>4 DEF DialogInv, Numbered, Fresh, Open
  <2>7. Forward
    BY <2>4, RankOrder DEF Forward, Dialog
  <2> QED
    BY <1>3, <2>5, <2>6, <2>7 DEF DialogInv
<1> QED
  BY <1>4, <1>5

\* Another method's header is taken over, or refused.
LEMMA RequestKeeps ==
  ASSUME DialogInv, NEW method \in Methods, NEW fits \in BOOLEAN, Request(method, fits)
  PROVE  DialogInv' /\ Forward /\ Own
<1>1. /\ UNCHANGED <<task, nextTask, calls>> /\ Open /\ method # "INVITE"
      /\ rx' = [IdleRx EXCEPT !.at = "build", !.method = method]
      /\ dialog' = Updated(method, fits)
  BY DEF Request
<1>2. IsRx(rx') /\ rx'.method = method
  BY <1>1, CallFact DEF IdleRx, IsRx
<1>3. dialog' \in Dialog /\ dialog'.nr = dialog.nr /\ dialog'.stage = dialog.stage
  BY <1>1, UpdatedFact DEF DialogInv
<1>4. Shape' /\ Unborn'
  BY <1>1, <1>2, <1>3 DEF DialogInv, Shape, Unborn
<1>5. Numbered' /\ Fresh'
  BY <1>1, <1>2, <1>3 DEF DialogInv, Numbered, Fresh, Open
<1>6. Forward /\ Own
  BY <1>1, <1>3, RankOrder DEF Forward, Own, Dialog
<1> QED
  BY <1>4, <1>5, <1>6 DEF DialogInv

\* The loop writes a stage that is not before the one it finds, and gives a
\* fresh INVITE the generation that nobody has.
LEMMA AdvanceKeeps == ASSUME DialogInv, Advance PROVE DialogInv' /\ Forward /\ Own
<1> DEFINE born == [at |-> "ring", call |-> rx.call]
<1>1. /\ rx.at = "send" /\ calls' = calls
      /\ rx' \in {IdleRx, [IdleRx EXCEPT !.at = "replace"]}
      /\ dialog' = IF Open THEN [dialog EXCEPT !.stage = StageAfter(dialog.stage)] ELSE dialog
  BY DEF Advance
<1>2. IsRx(rx') /\ rx'.at \notin {"build", "send"}
  BY <1>1, CallFact DEF IdleRx, IsRx
<1>3. /\ dialog' \in Dialog /\ dialog'.nr = dialog.nr
      /\ Rank(dialog'.stage) >= Rank(dialog.stage)
  <2>1. CASE Open
    BY <1>1, <2>1, StageAfterForward, StagedFact DEF DialogInv, Shape
  <2>2. CASE ~Open
    BY <1>1, <2>2, RankOrder DEF DialogInv, Shape, Dialog
  <2> QED
    BY <2>1, <2>2
<1>4. \/ UNCHANGED <<task, nextTask>>
      \/ /\ nextTask \in Task /\ nextTask' = nextTask + 1
         /\ task' = [task EXCEPT ![nextTask] = born]
  BY DEF Advance, Task, DialogInv, Shape
<1>5. born \in [at : Lives, call : Calls]
  BY DEF DialogInv, Shape, IsRx, Lives
<1>6. task' \in [Task -> [at : Lives, call : Calls]] /\ nextTask' \in Nat \ {0}
  <2> HIDE DEF born
  <2> QED
    BY <1>4, <1>5 DEF DialogInv, Shape
<1>7. Shape'
  BY <1>1, <1>2, <1>3, <1>6 DEF DialogInv, Shape
<1>8. Numbered'
  <2>1. CASE Open
    BY <1>1, <1>3, <2>1 DEF DialogInv, Numbered, Open
  <2>2. CASE ~Open
    BY <1>1, <2>2 DEF DialogInv, Numbered, Open
  <2> QED
    BY <2>1, <2>2
<1>9. Fresh' /\ Forward
  BY <1>2, <1>3 DEF Fresh, Forward
<1>10. \A g \in Task : g # nextTask => task'[g] = task[g]
  BY <1>4 DEF DialogInv, Shape
<1>11. \A g \in Task : task[g].at \in {"ring", "ok"} => task'[g] = task[g]
  BY <1>10 DEF DialogInv, Shape, Unborn, Task
<1>12. Unborn'
  <2> SUFFICES ASSUME NEW g \in Task, g >= nextTask' PROVE task'[g].at = "new"
    BY DEF Unborn
  <2> HIDE DEF born
  <2>1. nextTask \in Nat /\ g \in Nat
    BY DEF DialogInv, Shape, Task
  <2>2. g >= nextTask /\ task'[g] = task[g]
    BY <1>4, <1>10, <2>1
  <2> QED
    BY <2>2 DEF DialogInv, Unborn
<1>13. Own
  BY <1>11 DEF Own
<1> QED
  BY <1>7, <1>8, <1>9, <1>12, <1>13 DEF DialogInv

\* A deferred answer moves only a dialog of the task's own call, from before
\* the stage it writes.
LEMMA DeferredKeeps ==
  ASSUME DialogInv, NEW g \in Task, task[g].at \in {"ring", "ok"},
         NEW stages, NEW next, NEW out \in BOOLEAN, Deferred(g, stages, next, out),
         \/ stages = {"Invited"} /\ next = "Ringing"
         \/ stages = {"Invited", "Ringing"} /\ next = "Established",
         NEW at \in {"ok", "done"}, task' = [task EXCEPT ![g].at = at],
         UNCHANGED <<rx, nextTask, calls>>
  PROVE  DialogInv' /\ Forward /\ Own
<1>1. task' \in [Task -> [at : Lives, call : Calls]]
      /\ \A h \in Task : h # g => task'[h] = task[h]
  BY DEF DialogInv, Shape, Lives
<1>2. \/ dialog' = dialog
      \/ /\ dialog' = [dialog EXCEPT !.stage = next]
         /\ dialog.stage \in stages /\ dialog.call = task[g].call /\ Open
  BY DEF Deferred
<1>3. dialog \in Dialog /\ next \in Stage /\ dialog.stage \in Stage
  BY StageFact DEF DialogInv, Shape, Dialog
<1>4. /\ dialog' \in Dialog /\ dialog'.nr = dialog.nr
      /\ Rank(dialog'.stage) >= Rank(dialog.stage)
      /\ dialog'.stage = "Terminated" => dialog.stage = "Terminated"
  <2>1. CASE dialog' = dialog
    BY <1>3, <2>1, RankOrder
  <2>2. CASE dialog' # dialog
    <3>1. dialog' \in Dialog /\ dialog'.nr = dialog.nr /\ dialog'.stage = next
      BY <1>2, <1>3, <2>2, StagedFact
    <3> QED
      BY <1>2, <2>2, <3>1, RankFact
  <2> QED
    BY <2>1, <2>2
<1>5. Shape' /\ Unborn'
  BY <1>1, <1>4 DEF DialogInv, Shape, Unborn
<1>6. Numbered'
  BY <1>2, <1>4 DEF DialogInv, Numbered, Open
<1>7. Fresh'
  BY <1>4 DEF DialogInv, Fresh, Open
<1>8. Forward
  BY <1>4 DEF Forward
<1>9. Own
  BY <1>1, <1>2 DEF Own
<1> QED
  BY <1>5, <1>6, <1>7, <1>8, <1>9 DEF DialogInv

\* Aborting a task touches no other and none that is not started.
LEMMA AbortFact ==
  ASSUME Shape, NEW g
  PROVE  /\ Aborted(g) \in [Task -> [at : Lives, call : Calls]]
         /\ \A h \in Task : task[h].at = "new" => Aborted(g)[h] = task[h]
BY DEF Aborted, Shape, Lives

-----------------------------------------------------------------------------
\* Every step keeps the invariant and moves as it may.
LEMMA DialogStep == DialogInv /\ [Next]_vars => DialogInv' /\ Forward /\ Own
<1> SUFFICES ASSUME DialogInv, [Next]_vars PROVE DialogInv' /\ Forward /\ Own
  OBVIOUS
<1>s. Shape /\ task \in [Task -> [at : Lives, call : Calls]] /\ IsRx(rx)
  BY DEF DialogInv, Shape
<1>1. CASE UNCHANGED vars
  BY <1>1, <1>s, QuietKeeps DEF vars
<1>2. ASSUME NEW call \in Calls, NEW fits \in BOOLEAN, Invite(call, fits)
      PROVE  DialogInv' /\ Forward /\ Own
  BY <1>2, InviteKeeps
<1>3. ASSUME NEW method \in Methods, NEW fits \in BOOLEAN, Request(method, fits)
      PROVE  DialogInv' /\ Forward /\ Own
  BY <1>3, RequestKeeps
<1>4. CASE InviteUnparsed \/ TeardownDialog
  BY <1>4, ForgetKeeps DEF InviteUnparsed, TeardownDialog
<1>5. CASE RxStep
  <2>1. CASE Build
    <3> DEFINE todo == IF Open THEN Responses(rx.method, dialog.stage) ELSE <<>>
               before == IF Open THEN dialog.stage ELSE "none"
    <3>1. /\ rx' = [rx EXCEPT !.at = "send", !.todo = todo, !.full = Len(todo), !.before = before]
          /\ rx.at = "build"
          /\ UNCHANGED <<dialog, task, calls, nextTask>>
      BY <2>1 DEF Build
    <3> HIDE DEF todo, before
    <3>2. IsRx(rx') /\ rx'.at = "send" /\ rx'.method = rx.method
      BY <3>1, <1>s DEF IsRx
    <3> QED
      BY <3>1, <3>2, <1>s, QuietKeeps
  <2>2. ASSUME NEW out \in BOOLEAN, Send(out) PROVE DialogInv' /\ Forward /\ Own
    <3> DEFINE done == rx.done + (IF out THEN 1 ELSE 0)
               rang == rx.rang \/ (out /\ Head(rx.todo) = "180")
    <3>1. /\ rx' = [rx EXCEPT !.todo = Tail(rx.todo), !.done = done, !.rang = rang]
          /\ rx.at = "send"
          /\ UNCHANGED <<dialog, task, calls, nextTask>>
      BY <2>2 DEF Send
    <3> HIDE DEF done, rang
    <3>2. IsRx(rx') /\ rx'.at = "send" /\ rx'.method = rx.method
      BY <3>1, <1>s DEF IsRx
    <3> QED
      BY <3>1, <3>2, <1>s, QuietKeeps
  <2>3. CASE Advance
    BY <2>3, AdvanceKeeps
  <2>4. CASE Replace
    <3>1. /\ rx' = IdleRx /\ task' = Aborted(handle)
          /\ UNCHANGED <<dialog, calls, nextTask>>
      BY <2>4 DEF Replace
    <3>2. IsRx(rx') /\ rx'.at = "idle"
      BY <3>1, CallFact DEF IdleRx, IsRx
    <3> QED
      BY <3>1, <3>2, <1>s, AbortFact, QuietKeeps
  <2> QED
    BY <1>5, <2>1, <2>2, <2>3, <2>4 DEF RxStep
<1>6. ASSUME NEW g \in Task, TaskStep(g) PROVE DialogInv' /\ Forward /\ Own
  <2>1. CASE GiveUp(g)
    <3>1. /\ task' = [task EXCEPT ![g].at = "done"] /\ task[g].at \in {"ring", "ok"}
          /\ UNCHANGED <<dialog, rx, calls, nextTask>>
      BY <2>1 DEF GiveUp
    <3>2. /\ task' \in [Task -> [at : Lives, call : Calls]]
          /\ \A h \in Task : task[h].at = "new" => task'[h] = task[h]
      BY <3>1, <1>s DEF Lives
    <3> QED
      BY <3>1, <3>2, <1>s, QuietKeeps
  <2>2. ASSUME NEW out \in BOOLEAN, Ring(g, out) PROVE DialogInv' /\ Forward /\ Own
    BY <2>2, DeferredKeeps DEF Ring
  <2>3. ASSUME NEW out \in BOOLEAN, PickUp(g, out) PROVE DialogInv' /\ Forward /\ Own
    BY <2>3, DeferredKeeps DEF PickUp
  <2> QED
    BY <1>6, <2>1, <2>2, <2>3 DEF TaskStep
<1>7. CASE TeardownTask
  <2>1. task' = Aborted(handle) /\ UNCHANGED <<dialog, rx, calls, nextTask>>
    BY <1>7 DEF TeardownTask
  <2> QED
    BY <2>1, <1>s, AbortFact, QuietKeeps
<1>8. CASE Shutdown
  BY <1>8, <1>s, QuietKeeps DEF Shutdown
<1> QED
  BY <1>1, <1>2, <1>3, <1>4, <1>5, <1>6, <1>7, <1>8 DEF Next

(***************************************************************************)
(* sip_stage_after_immediate_response (responder.rs) is given the stage    *)
(* from before the awaits and the stage now: whatever the deferred task    *)
(* did in between, no dialog goes back.                                    *)
(***************************************************************************)
THEOREM StageForwardEver == Spec => StageForward
<1>1. Init => DialogInv
  BY DialogInit
<1>2. DialogInv /\ [Next]_vars => DialogInv'
  BY DialogStep
<1>3. DialogInv /\ [Next]_vars
        => [dialog'.nr = dialog.nr => Rank(dialog'.stage) >= Rank(dialog.stage)]_vars
  BY DialogStep DEF Forward
<1> QED
  BY <1>1, <1>2, <1>3, PTL DEF Spec, StageForward

(***************************************************************************)
(* The deferred task compares the call it was started for under the        *)
(* dialog's guard (proxy.rs): it moves no other call's dialog, and a       *)
(* generation is given to one task only.                                   *)
(***************************************************************************)
THEOREM AnswersOwnCallEver == Spec => AnswersOwnCall
<1>1. Init => DialogInv
  BY DialogInit
<1>2. DialogInv /\ [Next]_vars => DialogInv'
  BY DialogStep
<1>3. DialogInv /\ [Next]_vars
        => [\A g \in Task : task[g].at \in {"ring", "ok"} /\ task'[g] # task[g] =>
              dialog'.stage = dialog.stage \/ dialog.call = task[g].call]_vars
  BY DialogStep DEF Own
<1> QED
  BY <1>1, <1>2, <1>3, PTL DEF Spec, AnswersOwnCall

-----------------------------------------------------------------------------
(***************************************************************************)
(* Where the deferred tasks are registered.  The generations given out are *)
(* those below nextTask; between the start of a task and its registration  *)
(* the handle belongs to an earlier one, or to none.                       *)
(***************************************************************************)
Running(g) == task[g].at \in {"ring", "ok"}

RegShape ==
  /\ task \in [Task -> [at : Lives, call : Calls]]
  /\ handle \in Task \union {NoTask} /\ nextTask \in 1..(MaxTasks + 1)
  /\ rx.at \in {"idle", "build", "send", "replace"} /\ rx.call \in Calls
  /\ "at" \in DOMAIN rx

Born       == \A g \in Task : g < nextTask <=> task[g].at # "new"
Held       == handle < nextTask /\ (handle # NoTask => Running(handle))
Succession == rx.at = "replace" => nextTask > 1 /\ handle < nextTask - 1

RegInv == RegShape /\ Born /\ Held /\ Succession /\ TaskRegistered

LEMMA RegInit == Init => RegInv
<1> SUFFICES ASSUME Init PROVE RegInv
  OBVIOUS
<1>1. task = [g \in Task |-> [at |-> "new", call |-> AnyCall]] /\ nextTask = 1 /\ handle = 0
  BY DEF Init, NoTask
<1>2. RegShape
  BY <1>1, CallFact, SipAssumption DEF Init, RegShape, IdleRx, Lives, NoTask
<1>3. Born /\ Held /\ Succession /\ TaskRegistered
  BY <1>1 DEF Init, Born, Held, Succession, TaskRegistered, IdleRx, NoTask, Task
<1> QED
  BY <1>2, <1>3 DEF RegInv

\* A step that neither starts nor ends a task, nor touches the handle.
LEMMA RegQuiet ==
  ASSUME RegInv, UNCHANGED <<task, handle, nextTask>>, rx'.at = rx.at \/ rx'.at \in {"idle", "build", "send"},
         "at" \in DOMAIN rx', rx'.call \in Calls, rx.at = "replace" => rx' = rx
  PROVE  RegInv'
<1>1. RegShape' /\ Born'
  BY DEF RegInv, RegShape, Born
<1>2. Held' /\ Succession' /\ TaskRegistered'
  BY DEF RegInv, Held, Succession, TaskRegistered, Running
<1> QED
  BY <1>1, <1>2 DEF RegInv

\* Ending the task of generation g and taking its handle away, if it has it.
LEMMA RegEnd ==
  ASSUME RegInv, NEW g \in Task, Running(g),
         task' = [task EXCEPT ![g].at = "done"], handle' = Unregistered(g),
         UNCHANGED <<rx, nextTask>>
  PROVE  RegInv'
<1>1. /\ task' \in [Task -> [at : Lives, call : Calls]] /\ task'[g].at = "done"
      /\ \A h \in Task : h # g => task'[h] = task[h]
  BY DEF RegInv, RegShape, Lives
<1>2. handle' = IF handle = g THEN NoTask ELSE handle
  BY DEF Unregistered
<1>3. g \in Nat /\ NoTask = 0 /\ nextTask \in Nat /\ g < nextTask /\ nextTask > 0
  BY SipAssumption DEF RegInv, RegShape, Task, NoTask, Born, Running
<1>4. RegShape'
  BY <1>1, <1>2 DEF RegInv, RegShape
<1>5. Born'
  BY <1>1, <1>3 DEF RegInv, Born
<1>6. Held'
  <2>1. CASE handle = g
    BY <1>2, <1>3, <2>1 DEF Held
  <2>2. CASE handle # g
    BY <1>1, <1>2, <1>3, <2>2 DEF RegInv, RegShape, Held, Running
  <2> QED
    BY <2>1, <2>2
<1>7. Succession'
  BY <1>2, <1>3 DEF RegInv, Succession
<1>8. TaskRegistered'
  <2> SUFFICES ASSUME NEW h \in Task, task'[h].at \in {"ring", "ok"}
               PROVE  handle' = h \/ (rx'.at = "replace" /\ h = nextTask' - 1)
    BY DEF TaskRegistered
  <2>1. h # g /\ task'[h] = task[h]
    BY <1>1
  <2>2. handle = h \/ (rx.at = "replace" /\ h = nextTask - 1)
    BY <2>1 DEF RegInv, TaskRegistered
  <2> QED
    BY <1>2, <2>1, <2>2
<1> QED
  BY <1>4, <1>5, <1>6, <1>7, <1>8 DEF RegInv

\* Aborting what the handle names ends that task, and no other.
LEMMA RegAbort ==
  ASSUME RegInv, task' = Aborted(handle)
  PROVE  /\ task' \in [Task -> [at : Lives, call : Calls]]
         /\ handle # NoTask => task'[handle].at = "done"
         /\ \A h \in Task : h # handle => task'[h] = task[h]
         /\ \A h \in Task : task'[h].at = "new" <=> task[h].at = "new"
<1>1. CASE handle = NoTask
  BY <1>1, SipAssumption DEF RegInv, RegShape, Aborted, NoTask, Task
<1>2. CASE handle # NoTask
  <2>1. handle \in Task /\ Running(handle) /\ task \in [Task -> [at : Lives, call : Calls]]
    BY <1>2 DEF RegInv, RegShape, Held
  <2>2. task' = [task EXCEPT ![handle].at = "done"]
    BY <1>2, <2>1 DEF Aborted, Running
  <2> QED
    BY <2>1, <2>2 DEF Lives, Running
<1> QED
  BY <1>1, <1>2

LEMMA RegAdvance == ASSUME RegInv, Advance PROVE RegInv'
<1> DEFINE start == rx.fresh /\ rx.done > 0
           born == [at |-> "ring", call |-> rx.call]
<1>1. rx.at = "send" /\ handle' = handle
  BY DEF Advance
<1>2. CASE ~start
  <2>1. UNCHANGED <<task, nextTask>> /\ rx' = IdleRx
    BY <1>2 DEF Advance
  <2>2. rx'.at = "idle" /\ "at" \in DOMAIN rx' /\ rx'.call \in Calls
    BY <2>1, CallFact DEF IdleRx
  <2> QED
    BY <1>1, <2>1, <2>2, RegQuiet
<1>3. CASE start
  <2>1. /\ nextTask <= MaxTasks /\ nextTask' = nextTask + 1
        /\ task' = [task EXCEPT ![nextTask] = born]
        /\ rx' = [IdleRx EXCEPT !.at = "replace"]
    BY <1>3 DEF Advance
  <2>2. rx'.at = "replace" /\ "at" \in DOMAIN rx' /\ rx'.call \in Calls
    BY <2>1, CallFact DEF IdleRx
  <2>3. /\ nextTask \in Task /\ nextTask \in Nat /\ MaxTasks \in Nat
        /\ handle \in Nat /\ NoTask = 0 /\ handle < nextTask
    BY <2>1, SipAssumption DEF RegInv, RegShape, Task, NoTask, Held
  <2>4. born \in [at : Lives, call : Calls] /\ born.at = "ring"
    BY DEF RegInv, RegShape, Lives
  <2> HIDE DEF born
  <2>5. /\ task' \in [Task -> [at : Lives, call : Calls]] /\ task'[nextTask] = born
        /\ \A h \in Task : h # nextTask => task'[h] = task[h]
    BY <2>1, <2>3, <2>4 DEF RegInv, RegShape
  <2>6. RegShape'
    BY <1>1, <2>1, <2>2, <2>3, <2>5 DEF RegInv, RegShape
  <2>7. Born'
    <3> SUFFICES ASSUME NEW h \in Task PROVE h < nextTask + 1 <=> task'[h].at # "new"
      BY <2>1 DEF Born
    <3>1. h \in Nat /\ (h < nextTask <=> task[h].at # "new")
      BY DEF RegInv, Born, Task
    <3> QED
      BY <2>3, <2>4, <2>5, <3>1
  <2>8. Held' /\ Succession'
    BY <1>1, <2>1, <2>3, <2>5 DEF RegInv, RegShape, Held, Succession, Running
  <2>9. TaskRegistered'
    <3> SUFFICES ASSUME NEW h \in Task, task'[h].at \in {"ring", "ok"}, h # nextTask
                 PROVE  handle' = h
      BY <2>1, <2>2, <2>3 DEF TaskRegistered
    <3>1. task[h].at \in {"ring", "ok"}
      BY <2>5
    <3> QED
      BY <1>1, <3>1 DEF RegInv, TaskRegistered
  <2> QED
    BY <2>6, <2>7, <2>8, <2>9 DEF RegInv
<1> QED
  BY <1>2, <1>3

\* What was started is registered, and what it replaces has been aborted.
LEMMA RegReplace == ASSUME RegInv, Replace PROVE RegInv'
<1> DEFINE n == nextTask - 1
<1>1. /\ rx.at = "replace" /\ task' = Aborted(handle) /\ nextTask' = nextTask /\ rx' = IdleRx
      /\ handle' = IF task[n].at = "done" THEN NoTask ELSE n
  BY DEF Replace
<1>2. rx'.at = "idle" /\ "at" \in DOMAIN rx' /\ rx'.call \in Calls
  BY <1>1, CallFact DEF IdleRx
<1>3. /\ nextTask \in Nat /\ nextTask > 1 /\ n \in Task /\ n < nextTask
      /\ NoTask = 0 /\ handle # n
  BY <1>1, SipAssumption DEF RegInv, RegShape, Succession, Task, NoTask
<1>4. /\ task' \in [Task -> [at : Lives, call : Calls]]
      /\ handle # NoTask => task'[handle].at = "done"
      /\ \A h \in Task : h # handle => task'[h] = task[h]
      /\ \A h \in Task : task'[h].at = "new" <=> task[h].at = "new"
  BY <1>1, RegAbort
<1>5. task[n].at \in {"ring", "ok", "done"} /\ task'[n] = task[n]
  BY <1>3, <1>4 DEF RegInv, RegShape, Born, Lives
<1> HIDE DEF n
<1>6. RegShape' /\ Born' /\ Succession'
  BY <1>1, <1>2, <1>3, <1>4 DEF RegInv, RegShape, Born, Succession
<1>7. Held'
  BY <1>1, <1>3, <1>5 DEF Held, Running, Task
<1>8. TaskRegistered'
  <2> SUFFICES ASSUME NEW h \in Task, task'[h].at \in {"ring", "ok"} PROVE handle' = h
    BY DEF TaskRegistered
  <2>1. h # handle
    BY <1>4 DEF Task, NoTask
  <2>2. h = n
    BY <1>4, <2>1 DEF RegInv, TaskRegistered, n
  <2> QED
    BY <1>1, <1>5, <2>2
<1> QED
  BY <1>6, <1>7, <1>8 DEF RegInv

LEMMA RegTeardown == ASSUME RegInv, TeardownTask PROVE RegInv'
<1>1. task' = Aborted(handle) /\ handle' = NoTask /\ UNCHANGED <<rx, nextTask>>
  BY DEF TeardownTask
<1>2. /\ task' \in [Task -> [at : Lives, call : Calls]]
      /\ handle # NoTask => task'[handle].at = "done"
      /\ \A h \in Task : h # handle => task'[h] = task[h]
      /\ \A h \in Task : task'[h].at = "new" <=> task[h].at = "new"
  BY <1>1, RegAbort
<1>3. NoTask = 0 /\ nextTask \in Nat /\ nextTask > 0
  BY SipAssumption DEF RegInv, RegShape, NoTask
<1>4. RegShape' /\ Born' /\ Held' /\ Succession'
  BY <1>1, <1>2, <1>3 DEF RegInv, RegShape, Born, Held, Succession
<1>5. TaskRegistered'
  <2> SUFFICES ASSUME NEW h \in Task, task'[h].at \in {"ring", "ok"}
               PROVE  rx.at = "replace" /\ h = nextTask - 1
    BY <1>1 DEF TaskRegistered
  <2>1. h # handle
    BY <1>2 DEF Task, NoTask
  <2> QED
    BY <1>2, <2>1 DEF RegInv, TaskRegistered
<1> QED
  BY <1>4, <1>5 DEF RegInv

LEMMA RegStep == RegInv /\ [Next]_vars => RegInv'
<1> SUFFICES ASSUME RegInv, [Next]_vars PROVE RegInv'
  OBVIOUS
<1>r. "at" \in DOMAIN rx /\ rx.call \in Calls
  BY DEF RegInv, RegShape
<1>1. CASE UNCHANGED vars
  BY <1>1, <1>r, RegQuiet DEF vars
<1>2. ASSUME NEW call \in Calls, NEW fits \in BOOLEAN, Invite(call, fits) PROVE RegInv'
  <2> DEFINE new == ~Open \/ dialog.stage \in {"Idle", "Terminated"} \/ dialog.call # call
  <2>1. /\ UNCHANGED <<task, handle, nextTask>> /\ rx.at = "idle"
        /\ rx' = [IdleRx EXCEPT !.at = "build", !.method = "INVITE", !.call = call, !.fresh = new]
    BY <1>2 DEF Invite
  <2>2. rx'.at = "build" /\ "at" \in DOMAIN rx' /\ rx'.call \in Calls
    BY <2>1 DEF IdleRx
  <2> QED
    BY <2>1, <2>2, RegQuiet
<1>3. ASSUME NEW method \in Methods, NEW fits \in BOOLEAN, Request(method, fits) PROVE RegInv'
  <2>1. /\ UNCHANGED <<task, handle, nextTask>> /\ rx.at = "idle"
        /\ rx' = [IdleRx EXCEPT !.at = "build", !.method = method]
    BY <1>3 DEF Request
  <2>2. rx'.at = "build" /\ "at" \in DOMAIN rx' /\ rx'.call \in Calls
    BY <2>1, CallFact DEF IdleRx
  <2> QED
    BY <2>1, <2>2, RegQuiet
<1>4. CASE InviteUnparsed \/ TeardownDialog \/ Shutdown
  BY <1>4, <1>r, RegQuiet DEF InviteUnparsed, TeardownDialog, Shutdown
<1>5. CASE RxStep
  <2>1. CASE Build
    <3> DEFINE todo == IF Open THEN Responses(rx.method, dialog.stage) ELSE <<>>
               before == IF Open THEN dialog.stage ELSE "none"
    <3>1. /\ rx' = [rx EXCEPT !.at = "send", !.todo = todo, !.full = Len(todo), !.before = before]
          /\ rx.at = "build" /\ UNCHANGED <<task, handle, nextTask>>
      BY <2>1 DEF Build
    <3> HIDE DEF todo, before
    <3>2. rx'.at = "send" /\ "at" \in DOMAIN rx' /\ rx'.call = rx.call
      BY <3>1, <1>r
    <3> QED
      BY <3>1, <3>2, <1>r, RegQuiet
  <2>2. ASSUME NEW out \in BOOLEAN, Send(out) PROVE RegInv'
    <3> DEFINE done == rx.done + (IF out THEN 1 ELSE 0)
               rang == rx.rang \/ (out /\ Head(rx.todo) = "180")
    <3>1. /\ rx' = [rx EXCEPT !.todo = Tail(rx.todo), !.done = done, !.rang = rang]
          /\ rx.at = "send" /\ UNCHANGED <<task, handle, nextTask>>
      BY <2>2 DEF Send
    <3> HIDE DEF done, rang
    <3>2. rx'.at = "send" /\ "at" \in DOMAIN rx' /\ rx'.call = rx.call
      BY <3>1, <1>r
    <3> QED
      BY <3>1, <3>2, <1>r, RegQuiet
  <2> QED
    BY <1>5, <2>1, <2>2, RegAdvance, RegReplace DEF RxStep
<1>6. ASSUME NEW g \in Task, TaskStep(g) PROVE RegInv'
  <2>1. CASE GiveUp(g)
    BY <2>1, RegEnd DEF GiveUp, Running
  <2>2. ASSUME NEW out \in BOOLEAN, Ring(g, out) PROVE RegInv'
    <3>1. /\ task' = [task EXCEPT ![g].at = "ok"] /\ task[g].at = "ring"
          /\ UNCHANGED <<rx, handle, nextTask>>
      BY <2>2 DEF Ring
    <3>2. /\ task' \in [Task -> [at : Lives, call : Calls]] /\ task'[g].at = "ok"
          /\ \A h \in Task : h # g => task'[h] = task[h]
      BY <3>1 DEF RegInv, RegShape, Lives
    <3>3. RegShape' /\ Born' /\ Succession'
      BY <3>1, <3>2 DEF RegInv, RegShape, Born, Succession
    <3>4. Held' /\ TaskRegistered'
      BY <3>1, <3>2 DEF RegInv, RegShape, Held, Running, TaskRegistered
    <3> QED
      BY <3>3, <3>4 DEF RegInv
  <2>3. ASSUME NEW out \in BOOLEAN, PickUp(g, out) PROVE RegInv'
    BY <2>3, RegEnd DEF PickUp, Running
  <2> QED
    BY <1>6, <2>1, <2>2, <2>3 DEF TaskStep
<1> QED
  BY <1>1, <1>2, <1>3, <1>4, <1>5, <1>6, RegTeardown DEF Next

(***************************************************************************)
(* sip_deferred_handles and its generations (proxy.rs): whatever INVITEs,  *)
(* teardowns and ends of tasks interleave, a task that may still answer is *)
(* where the next INVITE or teardown finds it, to abort it.                *)
(***************************************************************************)
THEOREM TaskRegisteredEver == Spec => []TaskRegistered
<1>1. RegInv => TaskRegistered
  BY DEF RegInv
<1> QED
  BY <1>1, RegInit, RegStep, PTL DEF Spec
=============================================================================
