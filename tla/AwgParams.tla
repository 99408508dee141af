----------------------------- MODULE AwgParams -----------------------------
(***************************************************************************)
(* The obfuscation parameters of an AmneziaWG interface: how wg/params.rs  *)
(* draws them, what the admin API lets through (api/admin.rs), and what    *)
(* the proxy makes of the stored row (proxy/supervisor.rs build_awg_params *)
(* and proxy/config.rs).                                                   *)
(*                                                                         *)
(* A parameter set is [jc, jmin, jmax, s, h, i]: s and h have one entry    *)
(* for each kind of message, a magic header is a window [lo, hi] or Blank, *)
(* i is the sequence of init specs, each a sequence of tags.               *)
(***************************************************************************)
EXTENDS Integers, Sequences, FiniteSets, SequencesExt

CONSTANTS
  HMin, HMax,   \* the space generated magic headers are drawn from
  MaxWord,      \* u32::MAX, what a header on the wire can be
  MaxHeader,    \* i64::MAX, what the API takes for a header
  Blank         \* an absent field, or an empty string

ASSUME ParamsAssumption ==
  /\ HMin \in Nat /\ HMax \in Nat /\ MaxWord \in Nat /\ MaxHeader \in Nat
  /\ HMin < HMax /\ HMax <= MaxWord /\ MaxWord <= MaxHeader
  /\ Blank \notin Int /\ Blank \notin [lo : Int, hi : Int]

Kind == 1 .. 4    \* handshake initiation, response, cookie reply, transport data

\* The largest junk packet, and for each kind the padding that leaves its message
\* in a datagram of 1280 bytes.
MaxJunk == 1279
MaxPad  == <<1132, 1188, 1132, 1188>>

Overlap(a, b) == a.lo <= b.hi /\ b.lo <= a.hi

(***************************************************************************)
(* generate_awg_params.                                                    *)
(***************************************************************************)
\* The r-th split point after the sort.
Sorted(splits, r) == CHOOSE x \in splits : Cardinality({y \in splits : y < x}) = r - 1

\* Faulty variant: neighbouring windows share an end point.
Windows_Shared(splits) ==
  [k \in Kind |-> [lo |-> Sorted(splits, k), hi |-> Sorted(splits, k + 1)]]

\* Eight distinct split points, sorted, give four windows.
Windows(splits) ==
  [k \in Kind |-> [lo |-> Sorted(splits, 2 * k - 1), hi |-> Sorted(splits, 2 * k)]]

Splits == {S \in SUBSET (HMin .. HMax - 1) : Cardinality(S) = 8}

\* Whether p is a set the generator can draw.
Generates(p) ==
  /\ p.jc \in 4 .. 12
  /\ p.jmin \in 8 .. 80
  /\ p.jmax \in p.jmin + 1 .. MaxJunk
  /\ \A k \in Kind : p.s[k] # Blank /\ p.s[k] \in 15 .. 150
  /\ p.s[2] # p.s[1] + 56
  /\ p.s[3] + 56 # p.s[4] /\ p.s[4] + 56 # p.s[3]
  /\ \E S \in Splits : p.h = Windows(S)
  /\ p.i = << <<[tag |-> "r", n |-> 2], [tag |-> "b", n |-> 96]>> >>

(***************************************************************************)
(* validate_init_spec: n is the count of a tag, or its hex digits.         *)
(***************************************************************************)
TagAccepted(t) ==
  CASE t.tag \in {"t", "c"} -> t.n = Blank
    [] t.tag = "b" -> t.n # Blank /\ t.n > 0 /\ t.n % 2 = 0
    [] t.tag \in {"r", "rc", "rd"} -> t.n # Blank /\ t.n \in 1 .. 1000
    [] OTHER -> FALSE

TagSize(t) ==
  CASE t.tag \in {"t", "c"} -> 4
    [] t.tag = "b" -> t.n \div 2
    [] OTHER -> t.n

InitSpecAccepted(tags) ==
  /\ \A k \in DOMAIN tags : TagAccepted(tags[k])
  /\ FoldLeft(LAMBDA sum, t : sum + TagSize(t), 0, tags) <= 65535

(***************************************************************************)
(* wg/params.rs validate_awg_params.                                       *)
(***************************************************************************)
\* Faulty variant: the rule is taken from the sizes of another pair.
SizesApart_Cookie(p) == p.s[1] + 84 # p.s[3]

\* An initiation has 56 bytes more than a response.
SizesApart(p) == p.s[1] + 56 # p.s[2]

Valid(p) ==
  /\ p.jc \in 1 .. 128
  /\ p.jmin \in 0 .. MaxJunk
  /\ p.jmax \in 1 .. MaxJunk /\ p.jmax > p.jmin
  /\ p.s[1] \in 0 .. MaxPad[1] /\ p.s[2] \in 0 .. MaxPad[2]
  /\ SizesApart(p)
  /\ p.s[3] # Blank => p.s[3] \in 0 .. MaxPad[3]
  /\ p.s[4] # Blank => p.s[4] \in 0 .. MaxPad[4]
  /\ p.s[3] # Blank /\ p.s[4] # Blank =>
       p.s[3] + 56 # p.s[4] /\ p.s[4] + 56 # p.s[3]
  /\ \A j, k \in Kind : j # k => p.h[j] # p.h[k]

(***************************************************************************)
(* api/admin.rs: a body carries some of the fields, the others are Blank.  *)
(***************************************************************************)
MaxS == <<1132, 1188, 1216, 32>>

\* is_valid_magic_header: one i64, or two around the first dash, of which the
\* second may have a sign of its own ("5--3"); their order is not looked at.
HeaderAccepted(w) ==
  w = Blank \/ (w.lo \in 0 .. MaxHeader /\ w.hi \in -(MaxHeader + 1) .. MaxHeader)

ApiAccepts(b) ==
  /\ b.jc # Blank => b.jc \in 0 .. 128
  /\ b.jmin # Blank /\ b.jmax # Blank => ~ (b.jmax > 0 /\ b.jmax < b.jmin)
  /\ b.jmin # Blank => b.jmin \in 0 .. MaxJunk
  /\ b.jmax # Blank => b.jmax \in 1 .. MaxJunk
  /\ b.jc # Blank /\ b.jmin # Blank /\ b.jmax # Blank =>
       ~ (b.jc # 0 /\ b.jmin = b.jmax)
  /\ \A k \in Kind : b.s[k] # Blank => b.s[k] \in 0 .. MaxS[k]
  /\ b.s[1] # Blank /\ b.s[2] # Blank =>
       ~ (b.s[1] > 0 /\ b.s[2] > 0 /\ b.s[1] + 56 = b.s[2])
  /\ \A k \in DOMAIN b.i : InitSpecAccepted(b.i[k])
  /\ \A k \in Kind : HeaderAccepted(b.h[k])
  /\ \A j, k \in Kind :
       j < k /\ b.h[j] # Blank /\ b.h[k] # Blank =>
         b.h[j].hi < b.h[k].lo \/ b.h[k].hi < b.h[j].lo

(***************************************************************************)
(* The proxy's reading of the row.  None of it is used when one field      *)
(* fails to parse: build_awg_params answers None.                          *)
(***************************************************************************)
\* norm_h: a blank field becomes the window 0-0.
NormH(w) == IF w = Blank THEN [lo |-> 0, hi |-> 0] ELSE w

\* S3 and S4 fall back to 0.
ProxyParams(p) ==
  [p EXCEPT !.s = [k \in Kind |-> IF p.s[k] = Blank THEN 0 ELSE p.s[k]],
            !.h = [k \in Kind |-> NormH(p.h[k])]]

\* parse_h_range
WindowParses(w) == w.lo \in 0 .. MaxWord /\ w.hi \in 0 .. MaxWord /\ w.lo <= w.hi

\* parse_awg_config and its validate_awg_params.
ProxyParses(p) ==
  LET q == ProxyParams(p)
  IN /\ \A n \in {q.jc, q.jmin, q.jmax} : n >= 0
     /\ \A k \in Kind : q.s[k] >= 0 /\ WindowParses(q.h[k])
     /\ q.jmin <= q.jmax
     /\ \A j, k \in Kind : j < k => ~ Overlap(q.h[j], q.h[k])
=============================================================================
