---------------------------- MODULE MCAlgorithms ----------------------------
(***************************************************************************)
(* The pure algorithms against reference definitions: the address pool     *)
(* (MCIpPool), and the parameters and datagrams of the proxy, one sample   *)
(* input per state.                                                        *)
(***************************************************************************)
EXTENDS MCIpPool, Datagrams

VARIABLE sample

None == [of |-> "none"]

(***************************************************************************)
(* Parameter sets at the ends of the generator's ranges, and just outside. *)
(***************************************************************************)
Spec1 == << <<[tag |-> "r", n |-> 2], [tag |-> "b", n |-> 96]>> >>
Spec2 == << <<[tag |-> "r", n |-> 1001]>> >>

ParamSamples ==
  [of : {"params"},
   p : [jc : {4, 12}, jmin : {8, 80}, jmax : {9, 81, 1279, 1280}, i : {Spec1, Spec2},
        s : {f \in [Kind -> {14, 15, 71, 94, 150}] : f[3] <= f[4]},
        h : {Windows(S) : S \in Splits}]]

\* Complete bodies with windows of every order and overlap.
BodySamples ==
  [of : {"params"},
   p : [jc : {0, 4}, jmin : {8}, jmax : {8, 80}, i : {Spec1}, s : {<<15, 15, 15, 15>>},
        h : [Kind -> [lo : 1 .. 4, hi : 2 .. 4]]]]

(***************************************************************************)
(* Packets of a peer that pads with the same S values: the word after its  *)
(* own padding is of its own window, the words at the other offsets are of *)
(* another window or of none.                                              *)
(***************************************************************************)
FixedH   == [k \in Kind |-> [lo |-> 3 * k, hi |-> 3 * k + 1]]
SValues  == {15, 36, 71, 99}
DataSize == {32, 64, 176}    \* 32 and a multiple of 16

GenuineLen(s, k, n) == s[k] + (IF k = 4 THEN n ELSE MessageSize[k])

PacketSample ==
  \E k \in Kind, s \in [Kind -> SValues], n \in DataSize, other \in 0 .. 4 :
    /\ k # 4 => n = 32
    /\ sample =
         [of |-> "packet", kind |-> k,
          p |-> [jc |-> 4, jmin |-> 8, jmax |-> 80, s |-> s, h |-> FixedH, i |-> Spec1],
          pkt |-> [len |-> GenuineLen(s, k, n),
                   word |-> [o \in SValues |-> IF o = s[k] THEN 3 * k ELSE 3 * other]]]

PadSample ==
  \/ \E pad \in 1 .. 70, payload \in {32, 92, 1400},
        name \in {Blank, 1, 12, 13, 14, 38, 39, 255} :
       sample = [of |-> "dns", pad |-> pad, total |-> pad + payload, name |-> name]
  \/ \E pad \in 1 .. 200 : sample = [of |-> "stun", pad |-> pad]
  \/ \E pad \in 15 .. 24 \union 215 .. 262, payload \in 32 .. 36 \union 76 .. 90 \union 970 .. 984,
        st \in 1 .. 3, host \in {7, 14} :
       sample = [of |-> "sip", pad |-> pad, total |-> pad + payload, st |-> st, host |-> host]

\* A call, and a later request of the same call; then header lines alone.
Requests ==
  [clean : {TRUE}, via : {<<>>, <<60>>, <<60, 93>>, <<300>>}, from : {0, 40},
   to : {40, 47, 48, 79}, tagged : BOOLEAN, callId : {40}, cseq : {0, 9, 60}]

ReplySample ==
  \/ \E r1, r2 \in Requests :
       /\ r2.to = 40 /\ r2.from = 40
       /\ sample = [of |-> "reply", first |-> r1, second |-> r2]
  \/ \E a, b, c \in {10, 100, 180, 181, 182, 300} :
       sample = [of |-> "probe", d |-> [view |-> "sip", len |-> 60, method |-> TRUE,
                                         lines |-> <<a, b, c>>]]

ProbeSample ==
  \/ \E len \in {6, 7, 8, 27, 28, 47, 48, 1200}, dcid, scid \in {0, 1, 20, 21}, v \in BOOLEAN :
       sample = [of |-> "probe", d |-> [view |-> "quic", len |-> len, version |-> v,
                                         dcid |-> dcid, scid |-> scid]]
  \/ \E len \in {19, 20, 22, 24}, attrs \in {0, 2, 4}, r \in BOOLEAN :
       sample = [of |-> "probe", d |-> [view |-> "stun", len |-> len, request |-> r,
                                         attrs |-> attrs]]
  \/ \E labels \in {<<>>, <<63>>, <<64>>, <<3, 3>>, <<63, 63, 63, 61>>, <<63, 63, 63, 62>>},
        more \in {-5, 3, 4, 5}, qd \in 0 .. 2, class \in {1, 3, 255, 7}, q \in BOOLEAN :
       sample = [of |-> "probe", d |-> [view |-> "dns", len |-> HeaderLen + NameLen(labels) + more,
                                         query |-> q, qd |-> qd, labels |-> labels,
                                         class |-> class]]

AlgInit ==
  \/ PoolInit /\ sample = None
  \/ /\ cidr = [addr |-> 0, size |-> 1] /\ used = {}
     /\ \/ sample \in ParamSamples \/ sample \in BodySamples
        \/ PacketSample \/ PadSample \/ ReplySample \/ ProbeSample

AlgNext == sample = None /\ PoolNext /\ UNCHANGED sample

AlgSpec == AlgInit /\ [][AlgNext]_<<poolVars, sample>>

(***************************************************************************)
(* Properties.                                                             *)
(***************************************************************************)
\* What generate_awg_params draws passes validate_awg_params (params.rs:433)
\* and is read by the proxy; so is a complete body the admin API accepts, as
\* long as its windows are written in order and fit in a u32.  Otherwise the
\* imitation is off.
ImitationStaysOn ==
  sample.of = "params" =>
    /\ Generates(sample.p) => Valid(sample.p) /\ ProxyParses(sample.p)
    /\ ApiAccepts(sample.p) /\ (\A k \in Kind : WindowParses(sample.p.h[k])) =>
         ProxyParses(sample.p)

\* Under valid parameters a handshake initiation and its response are taken
\* for what they are, whatever the bytes at the other offsets: only the own
\* padding of the message is written over.
HandshakesToldApart ==
  sample.of = "packet" =>
    (Valid(sample.p) /\ sample.kind \in {1, 2} =>
       /\ Classify(sample.p, sample.pkt) = sample.kind
       /\ Overwritten(sample.p, sample.pkt) = sample.p.s[sample.kind])

\* "Everything from data[pad_size..] is the real WireGuard payload ... never
\* modified" (transform.rs:15-16).
PayloadIntact ==
  sample.of = "packet" =>
    (Valid(sample.p) => Overwritten(sample.p, sample.pkt) <= sample.p.s[sample.kind])

\* The imitations parse.  DNS: every section the header counts lies in the
\* padding, and from the size that fits a record on, the record ends with the
\* datagram (transform.rs:202-212).  STUN: the attributes fill the advertised
\* length, in words of four bytes, inside the padding, and SOFTWARE is shorter
\* than 128 bytes.  SIP: one message, that opens with a status line whenever
\* one fits, whose declared Content-Length covers the rest of the datagram and
\* is declared whenever the mandatory headers and the longer form of the line
\* fit ("a correct Content-Length is always emitted", transform.rs:710-713).
Framed ==
  /\ sample.of = "dns" =>
       LET a   == DnsPadding(sample.pad, sample.total, sample.name)
           end == HeaderLen + a.qd * a.question + a.rr * OptLen
       IN /\ a.qd + a.rr > 0 => a.fixed <= sample.pad
          /\ a.rr = 1 => end + a.record = sample.total
          /\ a.option # Blank => end + OptionLen + a.option = sample.total
          /\ sample.pad >= 28 => a.rr = 1
  /\ sample.of = "stun" =>
       LET attrs == StunPadding(sample.pad)
       IN /\ StunLength(attrs) % 4 = 0
          /\ attrs # <<>> => 20 + StunLength(attrs) <= sample.pad
          /\ \A k \in DOMAIN attrs : attrs[k] % 4 = 0 /\ attrs[k] < 128
          /\ sample.pad \in 20 .. 155 => sample.pad - (20 + StunLength(attrs)) < 4
  /\ sample.of = "sip" =>
       LET m    == SipPadding(sample.pad, sample.total, sample.st, sample.host, 5, 6)
           full == StatusLines[StatusOf(sample.st, sample.pad)]
                     + Sum(Mandatory(sample.host, 5, 6))
       IN /\ sample.pad >= 18 => m.lines >= 1
          /\ m.declared # Blank => m.head <= sample.pad /\ m.head + m.declared = sample.total
          /\ m.lines = 6 /\ full + 15 + 2 + Digits(sample.total) + 4 <= sample.pad =>
               m.declared # Blank

\* A probe that is recognised gets an answer that repeats its identity (the
\* connection ids, the transaction or the question), and what cover traffic
\* echoes comes from a query that is answered as one; no SIP answer outgrows
\* the buffer it is reflected in, after any update of the call's headers.
AnswersFit ==
  /\ sample.of = "probe" =>
       /\ Detect(sample.d) # "none" =>
            Answer(sample.d, FALSE).echoes /\ Answer(sample.d, FALSE).len <= MaxResponse
       /\ EchoOf(sample.d) # Blank /\ sample.d.qd = 1 => Detect(sample.d) = "dns"
  /\ sample.of = "reply" =>
       (Opens(sample.first) =>
          LET d == DialogOf(sample.first)
          IN \A n \in Replies(d) \union Replies(UpdatedBy(d, sample.second)) :
               n <= MaxResponse)
=============================================================================
