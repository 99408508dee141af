----------------------------- MODULE Datagrams -----------------------------
(***************************************************************************)
(* What the proxy writes on the wire: the classification of AmneziaWG      *)
(* packets, the imitation of DNS, STUN and SIP inside their padding        *)
(* (proxy/transform.rs), the detection of probes and the answers to them   *)
(* (proxy/responder.rs).                                                   *)
(*                                                                         *)
(* Bytes are abstracted to lengths, and to the fields a parser of the      *)
(* imitated protocol walks by.                                             *)
(***************************************************************************)
EXTENDS AwgParams

Sum(lens) == FoldLeft(LAMBDA a, b : a + b, 0, lens)
Least(S)  == CHOOSE a \in S : \A b \in S : a <= b

(***************************************************************************)
(* classify_awg_packet.  A packet is its length and, for each offset one   *)
(* of the S values names, the word read there.                             *)
(***************************************************************************)
MessageSize == <<148, 92, 64>>
MinData     == 32

SizeFits(p, len, k) ==
  IF k = 4 THEN len >= p.s[4] + MinData ELSE len = p.s[k] + MessageSize[k]

\* The first kind that fits, in the order of the candidates; 0 for none.
Classify(p, pkt) ==
  LET fits == {k \in Kind : /\ SizeFits(p, pkt.len, k)
                            /\ pkt.word[p.s[k]] \in p.h[k].lo .. p.h[k].hi}
  IN IF fits = {} THEN 0 ELSE Least(fits)

\* apply_awg_transform: how many leading bytes are written over.
Overwritten(p, pkt) ==
  LET k == Classify(p, pkt)
  IN IF k # 0 /\ p.s[k] < pkt.len THEN p.s[k] ELSE 0

(***************************************************************************)
(* DNS padding: an answer whose last record reaches to the end of the      *)
(* datagram.                                                               *)
(***************************************************************************)
HeaderLen  == 12
RootLen    == 5     \* root question
OptLen     == 11    \* OPT record before its data
OptionLen  == 4     \* header of its one option

\* Faulty variant: the header of the option is forgotten.
OptMin_NoOption == HeaderLen + RootLen + OptLen

OptMin == HeaderLen + RootLen + OptLen + OptionLen

\* The question the answer repeats: the client's, when it fits.
Question(pad, name) ==
  IF name # Blank /\ name + 4 <= 259 /\ HeaderLen + name + 4 + OptLen + OptionLen <= pad
  THEN name + 4 ELSE RootLen

\* apply_dns_padding, apply_dns_padding_null: fixed is the end of what is laid
\* out before the opaque data, record the length of the record's data.
DnsPadding(pad, total, name) ==
  IF pad >= OptMin
  THEN LET q == Question(pad, name)
       IN [qd |-> 1, rr |-> 1, question |-> q,
           record |-> total - (HeaderLen + q + OptLen),
           option |-> total - (HeaderLen + q + OptLen + OptionLen),
           fixed  |-> HeaderLen + q + OptLen + OptionLen]
  ELSE [qd |-> IF pad >= 17 THEN 1 ELSE 0,
        rr |-> IF pad >= 28 THEN 1 ELSE 0, question |-> RootLen,
        record |-> IF total >= 28 THEN total - 28 ELSE 0, option |-> Blank,
        fixed |-> IF pad >= 28 THEN 28 ELSE IF pad >= 17 THEN 17 ELSE 12]

Software(room) == Least({room - 4, 124})

\* apply_stun_padding: the attributes written, by the length of their values.
StunPadding(pad) ==
  LET body   == IF pad > 20 THEN ((pad - 20) \div 4) * 4 ELSE 0
      mapped == IF body >= 12 THEN <<8>> ELSE <<>>
      room   == body - 12 * Len(mapped)
  IN mapped \o (IF room >= 4 THEN <<Software(room)>> ELSE <<>>)

\* The message length advertised.
StunLength(attrs) == Sum(attrs) + 4 * Len(attrs)

(***************************************************************************)
(* SIP padding: a response head; host, cseq and method are lengths, st is  *)
(* the status tried first.                                                 *)
(***************************************************************************)
StatusLines == <<20, 21, 16>>    \* 100 Trying, 180 Ringing, 200 OK, with CRLF

Digits(n) == Least({d \in 1 .. 9 : n < 10 ^ d})

\* put_line: a line is written if it leaves room for the blank line.
Put(pos, line, pad) == pos + line + 2 <= pad

\* Via, From, To, Call-ID, CSeq.
Mandatory(host, cseq, method) ==
  <<53 + host, 34 + host, 32 + host, 20 + host, 9 + cseq + method>>

\* How many of the lines fit, up to the first that does not.
Fitting(pos, lines, pad) ==
  LET end(n) == pos + Sum(SubSeq(lines, 1, n))
  IN Least({n \in 0 .. Len(lines) :
              n = Len(lines) \/ ~ Put(end(n), lines[n + 1], pad)})

\* One or two spaces after the colon.
Spaces == {1, 2}

\* The widths for which the digits of the body's length are those counted on.
Widths(pos, pad, total) ==
  {w \in Spaces \X (1 .. Digits(total)) :
     LET end == pos + 15 + w[1] + w[2] + 4
     IN end <= pad /\ Digits(total - end) = w[2]}

\* The first of them: fewest spaces, then fewest digits.
FirstWidth(ws) ==
  CHOOSE w \in ws : \A v \in ws : w[1] < v[1] \/ (w[1] = v[1] /\ w[2] <= v[2])

\* The first status that fits, rotating from st; 0 when the padding is too
\* small for any.
StatusOf(st, pad) ==
  LET fits == {k \in 0 .. 2 : Put(0, StatusLines[((st + k - 1) % 3) + 1], pad)}
  IN IF fits = {} THEN 0 ELSE ((st + Least(fits) - 1) % 3) + 1

\* apply_sip_padding: the head's end, and the Content-Length declared.
SipPadding(pad, total, st, host, cseq, method) ==
  LET status == StatusOf(st, pad)
      lines  == Mandatory(host, cseq, method)
      start  == StatusLines[status]
      n      == Fitting(start, lines, pad)
      pos    == start + Sum(SubSeq(lines, 1, n))
      ws     == IF n = Len(lines) THEN Widths(pos, pad, total) ELSE {}
      w      == FirstWidth(ws)
  IN IF status = 0
     THEN [lines |-> 0, declared |-> Blank, head |-> pad]
     ELSE IF ws = {}
     THEN [lines |-> 1 + n, declared |-> Blank, head |-> pos + 2]
     ELSE LET end == pos + 15 + w[1] + w[2] + 4
          IN [lines |-> 1 + n, declared |-> total - end, head |-> end]

(***************************************************************************)
(* DNS names: dns_qname_end over the label lengths of a name, without the  *)
(* root label.                                                             *)
(***************************************************************************)
NameAccepted(labels) ==
  /\ \A k \in DOMAIN labels : labels[k] \in 1 .. 63
  /\ Sum(labels) + Len(labels) + 1 <= 255

NameLen(labels) == Sum(labels) + Len(labels) + 1

(***************************************************************************)
(* detect_protocol.  A datagram has the fields of the protocol its first   *)
(* bytes suggest (view).                                                   *)
(***************************************************************************)
MaxCid == 20

\* dcid and scid are the length bytes read; len is the datagram's.
LooksQuic(d) ==
  /\ d.view = "quic" /\ d.len >= 7 /\ d.version
  /\ d.dcid <= MaxCid /\ d.len > 6 + d.dcid
  /\ d.scid <= MaxCid /\ d.len >= 7 + d.dcid + d.scid

LooksStun(d) ==
  /\ d.view = "stun" /\ d.len >= 20
  /\ d.request /\ d.attrs % 4 = 0 /\ d.len = 20 + d.attrs

\* Faulty variant: a name may be cut off before its type and class.
LooksDns_CutOff(d) ==
  /\ d.view = "dns" /\ d.len >= HeaderLen /\ d.query /\ d.qd = 1
  /\ NameAccepted(d.labels) /\ d.len >= HeaderLen + NameLen(d.labels)

\* is_plausible_dns_query
LooksDns(d) ==
  /\ d.view = "dns" /\ d.len >= HeaderLen /\ d.query /\ d.qd = 1
  /\ NameAccepted(d.labels)
  /\ d.len >= HeaderLen + NameLen(d.labels) + 4
  /\ d.class \in {1, 3, 4, 255}

\* parse_dns_query_echo_ref: the length of the name kept for the cover traffic.
EchoOf(d) ==
  IF /\ d.view = "dns" /\ d.len >= HeaderLen /\ d.query /\ d.qd >= 1
     /\ NameAccepted(d.labels) /\ d.len >= HeaderLen + NameLen(d.labels) + 4
     /\ d.class = 1
  THEN NameLen(d.labels) ELSE Blank

\* A method of the list and the space after it, or SIP/, in any case.
LooksSip(d) == d.view = "sip" /\ d.len >= 4 /\ d.method

Detect(d) ==
  IF LooksQuic(d) THEN "quic" ELSE IF LooksStun(d) THEN "stun"
  ELSE IF LooksDns(d) THEN "dns" ELSE IF LooksSip(d) THEN "sip" ELSE "none"

(***************************************************************************)
(* The stateless answers, by what of the request they repeat.              *)
(***************************************************************************)
MaxResponse == 512

\* generate_quic_version_negotiation
VersionNegotiation(d) ==
  LET echoed == /\ d.len >= 6 /\ d.dcid <= MaxCid /\ d.len > 6 + d.dcid
                /\ d.scid <= MaxCid /\ d.len >= 7 + d.dcid + d.scid
  IN [echoes |-> echoed, len |-> 11 + (IF echoed THEN d.dcid + d.scid ELSE 0)]

\* generate_dns_servfail
Servfail(d) ==
  LET end    == HeaderLen + NameLen(d.labels) + 4
      echoed == /\ d.len > HeaderLen /\ NameAccepted(d.labels) /\ end <= d.len
                /\ end <= MaxResponse
  IN [echoes |-> echoed, len |-> IF echoed THEN end ELSE HeaderLen]

\* generate_stun_binding_success
BindingSuccess(d, v6) ==
  [echoes |-> d.len >= 20, len |-> 20 + 4 + (IF v6 THEN 20 ELSE 8)]

(***************************************************************************)
(* SIP answers.  A request has the lengths of its header lines, 0 for one  *)
(* that is missing; clean: CRLF line ends, valid UTF-8, no Via or CSeq     *)
(* with an empty value; tagged: its To carries a tag.                      *)
(***************************************************************************)
StatusLen == [trying |-> 18, ringing |-> 19, ok |-> 14, terminated |-> 30]
TagLen    == 5 + 8
Closing   == 21    \* Content-Length: 0 and the blank line

Lines(lens) == Sum(lens) + 2 * Len(lens)

\* sip_response_len; only 100 Trying goes without the proxy's tag.
ResponseLen(d, status) ==
  Lines(<<StatusLen[status]>> \o d.via \o <<d.from, d.to, d.callId, d.cseq>>)
    + (IF status # "trying" /\ ~ d.tagged THEN TagLen ELSE 0) + Closing

\* sip_reflected_responses_fit
Fits(d) == \A status \in DOMAIN StatusLen : ResponseLen(d, status) <= MaxResponse

\* SipDialog::from_request
DialogOf(r) ==
  [via |-> r.via, inviteVia |-> r.via, from |-> r.from, to |-> r.to,
   tagged |-> r.tagged, callId |-> r.callId, cseq |-> r.cseq, inviteCseq |-> r.cseq]

Opens(r) ==
  /\ r.clean
  /\ r.via # <<>>
  /\ Lines(r.via) <= MaxResponse
  /\ 0 \notin {r.from, r.to, r.callId, r.cseq}
  /\ Fits(DialogOf(r))

\* update_request_headers: all or nothing.
UpdatedBy(d, r) ==
  LET candidate == [d EXCEPT !.via  = IF r.via = <<>> THEN @ ELSE r.via,
                             !.cseq = IF r.cseq = 0 THEN @ ELSE r.cseq]
  IN IF r.clean /\ Fits(candidate) THEN candidate ELSE d

\* The answers generate_sip_responses can build from a dialog; 487 goes to the
\* transaction of the INVITE.
Replies(d) ==
  {ResponseLen(d, status) : status \in {"trying", "ringing", "ok"}}
    \union {ResponseLen([d EXCEPT !.via = d.inviteVia, !.cseq = d.inviteCseq],
                        "terminated")}

\* generate_sip_trying: the header lines to repeat, until one does not fit.
Trying(lens) ==
  LET end(n) == StatusLen["trying"] + 2 + Lines(SubSeq(lens, 1, n))
      n == Least({k \in 0 .. Len(lens) :
                    k = Len(lens) \/ end(k + 1) + Closing > MaxResponse})
  IN end(n) + Closing

\* generate_response_for_client
Answer(d, v6) ==
  CASE Detect(d) = "quic" -> VersionNegotiation(d)
    [] Detect(d) = "stun" -> BindingSuccess(d, v6)
    [] Detect(d) = "sip" -> [echoes |-> TRUE, len |-> Trying(d.lines)]
    [] OTHER -> Servfail(d)
=============================================================================
