---------------------------- MODULE RuleFields ----------------------------
(***************************************************************************)
(* What the controller accepts as a rule: the decoder sugar of decoder.go  *)
(* and the validators of rule_service.go, as operators on requests and on  *)
(* rows of the rules table.                                                *)
(*                                                                         *)
(* A request holds what the client wrote; an absent string is None, an     *)
(* absent pointer field the empty sequence, a present one a sequence of    *)
(* length 1.  match_anomaly is the set of its bits, tcp_flags a sequence   *)
(* of literals.  Every validator returns an error and changes nothing, so  *)
(* acceptance is the conjunction of the checks.                            *)
(***************************************************************************)
EXTENDS Integers, Sequences

CONSTANTS
  None,            \* the empty string
  Bad,             \* what a text parses to that is no address or network
  Hosts4, Hosts6,  \* host addresses, in canonical form
  Any4, Any6,      \* 0.0.0.0 and ::
  Nets4, Nets6,    \* networks, in canonical form
  Default,         \* the networks of prefix length 0
  Covers,          \* Covers[n]: the addresses of network n
  IpOf,            \* IpOf[t]: the canonical address text t denotes, or Bad
  CidrOf,          \* CidrOf[t]: the canonical network text t denotes, or Bad
  MaxU16, MaxU32   \* the largest values of the agent's uint16 and uint32 fields

Nets  == Nets4 \cup Nets6
Addrs == Hosts4 \cup Hosts6 \cup {Any4, Any6}

ASSUME FieldsAssumption ==
  /\ Default \subseteq Nets
  /\ Covers \in [Nets -> SUBSET Addrs]
  /\ \A t \in DOMAIN IpOf : IpOf[t] \in Addrs \cup {Bad}
  /\ \A t \in DOMAIN CidrOf : CidrOf[t] \in Nets \cup {Bad}
  /\ None \notin Addrs \cup Nets \cup {Bad, "all", "tcp", "drop", "rate_limit"}
  /\ Bad \notin Addrs \cup Nets
  /\ {Any4, Any6} \cap (Hosts4 \cup Hosts6) = {}
  /\ (Hosts4 \cup {Any4}) \cap (Hosts6 \cup {Any6}) = {}
  /\ Nets4 \cap Nets6 = {} /\ Addrs \cap Nets = {}
  /\ \A n \in Nets4 : Covers[n] \subseteq Hosts4 \cup {Any4}
  /\ \A n \in Nets6 : Covers[n] \subseteq Hosts6 \cup {Any6}
  /\ \A m, n \in Nets : \/ Covers[m] \subseteq Covers[n] \/ Covers[n] \subseteq Covers[m]
                        \/ Covers[m] \cap Covers[n] = {}
  /\ MaxU16 \in Nat /\ MaxU32 \in Nat

-----------------------------------------------------------------------------
(* Fields *)

validProtocols    == {"all", "tcp", "udp", "icmp", "icmpv6", "igmp", "gre", "esp", None}
portlessProtocols == {"icmp", "icmpv6", "igmp", "gre", "esp"}
validTcpFlags     == {"FIN", "SYN", "RST", "PSH", "ACK", "URG", "ECE", "CWR"}
validBits         == {"bad_fragment", "invalid"}

\* derefInt, derefString and the tri-state reads of Update.
Deref(p, default) == IF p = <<>> THEN default ELSE p[1]

NoFlags == [set |-> {}, clear |-> {}]

\* validateAndNormalizeTcpFlags: literals of a flag already seen are skipped.
FlagsKnown(s) == \A n \in DOMAIN s : s[n].flag \in validTcpFlags

\* Bug variant of normalizeFlags: a repeated flag is taken again.
normalizeFlagsAll(s) ==
  [set   |-> {s[n].flag : n \in {m \in DOMAIN s : s[m].on}},
   clear |-> {s[n].flag : n \in {m \in DOMAIN s : ~s[m].on}}]

normalizeFlags(s) ==
  LET first == {n \in DOMAIN s : \A m \in 1 .. n - 1 : s[m].flag # s[n].flag}
  IN  [set   |-> {s[n].flag : n \in {m \in first : s[m].on}},
       clear |-> {s[n].flag : n \in {m \in first : ~s[m].on}}]

\* isIPv6String and isIPv6CIDR, on any of the four target fields.
isIPv6Target(r) ==
  \/ {r.srcIP, r.dstIP} \cap (Hosts6 \cup {Any6}) # {}
  \/ {r.srcCIDR, r.dstCIDR} \cap Nets6 # {}

hasExplicitTarget(r) == {r.srcIP, r.dstIP, r.srcCIDR, r.dstCIDR} # {None}

\* 0.0.0.0, :: and networks of length 0 bound nothing.
hasBoundedAnomalyTarget(r) ==
  \/ {r.srcIP, r.dstIP} \cap (Hosts4 \cup Hosts6) # {}
  \/ {r.srcCIDR, r.dstCIDR} \cap (Nets \ Default) # {}

-----------------------------------------------------------------------------
(* decoder.go *)

Lit(f, b) == [flag |-> f, on |-> b]

knownDecoders ==
  [tcp_ack      |-> [protocol |-> "tcp", flags |-> << <<Lit("ACK", TRUE), Lit("SYN", FALSE)>> >>,
                     anomaly |-> {}],
   tcp_rst      |-> [protocol |-> "tcp", flags |-> << <<Lit("RST", TRUE)>> >>, anomaly |-> {}],
   tcp_fin      |-> [protocol |-> "tcp", flags |-> << <<Lit("FIN", TRUE)>> >>, anomaly |-> {}],
   bad_fragment |-> [protocol |-> None, flags |-> <<>>, anomaly |-> {"bad_fragment"}],
   invalid      |-> [protocol |-> None, flags |-> <<>>, anomaly |-> {"invalid"}]]

\* normalizeDecoderInternal: the refusals; target has the four target fields.
decoderOk(req, target, requireExplicitTarget) ==
  req.decoder # None =>
    /\ req.decoder \in DOMAIN knownDecoders
    /\ req.protocol = None
    /\ Deref(req.flags, <<>>) = <<>>
    /\ req.anomaly = {}
    /\ knownDecoders[req.decoder].anomaly # {} =>
         /\ req.action # "rate_limit"
         /\ knownDecoders[req.decoder].anomaly = {"bad_fragment"} => ~isIPv6Target(target)
         /\ requireExplicitTarget => hasExplicitTarget(target)

\* normalizeDecoderInternal: the expansion.
normalizeDecoder(req) ==
  IF req.decoder = None THEN req
  ELSE LET spec == knownDecoders[req.decoder] IN
       [req EXCEPT !.decoder  = None,
                   !.protocol = spec.protocol,
                   !.flags    = IF spec.flags = <<>> THEN @ ELSE spec.flags,
                   !.anomaly  = spec.anomaly]

\* validateAnomalyEffective, with target from the request or the stored row.
anomalyOk(bits, action, target) ==
  bits # {} =>
    /\ bits \subseteq validBits
    /\ action # "rate_limit"
    /\ hasBoundedAnomalyTarget(target)
    /\ "bad_fragment" \in bits => ~isIPv6Target(target)

-----------------------------------------------------------------------------
(* Validators of rule_service.go, on a request with canonical targets *)

\* validateIPFields and validateCIDRRule rewrite the targets.
Canonical(req) ==
  LET Ip(t)   == IF t = None THEN None ELSE IpOf[t]
      Cidr(t) == IF t = None THEN None ELSE CidrOf[t]
  IN  [req EXCEPT !.srcIP = Ip(@), !.dstIP = Ip(@), !.srcCIDR = Cidr(@), !.dstCIDR = Cidr(@)]

isCIDR(r) == r.srcCIDR # None \/ r.dstCIDR # None

targetsOk(r) ==
  /\ Bad \notin {r.srcIP, r.dstIP, r.srcCIDR, r.dstCIDR}
  /\ isCIDR(r) => r.srcIP = None /\ r.dstIP = None

validateRuleScalarBounds(r) ==
  /\ r.srcPort \in 0 .. MaxU16 /\ r.dstPort \in 0 .. MaxU16
  /\ \A p \in {r.lenMin, r.lenMax} : p # <<>> => p[1] \in 0 .. MaxU16
  /\ r.rate \in 0 .. MaxU32
  /\ ~(r.action = "drop" /\ r.rate > 0)

validatePortProtocolCompat(r) ==
  r.protocol \in portlessProtocols => r.srcPort = 0 /\ r.dstPort = 0

has5Tuple(r) ==
  \/ hasExplicitTarget(r)
  \/ r.srcPort # 0 \/ r.dstPort # 0
  \/ r.protocol \notin {None, "all"}

\* validatePktLenRule: the lengths.
lengthOk(r, min, max) ==
  /\ min > 0 \/ max > 0 => has5Tuple(r)
  /\ min > 0 /\ max > 0 => min <= max

\* validatePktLenRule and Update: the flags.
tcpFlagsOk(literals, protocol) ==
  literals # <<>> => protocol = "tcp" /\ FlagsKnown(literals)

\* Bug variant of exclusive: the check is missing.
exclusiveNot(flagged, bits) == TRUE

\* R6-001: tcp_flags and match_anomaly exclude each other.
exclusive(flagged, bits) == ~(flagged /\ bits # {})

\* Create and BatchCreate: every check that needs no database.
CreateOk(raw) ==
  LET r == Canonical(normalizeDecoder(raw)) IN
  /\ decoderOk(raw, Canonical(raw), TRUE)
  /\ r.action \in {"drop", "rate_limit"}
  /\ r.action = "rate_limit" => r.rate > 0
  /\ targetsOk(r)
  /\ validateRuleScalarBounds(r)
  /\ r.protocol \in validProtocols
  /\ validatePortProtocolCompat(r)
  /\ lengthOk(r, Deref(r.lenMin, 0), Deref(r.lenMax, 0))
  /\ tcpFlagsOk(Deref(r.flags, <<>>), r.protocol)
  /\ anomalyOk(r.anomaly, r.action, r)
  /\ exclusive(Deref(r.flags, <<>>) # <<>>, r.anomaly)

\* The row Create builds.
NewRow(raw) ==
  LET r == Canonical(normalizeDecoder(raw)) IN
  [srcIP |-> r.srcIP, dstIP |-> r.dstIP, srcCIDR |-> r.srcCIDR, dstCIDR |-> r.dstCIDR,
   srcPort |-> r.srcPort, dstPort |-> r.dstPort,
   protocol |-> IF r.protocol = None THEN "all" ELSE r.protocol,
   action |-> r.action, rate |-> r.rate,
   lenMin |-> Deref(r.lenMin, 0), lenMax |-> Deref(r.lenMax, 0),
   flags |-> normalizeFlags(Deref(r.flags, <<>>)),
   anomaly |-> r.anomaly, enabled |-> Deref(r.enabled, TRUE)]

-----------------------------------------------------------------------------
(* Update: the request against the stored row *)

effectiveAction(req, row) == IF req.action = None THEN row.action ELSE req.action
effectiveRate(req, row)   == IF req.rate > 0 THEN req.rate ELSE row.rate
effectiveBits(req, row)   == IF req.anomaly = {} THEN row.anomaly ELSE req.anomaly

\* The row Update writes; raw names no target, which it may not change.
UpdatedRow(raw, row) ==
  LET req == normalizeDecoder(raw) IN
  [row EXCEPT !.action  = effectiveAction(req, row),
              !.rate    = IF effectiveAction(req, row) = "drop" THEN 0 ELSE effectiveRate(req, row),
              !.lenMin  = Deref(req.lenMin, @),
              !.lenMax  = Deref(req.lenMax, @),
              !.flags   = IF req.flags = <<>> THEN @ ELSE normalizeFlags(req.flags[1]),
              !.anomaly = effectiveBits(req, row),
              !.enabled = Deref(req.enabled, @)]

\* The length check of Update sees the row without its networks.
tempReq(row) == [row EXCEPT !.srcCIDR = None, !.dstCIDR = None]

\* Every check of Update.
UpdateOk(raw, row) ==
  LET req == normalizeDecoder(raw)
      new == UpdatedRow(raw, row)
  IN  /\ decoderOk(raw, row, FALSE)
      /\ ~hasExplicitTarget(req)
      /\ req.protocol \in {None, row.protocol}
      /\ req.srcPort \in {0, row.srcPort} /\ req.dstPort \in {0, row.dstPort}
      /\ validateRuleScalarBounds(req)
      /\ anomalyOk(effectiveBits(req, row), effectiveAction(req, row), row)
      /\ lengthOk(tempReq(row), new.lenMin, new.lenMax)
      /\ req.action \in {None, "drop", "rate_limit"}
      /\ new.action = "rate_limit" => effectiveRate(req, row) > 0
      /\ ~(req.rate > 0 /\ new.action = "drop")
      /\ tcpFlagsOk(Deref(req.flags, <<>>), row.protocol)
      /\ exclusive(new.flags # NoFlags, new.anomaly)

-----------------------------------------------------------------------------
(* Overlap *)

\* findCIDROverlap: another network of the same family that contains n or is
\* contained in it.
findCIDROverlap(n, others) ==
  \E m \in others \ {n} :
    /\ m \in Nets4 <=> n \in Nets4
    /\ Covers[m] \subseteq Covers[n] \/ Covers[n] \subseteq Covers[m]

\* checkCIDROverlap, on the rows rs.
checkCIDROverlap(row, rs) ==
  \/ row.srcCIDR # None /\ findCIDROverlap(row.srcCIDR, {r.srcCIDR : r \in rs} \ {None})
  \/ row.dstCIDR # None /\ findCIDROverlap(row.dstCIDR, {r.dstCIDR : r \in rs} \ {None})
=============================================================================
