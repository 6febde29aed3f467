-------------------------- MODULE MCRuleAdmission --------------------------
(***************************************************************************)
(* Instances of RuleAdmission for TLC: two IPv4 hosts and an IPv6 host, a  *)
(* network in another one, spellings that are not canonical, and small     *)
(* integers for the widths.                                                *)
(***************************************************************************)
EXTENDS RuleAdmission, TLC

CONSTANTS a4, b4, a6,           \* hosts
          mapped, junk,         \* ::ffff:a4, and no address or network
          wide, narrow, hostBits, v6net, all4,  \* networks; hostBits spells wide
          r1, r2

MCIpOf   == (a4 :> a4) @@ (b4 :> b4) @@ (a6 :> a6) @@ (Any4 :> Any4) @@ (Any6 :> Any6)
              @@ (mapped :> a4) @@ (junk :> Bad)
MCCidrOf == (wide :> wide) @@ (narrow :> narrow) @@ (v6net :> v6net) @@ (all4 :> all4)
              @@ (hostBits :> wide) @@ (junk :> Bad)
MCCovers == (wide :> {a4, b4}) @@ (narrow :> {a4}) @@ (v6net :> {a6})
              @@ (all4 :> {a4, b4, Any4})

Alike == Permutations(Ids)

Drop  == [NoChange EXCEPT !.action = "drop"]
Limit == [NoChange EXCEPT !.action = "rate_limit", !.rate = 2]
Off   == <<FALSE>>
Syn   == << <<Lit("SYN", TRUE), Lit("SYN", FALSE), Lit("ACK", FALSE)>> >>

\* Accepted rules of every kind.
Good ==
  {[Drop EXCEPT !.srcIP = mapped, !.dstPort = 1, !.protocol = "tcp", !.flags = Syn],
   [Limit EXCEPT !.srcIP = a4, !.dstPort = 1],
   [Drop EXCEPT !.dstIP = b4, !.lenMin = <<1>>, !.lenMax = <<2>>],
   [Drop EXCEPT !.srcIP = Any4, !.dstIP = b4, !.enabled = Off],
   [Drop EXCEPT !.dstIP = b4, !.decoder = "bad_fragment"],
   [Drop EXCEPT !.dstIP = b4, !.decoder = "invalid", !.lenMax = <<1>>],
   [Drop EXCEPT !.srcIP = a6, !.anomaly = {"invalid"}],
   [Drop EXCEPT !.decoder = "tcp_ack", !.srcPort = 1],
   [Drop EXCEPT !.srcCIDR = hostBits, !.lenMax = <<2>>],
   [Limit EXCEPT !.srcCIDR = narrow, !.dstPort = 1],
   [Drop EXCEPT !.dstCIDR = wide, !.decoder = "invalid"],
   [Drop EXCEPT !.dstCIDR = all4, !.protocol = "gre"],
   [Drop EXCEPT !.srcIP = Any6]}

\* Each breaks one rule.
Wrong ==
  {[Drop EXCEPT !.srcIP = a4, !.rate = 1], [Limit EXCEPT !.srcIP = a4, !.rate = 0],
   [Drop EXCEPT !.srcIP = junk], [Drop EXCEPT !.srcCIDR = junk],
   [Drop EXCEPT !.srcIP = a4, !.dstCIDR = wide], [Drop EXCEPT !.srcPort = 4],
   [Drop EXCEPT !.protocol = "gre", !.dstPort = 1], [Drop EXCEPT !.lenMin = <<1>>],
   [Drop EXCEPT !.srcIP = a4, !.lenMin = <<2>>, !.lenMax = <<1>>],
   [Drop EXCEPT !.protocol = "udp", !.flags = Syn],
   [Drop EXCEPT !.srcIP = a6, !.decoder = "bad_fragment"],
   [Drop EXCEPT !.srcIP = Any4, !.anomaly = {"invalid"}],
   [Drop EXCEPT !.dstCIDR = all4, !.anomaly = {"invalid"}],
   [Drop EXCEPT !.srcIP = a4, !.anomaly = {"invalid", "other"}],
   [Limit EXCEPT !.srcIP = a4, !.anomaly = {"invalid"}],
   [Drop EXCEPT !.dstIP = a4, !.protocol = "tcp", !.flags = Syn, !.anomaly = {"invalid"}]}

AllRequests == Good \cup Wrong

MCBatches == {<<[Drop EXCEPT !.dstPort = 1], [Drop EXCEPT !.dstPort = 1, !.srcCIDR = wide]>>,
              <<[Drop EXCEPT !.srcCIDR = wide], [Limit EXCEPT !.srcCIDR = narrow, !.enabled = Off]>>}

MCPatches ==
  {[NoChange EXCEPT !.enabled = Off], [NoChange EXCEPT !.enabled = <<TRUE>>],
   Limit, [NoChange EXCEPT !.action = "rate_limit"], Drop, [Drop EXCEPT !.rate = 3],
   [NoChange EXCEPT !.lenMin = <<2>>], [NoChange EXCEPT !.lenMax = <<0>>],
   [NoChange EXCEPT !.flags = << <<>> >>], [NoChange EXCEPT !.flags = << <<Lit("RST", TRUE)>> >>],
   [NoChange EXCEPT !.decoder = "bad_fragment"], [NoChange EXCEPT !.decoder = "invalid"],
   [NoChange EXCEPT !.decoder = "bad_fragment", !.flags = << <<>> >>],
   [NoChange EXCEPT !.decoder = "tcp_rst"], [NoChange EXCEPT !.protocol = "tcp"],
   [NoChange EXCEPT !.dstIP = b4]}

P(s, d, proto, sp, dp, n, fl, an) ==
  [src |-> s, dst |-> d, protocol |-> proto, srcPort |-> sp, dstPort |-> dp, len |-> n,
   flags |-> fl, anomaly |-> an]

MCPackets ==
  {P(a4, b4, "tcp", 1, 1, 1, {"SYN"}, {}), P(a4, b4, "tcp", 1, 1, 3, {"ACK"}, {"invalid"}),
   P(a4, b4, "udp", 1, 1, 2, {}, {"bad_fragment"}), P(b4, b4, "tcp", 1, 2, 2, {"RST"}, {}),
   P(b4, a4, "gre", 0, 0, 2, {}, {}), P(a6, a6, "tcp", 2, 1, 2, {"ACK"}, {"invalid"}),
   P(a6, a6, "icmpv6", 0, 0, 1, {}, {}), P(Any6, a6, "icmpv6", 0, 0, 2, {}, {})}
=============================================================================
