---------------------------- MODULE ComboLookup ----------------------------
(***************************************************************************)
(* What the agent makes of a rule the controller sends, and what the XDP   *)
(* programs make of a packet: the agent's own validators (validate.go,     *)
(* convert.go), the classification of a key into a combo (combo.go), and   *)
(* the lookups of xdp_firewall_main and xdp_anomaly_verify, which probe    *)
(* one key for every combo whose bitmap bit is set.                        *)
(*                                                                         *)
(* An installed rule is [cidr, key, val].  The id a network has in the     *)
(* tries is the network itself: CidrRules is about the ids.  The tries     *)
(* hold the networks of the installed rules.                               *)
(***************************************************************************)
EXTENDS RuleFields, FiniteSetsExt

Fields == {"src", "dst", "srcPort", "dstPort", "protocol"}

ComboUnknown == -1

\* The combos of combo.go, by number: which fields of the key are set.
comboFields ==
  LET s == "src" d == "dst" sp == "srcPort" dp == "dstPort" p == "protocol" IN
  [c \in (0 .. 33) \ {19} |->
    CASE c = 0  -> {s, d, sp, dp, p} [] c = 1  -> {d, sp, dp, p}
      [] c = 2  -> {d, dp, p}        [] c = 3  -> {d, p}
      [] c = 4  -> {d}               [] c = 5  -> {p}
      [] c = 6  -> {sp}              [] c = 7  -> {dp}
      [] c = 8  -> {s}               [] c = 9  -> {s, p}
      [] c = 10 -> {s, d}            [] c = 11 -> {s, dp}
      [] c = 12 -> {d, dp}           [] c = 13 -> {s, d, p}
      [] c = 14 -> {s, dp, p}        [] c = 15 -> {sp, p}
      [] c = 16 -> {dp, p}           [] c = 17 -> {s, sp}
      [] c = 18 -> {s, sp, p}        [] c = 20 -> {d, dp, p}
      [] c = 21 -> {s, d, dp}        [] c = 22 -> {s, d, dp, p}
      [] c = 23 -> {s, sp, dp}       [] c = 24 -> {s, sp, dp, p}
      [] c = 25 -> {d, sp}           [] c = 26 -> {d, sp, p}
      [] c = 27 -> {sp, dp}          [] c = 28 -> {sp, dp, p}
      [] c = 29 -> {s, d, sp}        [] c = 30 -> {s, d, sp, p}
      [] c = 31 -> {d, sp, dp}       [] c = 32 -> {d, sp, dp, p}
      [] c = 33 -> {s, d, sp, dp}]

\* The fields each block of lookup_rule copies from the packet's key; the other
\* three lookups have the same blocks.  They are probed in this order.
probeFields ==
  LET s == "src" d == "dst" sp == "srcPort" dp == "dstPort" p == "protocol" IN
  <<{s, d, sp, dp, p}, {d, sp, dp, p}, {d, dp, p}, {d, p}, {d}, {p}, {sp}, {dp},
    {s}, {s, p}, {s, d}, {s, dp}, {d, dp}, {s, d, p}, {s, dp, p}, {sp, p},
    {dp, p}, {s, sp}, {s, sp, p}, {}, {d, dp, p}, {s, d, dp}, {s, d, dp, p},
    {s, sp, dp}, {s, sp, dp, p}, {d, sp}, {d, sp, p}, {sp, dp}, {sp, dp, p},
    {s, d, sp}, {s, d, sp, p}, {d, sp, dp}, {d, sp, dp, p}, {s, d, sp, dp}>>

ZeroKey == [src |-> None, dst |-> None, srcPort |-> 0, dstPort |-> 0, protocol |-> "all"]

SetFields(key) == {f \in Fields : key[f] # ZeroKey[f]}

\* getComboType and getCIDRComboType: the first case that fits.
getComboOf ==
  [fs \in SUBSET Fields |->
    LET cs == {c \in DOMAIN comboFields : comboFields[c] = fs}
    IN  IF cs = {} THEN ComboUnknown ELSE Min(cs)]

\* "Must match xdrop.h": every key with a field has a combo, and the block the
\* programs have for that combo copies just the fields that are set.
ASSUME TablesAgree ==
  \A fs \in (SUBSET Fields) \ {{}} :
    getComboOf[fs] # ComboUnknown /\ probeFields[getComboOf[fs] + 1] = fs

\* Bug variant of getComboType: the protocol is forgotten.
getComboTypeNoProto(key) == getComboOf[SetFields(key) \ {"protocol"}]

getComboType(key) == getComboOf[SetFields(key)]

-----------------------------------------------------------------------------
(* The agent *)

\* ruleToKey and the key of addCIDRRule.
ruleToKey(row) ==
  LET Ip(a) == IF a \in {Any4, Any6} THEN None ELSE a IN
  [src |-> IF isCIDR(row) THEN row.srcCIDR ELSE Ip(row.srcIP),
   dst |-> IF isCIDR(row) THEN row.dstCIDR ELSE Ip(row.dstIP),
   srcPort |-> row.srcPort, dstPort |-> row.dstPort, protocol |-> row.protocol]

\* The 400 answers of AddRule and addCIDRRule.  ToNodeRule leaves out "all";
\* the agent's own fields are unsigned.
validNode(row) ==
  /\ ~(isCIDR(row) /\ {row.srcIP, row.dstIP} # {None})
  /\ {row.srcPort, row.dstPort, row.lenMin, row.lenMax} \subseteq 0 .. MaxU16
  /\ row.rate \in 0 .. MaxU32
  /\ row.flags.set \cap row.flags.clear = {}
  /\ row.flags # NoFlags => row.protocol = "tcp"
  /\ ~isCIDR(row) => lengthOk(row, row.lenMin, row.lenMax)
  /\ validatePortProtocolCompat(row)
  /\ row.action = "rate_limit" => row.rate > 0
  /\ row.anomaly # {} =>
       /\ row.anomaly \subseteq validBits
       /\ row.action # "rate_limit"
       /\ hasBoundedAnomalyTarget(row)
       /\ "bad_fragment" \in row.anomaly =>
            /\ {row.srcIP, row.dstIP} \cap Hosts6 = {}
            /\ {row.srcCIDR, row.dstCIDR} \cap Nets6 = {}

Entry(row) ==
  [cidr |-> isCIDR(row), key |-> ruleToKey(row),
   val  |-> [action |-> row.action, rate |-> row.rate, lenMin |-> row.lenMin,
             lenMax |-> row.lenMax, flags |-> row.flags, anomaly |-> row.anomaly]]

\* The networks in the source and in the destination tries.
srcCIDRs(es) == {e.key.src : e \in {x \in es : x.cidr}} \ {None}
dstCIDRs(es) == {e.key.dst : e \in {x \in es : x.cidr}} \ {None}

\* The agent's answer to an add, with the rules es installed.
Answer(row, es) ==
  LET e == Entry(row) IN
  IF ~validNode(row) THEN "invalid"
  ELSE IF e.cidr /\ \/ row.srcCIDR # None /\ findCIDROverlap(row.srcCIDR, srcCIDRs(es))
                    \/ row.dstCIDR # None /\ findCIDROverlap(row.dstCIDR, dstCIDRs(es))
  THEN "overlap"
  ELSE IF getComboType(e.key) = ComboUnknown THEN "nocombo"
  ELSE IF \E x \in es : x.cidr = e.cidr /\ x.key = e.key THEN "taken"
  ELSE "ok"

-----------------------------------------------------------------------------
(* The programs *)

\* The key xdp_firewall_main builds; only TCP and UDP have ports, and :: is the
\* wildcard's zero.
packetKey(p) ==
  LET Ip(a)   == IF a = Any6 THEN None ELSE a
      Port(n) == IF p.protocol \in {"tcp", "udp"} THEN n ELSE 0
  IN  [src |-> Ip(p.src), dst |-> Ip(p.dst), srcPort |-> Port(p.srcPort),
       dstPort |-> Port(p.dstPort), protocol |-> p.protocol]

\* The LPM lookups: the smallest network of ns the address is in.
lpm(a, ns) ==
  LET hits == {n \in ns : a \in Covers[n]}
  IN  IF hits = {} THEN None ELSE CHOOSE n \in hits : \A m \in hits : Covers[n] \subseteq Covers[m]

cidrKey(p, es) ==
  [packetKey(p) EXCEPT !.src = lpm(p.src, srcCIDRs(es)), !.dst = lpm(p.dst, dstCIDRs(es))]

pkt_len_matches(v, n) ==
  (v.lenMin > 0 => n >= v.lenMin) /\ (v.lenMax > 0 => n <= v.lenMax)

tcp_flags_matches(v, p) ==
  v.flags # NoFlags /\ p.protocol = "tcp" =>
    v.flags.set \subseteq p.flags /\ v.flags.clear \cap p.flags = {}

\* lookup_rule and lookup_cidr_rule take rules without anomaly bits, the other
\* two those that share a bit with the packet.
anomaly_matches(v, p, verify) ==
  IF verify THEN v.anomaly \cap p.anomaly # {} ELSE v.anomaly = {}

\* The key block c probes.
Probe(key, c) == [f \in Fields |-> IF f \in probeFields[c + 1] THEN key[f] ELSE ZeroKey[f]]

\* One lookup over the rules es, all exact or all CIDR: the rule of the first
\* block whose rule passes the three checks.
lookup(key, p, es, verify) ==
  LET bitmap  == {getComboType(e.key) : e \in es}
      Hit(c)  == {e \in es : /\ e.key = Probe(key, c)
                             /\ pkt_len_matches(e.val, p.len)
                             /\ tcp_flags_matches(e.val, p)
                             /\ anomaly_matches(e.val, p, verify)}
      hitting == {c \in bitmap : Hit(c) # {}}
  IN  IF hitting = {} THEN {} ELSE Hit(Min(hitting))

\* A rule that was found acts unless it limits to rate 0.
acts(v) == v.action = "drop" \/ v.rate > 0

Found(key, p, es, verify) == \E e \in lookup(key, p, es, verify) : acts(e.val)

\* The packet is dropped or goes through a rate limiter: the exact rules, then
\* the networks, then, with an anomaly rule installed and an anomaly in the
\* packet, xdp_anomaly_verify.
actedOn(p, es) ==
  LET exact == {e \in es : ~e.cidr}
      cidr  == {e \in es : e.cidr}
      ck    == cidrKey(p, es)
      InNet == ck.src # None \/ ck.dst # None
      Pass(verify) == \/ Found(packetKey(p), p, exact, verify)
                      \/ InNet /\ Found(ck, p, cidr, verify)
  IN  \/ Pass(FALSE)
      \/ /\ \E e \in es : e.val.anomaly # {}
         /\ p.anomaly # {}
         /\ Pass(TRUE)
=============================================================================
