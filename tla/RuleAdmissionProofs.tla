------------------------ MODULE RuleAdmissionProofs ------------------------
(***************************************************************************)
(* For any requests, batches, patches, handlers and spellings of addresses *)
(* and networks: every row of the rules table is a sound rule, and the     *)
(* agent refuses none of them as invalid.  The argument is that each of    *)
(* the four ways to make a row (create, batch item, merge, partial update) *)
(* makes a sound one of a sound one, and that a row a handler has computed *)
(* stays sound however old it is when it is written or sent.               *)
(*                                                                         *)
(* For one handler at a time: at rest the packets the node acts on are     *)
(* those its enabled rules are about.  The first half of the argument is   *)
(* about the data path alone, over any set of rules it can hold together;  *)
(* the second shows that the rules of the table are such a set and that    *)
(* the node holds them.                                                    *)
(***************************************************************************)
EXTENDS RuleAdmission, SequenceTheorems, WellFoundedInduction, TLAPS

-----------------------------------------------------------------------------
(* The inductive invariant *)

SoundRow == {r \in Rows : Sound(r)}

\* The items a batch still has to check.
Items == [id : Ids, req : UNION {Range(b) : b \in Batches}]

Rowed == [id : Ids, row : SoundRow]
Call  == [call : {"add"}, id : Ids, row : SoundRow] \cup [call : {"delete"}, id : Ids, row : {None}]

\* Whatever a handler is about to write or to send is sound.
JobOK(j) ==
  /\ j.todo \in Seq(Items) /\ j.rows \in Seq(Rowed) /\ j.calls \in Seq(Call)
  /\ j.op = "update" => j.row \in SoundRow
  /\ j.op \in {"update", "delete"} => j.id \in Ids
  /\ j.at = "push" => j.calls # <<>>

IInv ==
  /\ rules \in [Ids -> SoundRow \cup {None}]
  /\ DOMAIN job = Handlers /\ \A h \in Handlers : JobOK(job[h])
  /\ DOMAIN pushed = Ids /\ Agreed

-----------------------------------------------------------------------------
(* Requests *)

BodyFields == {"decoder", "srcIP", "dstIP", "srcCIDR", "dstCIDR", "srcPort", "dstPort",
               "protocol", "action", "rate", "lenMin", "lenMax", "flags", "anomaly", "enabled"}

\* A list of lists of flags.
Flags(q) == List(q) /\ \A s \in Range(q) : List(s)

LEMMA Lists ==
  ASSUME NEW x, NEW y
  PROVE  List(<<>>) /\ List(<<x>>) /\ List(<<x, y>>)
<1>1. <<x>>[1] = x /\ <<x, y>>[1] = x /\ <<x, y>>[2] = y
  OBVIOUS
<1>2. x \in Range(<<x>>) /\ x \in Range(<<x, y>>) /\ y \in Range(<<x, y>>)
  BY <1>1 DEF Range
<1>3. \A S : /\ <<>> \in Seq(S) /\ (x \in S => <<x>> \in Seq(S))
            /\ (x \in S /\ y \in S => <<x, y>> \in Seq(S))
  OBVIOUS
<1> HIDE DEF Range
<1> QED
  BY <1>2, <1>3 DEF List

\* The decoder's flags are literals.
LEMMA Decoders ==
  ASSUME NEW d \in DOMAIN knownDecoders
  PROVE  Flags(knownDecoders[d].flags)
<1>1. d \in {"tcp_ack", "tcp_rst", "tcp_fin", "bad_fragment", "invalid"}
  BY DEF knownDecoders
<1>2. Flags(<<>>)
  <2>1. DOMAIN <<>> = {}
    OBVIOUS
  <2>2. Range(<<>>) = {}
    BY <2>1 DEF Range
  <2> QED
    BY <2>2, Lists DEF Flags
<1>3. ASSUME NEW s, List(s) PROVE Flags(<<s>>)
  <2>1. Range(<<s>>) = {s}
    BY DEF Range
  <2> QED
    BY <1>3, <2>1, Lists DEF Flags
<1>4. CASE d = "tcp_ack"
  <2>1. knownDecoders[d].flags = << <<Lit("ACK", TRUE), Lit("SYN", FALSE)>> >>
    BY <1>4 DEF knownDecoders
  <2> QED
    BY <2>1, <1>3, Lists
<1>5. CASE d = "tcp_rst"
  <2>1. knownDecoders[d].flags = << <<Lit("RST", TRUE)>> >>
    BY <1>5 DEF knownDecoders
  <2> QED
    BY <2>1, <1>3, Lists
<1>6. CASE d = "tcp_fin"
  <2>1. knownDecoders[d].flags = << <<Lit("FIN", TRUE)>> >>
    BY <1>6 DEF knownDecoders
  <2> QED
    BY <2>1, <1>3, Lists
<1>7. CASE d = "bad_fragment"
  <2>1. knownDecoders[d].flags = <<>>
    BY <1>7 DEF knownDecoders
  <2> QED
    BY <2>1, <1>2
<1>8. CASE d = "invalid"
  <2>1. knownDecoders[d].flags = <<>>
    BY <1>8 DEF knownDecoders
  <2> QED
    BY <2>1, <1>2
<1> QED
  BY <1>1, <1>4, <1>5, <1>6, <1>7, <1>8

\* The expansion of a decoder leaves the fields it does not name.
LEMMA Expanded ==
  ASSUME NEW raw, Body(raw), NEW target, NEW explicit, decoderOk(raw, target, explicit)
  PROVE  LET r == normalizeDecoder(raw) IN
         /\ DOMAIN r = BodyFields
         /\ r.srcIP = raw.srcIP /\ r.dstIP = raw.dstIP
         /\ r.srcCIDR = raw.srcCIDR /\ r.dstCIDR = raw.dstCIDR
         /\ r.srcPort = raw.srcPort /\ r.dstPort = raw.dstPort
         /\ r.action = raw.action /\ r.rate = raw.rate
         /\ r.lenMin = raw.lenMin /\ r.lenMax = raw.lenMax
         /\ r.enabled \in Seq(BOOLEAN)
         /\ Flags(r.flags)
<1>0. DOMAIN raw = BodyFields /\ Flags(raw.flags) /\ raw.enabled \in Seq(BOOLEAN)
  BY DEF Body, BodyFields, Flags
<1>1. CASE raw.decoder = None
  BY <1>0, <1>1 DEF normalizeDecoder
<1>2. CASE raw.decoder # None
  <2>1. raw.decoder \in DOMAIN knownDecoders
    BY <1>2 DEF decoderOk
  <2>2. Flags(knownDecoders[raw.decoder].flags)
    BY <2>1, Decoders
  <2> DEFINE spec == knownDecoders[raw.decoder]
             fl   == IF spec.flags = <<>> THEN raw.flags ELSE spec.flags
  <2>3. normalizeDecoder(raw) =
          [raw EXCEPT !.decoder = None, !.protocol = spec.protocol, !.flags = fl,
                      !.anomaly = spec.anomaly]
    BY <1>2 DEF normalizeDecoder
  <2>4. Flags(fl)
    BY <1>0, <2>2
  <2> HIDE DEF spec, fl
  <2> QED
    BY <1>0, <2>3, <2>4 DEF BodyFields
<1> QED
  BY <1>1, <1>2

\* An optional value that is there or not.
LEMMA Optional ==
  ASSUME NEW S, NEW q \in Seq(S), NEW x \in S
  PROVE  Deref(q, x) \in S /\ (q # <<>> => q[1] \in S)
BY DEF Deref

\* Flags that are normalised contradict nothing.
LEMMA FlagFacts ==
  ASSUME NEW s, List(s), FlagsKnown(s)
  PROVE  /\ normalizeFlags(s) \in [set : SUBSET validTcpFlags, clear : SUBSET validTcpFlags]
         /\ normalizeFlags(s).set \cap normalizeFlags(s).clear = {}
         /\ s = <<>> => normalizeFlags(s) = NoFlags
<1> DEFINE first == {n \in DOMAIN s : \A m \in 1 .. n - 1 : s[m].flag # s[n].flag}
           on    == {s[n].flag : n \in {m \in first : s[m].on}}
           off   == {s[n].flag : n \in {m \in first : ~s[m].on}}
<1>1. normalizeFlags(s) = [set |-> on, clear |-> off]
  BY DEF normalizeFlags
<1>2. on \subseteq validTcpFlags /\ off \subseteq validTcpFlags
  BY DEF FlagsKnown
<1>3. on \cap off = {}
  <2> SUFFICES ASSUME NEW m \in first, NEW n \in first, s[m].on, ~s[n].on,
                      s[m].flag = s[n].flag
               PROVE  FALSE
    OBVIOUS
  <2>1. m \in 1 .. Len(s) /\ n \in 1 .. Len(s) /\ Len(s) \in Nat
    BY DEF List
  <2>2. m # n
    OBVIOUS
  <2>3. CASE m < n
    <3>1. m \in 1 .. n - 1
      BY <2>1, <2>3
    <3> QED
      BY <3>1
  <2>4. CASE n < m
    <3>1. n \in 1 .. m - 1
      BY <2>1, <2>4
    <3> QED
      BY <3>1
  <2> QED
    BY <2>1, <2>2, <2>3, <2>4
<1>4. s = <<>> => on = {} /\ off = {}
  OBVIOUS
<1> HIDE DEF first, on, off
<1>5. normalizeFlags(s).set = on /\ normalizeFlags(s).clear = off
  BY <1>1
<1>6. [set |-> on, clear |-> off] \in [set : SUBSET validTcpFlags, clear : SUBSET validTcpFlags]
  BY <1>2
<1> QED
  BY <1>1, <1>3, <1>4, <1>5, <1>6 DEF NoFlags

-----------------------------------------------------------------------------
(* The four ways to make a row *)

\* The spellings of a request denote addresses and networks.
LEMMA Targets ==
  ASSUME NEW r, DOMAIN r = BodyFields,
         {r.srcIP, r.dstIP} \subseteq DOMAIN IpOf \cup {None},
         {r.srcCIDR, r.dstCIDR} \subseteq DOMAIN CidrOf \cup {None}
  PROVE  LET c == Canonical(r) IN
         /\ DOMAIN c = BodyFields
         /\ {c.srcIP, c.dstIP} \subseteq Addrs \cup {None, Bad}
         /\ {c.srcCIDR, c.dstCIDR} \subseteq Nets \cup {None, Bad}
         /\ c.flags = r.flags /\ c.enabled = r.enabled
<1> DEFINE Ip(t)   == IF t = None THEN None ELSE IpOf[t]
           Cidr(t) == IF t = None THEN None ELSE CidrOf[t]
<1>1. Canonical(r) = [r EXCEPT !.srcIP = Ip(r.srcIP), !.dstIP = Ip(r.dstIP),
                               !.srcCIDR = Cidr(r.srcCIDR), !.dstCIDR = Cidr(r.dstCIDR)]
  BY DEF Canonical
<1>2. /\ Ip(r.srcIP) \in Addrs \cup {None, Bad} /\ Ip(r.dstIP) \in Addrs \cup {None, Bad}
      /\ Cidr(r.srcCIDR) \in Nets \cup {None, Bad} /\ Cidr(r.dstCIDR) \in Nets \cup {None, Bad}
  BY FieldsAssumption
<1> HIDE DEF Ip, Cidr
<1> QED
  BY <1>1, <1>2 DEF BodyFields

\* Create and BatchCreate make sound rows.
LEMMA SoundNew ==
  ASSUME NEW raw, Body(raw), CreateOk(raw)
  PROVE  NewRow(raw) \in SoundRow
<1> DEFINE d  == normalizeDecoder(raw)
           r  == Canonical(d)
           fl == Deref(r.flags, <<>>)
           new == NewRow(raw)
           si == r.srcIP
           di == r.dstIP
           sc == r.srcCIDR
           dc == r.dstCIDR
           sp == r.srcPort
           dp == r.dstPort
           ac == r.action
           rate == r.rate
           a  == r.anomaly
           fs == normalizeFlags(fl)
           on == Deref(r.enabled, TRUE)
           lo == Deref(r.lenMin, 0)
           hi == Deref(r.lenMax, 0)
           pr == IF r.protocol = None THEN "all" ELSE r.protocol
<1>1. /\ decoderOk(raw, Canonical(raw), TRUE)
      /\ r.action \in {"drop", "rate_limit"}
      /\ r.action = "rate_limit" => r.rate > 0
      /\ targetsOk(r)
      /\ validateRuleScalarBounds(r)
      /\ r.protocol \in validProtocols
      /\ validatePortProtocolCompat(r)
      /\ lengthOk(r, lo, hi)
      /\ tcpFlagsOk(fl, r.protocol)
      /\ anomalyOk(r.anomaly, r.action, r)
      /\ exclusive(fl # <<>>, r.anomaly)
  BY DEF CreateOk
<1>2. /\ DOMAIN d = BodyFields /\ Flags(d.flags) /\ d.enabled \in Seq(BOOLEAN)
      /\ d.srcIP = raw.srcIP /\ d.dstIP = raw.dstIP
      /\ d.srcCIDR = raw.srcCIDR /\ d.dstCIDR = raw.dstCIDR
  BY <1>1, Expanded
<1>3. /\ DOMAIN r = BodyFields
      /\ {r.srcIP, r.dstIP} \subseteq Addrs \cup {None, Bad}
      /\ {r.srcCIDR, r.dstCIDR} \subseteq Nets \cup {None, Bad}
      /\ r.flags = d.flags /\ r.enabled = d.enabled
  BY <1>2, Targets DEF Body, BodyFields
<1>4. List(fl) /\ on \in BOOLEAN
  <2>1. on \in BOOLEAN
    BY <1>2, <1>3, Optional
  <2>2. List(fl)
    <3>1. CASE r.flags = <<>>
      BY <3>1, Lists DEF Deref
    <3>2. CASE r.flags # <<>>
      <4>1. r.flags[1] \in Range(r.flags)
        BY <1>2, <1>3, <3>2 DEF Flags, List, Range
      <4> QED
        BY <1>2, <1>3, <3>2, <4>1 DEF Deref, Flags
    <3> QED
      BY <3>1, <3>2
  <2> QED
    BY <2>1, <2>2
<1>5. /\ fs \in [set : SUBSET validTcpFlags, clear : SUBSET validTcpFlags]
      /\ fs.set \cap fs.clear = {}
      /\ fl = <<>> => fs = NoFlags
      /\ fl # <<>> => r.protocol = "tcp" /\ r.anomaly = {}
  <2>1. FlagsKnown(fl)
    <3>1. CASE fl = <<>>
      BY <3>1 DEF FlagsKnown
    <3>2. CASE fl # <<>>
      BY <1>1, <3>2 DEF tcpFlagsOk
    <3> QED
      BY <3>1, <3>2
  <2> QED
    BY <1>1, <1>4, <2>1, FlagFacts DEF tcpFlagsOk, exclusive
<1>6. new = [srcIP |-> si, dstIP |-> di, srcCIDR |-> sc, dstCIDR |-> dc,
             srcPort |-> sp, dstPort |-> dp, protocol |-> pr,
             action |-> ac, rate |-> rate, lenMin |-> lo, lenMax |-> hi,
             flags |-> fs, anomaly |-> a, enabled |-> on]
  BY DEF NewRow
<1>7. lo \in 0 .. MaxU16 /\ hi \in 0 .. MaxU16
  BY <1>1, FieldsAssumption DEF validateRuleScalarBounds, Deref
<1>8. pr \in validProtocols \ {None}
  BY <1>1, FieldsAssumption DEF validProtocols
<1>9. /\ Bad \notin {si, di, sc, dc}
      /\ isCIDR(r) => si = None /\ di = None
  BY <1>1 DEF targetsOk
<1>10. a \in SUBSET validBits
  BY <1>1 DEF anomalyOk
<1>11. /\ sp \in 0 .. MaxU16 /\ dp \in 0 .. MaxU16 /\ rate \in 0 .. MaxU32
       /\ ac = "rate_limit" <=> rate > 0
  BY <1>1, FieldsAssumption DEF validateRuleScalarBounds
<1>12. sp + dp > 0 => pr \in {"all", "tcp", "udp"}
  BY <1>1, <1>8, <1>11, FieldsAssumption
     DEF validatePortProtocolCompat, validProtocols, portlessProtocols
<1>13. /\ lo > 0 /\ hi > 0 => lo <= hi
       /\ lo + hi > 0 => \/ {si, di, sc, dc} # {None}
                         \/ sp + dp > 0 \/ pr # "all"
  <2>1. lo > 0 \/ hi > 0 => has5Tuple(r)
    BY <1>1 DEF lengthOk
  <2>2. has5Tuple(r) => \/ {si, di, sc, dc} # {None}
                        \/ sp + dp > 0 \/ pr # "all"
    <3> HIDE DEF r
    <3>1. \/ hasExplicitTarget(r) \/ sp # 0 \/ dp # 0
          \/ r.protocol \notin {None, "all"} \/ ~has5Tuple(r)
      BY DEF has5Tuple
    <3>2. sp # 0 \/ dp # 0 => sp + dp > 0
      BY <1>11, FieldsAssumption
    <3> QED
      BY <3>1, <3>2 DEF hasExplicitTarget
  <2>3. lo > 0 /\ hi > 0 => lo <= hi
    BY <1>1 DEF lengthOk
  <2>4. lo + hi > 0 => lo > 0 \/ hi > 0
    <3> HIDE DEF lo, hi
    <3> QED
      BY <1>7, FieldsAssumption
  <2> QED
    BY <2>1, <2>2, <2>3, <2>4
<1>14. {si, di} = {None} \/ {sc, dc} = {None}
  BY <1>9 DEF isCIDR
<1>15. a # {} =>
         /\ ac = "drop"
         /\ {si, di, sc, dc}
              \cap (Hosts4 \cup Hosts6 \cup (Nets \ Default)) # {}
  BY <1>1 DEF anomalyOk, hasBoundedAnomalyTarget
<1>16. "bad_fragment" \in a =>
         {si, di, sc, dc} \subseteq Hosts4 \cup Nets4 \cup {Any4, None}
  <2>1. "bad_fragment" \in a => ~isIPv6Target(r)
    BY <1>1 DEF anomalyOk
  <2> QED
    BY <1>3, <1>9, <2>1 DEF isIPv6Target, Addrs, Nets
<1>17. si \in Addrs \cup {None} /\ di \in Addrs \cup {None}
       /\ sc \in Nets \cup {None} /\ dc \in Nets \cup {None}
  BY <1>3, <1>9
<1>18. /\ ac \in {"drop", "rate_limit"} /\ on \in BOOLEAN
        /\ fs \in [set : SUBSET validTcpFlags, clear : SUBSET validTcpFlags]
        /\ fs.set \cap fs.clear = {}
  BY <1>1, <1>4, <1>5
<1>19. /\ new \in Rows
       /\ new.srcIP = si /\ new.dstIP = di /\ new.srcCIDR = sc /\ new.dstCIDR = dc
       /\ new.srcPort = sp /\ new.dstPort = dp /\ new.protocol = pr
       /\ new.action = ac /\ new.rate = rate /\ new.lenMin = lo /\ new.lenMax = hi
       /\ new.flags = fs /\ new.anomaly = a
  <2> HIDE DEF new, si, di, sc, dc, sp, dp, ac, rate, a, fs, on, lo, hi, pr
  <2>1. new \in Rows
    BY <1>6, <1>7, <1>8, <1>10, <1>11, <1>17, <1>18 DEF Rows
  <2> QED
    BY <1>6, <2>1
<1>20. fs # NoFlags => pr = "tcp" /\ a = {}
  <2> HIDE DEF r, fl
  <2> QED
    BY <1>5, FieldsAssumption
<1>21. Sound(new)
  <2> HIDE DEF new, si, di, sc, dc, sp, dp, ac, rate, a, fs, on, lo, hi, pr
  <2> QED
    BY <1>11, <1>12, <1>13, <1>14, <1>15, <1>16, <1>18, <1>19, <1>20 DEF Sound
<1> QED
  BY <1>19, <1>21 DEF SoundRow

\* A partial update of a sound row leaves a sound row.
LEMMA SoundUpdated ==
  ASSUME NEW raw, Body(raw), NEW row \in SoundRow, UpdateOk(raw, row)
  PROVE  UpdatedRow(raw, row) \in SoundRow
<1> DEFINE r   == normalizeDecoder(raw)
           new == UpdatedRow(raw, row)
           ac  == effectiveAction(r, row)
           ra  == IF effectiveAction(r, row) = "drop" THEN 0 ELSE effectiveRate(r, row)
           lo  == Deref(r.lenMin, row.lenMin)
           hi  == Deref(r.lenMax, row.lenMax)
           fs  == IF r.flags = <<>> THEN row.flags ELSE normalizeFlags(r.flags[1])
           a   == effectiveBits(r, row)
           on  == Deref(r.enabled, row.enabled)
<1>1. /\ decoderOk(raw, row, FALSE)
      /\ validateRuleScalarBounds(r)
      /\ anomalyOk(a, ac, row)
      /\ lengthOk(tempReq(row), new.lenMin, new.lenMax)
      /\ r.action \in {None, "drop", "rate_limit"}
      /\ new.action = "rate_limit" => effectiveRate(r, row) > 0
      /\ tcpFlagsOk(Deref(r.flags, <<>>), row.protocol)
      /\ exclusive(new.flags # NoFlags, new.anomaly)
  BY DEF UpdateOk
<1>2. Flags(r.flags) /\ r.enabled \in Seq(BOOLEAN)
  BY <1>1, Expanded
<1>3. row \in Rows /\ Sound(row)
  BY DEF SoundRow
<1>4. new = [row EXCEPT !.action = ac, !.rate = ra, !.lenMin = lo, !.lenMax = hi,
                        !.flags = fs, !.anomaly = a, !.enabled = on]
  BY DEF UpdatedRow
<1>5. ac \in {"drop", "rate_limit"}
  BY <1>1, <1>3 DEF effectiveAction, Rows
<1>6. r.rate \in 0 .. MaxU32 /\ row.rate \in 0 .. MaxU32 /\ MaxU32 \in Nat /\ MaxU16 \in Nat
  BY <1>1, <1>3, FieldsAssumption DEF validateRuleScalarBounds, Rows
<1>7. ra \in 0 .. MaxU32
  <2> HIDE DEF r
  <2> QED
    BY <1>6 DEF effectiveRate
<1>8. lo \in 0 .. MaxU16 /\ hi \in 0 .. MaxU16
  <2>1. row.lenMin \in 0 .. MaxU16 /\ row.lenMax \in 0 .. MaxU16
    BY <1>3 DEF Rows
  <2> HIDE DEF r
  <2> QED
    BY <1>1, <2>1 DEF validateRuleScalarBounds, Deref
<1>9. on \in BOOLEAN
  <2>1. row.enabled \in BOOLEAN
    BY <1>3 DEF Rows
  <2> QED
    BY <1>2, <2>1, Optional
<1>10. a \in SUBSET validBits
  BY <1>1 DEF anomalyOk
<1>11. /\ fs \in [set : SUBSET validTcpFlags, clear : SUBSET validTcpFlags]
       /\ fs.set \cap fs.clear = {}
       /\ fs # NoFlags => row.protocol = "tcp"
  <2>1. CASE r.flags = <<>>
    <3>1. fs = row.flags
      BY <2>1
    <3>2. row.flags \in [set : SUBSET validTcpFlags, clear : SUBSET validTcpFlags]
      BY <1>3 DEF Rows
    <3> HIDE DEF fs, r
    <3> QED
      BY <1>3, <3>1, <3>2 DEF Sound
  <2>2. CASE r.flags # <<>>
    <3> DEFINE s == r.flags[1]
    <3>1. s \in Range(r.flags)
      BY <1>2, <2>2 DEF Flags, List, Range
    <3>2. List(s)
      BY <1>2, <3>1 DEF Flags
    <3>3. fs = normalizeFlags(s) /\ Deref(r.flags, <<>>) = s
      BY <2>2 DEF Deref
    <3> HIDE DEF fs, s, r
    <3>4. s # <<>> => row.protocol = "tcp" /\ FlagsKnown(s)
      BY <1>1, <3>3 DEF tcpFlagsOk
    <3>5. FlagsKnown(s)
      <4>1. CASE s = <<>>
        BY <4>1 DEF FlagsKnown
      <4> QED
        BY <3>4, <4>1
    <3> QED
      BY <3>2, <3>3, <3>4, <3>5, FlagFacts
  <2> QED
    BY <2>1, <2>2
<1> HIDE DEF ac, ra, lo, hi, fs, a, on, new, r
<1>12. /\ new \in Rows
       /\ new.srcIP = row.srcIP /\ new.dstIP = row.dstIP
       /\ new.srcCIDR = row.srcCIDR /\ new.dstCIDR = row.dstCIDR
       /\ new.srcPort = row.srcPort /\ new.dstPort = row.dstPort /\ new.protocol = row.protocol
       /\ new.action = ac /\ new.rate = ra /\ new.lenMin = lo /\ new.lenMax = hi
       /\ new.flags = fs /\ new.anomaly = a
  BY <1>3, <1>4, <1>5, <1>7, <1>8, <1>9, <1>10, <1>11 DEF Rows
<1>13. ac = "rate_limit" <=> ra > 0
  BY <1>1, <1>5, <1>6, <1>12 DEF ac, ra, effectiveRate
<1>14. /\ lo > 0 /\ hi > 0 => lo <= hi
       /\ lo + hi > 0 => \/ {new.srcIP, new.dstIP, new.srcCIDR, new.dstCIDR} # {None}
                         \/ new.srcPort + new.dstPort > 0 \/ new.protocol # "all"
  <2> DEFINE t == tempReq(row)
  <2>1. /\ lo > 0 /\ hi > 0 => lo <= hi
        /\ lo > 0 \/ hi > 0 => has5Tuple(t)
    BY <1>1, <1>12 DEF lengthOk
  <2>2. t.srcIP = row.srcIP /\ t.dstIP = row.dstIP /\ t.srcPort = row.srcPort
        /\ t.dstPort = row.dstPort /\ t.protocol = row.protocol
        /\ t.srcCIDR = None /\ t.dstCIDR = None
    BY <1>3 DEF tempReq, Rows
  <2>3. row.srcPort \in Nat /\ row.dstPort \in Nat
    BY <1>3, <1>6 DEF Rows
  <2> HIDE DEF t
  <2>4. has5Tuple(t) => \/ {new.srcIP, new.dstIP, new.srcCIDR, new.dstCIDR} # {None}
                        \/ new.srcPort + new.dstPort > 0 \/ new.protocol # "all"
    <3>1. hasExplicitTarget(t) =>
            {new.srcIP, new.dstIP, new.srcCIDR, new.dstCIDR} # {None}
      BY <1>12, <2>2 DEF hasExplicitTarget
    <3>2. t.srcPort # 0 \/ t.dstPort # 0 => new.srcPort + new.dstPort > 0
      BY <1>12, <2>2, <2>3
    <3>3. t.protocol \notin {None, "all"} => new.protocol # "all"
      BY <1>12, <2>2
    <3> QED
      BY <3>1, <3>2, <3>3 DEF has5Tuple
  <2>5. lo + hi > 0 => lo > 0 \/ hi > 0
    BY <1>8, <1>6
  <2> QED
    BY <2>1, <2>4, <2>5
<1>15. fs # NoFlags => new.protocol = "tcp" /\ a = {}
  BY <1>1, <1>11, <1>12 DEF exclusive
<1>16. a # {} =>
         /\ ac = "drop"
         /\ {new.srcIP, new.dstIP, new.srcCIDR, new.dstCIDR}
              \cap (Hosts4 \cup Hosts6 \cup (Nets \ Default)) # {}
  BY <1>1, <1>5, <1>12 DEF anomalyOk, hasBoundedAnomalyTarget
<1>17. "bad_fragment" \in a =>
         {new.srcIP, new.dstIP, new.srcCIDR, new.dstCIDR}
           \subseteq Hosts4 \cup Nets4 \cup {Any4, None}
  <2>1. "bad_fragment" \in a => ~isIPv6Target(row)
    BY <1>1 DEF anomalyOk
  <2>2. {new.srcIP, new.dstIP, new.srcCIDR, new.dstCIDR} \subseteq Addrs \cup Nets \cup {None}
        /\ {row.srcIP, row.dstIP} \subseteq Addrs \cup {None}
        /\ {row.srcCIDR, row.dstCIDR} \subseteq Nets \cup {None}
    BY <1>3, <1>12 DEF Rows
  <2> QED
    BY <1>12, <2>1, <2>2 DEF isIPv6Target, Addrs, Nets
<1>18. Sound(new)
  BY <1>3, <1>11, <1>12, <1>13, <1>14, <1>15, <1>16, <1>17 DEF Sound
<1> QED
  BY <1>12, <1>18 DEF SoundRow, new

\* The anomaly bits of one sound row are sound in another with the same targets.
LEMMA SoundMerged ==
  ASSUME NEW old \in SoundRow, NEW row \in SoundRow, Tuple(old) = Tuple(row),
         old.anomaly # {}, row.anomaly # {}
  PROVE  mergedRow(old, row) \in SoundRow
<1> DEFINE a   == old.anomaly \cup row.anomaly
           new == mergedRow(old, row)
<1>1. old \in Rows /\ row \in Rows /\ Sound(old) /\ Sound(row)
  BY DEF SoundRow
<1>2. new = [old EXCEPT !.anomaly = a]
  BY <1>1 DEF mergedRow, Rows
<1>3. a \in SUBSET validBits
  BY <1>1 DEF Rows
<1>4. old.srcIP = row.srcIP /\ old.dstIP = row.dstIP
      /\ old.srcCIDR = row.srcCIDR /\ old.dstCIDR = row.dstCIDR
  BY DEF Tuple
<1>5. "bad_fragment" \in a =>
         {old.srcIP, old.dstIP, old.srcCIDR, old.dstCIDR}
           \subseteq Hosts4 \cup Nets4 \cup {Any4, None}
  BY <1>1, <1>4 DEF Sound
<1>6. /\ old.action = "drop"
      /\ {old.srcIP, old.dstIP, old.srcCIDR, old.dstCIDR}
           \cap (Hosts4 \cup Hosts6 \cup (Nets \ Default)) # {}
      /\ old.flags = NoFlags
  BY <1>1 DEF Sound
<1> HIDE DEF a, new
<1>7. /\ new \in Rows
      /\ new.srcIP = old.srcIP /\ new.dstIP = old.dstIP
      /\ new.srcCIDR = old.srcCIDR /\ new.dstCIDR = old.dstCIDR
      /\ new.srcPort = old.srcPort /\ new.dstPort = old.dstPort /\ new.protocol = old.protocol
      /\ new.action = old.action /\ new.rate = old.rate
      /\ new.lenMin = old.lenMin /\ new.lenMax = old.lenMax
      /\ new.flags = old.flags /\ new.anomaly = a
  BY <1>1, <1>2, <1>3 DEF Rows
<1>8. Sound(new)
  BY <1>1, <1>5, <1>6, <1>7 DEF Sound
<1> QED
  BY <1>7, <1>8 DEF SoundRow, new

-----------------------------------------------------------------------------
(* The agent's checks *)

\* The agent's list of checks accepts every sound row.
LEMMA SoundIsValid ==
  ASSUME NEW row \in SoundRow
  PROVE  validNode(row)
<1>1. row \in Rows /\ Sound(row)
  BY DEF SoundRow
<1>2. /\ row.srcPort \in 0 .. MaxU16 /\ row.dstPort \in 0 .. MaxU16
      /\ row.lenMin \in 0 .. MaxU16 /\ row.lenMax \in 0 .. MaxU16 /\ row.rate \in 0 .. MaxU32
      /\ row.protocol \in validProtocols \ {None} /\ row.anomaly \subseteq validBits
      /\ {row.srcIP, row.dstIP} \subseteq Addrs \cup {None}
      /\ {row.srcCIDR, row.dstCIDR} \subseteq Nets \cup {None}
      /\ MaxU16 \in Nat /\ MaxU32 \in Nat
  BY <1>1, FieldsAssumption DEF Rows
<1>3. ~(isCIDR(row) /\ {row.srcIP, row.dstIP} # {None})
  BY <1>1 DEF Sound, isCIDR
<1>4. lengthOk(row, row.lenMin, row.lenMax)
  <2>1. row.lenMin > 0 \/ row.lenMax > 0 => row.lenMin + row.lenMax > 0
    BY <1>2
  <2>2. row.srcPort + row.dstPort > 0 => row.srcPort # 0 \/ row.dstPort # 0
    BY <1>2
  <2> QED
    BY <1>1, <1>2, <2>1, <2>2 DEF Sound, lengthOk, has5Tuple, hasExplicitTarget
<1>5. validatePortProtocolCompat(row)
  <2>1. row.srcPort + row.dstPort > 0 \/ (row.srcPort = 0 /\ row.dstPort = 0)
    BY <1>2
  <2> QED
    BY <1>1, <2>1 DEF Sound, validatePortProtocolCompat, portlessProtocols
<1>6. row.anomaly # {} =>
        /\ row.action # "rate_limit"
        /\ hasBoundedAnomalyTarget(row)
        /\ "bad_fragment" \in row.anomaly =>
             /\ {row.srcIP, row.dstIP} \cap Hosts6 = {}
             /\ {row.srcCIDR, row.dstCIDR} \cap Nets6 = {}
  <2>1. row.anomaly # {} => row.action # "rate_limit"
    BY <1>1 DEF Sound
  <2>2. row.anomaly # {} => hasBoundedAnomalyTarget(row)
    BY <1>1, <1>2, FieldsAssumption DEF Sound, hasBoundedAnomalyTarget, Addrs, Nets
  <2>3. "bad_fragment" \in row.anomaly =>
             /\ {row.srcIP, row.dstIP} \cap Hosts6 = {}
             /\ {row.srcCIDR, row.dstCIDR} \cap Nets6 = {}
    BY <1>1, <1>2, FieldsAssumption DEF Sound, Addrs, Nets
  <2> QED
    BY <2>1, <2>2, <2>3
<1>7. /\ row.flags.set \cap row.flags.clear = {}
      /\ row.flags # NoFlags => row.protocol = "tcp"
      /\ row.action = "rate_limit" => row.rate > 0
  BY <1>1 DEF Sound
<1> QED
  BY <1>2, <1>3, <1>4, <1>5, <1>6, <1>7 DEF validNode

\* It answers otherwise than "invalid", whatever is installed.
LEMMA NeverInvalid ==
  ASSUME NEW row \in SoundRow, NEW es
  PROVE  Answer(row, es) # "invalid"
<1>1. validNode(row)
  BY SoundIsValid
<1> QED
  BY <1>1 DEF Answer

-----------------------------------------------------------------------------
(* Every step keeps the invariant *)

\* The requests and the items of a batch are bodies.
LEMMA Bodies ==
  /\ \A req \in DOMAIN rowOf : rowOf[req] \in SoundRow
  /\ \A req \in Patches : Body(req)
<1>1. ASSUME NEW req \in DOMAIN rowOf PROVE rowOf[req] \in SoundRow
  <2>1. rowOf[req] = NewRow(req) /\ CreateOk(req)
    BY DEF rowOf
  <2>2. req \in Requests \cup UNION {Range(b) : b \in Batches}
    BY DEF rowOf
  <2>3. Body(req)
    BY <2>2, BodiesAssumption
  <2> QED
    BY <2>1, <2>3, SoundNew
<1> QED
  BY <1>1, BodiesAssumption

\* The fields of a job.
JobFields == {"at", "op", "id", "row", "was", "todo", "rows", "calls"}

LEMMA IdleOK ==
  /\ JobOK(Idle) /\ DOMAIN Idle = JobFields
  /\ Idle.todo = <<>> /\ Idle.rows = <<>> /\ Idle.calls = <<>> /\ Idle.at = "idle"
BY DEF JobOK, Idle, JobFields

\* The calls for a row are calls about sound rows.
LEMMA CallsOK ==
  ASSUME NEW i \in Ids, NEW row \in SoundRow
  PROVE  CallsFor(i, row) \in Seq(Call)
<1>1. Add(i, row) \in Call
  BY DEF Add, Call
<1> QED
  BY <1>1 DEF CallsFor

\* So are the calls after an update or a merge.
LEMMA TransitionOK ==
  ASSUME NEW i \in Ids, NEW was, NEW row \in SoundRow
  PROVE  Transition(i, was, row) \in Seq(Call)
<1> DEFINE a == IF was THEN <<Del(i)>> ELSE <<>>
           b == IF row.enabled THEN <<Add(i, row)>> ELSE <<>>
<1>1. Del(i) \in Call /\ Add(i, row) \in Call
  BY DEF Add, Del, Call
<1>2. a \in Seq(Call) /\ b \in Seq(Call)
  BY <1>1
<1>3. Transition(i, was, row) = a \o b
  BY DEF Transition
<1> HIDE DEF a, b
<1> QED
  BY <1>2, <1>3

\* A handler takes up or goes on with a job that is in order.
LEMMA JobStep ==
  ASSUME IInv, NEW h \in Handlers, NEW j, JobOK(j), job' = [job EXCEPT ![h] = j],
         rules' \in [Ids -> SoundRow \cup {None}],
         DOMAIN pushed' = Ids, \A i \in Ids : pushed'[i] # "invalid"
  PROVE  IInv'
BY DEF IInv, Agreed

\* What a handler goes on to.
LEMMA ThenOK ==
  ASSUME NEW h, NEW calls \in Seq(Call), Then(h, calls)
  PROVE  \E j : JobOK(j) /\ job' = [job EXCEPT ![h] = j]
<1>1. CASE calls = <<>>
  BY <1>1, IdleOK DEF Then
<1>2. CASE calls # <<>>
  <2> DEFINE j == [Idle EXCEPT !.at = "push", !.calls = calls]
  <2>1. JobOK(j)
    BY <1>2, IdleOK DEF JobOK, Idle
  <2>2. job' = [job EXCEPT ![h] = j]
    BY <1>2 DEF Then
  <2> QED
    BY <2>1, <2>2
<1> QED
  BY <1>1, <1>2

LEMMA BeginInv ==
  ASSUME IInv, NEW h \in Handlers, NEW i \in Ids,
         \/ \E req \in Requests : BeginCreate(h, i, req) \/ BeginMerge(h, i, req)
         \/ \E req \in Patches : BeginUpdate(h, i, req)
         \/ BeginDelete(h, i)
  PROVE  IInv'
<1>0. rules \in [Ids -> SoundRow \cup {None}]
  BY DEF IInv
<1>1. ASSUME NEW j, JobOK(j), Begin(h, j) PROVE IInv'
  BY <1>1, JobStep DEF Begin, IInv, Agreed
<1>2. CASE \E req \in Requests : BeginCreate(h, i, req)
  <2>1. PICK req \in Requests : BeginCreate(h, i, req)
    BY <1>2
  <2> DEFINE row == rowOf[req]
             rs  == <<[id |-> i, row |-> row]>>
             cs  == CallsFor(i, row)
             j   == [Idle EXCEPT !.at = "write", !.op = "insert", !.rows = rs, !.calls = cs]
  <2>2. row \in SoundRow /\ Begin(h, j)
    BY <2>1, Bodies DEF BeginCreate
  <2> HIDE DEF row
  <2>3. rs \in Seq(Rowed) /\ cs \in Seq(Call)
    BY <2>2, CallsOK DEF Rowed
  <2> HIDE DEF rs, cs
  <2>4. JobOK(j)
    BY <2>3, IdleOK DEF JobOK, Idle
  <2> QED
    BY <1>1, <2>2, <2>4
<1>3. CASE \E req \in Requests : BeginMerge(h, i, req)
  <2>1. PICK req \in Requests : BeginMerge(h, i, req)
    BY <1>3
  <2> DEFINE row == rowOf[req]
             m   == mergedRow(rules[i], row)
             j   == [Idle EXCEPT !.at = "write", !.op = "update", !.id = i, !.row = m,
                                 !.was = rules[i].enabled]
  <2>2. /\ row \in SoundRow /\ Begin(h, j)
        /\ rules[i] # None /\ Tuple(rules[i]) = Tuple(row)
        /\ rules[i].anomaly # {} /\ row.anomaly # {}
    BY <2>1, Bodies DEF BeginMerge, ByTuple
  <2>3. m \in SoundRow
    BY <1>0, <2>2, SoundMerged
  <2> HIDE DEF row, m
  <2>4. JobOK(j)
    BY <2>3, IdleOK DEF JobOK, Idle
  <2> QED
    BY <1>1, <2>2, <2>4
<1>4. CASE \E req \in Patches : BeginUpdate(h, i, req)
  <2>1. PICK req \in Patches : BeginUpdate(h, i, req)
    BY <1>4
  <2> DEFINE row == UpdatedRow(req, rules[i])
             j   == [Idle EXCEPT !.at = "write", !.op = "update", !.id = i, !.row = row,
                                 !.was = rules[i].enabled]
  <2>2. rules[i] # None /\ UpdateOk(req, rules[i]) /\ Begin(h, j)
    BY <2>1 DEF BeginUpdate
  <2>3. row \in SoundRow
    BY <1>0, <2>2, Bodies, SoundUpdated
  <2> HIDE DEF row
  <2>4. JobOK(j)
    BY <2>3, IdleOK DEF JobOK, Idle
  <2> QED
    BY <1>1, <2>2, <2>4
<1>5. CASE BeginDelete(h, i)
  <2> DEFINE j == [Idle EXCEPT !.at = "write", !.op = "delete", !.id = i, !.was = rules[i].enabled]
  <2>1. Begin(h, j)
    BY <1>5 DEF BeginDelete
  <2>2. JobOK(j)
    BY IdleOK DEF JobOK, Idle
  <2> QED
    BY <1>1, <2>1, <2>2
<1> QED
  BY <1>2, <1>3, <1>4, <1>5

LEMMA BeginBatchInv ==
  ASSUME IInv, NEW h \in Handlers, NEW batch \in Batches, NEW ids \in [DOMAIN batch -> Ids],
         BeginBatch(h, ids, batch)
  PROVE  IInv'
<1> DEFINE t == [n \in DOMAIN batch |-> [id |-> ids[n], req |-> batch[n]]]
           j == [Idle EXCEPT !.at = "items", !.todo = t]
<1>1. batch \in Seq(Range(batch))
  BY BodiesAssumption DEF List
<1>2. DOMAIN batch = 1 .. Len(batch) /\ Len(batch) \in Nat
  BY <1>1
<1>3. \A n \in 1 .. Len(batch) : t[n] \in Items
  BY <1>2 DEF Items, Range
<1>4. t = [n \in 1 .. Len(batch) |-> t[n]]
  BY <1>2
<1> HIDE DEF t
<1>5. t \in Seq(Items)
  BY <1>2, <1>3, <1>4
<1>6. JobOK(j)
  BY <1>5, IdleOK DEF JobOK, Idle
<1>7. Begin(h, j)
  BY DEF BeginBatch, t
<1> QED
  BY <1>6, <1>7, JobStep DEF Begin, IInv, Agreed

LEMMA ItemInv ==
  ASSUME IInv, NEW h \in Handlers, BatchItem(h)
  PROVE  IInv'
<1> DEFINE j    == job[h]
           item == Head(j.todo)
           row  == rowOf[item.req]
           rest == [j EXCEPT !.todo = Tail(j.todo)]
           rs   == Append(j.rows, [id |-> item.id, row |-> row])
           cs   == j.calls \o CallsFor(item.id, row)
           more == [rest EXCEPT !.rows = rs, !.calls = cs]
<1>1. /\ JobOK(j) /\ j.at = "items" /\ j.todo # <<>>
      /\ UNCHANGED <<rules, node, pushed>>
      /\ \/ job' = [job EXCEPT ![h] = more] /\ itemOk(item.req, j.rows)
         \/ job' = [job EXCEPT ![h] = rest]
  BY DEF IInv, BatchItem
<1>2. item \in Items /\ Tail(j.todo) \in Seq(Items)
  <2> HIDE DEF j
  <2> QED
    BY <1>1 DEF JobOK
<1>3. JobOK(rest)
  BY <1>1, <1>2 DEF JobOK
<1>4. itemOk(item.req, j.rows) => JobOK(more)
  <2> SUFFICES ASSUME itemOk(item.req, j.rows) PROVE JobOK(more)
    OBVIOUS
  <2>1. row \in SoundRow /\ item.id \in Ids
    BY <1>2, Bodies DEF itemOk, Items
  <2>2. [id |-> item.id, row |-> row] \in Rowed /\ CallsFor(item.id, row) \in Seq(Call)
    BY <2>1, CallsOK DEF Rowed
  <2>3. rs \in Seq(Rowed) /\ cs \in Seq(Call)
    <3> HIDE DEF j, item, row
    <3> QED
      BY <1>1, <2>2 DEF JobOK
  <2> HIDE DEF rs, cs
  <2> QED
    BY <1>1, <1>3, <2>3 DEF JobOK
<1> HIDE DEF more, rest
<1>5. CASE job' = [job EXCEPT ![h] = more] /\ itemOk(item.req, j.rows)
  BY <1>1, <1>4, <1>5, JobStep DEF IInv, Agreed
<1>6. CASE job' = [job EXCEPT ![h] = rest]
  BY <1>1, <1>3, <1>6, JobStep DEF IInv, Agreed
<1> QED
  BY <1>1, <1>5, <1>6

LEMMA CheckedInv ==
  ASSUME IInv, NEW h \in Handlers, BatchChecked(h)
  PROVE  IInv'
<1> DEFINE j == job[h]
           n == [j EXCEPT !.at = "write", !.op = "insert"]
<1>1. JobOK(j)
  BY DEF IInv
<1>2. JobOK(n)
  BY <1>1 DEF JobOK
<1>3. /\ UNCHANGED <<rules, node, pushed>>
      /\ \/ job' = [job EXCEPT ![h] = n]
         \/ job' = [job EXCEPT ![h] = Idle]
  BY DEF BatchChecked
<1> HIDE DEF n
<1> QED
  BY <1>2, <1>3, IdleOK, JobStep DEF IInv, Agreed

LEMMA WriteInv ==
  ASSUME IInv, NEW h \in Handlers, WriteInsert(h) \/ WriteUpdate(h) \/ WriteDelete(h)
  PROVE  IInv'
<1> DEFINE j == job[h]
<1>1. JobOK(j) /\ rules \in [Ids -> SoundRow \cup {None}]
  BY DEF IInv
<1>2. ASSUME NEW calls \in Seq(Call), Then(h, calls), UNCHANGED <<node, pushed>>,
             rules' \in [Ids -> SoundRow \cup {None}]
      PROVE  IInv'
  BY <1>2, ThenOK, JobStep DEF IInv, Agreed
<1>3. CASE WriteInsert(h)
  <2>1. \A n \in DOMAIN j.rows : j.rows[n].row \in SoundRow
    <3> HIDE DEF j
    <3>1. j.rows \in Seq(Rowed)
      BY <1>1 DEF JobOK
    <3>2. \A n \in DOMAIN j.rows : j.rows[n] \in Rowed
      BY <3>1
    <3> QED
      BY <3>2 DEF Rowed
  <2>2. CASE \E n \in DOMAIN j.rows : Conflicts(j.rows[n].row)
    <3>1. Then(h, <<>>) /\ UNCHANGED <<rules, node, pushed>>
      BY <1>3, <2>2 DEF WriteInsert
    <3>2. <<>> \in Seq(Call)
      OBVIOUS
    <3> QED
      BY <1>1, <1>2, <3>1, <3>2
  <2>3. CASE ~\E n \in DOMAIN j.rows : Conflicts(j.rows[n].row)
    <3>1. /\ Then(h, j.calls) /\ UNCHANGED <<node, pushed>>
          /\ rules' = [i \in Ids |-> IF \E n \in DOMAIN j.rows : j.rows[n].id = i
                        THEN j.rows[CHOOSE n \in DOMAIN j.rows : j.rows[n].id = i].row
                        ELSE rules[i]]
      BY <1>3, <2>3 DEF WriteInsert
    <3>2. rules' \in [Ids -> SoundRow \cup {None}]
      BY <1>1, <2>1, <3>1
    <3> QED
      BY <1>1, <1>2, <3>1, <3>2 DEF JobOK
  <2> QED
    BY <2>2, <2>3
<1>4. CASE WriteUpdate(h)
  <2> DEFINE cs == Transition(j.id, j.was, j.row)
  <2>1. /\ j.op = "update" /\ Then(h, cs) /\ UNCHANGED <<node, pushed>>
        /\ rules' = IF rules[j.id] = None THEN rules ELSE [rules EXCEPT ![j.id] = j.row]
    BY <1>4 DEF WriteUpdate
  <2>2. j.id \in Ids /\ j.row \in SoundRow
    BY <1>1, <2>1 DEF JobOK
  <2> HIDE DEF j
  <2>3. rules' \in [Ids -> SoundRow \cup {None}]
    BY <1>1, <2>1, <2>2
  <2>4. cs \in Seq(Call)
    BY <2>2, TransitionOK
  <2> HIDE DEF cs
  <2> QED
    BY <1>2, <2>1, <2>3, <2>4
<1>5. CASE WriteDelete(h)
  <2> DEFINE cs == IF rules[j.id] # None /\ j.was THEN <<Del(j.id)>> ELSE <<>>
  <2>1. /\ j.op = "delete" /\ Then(h, cs) /\ UNCHANGED <<node, pushed>>
        /\ rules' = [rules EXCEPT ![j.id] = None]
    BY <1>5 DEF WriteDelete
  <2>2. j.id \in Ids
    BY <1>1, <2>1 DEF JobOK
  <2>3. cs \in Seq(Call)
    <3>1. Del(j.id) \in Call
      BY <2>2 DEF Del, Call
    <3> QED
      BY <3>1
  <2> HIDE DEF cs, j
  <2>4. rules' \in [Ids -> SoundRow \cup {None}]
    BY <1>1, <2>1
  <2> QED
    BY <1>2, <2>1, <2>3, <2>4
<1> QED
  BY <1>3, <1>4, <1>5


LEMMA PushInv ==
  ASSUME IInv, NEW h \in Handlers, Push(h)
  PROVE  IInv'
<1> DEFINE cs  == job[h].calls
           c   == Head(cs)
           ans == IF c.call = "delete" THEN "none" ELSE Answer(c.row, InstalledOf(Ids \ {c.id}))
<1>1. /\ job[h].at = "push" /\ UNCHANGED rules
      /\ pushed' = [pushed EXCEPT ![c.id] = ans]
      /\ Then(h, Tail(cs))
  BY DEF Push
<1>2. JobOK(job[h])
  BY DEF IInv
<1>3. cs \in Seq(Call) /\ cs # <<>>
  BY <1>1, <1>2 DEF JobOK
<1>4. c \in Call /\ Tail(cs) \in Seq(Call)
  <2> HIDE DEF cs
  <2> QED
    BY <1>3
<1>5. ans # "invalid"
  <2> HIDE DEF cs, c
  <2>1. CASE c.call = "delete"
    BY <2>1
  <2>2. CASE c.call # "delete"
    <3>1. c.row \in SoundRow
      BY <1>4, <2>2 DEF Call
    <3> QED
      BY <2>2, <3>1, NeverInvalid
  <2> QED
    BY <2>1, <2>2
<1> HIDE DEF cs, c, ans
<1>6. DOMAIN pushed' = Ids /\ \A i \in Ids : pushed'[i] # "invalid"
  BY <1>1, <1>5 DEF IInv, Agreed
<1>7. PICK j : JobOK(j) /\ job' = [job EXCEPT ![h] = j]
  BY <1>1, <1>4, ThenOK
<1> QED
  BY <1>1, <1>6, <1>7, JobStep DEF IInv

-----------------------------------------------------------------------------
(* The theorems *)

LEMMA InitInv == Init => IInv
<1> SUFFICES ASSUME Init PROVE IInv
  OBVIOUS
<1>1. rules \in [Ids -> SoundRow \cup {None}]
  BY DEF Init
<1>2. DOMAIN job = Handlers /\ \A h \in Handlers : JobOK(job[h])
  BY IdleOK DEF Init
<1>3. DOMAIN pushed = Ids /\ Agreed
  BY DEF Init, Agreed
<1> QED
  BY <1>1, <1>2, <1>3 DEF IInv

LEMMA NextInv == IInv /\ [Next]_vars => IInv'
<1> SUFFICES ASSUME IInv, [Next]_vars PROVE IInv'
  OBVIOUS
<1>1. CASE UNCHANGED vars
  BY <1>1 DEF vars, IInv, Agreed
<1>2. CASE Next
  <2>1. PICK h \in Handlers :
          \/ \E i \in Ids, req \in Requests : BeginCreate(h, i, req) \/ BeginMerge(h, i, req)
          \/ \E batch \in Batches : \E ids \in [DOMAIN batch -> Ids] :
               IsInjective(ids) /\ BeginBatch(h, ids, batch)
          \/ \E i \in Ids, req \in Patches : BeginUpdate(h, i, req)
          \/ \E i \in Ids : BeginDelete(h, i)
          \/ BatchItem(h) \/ BatchChecked(h)
          \/ WriteInsert(h) \/ WriteUpdate(h) \/ WriteDelete(h)
          \/ Push(h)
    BY <1>2 DEF Next
  <2>2. CASE \/ \E i \in Ids, req \in Requests : BeginCreate(h, i, req) \/ BeginMerge(h, i, req)
             \/ \E i \in Ids, req \in Patches : BeginUpdate(h, i, req)
             \/ \E i \in Ids : BeginDelete(h, i)
    BY <2>2, BeginInv
  <2>3. CASE \E batch \in Batches : \E ids \in [DOMAIN batch -> Ids] :
               IsInjective(ids) /\ BeginBatch(h, ids, batch)
    BY <2>3, BeginBatchInv
  <2>4. CASE BatchItem(h) \/ BatchChecked(h)
    BY <2>4, ItemInv, CheckedInv
  <2>5. CASE WriteInsert(h) \/ WriteUpdate(h) \/ WriteDelete(h)
    BY <2>5, WriteInv
  <2>6. CASE Push(h)
    BY <2>6, PushInv
  <2> QED
    BY <2>1, <2>2, <2>3, <2>4, <2>5, <2>6
<1> QED
  BY <1>1, <1>2

\* Throughout, the table holds sound rows, every handler is about to write or to
\* send sound rows only, and the agent has called none of them invalid.
THEOREM Invariance == Spec => []IInv
<1>1. Init => IInv
  BY InitInv
<1>2. IInv /\ [Next]_vars => IInv'
  BY NextInv
<1> QED
  BY <1>1, <1>2, PTL DEF Spec

\* Every row the controller stores means something on the data path, whatever
\* creates, batches, merges, updates and deletes run at the same time, and though
\* Update and tryAnomalyMerge check a row that may be gone or changed by the time
\* they write theirs.
THEOREM RowsSound == Spec => []WellFormed
<1>1. IInv => WellFormed
  BY DEF IInv, WellFormed, SoundRow
<1> QED
  BY <1>1, Invariance, PTL

\* The validation of the controller implies the validation of the agent: no rule
\* the controller sends is refused as invalid, for any addresses, networks and
\* spellings of them.
THEOREM AgentAgrees == Spec => []Agreed
<1>1. IInv => Agreed
  BY DEF IInv
<1> QED
  BY <1>1, Invariance, PTL
-----------------------------------------------------------------------------
(* The data path over rules whose networks lie apart *)

\* Two networks that do not overlap, or do not count as a pair.
NetsApart(m, n) ==
  m # None /\ n # None /\ m # n /\ (m \in Nets4 <=> n \in Nets4) =>
    ~(Covers[m] \subseteq Covers[n]) /\ ~(Covers[n] \subseteq Covers[m])

\* Two rows the table may hold side by side.
Apart(r, s) ==
  /\ Tuple(r) # Tuple(s)
  /\ NetsApart(r.srcCIDR, s.srcCIDR) /\ NetsApart(r.dstCIDR, s.dstCIDR)

\* Rows the agent can have installed together.
Installable(R) ==
  /\ R \subseteq SoundRow
  /\ \A r \in R : getComboType(ruleToKey(r)) # ComboUnknown
  /\ \A r, s \in R : NetsApart(r.srcCIDR, s.srcCIDR) /\ NetsApart(r.dstCIDR, s.dstCIDR)

EntriesOf(R) == {Entry(r) : r \in R}

\* A set of combo numbers has a smallest one.
LEMMA Smallest ==
  ASSUME NEW S \in SUBSET (0 .. 33), S # {}
  PROVE  Min(S) \in S /\ \A y \in S : Min(S) <= y
<1>1. S \subseteq Nat
  OBVIOUS
<1>2. PICK x \in S : \A y \in S : ~(<<y, x>> \in OpToRel(<, Nat))
  BY <1>1, WFMin, NatLessThanWellFounded
<1>3. \A y \in S : x <= y
  <2>1. \A y, z \in Nat : y < z => <<y, z>> \in OpToRel(<, Nat)
    BY DEF OpToRel
  <2>2. \A y \in S : ~(y < x)
    BY <1>1, <1>2, <2>1
  <2> QED
    BY <1>1, <2>2
<1> QED
  BY <1>3 DEF Min

\* A combo number that is not "unknown" has a block in the programs.
LEMMA ComboBounds ==
  ASSUME NEW key, getComboType(key) # ComboUnknown
  PROVE  getComboType(key) \in 0 .. 33
<1> DEFINE fs == SetFields(key)
           cs == {c \in DOMAIN comboFields : comboFields[c] = fs}
<1>1. fs \in SUBSET Fields
  BY DEF SetFields
<1>2. getComboOf[fs] = IF cs = {} THEN ComboUnknown ELSE Min(cs)
  BY <1>1 DEF getComboOf
<1>3. DOMAIN comboFields = (0 .. 33) \ {19}
  BY DEF comboFields
<1> HIDE DEF fs
<1>4. cs \in SUBSET (0 .. 33) /\ (cs # {} => Min(cs) \in cs)
  BY <1>3, Smallest
<1> HIDE DEF cs
<1> QED
  BY <1>2, <1>4 DEF getComboType, fs

\* Two networks that hold the address of one packet lie in one another.
LEMMA OneHit ==
  ASSUME NEW m \in Nets, NEW n \in Nets, NetsApart(m, n), NEW a, a \in Covers[m], a \in Covers[n]
  PROVE  m = n
<1>1. m \in Nets4 <=> n \in Nets4
  BY FieldsAssumption DEF Nets
<1>2. Covers[m] \subseteq Covers[n] \/ Covers[n] \subseteq Covers[m]
  BY FieldsAssumption
<1> QED
  BY <1>1, <1>2, FieldsAssumption DEF NetsApart, Nets

\* So the lookup of an address in a trie of such networks finds the one that holds it.
LEMMA LpmFinds ==
  ASSUME NEW ns \in SUBSET Nets, \A m, n \in ns : NetsApart(m, n), NEW a
  PROVE  /\ \A n \in ns : a \in Covers[n] => lpm(a, ns) = n
         /\ lpm(a, ns) # None => lpm(a, ns) \in ns /\ a \in Covers[lpm(a, ns)]
<1> DEFINE hits == {n \in ns : a \in Covers[n]}
<1>1. lpm(a, ns) = IF hits = {} THEN None
                   ELSE CHOOSE n \in hits : \A m \in hits : Covers[n] \subseteq Covers[m]
  BY DEF lpm
<1>2. \A m, n \in hits : m = n
  BY OneHit
<1>3. ASSUME NEW n \in hits PROVE lpm(a, ns) = n
  <2>1. hits # {} /\ \A m \in hits : Covers[n] \subseteq Covers[m]
    BY <1>2, <1>3
  <2> HIDE DEF hits
  <2>2. lpm(a, ns) \in hits
    BY <1>1, <2>1
  <2> QED
    BY <1>2, <2>2
<1> QED
  BY <1>1, <1>3

\* The tries of an agent that has such rows installed.
LEMMA Tries ==
  ASSUME NEW R, Installable(R)
  PROVE  LET ns == srcCIDRs(EntriesOf(R))
             nd == dstCIDRs(EntriesOf(R)) IN
         /\ ns \subseteq Nets /\ \A m, n \in ns : NetsApart(m, n)
         /\ nd \subseteq Nets /\ \A m, n \in nd : NetsApart(m, n)
         /\ \A r \in R : isCIDR(r) /\ r.srcCIDR # None => r.srcCIDR \in ns
         /\ \A r \in R : isCIDR(r) /\ r.dstCIDR # None => r.dstCIDR \in nd
<1> DEFINE ns == srcCIDRs(EntriesOf(R))
           nd == dstCIDRs(EntriesOf(R))
<1>1. \A r \in R : /\ Entry(r).cidr = isCIDR(r) /\ Entry(r).key = ruleToKey(r)
                   /\ isCIDR(r) => ruleToKey(r).src = r.srcCIDR /\ ruleToKey(r).dst = r.dstCIDR
  BY DEF Entry, ruleToKey
<1>2. \A r \in R : {r.srcCIDR, r.dstCIDR} \subseteq Nets \cup {None}
  BY DEF Installable, SoundRow, Rows
<1>3. ns = {r.srcCIDR : r \in {x \in R : isCIDR(x)}} \ {None}
  <2>1. \A n : n \in ns <=> n # None /\ \E r \in R : isCIDR(r) /\ n = r.srcCIDR
    BY <1>1 DEF srcCIDRs, EntriesOf
  <2> QED
    BY <2>1
<1>4. nd = {r.dstCIDR : r \in {x \in R : isCIDR(x)}} \ {None}
  <2>1. \A n : n \in nd <=> n # None /\ \E r \in R : isCIDR(r) /\ n = r.dstCIDR
    BY <1>1 DEF dstCIDRs, EntriesOf
  <2> QED
    BY <2>1
<1> HIDE DEF ns, nd
<1>5. ns \subseteq Nets /\ nd \subseteq Nets
  BY <1>2, <1>3, <1>4
<1>6. \A m, n \in ns : NetsApart(m, n)
  BY <1>3 DEF Installable
<1>7. \A m, n \in nd : NetsApart(m, n)
  BY <1>4 DEF Installable
<1> QED
  BY <1>3, <1>4, <1>5, <1>6, <1>7 DEF ns, nd

\* Every installed rule has a combo number, and acts on what it matches.
LEMMA EntryFacts ==
  ASSUME NEW R, Installable(R), NEW e \in EntriesOf(R)
  PROVE  getComboType(e.key) \in 0 .. 33 /\ acts(e.val)
<1>1. PICK r \in R : e = Entry(r)
  BY DEF EntriesOf
<1>2. e.key = ruleToKey(r) /\ e.val.action = r.action /\ e.val.rate = r.rate
  BY <1>1 DEF Entry
<1>3. r \in Rows /\ Sound(r) /\ getComboType(ruleToKey(r)) # ComboUnknown
  BY DEF Installable, SoundRow
<1>4. acts(e.val)
  BY <1>2, <1>3 DEF acts, Sound, Rows
<1> QED
  BY <1>2, <1>3, <1>4, ComboBounds

\* The three checks a rule passes on a packet.
Passes(v, p, verify) == pkt_len_matches(v, p.len) /\ tcp_flags_matches(v, p) /\ anomaly_matches(v, p, verify)

\* A rule that the block of its combo probes for, and that passes the checks, makes the
\* lookup act: a rule of another block may come first, and acts as well.
LEMMA LookupFinds ==
  ASSUME NEW R, Installable(R), NEW E \in SUBSET EntriesOf(R), NEW key, NEW p, NEW verify,
         NEW e \in E, e.key = Probe(key, getComboType(e.key)), Passes(e.val, p, verify)
  PROVE  Found(key, p, E, verify)
<1> DEFINE bitmap  == {getComboType(x.key) : x \in E}
           Hit(c)  == {x \in E : /\ x.key = Probe(key, c)
                                 /\ pkt_len_matches(x.val, p.len)
                                 /\ tcp_flags_matches(x.val, p)
                                 /\ anomaly_matches(x.val, p, verify)}
           hitting == {c \in bitmap : Hit(c) # {}}
<1>1. lookup(key, p, E, verify) = IF hitting = {} THEN {} ELSE Hit(Min(hitting))
  BY DEF lookup
<1>2. \A x \in E : getComboType(x.key) \in 0 .. 33 /\ acts(x.val)
  BY EntryFacts
<1>3. e \in Hit(getComboType(e.key)) /\ getComboType(e.key) \in bitmap
  BY DEF Passes
<1>4. hitting \in SUBSET (0 .. 33) /\ hitting # {}
  BY <1>2, <1>3
<1>5. Min(hitting) \in hitting
  BY <1>4, Smallest
<1>6. Hit(Min(hitting)) # {} /\ Hit(Min(hitting)) \subseteq E
  BY <1>5
<1> HIDE DEF hitting, Hit
<1> QED
  BY <1>1, <1>2, <1>4, <1>6 DEF Found

\* What a lookup finds is a rule of its set that one of the blocks probes for and that
\* passes the checks.
LEMMA LookupHit ==
  ASSUME NEW R, Installable(R), NEW E \in SUBSET EntriesOf(R), NEW key, NEW p, NEW verify,
         Found(key, p, E, verify)
  PROVE  \E e \in E, c \in 0 .. 33 : e.key = Probe(key, c) /\ Passes(e.val, p, verify)
<1> DEFINE bitmap  == {getComboType(x.key) : x \in E}
           Hit(c)  == {x \in E : /\ x.key = Probe(key, c)
                                 /\ pkt_len_matches(x.val, p.len)
                                 /\ tcp_flags_matches(x.val, p)
                                 /\ anomaly_matches(x.val, p, verify)}
           hitting == {c \in bitmap : Hit(c) # {}}
<1>1. lookup(key, p, E, verify) = IF hitting = {} THEN {} ELSE Hit(Min(hitting))
  BY DEF lookup
<1>2. \A x \in E : getComboType(x.key) \in 0 .. 33
  BY EntryFacts
<1>3. hitting \in SUBSET (0 .. 33)
  BY <1>2
<1>4. hitting # {} => Min(hitting) \in 0 .. 33
  BY <1>3, Smallest
<1> HIDE DEF hitting
<1>5. PICK e \in Hit(Min(hitting)) : hitting # {}
  BY <1>1 DEF Found
<1> QED
  BY <1>4, <1>5 DEF Passes

\* The block of a combo copies the fields that are set, so its probe is the key of the
\* rule when the packet agrees on them.
LEMMA Probed ==
  ASSUME NEW k, k = [f \in Fields |-> k[f]], NEW q, getComboType(k) # ComboUnknown, SetFields(k) # {},
         \A f \in Fields : k[f] = ZeroKey[f] \/ k[f] = q[f]
  PROVE  Probe(q, getComboType(k)) = k
<1> DEFINE c == getComboType(k)
<1>1. SetFields(k) \in (SUBSET Fields) \ {{}}
  BY DEF SetFields
<1>2. probeFields[c + 1] = SetFields(k)
  BY <1>1, TablesAgree DEF getComboType
<1> HIDE DEF c
<1>3. \A f \in Fields : (IF f \in probeFields[c + 1] THEN q[f] ELSE ZeroKey[f]) = k[f]
  BY <1>2 DEF SetFields
<1>4. Probe(q, c) = [f \in Fields |-> k[f]]
  BY <1>3 DEF Probe
<1> QED
  BY <1>4 DEF c

\* A key is a record of the five fields.
LEMMA KeyFields ==
  ASSUME NEW r
  PROVE  LET k == ruleToKey(r) IN
         /\ k = [f \in Fields |-> k[f]]
         /\ k["src"] = k.src /\ k["dst"] = k.dst /\ k["srcPort"] = r.srcPort
         /\ k["dstPort"] = r.dstPort /\ k["protocol"] = r.protocol
BY DEF ruleToKey, Fields

\* Where a key has a field, a packet the rule is about has it too: an exact rule and
\* the key of the packet.
LEMMA ExactAgrees ==
  ASSUME NEW r \in SoundRow, ~isCIDR(r), NEW p, Means(r, p)
  PROVE  LET k == ruleToKey(r) IN
         \A f \in Fields : k[f] = ZeroKey[f] \/ k[f] = packetKey(p)[f]
<1> DEFINE k == ruleToKey(r)
           q == packetKey(p)
<1>1. /\ r.srcIP \in {None, Any4, Any6, p.src} /\ r.dstIP \in {None, Any4, Any6, p.dst}
      /\ r.srcPort # 0 => p.srcPort = r.srcPort /\ p.protocol \in {"tcp", "udp"}
      /\ r.dstPort # 0 => p.dstPort = r.dstPort /\ p.protocol \in {"tcp", "udp"}
      /\ r.protocol \in {"all", p.protocol}
  BY DEF Means
<1>2. /\ k.src = None \/ k.src = q.src
      /\ k.dst = None \/ k.dst = q.dst
      /\ k.srcPort = 0 \/ k.srcPort = q.srcPort
      /\ k.dstPort = 0 \/ k.dstPort = q.dstPort
      /\ k.protocol = "all" \/ k.protocol = q.protocol
  BY <1>1 DEF ruleToKey, packetKey
<1> QED
  BY <1>2 DEF Fields, ZeroKey

\* A rule with networks and the key with the ids of the packet's networks.
LEMMA CidrAgrees ==
  ASSUME NEW R, Installable(R), NEW r \in R, isCIDR(r), NEW p, Means(r, p)
  PROVE  LET k  == ruleToKey(r)
             ck == cidrKey(p, EntriesOf(R)) IN
         /\ \A f \in Fields : k[f] = ZeroKey[f] \/ k[f] = ck[f]
         /\ ck.src # None \/ ck.dst # None
<1> DEFINE es == EntriesOf(R)
           k  == ruleToKey(r)
           ck == cidrKey(p, es)
<1>1. /\ r.srcCIDR # None => p.src \in Covers[r.srcCIDR]
      /\ r.dstCIDR # None => p.dst \in Covers[r.dstCIDR]
      /\ r.srcPort # 0 => p.srcPort = r.srcPort /\ p.protocol \in {"tcp", "udp"}
      /\ r.dstPort # 0 => p.dstPort = r.dstPort /\ p.protocol \in {"tcp", "udp"}
      /\ r.protocol \in {"all", p.protocol}
  BY DEF Means
<1>2. /\ ck.src = lpm(p.src, srcCIDRs(es)) /\ ck.dst = lpm(p.dst, dstCIDRs(es))
      /\ ck.srcPort = packetKey(p).srcPort /\ ck.dstPort = packetKey(p).dstPort
      /\ ck.protocol = packetKey(p).protocol
  BY DEF cidrKey, packetKey
<1>3. k.src = r.srcCIDR /\ k.dst = r.dstCIDR
  BY DEF ruleToKey
<1>4. k.src = None \/ k.src = ck.src
  BY <1>1, <1>2, <1>3, Tries, LpmFinds
<1>5. k.dst = None \/ k.dst = ck.dst
  BY <1>1, <1>2, <1>3, Tries, LpmFinds
<1>6. /\ k.srcPort = 0 \/ k.srcPort = ck.srcPort
      /\ k.dstPort = 0 \/ k.dstPort = ck.dstPort
      /\ k.protocol = "all" \/ k.protocol = ck.protocol
  BY <1>1, <1>2 DEF ruleToKey, packetKey
<1>7. ck.src # None \/ ck.dst # None
  BY <1>3, <1>4, <1>5 DEF isCIDR
<1> HIDE DEF k, ck
<1>8. \A f \in Fields : k[f] = ZeroKey[f] \/ k[f] = ck[f]
  BY <1>4, <1>5, <1>6 DEF Fields, ZeroKey
<1> QED
  BY <1>7, <1>8 DEF k, ck, es

\* The lookups check what a row says of length, flags and anomaly.
LEMMA PassesMeant ==
  ASSUME NEW r \in SoundRow, NEW p, NEW verify \in BOOLEAN
  PROVE  LET v == Entry(r).val IN
         /\ Means(r, p) /\ verify = (r.anomaly # {}) => Passes(v, p, verify)
         /\ Passes(v, p, verify) /\ r.protocol \in {"all", p.protocol} =>
              /\ r.lenMin > 0 => p.len >= r.lenMin
              /\ r.lenMax > 0 => p.len <= r.lenMax
              /\ r.flags.set \subseteq p.flags /\ r.flags.clear \cap p.flags = {}
              /\ r.anomaly # {} => r.anomaly \cap p.anomaly # {}
<1> DEFINE v == Entry(r).val
<1>1. /\ v.lenMin = r.lenMin /\ v.lenMax = r.lenMax /\ v.flags = r.flags /\ v.anomaly = r.anomaly
  BY DEF Entry
<1>2. r.flags = NoFlags => r.flags.set = {} /\ r.flags.clear = {}
  BY DEF NoFlags
<1>3. r.flags # NoFlags => r.protocol = "tcp"
  BY DEF SoundRow, Sound
<1> HIDE DEF v
<1>4. ASSUME Means(r, p), verify = (r.anomaly # {}) PROVE Passes(v, p, verify)
  BY <1>1, <1>4 DEF Means, Passes, pkt_len_matches, tcp_flags_matches, anomaly_matches
<1>5. ASSUME Passes(v, p, verify), r.protocol \in {"all", p.protocol}
      PROVE  /\ r.lenMin > 0 => p.len >= r.lenMin
             /\ r.lenMax > 0 => p.len <= r.lenMax
             /\ r.flags.set \subseteq p.flags /\ r.flags.clear \cap p.flags = {}
             /\ r.anomaly # {} => r.anomaly \cap p.anomaly # {}
  BY <1>1, <1>2, <1>3, <1>5 DEF Passes, pkt_len_matches, tcp_flags_matches, anomaly_matches
<1> QED
  BY <1>4, <1>5 DEF v

\* The data path loses no installed rule: classification, probes, tries, the order of the
\* lookups and the three checks let every packet a rule is about be acted on.
THEOREM PathActs ==
  ASSUME NEW R, Installable(R), NEW r \in R, SetFields(ruleToKey(r)) # {}, NEW p, Means(r, p)
  PROVE  actedOn(p, EntriesOf(R))
<1> DEFINE es     == EntriesOf(R)
           e      == Entry(r)
           verify == r.anomaly # {}
           exact  == {x \in es : ~x.cidr}
           cidr   == {x \in es : x.cidr}
           ck     == cidrKey(p, es)
<1>1. /\ e \in es /\ e.key = ruleToKey(r) /\ e.cidr = isCIDR(r) /\ e.val.anomaly = r.anomaly
      /\ getComboType(e.key) # ComboUnknown /\ r \in SoundRow
  BY DEF EntriesOf, Entry, Installable
<1>2. e.key = [f \in Fields |-> e.key[f]]
  BY <1>1, KeyFields
<1>3. Passes(e.val, p, verify)
  BY <1>1, PassesMeant
<1>4. verify => p.anomaly # {} /\ \E x \in es : x.val.anomaly # {}
  BY <1>1 DEF Means
<1>5. exact \in SUBSET es /\ cidr \in SUBSET es
  OBVIOUS
<1>6. Found(packetKey(p), p, exact, verify) \/ ((ck.src # None \/ ck.dst # None) /\ Found(ck, p, cidr, verify))
  <2>1. CASE ~isCIDR(r)
    <3>1. e \in exact
      BY <1>1, <2>1
    <3>2. e.key = Probe(packetKey(p), getComboType(e.key))
      <4> HIDE DEF e
      <4>1. \A f \in Fields : e.key[f] = ZeroKey[f] \/ e.key[f] = packetKey(p)[f]
        BY <1>1, <2>1, ExactAgrees
      <4> QED
        BY <1>1, <1>2, <4>1, Probed
    <3> HIDE DEF e, exact, verify, es
    <3> QED
      BY <1>3, <1>5, <3>1, <3>2, LookupFinds DEF es
  <2>2. CASE isCIDR(r)
    <3>1. e \in cidr
      BY <1>1, <2>2
    <3>2. /\ \A f \in Fields : ruleToKey(r)[f] = ZeroKey[f] \/ ruleToKey(r)[f] = ck[f]
          /\ ck.src # None \/ ck.dst # None
      BY <2>2, CidrAgrees
    <3>3. e.key = Probe(ck, getComboType(e.key))
      <4> HIDE DEF e, ck
      <4> QED
        BY <1>1, <1>2, <3>2, Probed
    <3> HIDE DEF e, cidr, verify, es, ck
    <3> QED
      BY <1>3, <1>5, <3>1, <3>2, <3>3, LookupFinds DEF es
  <2> QED
    BY <2>1, <2>2
<1>7. verify \in BOOLEAN
  OBVIOUS
<1> HIDE DEF e, verify
<1>8. CASE verify = FALSE
  BY <1>6, <1>8 DEF actedOn
<1>9. CASE verify = TRUE
  BY <1>4, <1>6, <1>9 DEF actedOn
<1> QED
  BY <1>7, <1>8, <1>9

\* A rule found for the key of a packet is about the packet.
LEMMA ExactMeans ==
  ASSUME NEW r \in SoundRow, ~isCIDR(r), NEW p, NEW verify \in BOOLEAN, NEW c,
         ruleToKey(r) = Probe(packetKey(p), c), Passes(Entry(r).val, p, verify)
  PROVE  Means(r, p)
<1> DEFINE k == ruleToKey(r)
           q == packetKey(p)
<1>1. \A f \in Fields : k[f] = ZeroKey[f] \/ k[f] = q[f]
  BY DEF Probe
<1>2. /\ k.src = None \/ k.src = q.src
      /\ k.dst = None \/ k.dst = q.dst
      /\ k.srcPort = 0 \/ k.srcPort = q.srcPort
      /\ k.dstPort = 0 \/ k.dstPort = q.dstPort
      /\ k.protocol = "all" \/ k.protocol = q.protocol
  BY <1>1 DEF ZeroKey, Fields, ruleToKey, packetKey
<1>3. /\ r.srcIP \in {None, Any4, Any6, p.src} /\ r.dstIP \in {None, Any4, Any6, p.dst}
      /\ r.srcPort # 0 => p.srcPort = r.srcPort /\ p.protocol \in {"tcp", "udp"}
      /\ r.dstPort # 0 => p.dstPort = r.dstPort /\ p.protocol \in {"tcp", "udp"}
      /\ r.protocol \in {"all", p.protocol}
  BY <1>2 DEF ruleToKey, packetKey
<1>4. r.srcCIDR = None /\ r.dstCIDR = None
  BY DEF isCIDR
<1> QED
  BY <1>3, <1>4, PassesMeant DEF Means

LEMMA CidrMeans ==
  ASSUME NEW R, Installable(R), NEW r \in R, isCIDR(r), NEW p, NEW verify \in BOOLEAN, NEW c,
         ruleToKey(r) = Probe(cidrKey(p, EntriesOf(R)), c), Passes(Entry(r).val, p, verify)
  PROVE  Means(r, p)
<1> DEFINE es == EntriesOf(R)
           k  == ruleToKey(r)
           ck == cidrKey(p, es)
<1>1. r \in SoundRow /\ k.src = r.srcCIDR /\ k.dst = r.dstCIDR /\ r.srcIP = None /\ r.dstIP = None
  BY DEF Installable, SoundRow, Sound, isCIDR, ruleToKey
<1>2. \A f \in Fields : k[f] = ZeroKey[f] \/ k[f] = ck[f]
  BY DEF Probe
<1>3. /\ ck.src = lpm(p.src, srcCIDRs(es)) /\ ck.dst = lpm(p.dst, dstCIDRs(es))
      /\ ck.srcPort = packetKey(p).srcPort /\ ck.dstPort = packetKey(p).dstPort
      /\ ck.protocol = packetKey(p).protocol
  BY DEF cidrKey, packetKey
<1>4. /\ k.src = None \/ k.src = ck.src
      /\ k.dst = None \/ k.dst = ck.dst
      /\ k.srcPort = 0 \/ k.srcPort = ck.srcPort
      /\ k.dstPort = 0 \/ k.dstPort = ck.dstPort
      /\ k.protocol = "all" \/ k.protocol = ck.protocol
  BY <1>2 DEF ZeroKey, Fields, ruleToKey, cidrKey, packetKey
<1>5. r.srcCIDR # None => p.src \in Covers[r.srcCIDR]
  BY <1>1, <1>3, <1>4, Tries, LpmFinds
<1>6. r.dstCIDR # None => p.dst \in Covers[r.dstCIDR]
  BY <1>1, <1>3, <1>4, Tries, LpmFinds
<1>7. /\ r.srcPort # 0 => p.srcPort = r.srcPort /\ p.protocol \in {"tcp", "udp"}
      /\ r.dstPort # 0 => p.dstPort = r.dstPort /\ p.protocol \in {"tcp", "udp"}
      /\ r.protocol \in {"all", p.protocol}
  BY <1>3, <1>4 DEF ruleToKey, packetKey
<1> QED
  BY <1>1, <1>5, <1>6, <1>7, PassesMeant DEF Means

\* And it acts on no packet that no installed rule is about.
THEOREM PathOnly ==
  ASSUME NEW R, Installable(R), NEW p, actedOn(p, EntriesOf(R))
  PROVE  \E r \in R : Means(r, p)
<1> DEFINE es     == EntriesOf(R)
           exact  == {x \in es : ~x.cidr}
           cidr   == {x \in es : x.cidr}
           ck     == cidrKey(p, es)
<1>1. exact \in SUBSET es /\ cidr \in SUBSET es
  OBVIOUS
<1>2. PICK verify \in BOOLEAN : Found(packetKey(p), p, exact, verify) \/ Found(ck, p, cidr, verify)
  BY DEF actedOn
<1>3. CASE Found(packetKey(p), p, exact, verify)
  <2>1. PICK e \in exact, c \in 0 .. 33 : e.key = Probe(packetKey(p), c) /\ Passes(e.val, p, verify)
    BY <1>1, <1>3, LookupHit
  <2>2. PICK r \in R : e = Entry(r)
    BY DEF EntriesOf
  <2>3. r \in SoundRow /\ e.key = ruleToKey(r) /\ ~isCIDR(r)
    BY <2>2 DEF Entry, Installable
  <2> QED
    BY <2>1, <2>2, <2>3, ExactMeans
<1>4. CASE Found(ck, p, cidr, verify)
  <2>1. PICK e \in cidr, c \in 0 .. 33 : e.key = Probe(ck, c) /\ Passes(e.val, p, verify)
    BY <1>1, <1>4, LookupHit
  <2>2. PICK r \in R : e = Entry(r)
    BY DEF EntriesOf
  <2>3. e.key = ruleToKey(r) /\ isCIDR(r)
    BY <2>2 DEF Entry
  <2> QED
    BY <2>1, <2>2, <2>3, CidrMeans
<1> QED
  BY <1>2, <1>3, <1>4

-----------------------------------------------------------------------------
(* One handler at a time: what the node shows of the table *)

\* Requests are served one at a time.
OneHandler == \A g, h \in Handlers : g = h

TableApart ==
  \A i, k \in Ids : i # k /\ rules[i] # None /\ rules[k] # None => Apart(rules[i], rules[k])

Live(i) == rules[i] # None /\ rules[i].enabled
Free(i) == rules[i] = None /\ node[i] = None

\* The node holds rule i as the table has it, or had a reason not to take it.
Shown(i) ==
  \/ ~Live(i) /\ node[i] = None
  \/ Live(i) /\ node[i] = Entry(rules[i]) /\ getComboType(ruleToKey(rules[i])) # ComboUnknown
  \/ Live(i) /\ node[i] = None /\ (SetFields(ruleToKey(rules[i])) = {} \/ Refused(i))

Distinct(s) == \A k, m \in DOMAIN s : k # m => s[k].id # s[m].id

\* The rows rs can be inserted.
NewRows(rs) ==
  /\ Distinct(rs)
  /\ \A n \in DOMAIN rs : /\ Free(rs[n].id)
                          /\ \A i \in Ids : rules[i] # None => Apart(rs[n].row, rules[i])
  /\ \A m, n \in DOMAIN rs : m # n => Apart(rs[m].row, rs[n].row)

\* The items todo of a batch have ids of their own, rows rs of it being checked.
NewItems(todo, rs) ==
  /\ Distinct(todo)
  /\ \A k \in DOMAIN todo : Free(todo[k].id) /\ \A n \in DOMAIN rs : rs[n].id # todo[k].id

\* The calls cs add what is enabled of the rows rs.
AddsOf(cs, rs) ==
  /\ Distinct(cs)
  /\ \A k \in DOMAIN cs : \E n \in DOMAIN rs : rs[n].row.enabled /\ cs[k] = Add(rs[n].id, rs[n].row)
  /\ \A n \in DOMAIN rs : rs[n].row.enabled => \E k \in DOMAIN cs : cs[k] = Add(rs[n].id, rs[n].row)

\* Calls to come: adds of rules the node has not, the removal of one, or its replacement.
ToAdd(cs) ==
  /\ Distinct(cs)
  /\ \A k \in DOMAIN cs : /\ Live(cs[k].id) /\ node[cs[k].id] = None
                          /\ cs[k] = Add(cs[k].id, rules[cs[k].id])
CallsFit(cs) ==
  \/ ToAdd(cs)
  \/ \E i \in Ids : cs = <<Del(i)>> /\ ~Live(i)
  \/ \E i \in Ids : cs = <<Del(i), Add(i, rules[i])>> /\ Live(i)

\* What a handler has read still holds.
Current(j) == rules[j.id] # None /\ j.was = rules[j.id].enabled

JobServed(j) ==
  /\ j.at = "items" => NewRows(j.rows) /\ AddsOf(j.calls, j.rows) /\ NewItems(j.todo, j.rows)
  /\ j.at = "write" /\ j.op = "insert" => NewRows(j.rows) /\ AddsOf(j.calls, j.rows)
  /\ j.at = "write" /\ j.op = "update" => Current(j) /\ Tuple(j.row) = Tuple(rules[j.id])
  /\ j.at = "write" /\ j.op = "delete" => Current(j)
  /\ j.at = "push" => CallsFit(j.calls)

Waits(i) ==
  \E h \in Handlers : job[h].at = "push" /\ \E k \in DOMAIN job[h].calls : job[h].calls[k].id = i

\* Rules of the table do not clash, what a handler has read is still so, and the node
\* shows every rule that no call is to come about.
Served ==
  /\ TableApart
  /\ DOMAIN node = Ids
  /\ \A h \in Handlers : JobServed(job[h])
  /\ \A i \in Ids : Waits(i) \/ Shown(i)

\* A row or an entry is not the empty string.
LEMMA NotNone ==
  ASSUME NEW row \in SoundRow
  PROVE  row # None /\ Entry(row) # None
<1>1. row \in Rows
  BY DEF SoundRow
<1>2. /\ isCIDR(row) \in BOOLEAN /\ row.protocol \in validProtocols
      /\ {row.srcIP, row.dstIP, row.srcCIDR, row.dstCIDR} \subseteq Addrs \cup Nets \cup {None}
  BY <1>1 DEF Rows, isCIDR
<1>3. ruleToKey(row) \in [src : Addrs \cup Nets \cup {None}, dst : Addrs \cup Nets \cup {None},
                          srcPort : 0 .. MaxU16, dstPort : 0 .. MaxU16, protocol : validProtocols]
  BY <1>1, <1>2 DEF Rows, ruleToKey
<1>4. [action |-> row.action, rate |-> row.rate, lenMin |-> row.lenMin,
       lenMax |-> row.lenMax, flags |-> row.flags, anomaly |-> row.anomaly]
        \in [action : {"drop", "rate_limit"}, rate : 0 .. MaxU32,
             lenMin : 0 .. MaxU16, lenMax : 0 .. MaxU16,
             flags : [set : SUBSET validTcpFlags, clear : SUBSET validTcpFlags],
             anomaly : SUBSET validBits]
  BY <1>1 DEF Rows
<1>5. Entry(row) \in Entries
  BY <1>2, <1>3, <1>4 DEF Entry, Entries
<1> QED
  BY <1>1, <1>5, NoneAssumption

LEMMA ApartSymmetric ==
  ASSUME NEW r, NEW s, Apart(r, s)
  PROVE  Apart(s, r)
BY DEF Apart, NetsApart

\* Rows are apart by the columns a patch or a merge leaves alone.
LEMMA ApartByTuple ==
  ASSUME NEW r, NEW q, NEW s, Tuple(r) = Tuple(q), Apart(q, s)
  PROVE  Apart(r, s)
<1>1. r.srcCIDR = q.srcCIDR /\ r.dstCIDR = q.dstCIDR
  BY DEF Tuple
<1> QED
  BY <1>1 DEF Apart

\* The overlap check of the controller keeps a new row apart from those it is checked against.
LEMMA ApartByCheck ==
  ASSUME NEW r, NEW rs, NEW s \in rs, Tuple(r) # Tuple(s), isCIDR(r) => ~checkCIDROverlap(r, rs)
  PROVE  Apart(r, s)
<1>1. ASSUME NEW m, NEW n, NEW ns, n \in ns, ~findCIDROverlap(m, ns) PROVE NetsApart(m, n)
  BY <1>1 DEF findCIDROverlap, NetsApart
<1>2. NetsApart(r.srcCIDR, s.srcCIDR)
  <2>1. CASE r.srcCIDR = None \/ s.srcCIDR = None
    BY <2>1 DEF NetsApart
  <2>2. CASE r.srcCIDR # None /\ s.srcCIDR # None
    <3>1. ~findCIDROverlap(r.srcCIDR, {x.srcCIDR : x \in rs} \ {None})
      BY <2>2 DEF isCIDR, checkCIDROverlap
    <3>2. s.srcCIDR \in {x.srcCIDR : x \in rs} \ {None}
      BY <2>2
    <3> QED
      BY <1>1, <3>1, <3>2
  <2> QED
    BY <2>1, <2>2
<1>3. NetsApart(r.dstCIDR, s.dstCIDR)
  <2>1. CASE r.dstCIDR = None \/ s.dstCIDR = None
    BY <2>1 DEF NetsApart
  <2>2. CASE r.dstCIDR # None /\ s.dstCIDR # None
    <3>1. ~findCIDROverlap(r.dstCIDR, {x.dstCIDR : x \in rs} \ {None})
      BY <2>2 DEF isCIDR, checkCIDROverlap
    <3>2. s.dstCIDR \in {x.dstCIDR : x \in rs} \ {None}
      BY <2>2
    <3> QED
      BY <1>1, <3>1, <3>2
  <2> QED
    BY <2>1, <2>2
<1> QED
  BY <1>2, <1>3 DEF Apart

\* The agent's answer about a rule of the table, when what it has installed are other
\* rules of the table.
LEMMA AnswerShown ==
  ASSUME NEW row \in SoundRow, NEW es,
         \A e \in es : \E s \in SoundRow : e = Entry(s) /\ Apart(row, s)
  PROVE  LET ans == Answer(row, es) IN
         /\ ans \in {"ok", "nocombo", "taken"}
         /\ ans = "ok" => getComboType(ruleToKey(row)) # ComboUnknown
         /\ ans = "nocombo" => SetFields(ruleToKey(row)) = {}
         /\ ans = "taken" => ~isCIDR(row) /\ {row.srcIP, row.dstIP} \cap {None, Any4, Any6} # {}
<1> DEFINE e == Entry(row)
           ans == Answer(row, es)
           taken == \E x \in es : x.cidr = e.cidr /\ x.key = e.key
           srcHit == row.srcCIDR # None /\ findCIDROverlap(row.srcCIDR, srcCIDRs(es))
           dstHit == row.dstCIDR # None /\ findCIDROverlap(row.dstCIDR, dstCIDRs(es))
<1>1. e.cidr = isCIDR(row) /\ e.key = ruleToKey(row)
  BY DEF Entry
<1>2. \A s : /\ Entry(s).cidr = isCIDR(s) /\ Entry(s).key = ruleToKey(s)
             /\ isCIDR(s) => ruleToKey(s).src = s.srcCIDR /\ ruleToKey(s).dst = s.dstCIDR
  BY DEF Entry, ruleToKey
<1>3. ~srcHit
  <2> SUFFICES ASSUME srcHit PROVE FALSE
    OBVIOUS
  <2>1. PICK m \in srcCIDRs(es) :
          /\ m # row.srcCIDR /\ (m \in Nets4 <=> row.srcCIDR \in Nets4)
          /\ Covers[m] \subseteq Covers[row.srcCIDR] \/ Covers[row.srcCIDR] \subseteq Covers[m]
    BY DEF findCIDROverlap
  <2>2. PICK x \in es : x.cidr /\ m = x.key.src /\ m # None
    BY DEF srcCIDRs
  <2>3. PICK s \in SoundRow : x = Entry(s) /\ Apart(row, s)
    OBVIOUS
  <2>4. m = s.srcCIDR
    BY <1>2, <2>2, <2>3
  <2> QED
    BY <2>1, <2>2, <2>3, <2>4 DEF Apart, NetsApart
<1>4. ~dstHit
  <2> SUFFICES ASSUME dstHit PROVE FALSE
    OBVIOUS
  <2>1. PICK m \in dstCIDRs(es) :
          /\ m # row.dstCIDR /\ (m \in Nets4 <=> row.dstCIDR \in Nets4)
          /\ Covers[m] \subseteq Covers[row.dstCIDR] \/ Covers[row.dstCIDR] \subseteq Covers[m]
    BY DEF findCIDROverlap
  <2>2. PICK x \in es : x.cidr /\ m = x.key.dst /\ m # None
    BY DEF dstCIDRs
  <2>3. PICK s \in SoundRow : x = Entry(s) /\ Apart(row, s)
    OBVIOUS
  <2>4. m = s.dstCIDR
    BY <1>2, <2>2, <2>3
  <2> QED
    BY <2>1, <2>2, <2>3, <2>4 DEF Apart, NetsApart
<1>5. taken => ~isCIDR(row) /\ {row.srcIP, row.dstIP} \cap {None, Any4, Any6} # {}
  <2> SUFFICES ASSUME taken PROVE ~isCIDR(row) /\ {row.srcIP, row.dstIP} \cap {None, Any4, Any6} # {}
    OBVIOUS
  <2>1. PICK x \in es : x.cidr = e.cidr /\ x.key = e.key
    OBVIOUS
  <2>2. PICK s \in SoundRow : x = Entry(s) /\ Apart(row, s)
    OBVIOUS
  <2>3. isCIDR(s) = isCIDR(row) /\ ruleToKey(s) = ruleToKey(row)
    BY <1>1, <1>2, <2>1, <2>2
  <2>4. s.srcPort = row.srcPort /\ s.dstPort = row.dstPort /\ s.protocol = row.protocol
    BY <2>3, KeyFields
  <2>5. Tuple(s) # Tuple(row)
    BY <2>2 DEF Apart
  <2>6. CASE isCIDR(row)
    <3>1. s.srcCIDR = row.srcCIDR /\ s.dstCIDR = row.dstCIDR
      BY <1>2, <2>3, <2>6
    <3>2. s.srcIP = None /\ s.dstIP = None /\ row.srcIP = None /\ row.dstIP = None
      BY <2>3, <2>6 DEF SoundRow, Sound, isCIDR
    <3> QED
      BY <2>4, <2>5, <3>1, <3>2 DEF Tuple
  <2>7. CASE ~isCIDR(row)
    <3>1. s.srcCIDR = row.srcCIDR /\ s.dstCIDR = row.dstCIDR
      BY <2>3, <2>7 DEF isCIDR
    <3>2. s.srcIP # row.srcIP \/ s.dstIP # row.dstIP
      BY <2>4, <2>5, <3>1 DEF Tuple
    <3>3. /\ ruleToKey(s).src = IF s.srcIP \in {Any4, Any6} THEN None ELSE s.srcIP
          /\ ruleToKey(s).dst = IF s.dstIP \in {Any4, Any6} THEN None ELSE s.dstIP
          /\ ruleToKey(row).src = IF row.srcIP \in {Any4, Any6} THEN None ELSE row.srcIP
          /\ ruleToKey(row).dst = IF row.dstIP \in {Any4, Any6} THEN None ELSE row.dstIP
      BY <2>3, <2>7 DEF ruleToKey
    <3>4. row.srcIP \in {None, Any4, Any6} \/ row.dstIP \in {None, Any4, Any6}
      BY <2>3, <3>2, <3>3
    <3> QED
      BY <2>7, <3>4
  <2> QED
    BY <2>6, <2>7
<1>6. getComboType(ruleToKey(row)) = ComboUnknown => SetFields(ruleToKey(row)) = {}
  <2>1. SetFields(ruleToKey(row)) \in SUBSET Fields
    BY DEF SetFields
  <2> QED
    BY <2>1, TablesAgree DEF getComboType
<1>7. ans = IF srcHit \/ dstHit THEN "overlap"
            ELSE IF getComboType(ruleToKey(row)) = ComboUnknown THEN "nocombo"
            ELSE IF taken THEN "taken" ELSE "ok"
  BY <1>1, <1>3, <1>4, SoundIsValid DEF Answer
<1> HIDE DEF ans, taken, srcHit, dstHit
<1>8. /\ ans \in {"ok", "nocombo", "taken"}
      /\ ans = "ok" => getComboType(ruleToKey(row)) # ComboUnknown
      /\ ans = "nocombo" => SetFields(ruleToKey(row)) = {}
      /\ ans = "taken" => ~isCIDR(row) /\ {row.srcIP, row.dstIP} \cap {None, Any4, Any6} # {}
  BY <1>3, <1>4, <1>5, <1>6, <1>7
<1> QED
  BY <1>8 DEF ans

-----------------------------------------------------------------------------
(* Every step of the one handler keeps it so *)

\* What a job needs of the table and the node stays true while they do.
LEMMA SameServed ==
  ASSUME UNCHANGED <<rules, node, pushed>>
  PROVE  /\ TableApart => TableApart'
         /\ \A j : JobServed(j) => JobServed(j)'
         /\ \A i : Shown(i) => Shown(i)'
<1>1. \A i : Live(i)' = Live(i) /\ Free(i)' = Free(i) /\ Refused(i)' = Refused(i)
  BY DEF Live, Free, Refused
<1>2. TableApart => TableApart'
  BY DEF TableApart
<1>3. \A i : Shown(i) => Shown(i)'
  BY <1>1 DEF Shown
<1>4. ASSUME NEW rs, NewRows(rs) PROVE NewRows(rs)'
  BY <1>1, <1>4 DEF NewRows
<1>5. ASSUME NEW t, NEW rs, NewItems(t, rs) PROVE NewItems(t, rs)'
  BY <1>1, <1>5 DEF NewItems
<1>6. ASSUME NEW cs, CallsFit(cs) PROVE CallsFit(cs)'
  BY <1>1, <1>6 DEF CallsFit, ToAdd
<1>7. ASSUME NEW cs, NEW rs, AddsOf(cs, rs) PROVE AddsOf(cs, rs)'
  BY <1>7 DEF AddsOf
<1>8. ASSUME NEW j PROVE Current(j)' = Current(j)
  BY DEF Current
<1>9. ASSUME NEW j, JobServed(j) PROVE JobServed(j)'
  BY <1>4, <1>5, <1>6, <1>7, <1>8, <1>9 DEF JobServed
<1> QED
  BY <1>2, <1>3, <1>9

\* The handler begins a job, or goes on with one, before it calls the agent.
LEMMA GoesOn ==
  ASSUME OneHandler, IInv, Served, NEW h \in Handlers, job[h].at # "push", NEW j, JobServed(j),
         job' = [job EXCEPT ![h] = j], UNCHANGED <<rules, node, pushed>>
  PROVE  Served'
<1>1. TableApart' /\ DOMAIN node' = Ids /\ JobServed(j)'
  BY SameServed DEF Served
<1>2. \A g \in Handlers : job'[g] = j
  BY DEF OneHandler, IInv
<1>3. \A g \in Handlers : JobServed(job[g])'
  BY <1>1, <1>2
<1>4. \A i \in Ids : Shown(i)
  BY DEF Served, Waits, OneHandler
<1>5. \A i \in Ids : Shown(i)'
  BY <1>4, SameServed
<1> QED
  BY <1>1, <1>3, <1>5 DEF Served

\* The handler has written the table, or made a call, and goes on to the calls cs.
LEMMA ThenServed ==
  ASSUME OneHandler, IInv, NEW h \in Handlers, NEW cs, Then(h, cs),
         TableApart', DOMAIN node' = Ids, CallsFit(cs)',
         \A i \in Ids : Shown(i)' \/ \E k \in DOMAIN cs : cs[k].id = i
  PROVE  Served'
<1> DEFINE j == IF cs = <<>> THEN Idle ELSE [Idle EXCEPT !.at = "push", !.calls = cs]
<1>1. job' = [job EXCEPT ![h] = j]
  BY DEF Then
<1>2. \A g \in Handlers : job'[g] = j
  BY <1>1 DEF OneHandler, IInv
<1>3. /\ j.at = IF cs = <<>> THEN "idle" ELSE "push"
      /\ cs # <<>> => j.calls = cs
  BY DEF Idle
<1> HIDE DEF j
<1>4. \A g \in Handlers : JobServed(job[g])'
  BY <1>2, <1>3 DEF JobServed
<1>5. ASSUME NEW i \in Ids PROVE Waits(i)' \/ Shown(i)'
  <2>1. CASE cs = <<>>
    BY <2>1
  <2>2. CASE cs # <<>>
    BY <1>2, <1>3, <2>2 DEF Waits
  <2> QED
    BY <2>1, <2>2
<1> QED
  BY <1>4, <1>5 DEF Served

\* The calls of Create are the adds of its one row.
LEMMA CreateCalls ==
  ASSUME NEW i, NEW row \in SoundRow
  PROVE  AddsOf(CallsFor(i, row), <<[id |-> i, row |-> row]>>)
<1> DEFINE rs == <<[id |-> i, row |-> row]>>
<1>1. DOMAIN rs = {1} /\ rs[1].id = i /\ rs[1].row = row
  OBVIOUS
<1>2. row.enabled \in BOOLEAN
  BY DEF SoundRow, Rows
<1> HIDE DEF rs
<1>3. CASE row.enabled
  <2> DEFINE cs == <<Add(i, row)>>
  <2>1. CallsFor(i, row) = cs
    BY <1>3 DEF CallsFor
  <2>2. DOMAIN cs = {1} /\ cs[1] = Add(i, row)
    OBVIOUS
  <2> HIDE DEF cs
  <2> QED
    BY <1>1, <1>3, <2>1, <2>2 DEF AddsOf, Distinct, rs
<1>4. CASE ~row.enabled
  <2>1. CallsFor(i, row) = <<>> /\ DOMAIN <<>> = {}
    BY <1>4 DEF CallsFor
  <2> QED
    BY <1>1, <1>4, <2>1 DEF AddsOf, Distinct, rs
<1> QED
  BY <1>2, <1>3, <1>4

\* The row of Create is apart from the table.
LEMMA CreatedApart ==
  ASSUME IInv, NEW row, isCIDR(row) => ~checkCIDROverlap(row, Stored(rules)), ByTuple(row) = {},
         NEW k \in Ids, rules[k] # None
  PROVE  Apart(row, rules[k])
<1>1. rules[k] \in Stored(rules)
  BY DEF Stored
<1>2. Tuple(row) # Tuple(rules[k])
  BY DEF ByTuple
<1> QED
  BY <1>1, <1>2, ApartByCheck

LEMMA BeginServed ==
  ASSUME OneHandler, IInv, Served, NEW h \in Handlers, NEW i \in Ids,
         \/ \E req \in Requests : BeginCreate(h, i, req) \/ BeginMerge(h, i, req)
         \/ \E req \in Patches : BeginUpdate(h, i, req)
         \/ BeginDelete(h, i)
  PROVE  Served'
<1>1. ASSUME NEW j, JobServed(j), Begin(h, j), job[h] = Idle PROVE Served'
  <2>1. job[h].at # "push"
    BY <1>1, IdleOK
  <2> QED
    BY <1>1, <2>1, GoesOn DEF Begin
<1>2. CASE \E req \in Requests : BeginCreate(h, i, req)
  <2>1. PICK req \in Requests : BeginCreate(h, i, req)
    BY <1>2
  <2> DEFINE row == rowOf[req]
             rs  == <<[id |-> i, row |-> row]>>
             cs  == CallsFor(i, row)
             j   == [Idle EXCEPT !.at = "write", !.op = "insert", !.rows = rs, !.calls = cs]
  <2>2. /\ row \in SoundRow /\ Begin(h, j) /\ Free(i) /\ job[h] = Idle
        /\ isCIDR(row) => ~checkCIDROverlap(row, Stored(rules))
        /\ ByTuple(row) = {}
    BY <2>1, Bodies DEF BeginCreate, Fresh, Free
  <2> HIDE DEF row
  <2>3. DOMAIN rs = {1} /\ rs[1].id = i /\ rs[1].row = row
    OBVIOUS
  <2>4. AddsOf(cs, rs)
    BY <2>2, CreateCalls
  <2> HIDE DEF rs, cs
  <2>5. NewRows(rs)
    BY <2>2, <2>3, CreatedApart DEF NewRows, Distinct
  <2>6. JobServed(j)
    BY <2>4, <2>5 DEF JobServed, Idle
  <2> QED
    BY <1>1, <2>2, <2>6
<1>3. CASE \E req \in Requests : BeginMerge(h, i, req)
  <2>1. PICK req \in Requests : BeginMerge(h, i, req)
    BY <1>3
  <2> DEFINE row == rowOf[req]
             m   == mergedRow(rules[i], row)
             j   == [Idle EXCEPT !.at = "write", !.op = "update", !.id = i, !.row = m,
                                 !.was = rules[i].enabled]
  <2>2. Begin(h, j) /\ rules[i] # None /\ job[h] = Idle
    BY <2>1 DEF BeginMerge, ByTuple
  <2>3. rules[i] \in Rows
    BY <2>2 DEF IInv, SoundRow
  <2>4. Tuple(m) = Tuple(rules[i])
    BY <2>3 DEF mergedRow, Tuple, Rows
  <2> HIDE DEF m
  <2>5. JobServed(j)
    BY <2>2, <2>4 DEF JobServed, Current, Idle
  <2> QED
    BY <1>1, <2>2, <2>5
<1>4. CASE \E req \in Patches : BeginUpdate(h, i, req)
  <2>1. PICK req \in Patches : BeginUpdate(h, i, req)
    BY <1>4
  <2> DEFINE row == UpdatedRow(req, rules[i])
             j   == [Idle EXCEPT !.at = "write", !.op = "update", !.id = i, !.row = row,
                                 !.was = rules[i].enabled]
  <2>2. Begin(h, j) /\ rules[i] # None /\ job[h] = Idle
    BY <2>1 DEF BeginUpdate
  <2>3. rules[i] \in Rows
    BY <2>2 DEF IInv, SoundRow
  <2>4. Tuple(row) = Tuple(rules[i])
    BY <2>3 DEF UpdatedRow, Tuple, Rows
  <2> HIDE DEF row
  <2>5. JobServed(j)
    BY <2>2, <2>4 DEF JobServed, Current, Idle
  <2> QED
    BY <1>1, <2>2, <2>5
<1>5. CASE BeginDelete(h, i)
  <2> DEFINE j == [Idle EXCEPT !.at = "write", !.op = "delete", !.id = i, !.was = rules[i].enabled]
  <2>1. Begin(h, j) /\ rules[i] # None /\ job[h] = Idle
    BY <1>5 DEF BeginDelete
  <2>2. JobServed(j)
    BY <2>1 DEF JobServed, Current, Idle
  <2> QED
    BY <1>1, <2>1, <2>2
<1> QED
  BY <1>2, <1>3, <1>4, <1>5

LEMMA BeginBatchServed ==
  ASSUME OneHandler, IInv, Served, NEW h \in Handlers, NEW batch \in Batches,
         NEW ids \in [DOMAIN batch -> Ids], IsInjective(ids), BeginBatch(h, ids, batch)
  PROVE  Served'
<1> DEFINE t == [n \in DOMAIN batch |-> [id |-> ids[n], req |-> batch[n]]]
           j == [Idle EXCEPT !.at = "items", !.todo = t]
<1>1. job[h] = Idle /\ Begin(h, j) /\ Range(ids) \subseteq Fresh
  BY DEF BeginBatch
<1>2. \A n \in DOMAIN batch : Free(ids[n])
  BY <1>1 DEF Range, Fresh, Free
<1>3. DOMAIN t = DOMAIN batch /\ \A n \in DOMAIN batch : t[n].id = ids[n]
  OBVIOUS
<1>4. \A k, n \in DOMAIN batch : k # n => ids[k] # ids[n]
  BY DEF IsInjective
<1> HIDE DEF t
<1>5. NewItems(t, <<>>)
  BY <1>2, <1>3, <1>4 DEF NewItems, Distinct
<1>6. NewRows(<<>>) /\ AddsOf(<<>>, <<>>)
  BY DEF NewRows, AddsOf, Distinct
<1>7. JobServed(j)
  BY <1>5, <1>6 DEF JobServed, Idle
<1>8. job[h].at # "push"
  BY <1>1, IdleOK
<1> QED
  BY <1>1, <1>7, <1>8, GoesOn DEF Begin

\* A row whose tuple is in the table Exists.
LEMMA ExistsByTuple ==
  ASSUME NEW row, ~Exists(row), NEW k \in Ids, rules[k] # None
  PROVE  Tuple(row) # Tuple(rules[k])
<1>1. rules[k] \in Stored(rules)
  BY DEF Stored
<1> QED
  BY <1>1 DEF Exists, Tuple

\* An item that passes is apart from the table and from the items before it.
LEMMA ItemServed ==
  ASSUME OneHandler, IInv, Served, NEW h \in Handlers, BatchItem(h)
  PROVE  Served'
<1> DEFINE j    == job[h]
           item == Head(j.todo)
           row  == rowOf[item.req]
           rest == [j EXCEPT !.todo = Tail(j.todo)]
           new  == [id |-> item.id, row |-> row]
           rs   == Append(j.rows, new)
           add  == CallsFor(item.id, row)
           cs   == j.calls \o add
           more == [rest EXCEPT !.rows = rs, !.calls = cs]
<1>1. /\ JobOK(j) /\ j.at = "items" /\ j.todo # <<>>
      /\ UNCHANGED <<rules, node, pushed>>
      /\ \/ job' = [job EXCEPT ![h] = more] /\ itemOk(item.req, j.rows)
         \/ job' = [job EXCEPT ![h] = rest]
  BY DEF IInv, BatchItem
<1>2. /\ j.todo \in Seq(Items) /\ j.rows \in Seq(Rowed) /\ j.calls \in Seq(Call)
  BY <1>1 DEF JobOK
<1>3. NewRows(j.rows) /\ AddsOf(j.calls, j.rows) /\ NewItems(j.todo, j.rows)
  BY <1>1 DEF Served, JobServed
<1>4. /\ item = j.todo[1] /\ 1 \in DOMAIN j.todo /\ Tail(j.todo) \in Seq(Items)
      /\ \A k \in DOMAIN Tail(j.todo) : k + 1 \in DOMAIN j.todo /\ k + 1 # 1 /\ k \in Nat
                                        /\ Tail(j.todo)[k] = j.todo[k + 1]
  <2> HIDE DEF j
  <2> QED
    BY <1>1, <1>2
<1>5. NewItems(Tail(j.todo), j.rows)
  <2> HIDE DEF j
  <2>1. Distinct(Tail(j.todo))
    <3> SUFFICES ASSUME NEW k \in DOMAIN Tail(j.todo), NEW m \in DOMAIN Tail(j.todo), k # m
                 PROVE  Tail(j.todo)[k].id # Tail(j.todo)[m].id
      BY DEF Distinct
    <3>1. k + 1 # m + 1
      BY <1>4
    <3> QED
      BY <1>3, <1>4, <3>1 DEF NewItems, Distinct
  <2> QED
    BY <1>3, <1>4, <2>1 DEF NewItems
<1>6. JobServed(rest)
  <2>1. rest.todo = Tail(j.todo) /\ rest.rows = j.rows /\ rest.calls = j.calls /\ rest.at = "items"
    BY <1>1 DEF JobOK
  <2> HIDE DEF rest
  <2> QED
    BY <1>3, <1>5, <2>1 DEF JobServed
<1>7. ASSUME itemOk(item.req, j.rows) PROVE JobServed(more)
  <2>1. row \in SoundRow /\ item.id \in Ids
    <3>1. item \in Items
      BY <1>2, <1>4
    <3> QED
      BY <1>7, <3>1, Bodies DEF itemOk, Items
  <2>2. /\ \A n \in DOMAIN j.rows : Apart(row, j.rows[n].row)
        /\ \A k \in Ids : rules[k] # None => Apart(row, rules[k])
    <3> DEFINE pending == {j.rows[n].row : n \in DOMAIN j.rows}
               all     == Stored(rules) \cup pending
    <3>1. /\ isCIDR(row) => ~checkCIDROverlap(row, all)
          /\ ~Exists(row) /\ \A r \in pending : Tuple(r) # Tuple(row)
      BY <1>7 DEF itemOk
    <3>2. \A k \in Ids : rules[k] # None => rules[k] \in all /\ Tuple(row) # Tuple(rules[k])
      BY <3>1, ExistsByTuple DEF Stored
    <3>3. \A n \in DOMAIN j.rows : j.rows[n].row \in all /\ Tuple(row) # Tuple(j.rows[n].row)
      BY <3>1
    <3> HIDE DEF all, pending, row, j
    <3> QED
      BY <3>1, <3>2, <3>3, ApartByCheck
  <2>3. /\ Free(item.id) /\ \A n \in DOMAIN j.rows : j.rows[n].id # item.id
        /\ \A k \in DOMAIN Tail(j.todo) : Tail(j.todo)[k].id # item.id
    <3> HIDE DEF j
    <3> QED
      BY <1>3, <1>4 DEF NewItems, Distinct
  <2> DEFINE len == Len(j.rows) + 1
  <2>4. /\ DOMAIN rs = DOMAIN j.rows \cup {len} /\ len \notin DOMAIN j.rows
        /\ rs[len] = new /\ \A n \in DOMAIN j.rows : rs[n] = j.rows[n]
    <3> HIDE DEF j, new
    <3> QED
      BY <1>2
  <2>5. new.id = item.id /\ new.row = row
    OBVIOUS
  <2>9. more.todo = Tail(j.todo) /\ more.rows = rs /\ more.calls = cs /\ more.at = "items"
    <3> HIDE DEF rs, cs
    <3>1. more.rows = rs
      BY <1>1 DEF JobOK
    <3>2. more.calls = cs
      BY <1>1 DEF JobOK
    <3>3. more.at = "items"
      BY <1>1 DEF JobOK
    <3>4. more.todo = Tail(j.todo)
      BY <1>1 DEF JobOK
    <3> QED
      BY <3>1, <3>2, <3>3, <3>4
  <2> HIDE DEF j, new, row, item, rs, len
  <2>6. NewRows(rs)
    BY <1>3, <2>2, <2>3, <2>4, <2>5, ApartSymmetric DEF NewRows, Distinct
  <2>7. NewItems(Tail(j.todo), rs)
    BY <1>5, <2>3, <2>4, <2>5 DEF NewItems
  <2>8. AddsOf(cs, rs)
    <3>1. row.enabled \in BOOLEAN
      BY <2>1 DEF SoundRow, Rows
    <3>2. \A n \in DOMAIN j.rows : n \in DOMAIN rs /\ rs[n] = j.rows[n]
      BY <2>4
    <3>3. CASE ~row.enabled
      <4>1. add = <<>>
        BY <3>3 DEF CallsFor
      <4>2. cs = j.calls
        BY <1>2, <4>1
      <4> HIDE DEF cs, add
      <4> QED
        BY <1>3, <2>4, <2>5, <3>3, <4>2 DEF AddsOf
    <3>4. CASE row.enabled
      <4> DEFINE end == Len(j.calls) + 1
      <4>1. add = <<Add(item.id, row)>>
        BY <3>4 DEF CallsFor
      <4>2. /\ DOMAIN cs = DOMAIN j.calls \cup {end} /\ end \notin DOMAIN j.calls
            /\ cs[end] = Add(item.id, row) /\ \A k \in DOMAIN j.calls : cs[k] = j.calls[k]
        <5> HIDE DEF add
        <5> QED
          BY <1>2, <4>1
      <4>3. \A k \in DOMAIN j.calls : \E n \in DOMAIN j.rows :
              j.rows[n].row.enabled /\ j.calls[k] = Add(j.rows[n].id, j.rows[n].row)
        BY <1>3 DEF AddsOf
      <4>4. ASSUME NEW k \in DOMAIN j.calls PROVE j.calls[k].id # item.id
        <5>1. PICK n \in DOMAIN j.rows : j.calls[k] = Add(j.rows[n].id, j.rows[n].row)
          BY <4>3
        <5>2. j.calls[k].id = j.rows[n].id
          BY <5>1 DEF Add
        <5> QED
          BY <2>3, <5>2
      <4> HIDE DEF cs, add, end
      <4>5. Distinct(cs)
        BY <1>3, <4>2, <4>4 DEF AddsOf, Distinct, Add
      <4>6. \A k \in DOMAIN cs : \E n \in DOMAIN rs :
              rs[n].row.enabled /\ cs[k] = Add(rs[n].id, rs[n].row)
        BY <2>4, <2>5, <3>4, <4>2, <4>3
      <4>7. \A n \in DOMAIN rs : rs[n].row.enabled =>
              \E k \in DOMAIN cs : cs[k] = Add(rs[n].id, rs[n].row)
        <5>1. \A n \in DOMAIN j.rows : j.rows[n].row.enabled =>
                \E k \in DOMAIN j.calls : j.calls[k] = Add(j.rows[n].id, j.rows[n].row)
          BY <1>3 DEF AddsOf
        <5> QED
          BY <2>4, <2>5, <4>2, <5>1
      <4> QED
        BY <4>5, <4>6, <4>7 DEF AddsOf
    <3> QED
      BY <3>1, <3>3, <3>4
  <2> HIDE DEF more
  <2> QED
    BY <2>6, <2>7, <2>8, <2>9 DEF JobServed
<1>8. j.at # "push"
  BY <1>1
<1> HIDE DEF rest, more
<1>9. CASE job' = [job EXCEPT ![h] = rest]
  BY <1>1, <1>6, <1>8, <1>9, GoesOn
<1>10. CASE job' = [job EXCEPT ![h] = more] /\ itemOk(item.req, j.rows)
  BY <1>1, <1>7, <1>8, <1>10, GoesOn
<1> QED
  BY <1>1, <1>9, <1>10

LEMMA CheckedServed ==
  ASSUME OneHandler, IInv, Served, NEW h \in Handlers, BatchChecked(h)
  PROVE  Served'
<1> DEFINE j == job[h]
           n == [j EXCEPT !.at = "write", !.op = "insert"]
<1>1. /\ j.at = "items" /\ UNCHANGED <<rules, node, pushed>>
      /\ \/ job' = [job EXCEPT ![h] = n]
         \/ job' = [job EXCEPT ![h] = Idle]
  BY DEF BatchChecked
<1>2. JobServed(j) /\ j.at # "push"
  BY <1>1 DEF Served
<1>3. n.at = "write" /\ n.op = "insert" /\ n.rows = j.rows /\ n.calls = j.calls
  BY <1>1 DEF IInv, JobOK
<1> HIDE DEF n
<1>4. JobServed(n)
  BY <1>1, <1>2, <1>3 DEF JobServed
<1>5. JobServed(Idle)
  BY DEF JobServed, Idle
<1> QED
  BY <1>1, <1>2, <1>4, <1>5, GoesOn

LEMMA Joined ==
  ASSUME NEW a, NEW b
  PROVE  <<a>> \o <<b>> = <<a, b>>
<1> DEFINE S == {a, b}
           x == <<a>>
           y == <<b>>
           z == <<a, b>>
<1>1. /\ x \in Seq(S) /\ y \in Seq(S) /\ z \in Seq(S)
      /\ Len(x) = 1 /\ Len(y) = 1 /\ Len(z) = 2
      /\ x[1] = a /\ y[1] = b /\ z[1] = a /\ z[2] = b
  OBVIOUS
<1> HIDE DEF x, y, z, S
<1>2. x \o y \in Seq(S) /\ Len(x \o y) = 2 /\ (x \o y)[1] = a /\ (x \o y)[2] = b
  BY <1>1, ConcatProperties
<1>3. \A i \in 1 .. 2 : (x \o y)[i] = z[i]
  BY <1>1, <1>2
<1>4. x \o y = z
  BY <1>1, <1>2, <1>3, SeqEqual
<1> QED
  BY <1>4 DEF x, y, z

\* One add of a live rule the node has not.
LEMMA OneCall ==
  ASSUME NEW i, NEW row, Live(i)', node'[i] = None, rules'[i] = row
  PROVE  CallsFit(<<Add(i, row)>>)'
<1> DEFINE cs == <<Add(i, row)>>
<1>1. DOMAIN cs = {1} /\ cs[1] = Add(i, row)
  OBVIOUS
<1>2. cs[1].id = i
  BY <1>1 DEF Add
<1> HIDE DEF cs
<1>3. CallsFit(cs)'
  BY <1>1, <1>2 DEF CallsFit, ToAdd, Distinct
<1> QED
  BY <1>3 DEF cs

\* The insert stores rows that are apart; what is enabled of them is to be added.
LEMMA InsertServed ==
  ASSUME OneHandler, IInv, Served, NEW h \in Handlers, WriteInsert(h)
  PROVE  Served'
<1> PICK rs, cs : rs = job[h].rows /\ cs = job[h].calls
  OBVIOUS
<1>1. /\ NewRows(rs) /\ AddsOf(cs, rs) /\ job[h].at = "write" /\ UNCHANGED <<node, pushed>>
      /\ rs \in Seq(Rowed)
  BY DEF WriteInsert, Served, JobServed, IInv, JobOK
<1>2. \A i \in Ids : Shown(i)
  BY <1>1 DEF Served, Waits, OneHandler
<1>3. DOMAIN node = Ids /\ TableApart
  BY DEF Served
<1>4. \A n \in DOMAIN rs : rs[n].id \in Ids /\ rs[n].row \in SoundRow /\ rs[n].row # None
  <2>1. \A n \in DOMAIN rs : rs[n] \in Rowed
    BY <1>1
  <2> QED
    BY <2>1, NotNone DEF Rowed
<1>5. CASE \E n \in DOMAIN rs : Conflicts(rs[n].row)
  <2>1. Then(h, <<>>) /\ UNCHANGED rules
    BY <1>5 DEF WriteInsert
  <2>2. TableApart' /\ \A i \in Ids : Shown(i)'
    BY <1>1, <1>2, <1>3, <2>1, SameServed
  <2>3. CallsFit(<<>>)'
    BY DEF CallsFit, ToAdd, Distinct
  <2> QED
    BY <1>1, <1>3, <2>1, <2>2, <2>3, ThenServed
<1>6. CASE ~\E n \in DOMAIN rs : Conflicts(rs[n].row)
  <2>1. /\ Then(h, cs)
        /\ rules' = [i \in Ids |-> IF \E n \in DOMAIN rs : rs[n].id = i
                                   THEN rs[CHOOSE n \in DOMAIN rs : rs[n].id = i].row
                                   ELSE rules[i]]
    BY <1>6 DEF WriteInsert
  <2>2. \A n \in DOMAIN rs : rules'[rs[n].id] = rs[n].row
    <3> TAKE n \in DOMAIN rs
    <3> DEFINE m == CHOOSE m \in DOMAIN rs : rs[m].id = rs[n].id
    <3>1. m \in DOMAIN rs /\ rs[m].id = rs[n].id
      OBVIOUS
    <3>2. m = n
      BY <1>1, <3>1 DEF NewRows, Distinct
    <3>3. rules'[rs[n].id] = rs[m].row
      BY <1>4, <2>1
    <3> QED
      BY <3>2, <3>3
  <2>3. \A i \in Ids : (\A n \in DOMAIN rs : rs[n].id # i) => rules'[i] = rules[i]
    BY <2>1
  <2>4. TableApart'
    <3> SUFFICES ASSUME NEW i \in Ids, NEW k \in Ids, i # k, rules'[i] # None, rules'[k] # None
                 PROVE  Apart(rules'[i], rules'[k])
      BY DEF TableApart
    <3>1. ASSUME NEW n \in DOMAIN rs, NEW l \in Ids, rs[n].id # l, rules'[l] # None
          PROVE  Apart(rs[n].row, rules'[l])
      <4>1. CASE \E m \in DOMAIN rs : rs[m].id = l
        BY <1>1, <2>2, <3>1, <4>1 DEF NewRows
      <4>2. CASE \A m \in DOMAIN rs : rs[m].id # l
        BY <1>1, <2>3, <3>1, <4>2 DEF NewRows
      <4> QED
        BY <4>1, <4>2
    <3>2. CASE \E n \in DOMAIN rs : rs[n].id = i
      BY <2>2, <3>1, <3>2
    <3>3. CASE \E n \in DOMAIN rs : rs[n].id = k
      BY <2>2, <3>1, <3>3, ApartSymmetric
    <3>4. CASE \A n \in DOMAIN rs : rs[n].id # i /\ rs[n].id # k
      BY <1>3, <2>3, <3>4 DEF TableApart
    <3> QED
      BY <3>2, <3>3, <3>4
  <2>5. CallsFit(cs)'
    <3> SUFFICES ASSUME NEW k \in DOMAIN cs
                 PROVE  /\ Live(cs[k].id)' /\ node'[cs[k].id] = None
                        /\ cs[k] = Add(cs[k].id, rules'[cs[k].id])
      BY <1>1 DEF CallsFit, ToAdd, AddsOf
    <3>1. PICK n \in DOMAIN rs : rs[n].row.enabled /\ cs[k] = Add(rs[n].id, rs[n].row)
      BY <1>1 DEF AddsOf
    <3>2. cs[k].id = rs[n].id
      BY <3>1 DEF Add
    <3>3. rules'[cs[k].id] = rs[n].row /\ rs[n].row # None
      BY <1>4, <2>2, <3>2
    <3>4. node'[cs[k].id] = None
      BY <1>1, <3>2 DEF NewRows, Free
    <3> QED
      BY <3>1, <3>2, <3>3, <3>4 DEF Live
  <2>6. ASSUME NEW i \in Ids PROVE Shown(i)' \/ \E k \in DOMAIN cs : cs[k].id = i
    <3>1. CASE \E n \in DOMAIN rs : rs[n].id = i
      <4>1. PICK n \in DOMAIN rs : rs[n].id = i
        BY <3>1
      <4>2. CASE rs[n].row.enabled
        <5>1. PICK k \in DOMAIN cs : cs[k] = Add(i, rs[n].row)
          BY <1>1, <4>1, <4>2 DEF AddsOf
        <5> QED
          BY <5>1 DEF Add
      <4>3. CASE ~rs[n].row.enabled
        <5>1. ~Live(i)'
          BY <2>2, <4>1, <4>3 DEF Live
        <5>2. node'[i] = None
          BY <1>1, <4>1 DEF NewRows, Free
        <5> QED
          BY <5>1, <5>2 DEF Shown
      <4> QED
        BY <4>2, <4>3
    <3>2. CASE \A n \in DOMAIN rs : rs[n].id # i
      <4>1. rules'[i] = rules[i] /\ node'[i] = node[i] /\ pushed'[i] = pushed[i]
        BY <1>1, <2>3, <3>2
      <4> QED
        BY <1>2, <4>1 DEF Shown, Live, Refused
    <3> QED
      BY <3>1, <3>2
  <2> QED
    BY <1>1, <1>3, <2>1, <2>4, <2>5, <2>6, ThenServed
<1> QED
  BY <1>5, <1>6

\* An update keeps what the row matches, so the table stays apart; what follows depends
\* on whether the rule was live and is.
LEMMA UpdateServed ==
  ASSUME OneHandler, IInv, Served, NEW h \in Handlers, WriteUpdate(h)
  PROVE  Served'
<1> PICK i, was, row : i = job[h].id /\ was = job[h].was /\ row = job[h].row
  OBVIOUS
<1>1. /\ job[h].at = "write" /\ UNCHANGED <<node, pushed>>
      /\ rules[i] # None /\ was = rules[i].enabled /\ Tuple(row) = Tuple(rules[i])
      /\ i \in Ids /\ row \in SoundRow /\ rules[i] \in SoundRow
      /\ rules' = [rules EXCEPT ![i] = row] /\ Then(h, Transition(i, was, row))
  BY DEF WriteUpdate, Served, JobServed, Current, IInv, JobOK
<1>2. \A k \in Ids : Shown(k)
  BY <1>1 DEF Served, Waits, OneHandler
<1>3. DOMAIN node = Ids /\ TableApart /\ DOMAIN rules = Ids
  BY DEF Served, IInv
<1>4. was \in BOOLEAN /\ row.enabled \in BOOLEAN /\ row # None
  BY <1>1, NotNone DEF SoundRow, Rows
<1>5. rules'[i] = row /\ \A k \in Ids : k # i => rules'[k] = rules[k]
  BY <1>1, <1>3
<1>6. TableApart'
  <2> SUFFICES ASSUME NEW m \in Ids, NEW k \in Ids, m # k, rules'[m] # None, rules'[k] # None
               PROVE  Apart(rules'[m], rules'[k])
    BY DEF TableApart
  <2>1. CASE m = i
    BY <1>1, <1>3, <1>5, <2>1, ApartByTuple DEF TableApart
  <2>2. CASE k = i
    <3>1. Apart(row, rules[m])
      BY <1>1, <1>3, <1>5, <2>2, ApartByTuple DEF TableApart
    <3> QED
      BY <1>5, <2>2, <3>1, ApartSymmetric
  <2>3. CASE m # i /\ k # i
    BY <1>3, <1>5, <2>3 DEF TableApart
  <2> QED
    BY <2>1, <2>2, <2>3
<1>7. \A k \in Ids : k # i => Shown(k)'
  BY <1>1, <1>2, <1>5 DEF Shown, Live, Refused
<1>8. Live(i)' = row.enabled /\ Live(i) = was
  BY <1>1, <1>4, <1>5 DEF Live
<1>9. ~was => node'[i] = None
  BY <1>1, <1>2, <1>8 DEF Shown
<1>10. ASSUME NEW cs, Then(h, cs), CallsFit(cs)', Shown(i)' \/ \E k \in DOMAIN cs : cs[k].id = i
       PROVE  Served'
  BY <1>1, <1>3, <1>6, <1>7, <1>10, ThenServed
<1>11. CASE was /\ row.enabled
  <2> DEFINE cs == <<Del(i), Add(i, row)>>
  <2>1. Transition(i, was, row) = cs
    <3>1. Transition(i, was, row) = <<Del(i)>> \o <<Add(i, row)>>
      BY <1>11 DEF Transition
    <3> QED
      BY <3>1, Joined
  <2>2. CallsFit(cs)'
    BY <1>1, <1>5, <1>8, <1>11 DEF CallsFit
  <2>3. 1 \in DOMAIN cs /\ cs[1].id = i
    BY DEF Del
  <2> HIDE DEF cs
  <2> QED
    BY <1>1, <1>10, <2>1, <2>2, <2>3
<1>12. CASE was /\ ~row.enabled
  <2> DEFINE cs == <<Del(i)>>
  <2>1. Transition(i, was, row) = cs
    BY <1>12 DEF Transition
  <2>2. CallsFit(cs)'
    BY <1>1, <1>8, <1>12 DEF CallsFit
  <2>3. 1 \in DOMAIN cs /\ cs[1].id = i
    BY DEF Del
  <2> HIDE DEF cs
  <2> QED
    BY <1>1, <1>10, <2>1, <2>2, <2>3
<1>13. CASE ~was /\ row.enabled
  <2> DEFINE cs == <<Add(i, row)>>
  <2>1. Transition(i, was, row) = cs
    BY <1>13 DEF Transition
  <2>2. CallsFit(cs)'
    BY <1>5, <1>8, <1>9, <1>13, OneCall
  <2>3. 1 \in DOMAIN cs /\ cs[1].id = i
    BY DEF Add
  <2> HIDE DEF cs
  <2> QED
    BY <1>1, <1>10, <2>1, <2>2, <2>3
<1>14. CASE ~was /\ ~row.enabled
  <2>1. Transition(i, was, row) = <<>>
    BY <1>14 DEF Transition
  <2>2. CallsFit(<<>>)'
    BY DEF CallsFit, ToAdd, Distinct
  <2>3. Shown(i)'
    BY <1>8, <1>9, <1>14 DEF Shown
  <2> QED
    BY <1>1, <1>10, <2>1, <2>2, <2>3
<1> QED
  BY <1>4, <1>11, <1>12, <1>13, <1>14

LEMMA DeleteServed ==
  ASSUME OneHandler, IInv, Served, NEW h \in Handlers, WriteDelete(h)
  PROVE  Served'
<1> PICK i, was : i = job[h].id /\ was = job[h].was
  OBVIOUS
<1>1. /\ job[h].at = "write" /\ UNCHANGED <<node, pushed>>
      /\ rules[i] # None /\ was = rules[i].enabled
      /\ i \in Ids /\ rules[i] \in SoundRow
      /\ rules' = [rules EXCEPT ![i] = None] /\ Then(h, IF was THEN <<Del(i)>> ELSE <<>>)
  BY DEF WriteDelete, Served, JobServed, Current, IInv, JobOK
<1>2. \A k \in Ids : Shown(k)
  BY <1>1 DEF Served, Waits, OneHandler
<1>3. DOMAIN node = Ids /\ TableApart /\ DOMAIN rules = Ids
  BY DEF Served, IInv
<1>4. was \in BOOLEAN
  BY <1>1 DEF SoundRow, Rows
<1>5. rules'[i] = None /\ \A k \in Ids : k # i => rules'[k] = rules[k]
  BY <1>1, <1>3
<1>6. TableApart'
  BY <1>3, <1>5 DEF TableApart
<1>7. \A k \in Ids : k # i => Shown(k)'
  BY <1>1, <1>2, <1>5 DEF Shown, Live, Refused
<1>8. ~Live(i)' /\ Live(i) = was
  BY <1>1, <1>4, <1>5 DEF Live
<1>9. CASE was
  <2> DEFINE cs == <<Del(i)>>
  <2>1. Then(h, cs)
    BY <1>1, <1>9
  <2>2. CallsFit(cs)'
    BY <1>1, <1>8 DEF CallsFit
  <2>3. 1 \in DOMAIN cs /\ cs[1].id = i
    BY DEF Del
  <2> HIDE DEF cs
  <2> QED
    BY <1>1, <1>3, <1>6, <1>7, <2>1, <2>2, <2>3, ThenServed
<1>10. CASE ~was
  <2>1. Then(h, <<>>)
    BY <1>1, <1>10
  <2>2. CallsFit(<<>>)'
    BY DEF CallsFit, ToAdd, Distinct
  <2>3. Shown(i)'
    BY <1>1, <1>2, <1>8, <1>10 DEF Shown
  <2> QED
    BY <1>1, <1>3, <1>6, <1>7, <2>1, <2>2, <2>3, ThenServed
<1> QED
  BY <1>4, <1>9, <1>10

\* What the node has installed beside rule i are rules of the table, apart from it.
LEMMA OthersInstalled ==
  ASSUME IInv, TableApart, NEW i \in Ids, rules[i] # None,
         \A k \in Ids : k # i => node[k] = None \/ Shown(k),
         NEW e \in InstalledOf(Ids \ {i})
  PROVE  \E s \in SoundRow : e = Entry(s) /\ Apart(rules[i], s)
<1>1. PICK k \in Ids : k # i /\ node[k] # None /\ e = node[k]
  BY DEF InstalledOf
<1>2. Live(k) /\ e = Entry(rules[k])
  BY <1>1 DEF Shown
<1>3. rules[k] \in SoundRow /\ Apart(rules[i], rules[k])
  BY <1>1, <1>2 DEF Live, TableApart, IInv
<1> QED
  BY <1>2, <1>3

\* Each call is carried out on a node that shows the rest of the table.
LEMMA PushServed ==
  ASSUME OneHandler, IInv, Served, NEW h \in Handlers, Push(h)
  PROVE  Served'
<1> PICK cs, c, ans :
      /\ cs = job[h].calls /\ c = Head(cs)
      /\ ans = IF c.call = "delete" THEN "none" ELSE Answer(c.row, InstalledOf(Ids \ {c.id}))
  OBVIOUS
<1>1. /\ job[h].at = "push" /\ UNCHANGED rules
      /\ pushed' = [pushed EXCEPT ![c.id] = ans]
      /\ node' = [node EXCEPT ![c.id] = CASE ans = "none" -> None
                                          [] ans = "ok"   -> Entry(c.row)
                                          [] OTHER        -> @]
      /\ Then(h, Tail(cs))
  BY DEF Push
<1>2. cs \in Seq(Call) /\ cs # <<>> /\ CallsFit(cs)
  BY <1>1 DEF IInv, JobOK, Served, JobServed
<1>3. c \in Call /\ c = cs[1] /\ c.id \in Ids
  <2>1. c \in Call /\ c = cs[1]
    BY <1>2
  <2> QED
    BY <2>1 DEF Call
<1>4. DOMAIN node = Ids /\ DOMAIN node' = Ids /\ TableApart /\ DOMAIN pushed = Ids
  BY <1>1 DEF Served, IInv
<1>5. TableApart'
  BY <1>1, <1>4 DEF TableApart
<1>6. \A i \in Ids : Shown(i) \/ \E k \in DOMAIN cs : cs[k].id = i
  BY DEF Served, Waits, OneHandler
<1>7. \A i \in Ids : i # c.id => /\ node'[i] = node[i] /\ pushed'[i] = pushed[i]
                                 /\ Live(i)' = Live(i) /\ Shown(i)' = Shown(i)
  BY <1>1, <1>4 DEF Live, Shown, Refused
<1>8. pushed'[c.id] = ans
  BY <1>1, <1>3, <1>4
<1>9. CASE ToAdd(cs)
  <2> PICK i \in Ids : i = c.id
    BY <1>3
  <2>1. Live(i) /\ node[i] = None /\ c = Add(i, rules[i])
    BY <1>2, <1>3, <1>9 DEF ToAdd
  <2>2. c.call # "delete" /\ c.row = rules[i]
    BY <2>1 DEF Add
  <2>3. rules[i] # None /\ rules[i] \in SoundRow
    BY <2>1 DEF Live, IInv
  <2>4. \A k \in Ids : k # i => node[k] = None \/ Shown(k)
    BY <1>6, <1>9 DEF ToAdd
  <2>5. ans = Answer(rules[i], InstalledOf(Ids \ {i}))
    BY <2>2
  <2>6. /\ ans \in {"ok", "nocombo", "taken"}
        /\ ans = "ok" => getComboType(ruleToKey(rules[i])) # ComboUnknown
        /\ ans = "nocombo" => SetFields(ruleToKey(rules[i])) = {}
        /\ ans = "taken" => ~isCIDR(rules[i]) /\ {rules[i].srcIP, rules[i].dstIP} \cap {None, Any4, Any6} # {}
    <3> PICK es : es = InstalledOf(Ids \ {i})
      OBVIOUS
    <3>1. \A e \in es : \E s \in SoundRow : e = Entry(s) /\ Apart(rules[i], s)
      BY <1>4, <2>3, <2>4, OthersInstalled
    <3> QED
      BY <2>3, <2>5, <3>1, AnswerShown
  <2>7. node'[i] = IF ans = "ok" THEN Entry(rules[i]) ELSE None
    BY <1>1, <1>4, <2>1, <2>2, <2>6
  <2>8. Live(i)' /\ rules'[i] = rules[i]
    BY <1>1, <2>1 DEF Live
  <2>9. Shown(i)'
    BY <1>8, <2>6, <2>7, <2>8 DEF Shown, Refused
  <2> PICK tail : tail = Tail(cs)
    OBVIOUS
  <2>10. \A k \in DOMAIN tail : /\ k + 1 \in DOMAIN cs /\ tail[k] = cs[k + 1] /\ k \in Nat /\ k + 1 # 1
    BY <1>2
  <2>11. \A k \in DOMAIN tail : tail[k].id # i
    BY <1>2, <1>3, <1>9, <2>10 DEF ToAdd, Distinct
  <2>12. Distinct(tail)
    <3> SUFFICES ASSUME NEW k \in DOMAIN tail, NEW m \in DOMAIN tail, k # m
                 PROVE  tail[k].id # tail[m].id
      BY DEF Distinct
    <3>1. k + 1 # m + 1
      BY <2>10
    <3> QED
      BY <1>9, <2>10, <3>1 DEF ToAdd, Distinct
  <2>13. \A k \in DOMAIN tail : /\ Live(tail[k].id)' /\ node'[tail[k].id] = None
                                /\ tail[k] = Add(tail[k].id, rules'[tail[k].id])
    <3> SUFFICES ASSUME NEW k \in DOMAIN tail
                 PROVE  /\ Live(tail[k].id)' /\ node'[tail[k].id] = None
                        /\ tail[k] = Add(tail[k].id, rules'[tail[k].id])
      OBVIOUS
    <3>1. /\ Live(tail[k].id) /\ node[tail[k].id] = None
          /\ tail[k] = Add(tail[k].id, rules[tail[k].id])
      BY <1>9, <2>10 DEF ToAdd
    <3>2. tail[k].id \in Ids
      <4>1. tail[k] \in Call
        BY <1>2, <2>10
      <4> QED
        BY <4>1 DEF Call
    <3> QED
      BY <1>1, <1>7, <2>11, <3>1, <3>2
  <2>14. CallsFit(tail)'
    BY <2>12, <2>13 DEF CallsFit, ToAdd
  <2>15. ASSUME NEW k \in Ids PROVE Shown(k)' \/ \E m \in DOMAIN tail : tail[m].id = k
    <3>1. CASE k = i
      BY <2>9, <3>1
    <3>2. CASE k # i /\ Shown(k)
      BY <1>7, <3>2
    <3>3. CASE k # i /\ \E m \in DOMAIN cs : cs[m].id = k
      <4>1. PICK m \in DOMAIN cs : cs[m].id = k
        BY <3>3
      <4>2. m # 1
        BY <1>3, <3>3, <4>1
      <4>3. m - 1 \in DOMAIN tail /\ tail[m - 1] = cs[m]
        BY <1>2, <4>1, <4>2
      <4> QED
        BY <4>1, <4>3
    <3> QED
      BY <1>6, <3>1, <3>2, <3>3
  <2> QED
    BY <1>1, <1>4, <1>5, <2>14, <2>15, ThenServed
<1>10. CASE \E i \in Ids : cs = <<Del(i)>> /\ ~Live(i)
  <2> PICK i \in Ids : cs = <<Del(i)>> /\ ~Live(i)
    BY <1>10
  <2>1. c = Del(i) /\ Tail(cs) = <<>> /\ DOMAIN cs = {1}
    BY <1>3
  <2>2. ans = "none" /\ c.id = i
    BY <2>1 DEF Del
  <2>3. node'[i] = None /\ ~Live(i)'
    BY <1>1, <1>4, <2>2 DEF Live
  <2>4. Shown(i)'
    BY <2>3 DEF Shown
  <2>5. \A k \in Ids : Shown(k)'
    BY <1>3, <1>6, <1>7, <2>1, <2>2, <2>4
  <2>6. CallsFit(<<>>)'
    BY DEF CallsFit, ToAdd, Distinct
  <2> QED
    BY <1>1, <1>4, <1>5, <2>1, <2>5, <2>6, ThenServed
<1>11. CASE \E i \in Ids : cs = <<Del(i), Add(i, rules[i])>> /\ Live(i)
  <2> PICK i \in Ids : cs = <<Del(i), Add(i, rules[i])>> /\ Live(i)
    BY <1>11
  <2>1. c = Del(i) /\ Tail(cs) = <<Add(i, rules[i])>> /\ DOMAIN cs = {1, 2} /\ cs[2] = Add(i, rules[i])
    BY <1>3
  <2>2. ans = "none" /\ c.id = i /\ cs[2].id = i
    BY <2>1 DEF Del, Add
  <2>3. node'[i] = None /\ Live(i)'
    BY <1>1, <1>4, <2>2 DEF Live
  <2>4. \A k \in Ids : k # i => Shown(k)'
    BY <1>3, <1>6, <1>7, <2>1, <2>2
  <2> PICK tail : tail = <<Add(i, rules[i])>>
    OBVIOUS
  <2>5. CallsFit(tail)'
    BY <1>1, <2>3, OneCall
  <2>6. 1 \in DOMAIN tail /\ tail[1].id = i
    BY DEF Add
  <2> QED
    BY <1>1, <1>4, <1>5, <2>1, <2>4, <2>5, <2>6, ThenServed
<1> QED
  BY <1>2, <1>9, <1>10, <1>11 DEF CallsFit

LEMMA ServedInit == Init => Served
<1> SUFFICES ASSUME Init PROVE Served
  OBVIOUS
<1>1. \A i \in Ids : rules[i] = None /\ node[i] = None
  BY DEF Init
<1>2. \A i \in Ids : Shown(i)
  BY <1>1 DEF Shown, Live
<1>3. \A h \in Handlers : JobServed(job[h])
  BY DEF Init, JobServed, Idle
<1> QED
  BY <1>1, <1>2, <1>3 DEF Init, Served, TableApart

LEMMA ServedNext == OneHandler /\ IInv /\ Served /\ [Next]_vars => Served'
<1> SUFFICES ASSUME OneHandler, IInv, Served, [Next]_vars PROVE Served'
  OBVIOUS
<1>1. CASE UNCHANGED vars
  <2>1. TableApart' /\ (\A h \in Handlers : JobServed(job[h])') /\ DOMAIN node' = Ids
    BY <1>1, SameServed DEF vars, Served
  <2>2. \A i \in Ids : Waits(i)' \/ Shown(i)'
    BY <1>1, SameServed DEF vars, Served, Waits
  <2> QED
    BY <2>1, <2>2 DEF Served
<1>2. CASE Next
  <2>1. PICK h \in Handlers :
          \/ \E i \in Ids, req \in Requests : BeginCreate(h, i, req) \/ BeginMerge(h, i, req)
          \/ \E batch \in Batches : \E ids \in [DOMAIN batch -> Ids] :
               IsInjective(ids) /\ BeginBatch(h, ids, batch)
          \/ \E i \in Ids, req \in Patches : BeginUpdate(h, i, req)
          \/ \E i \in Ids : BeginDelete(h, i)
          \/ BatchItem(h) \/ BatchChecked(h)
          \/ WriteInsert(h) \/ WriteUpdate(h) \/ WriteDelete(h)
          \/ Push(h)
    BY <1>2 DEF Next
  <2>2. CASE \/ \E i \in Ids, req \in Requests : BeginCreate(h, i, req) \/ BeginMerge(h, i, req)
             \/ \E i \in Ids, req \in Patches : BeginUpdate(h, i, req)
             \/ \E i \in Ids : BeginDelete(h, i)
    BY <2>2, BeginServed
  <2>3. CASE \E batch \in Batches : \E ids \in [DOMAIN batch -> Ids] :
               IsInjective(ids) /\ BeginBatch(h, ids, batch)
    BY <2>3, BeginBatchServed
  <2>4. CASE BatchItem(h) \/ BatchChecked(h)
    BY <2>4, ItemServed, CheckedServed
  <2>5. CASE WriteInsert(h) \/ WriteUpdate(h) \/ WriteDelete(h)
    BY <2>5, InsertServed, UpdateServed, DeleteServed
  <2>6. CASE Push(h)
    BY <2>6, PushServed
  <2> QED
    BY <2>1, <2>2, <2>3, <2>4, <2>5, <2>6
<1> QED
  BY <1>1, <1>2

\* With one request served at a time, the node shows the table but for the rules a call is
\* still to come about, and no two stored rules clash.
THEOREM NodeShowsTable == OneHandler /\ Spec => []Served
<1> SUFFICES ASSUME OneHandler PROVE Spec => []Served
  OBVIOUS
<1>1. Init => Served
  BY ServedInit
<1>2. IInv /\ Served /\ [Next]_vars => Served'
  BY ServedNext
<1> QED
  BY <1>1, <1>2, Invariance, PTL DEF Spec

\* At rest, what is installed are enabled rules of the table that the agent can have
\* installed together.
LEMMA AtRest ==
  ASSUME IInv, Served, Quiet
  PROVE  LET R == {rules[i] : i \in {k \in Ids : node[k] # None}} IN
         /\ Installable(R) /\ Installed = EntriesOf(R)
         /\ \A r \in R : r \in Stored(rules) /\ r.enabled
<1> DEFINE R == {rules[i] : i \in {k \in Ids : node[k] # None}}
<1>1. \A i \in Ids : Shown(i)
  BY IdleOK DEF Served, Waits, Quiet
<1>2. \A i \in Ids : node[i] # None => /\ Live(i) /\ node[i] = Entry(rules[i])
                                       /\ getComboType(ruleToKey(rules[i])) # ComboUnknown
                                       /\ rules[i] \in SoundRow
  BY <1>1 DEF Shown, Live, IInv
<1>3. Installed = EntriesOf(R)
  BY <1>2 DEF Installed, InstalledOf, EntriesOf
<1>4. \A r \in R : r \in Stored(rules) /\ r.enabled
  BY <1>2 DEF Live, Stored
<1>5. ASSUME NEW r \in R, NEW s \in R
      PROVE  NetsApart(r.srcCIDR, s.srcCIDR) /\ NetsApart(r.dstCIDR, s.dstCIDR)
  <2>1. PICK i, k : /\ i \in Ids /\ k \in Ids /\ rules[i] = r /\ rules[k] = s
                    /\ rules[i] # None /\ rules[k] # None
    BY <1>2 DEF Live
  <2>2. CASE i = k
    BY <2>1, <2>2 DEF NetsApart
  <2>3. CASE i # k
    BY <2>1, <2>3 DEF Served, TableApart, Apart
  <2> QED
    BY <2>2, <2>3
<1>6. Installable(R)
  BY <1>2, <1>5 DEF Installable
<1> QED
  BY <1>3, <1>4, <1>6

\* With one request served at a time, once it is, every packet an enabled rule is about is
\* acted on, unless the rule has no field or was refused for another one's key.
THEOREM RulesAct == OneHandler /\ Spec => []Acted
<1> SUFFICES ASSUME OneHandler PROVE Spec => []Acted
  OBVIOUS
<1>1. IInv /\ Served => Acted
  <2> SUFFICES ASSUME IInv, Served, Quiet, NEW i \in Ids, rules[i] # None, rules[i].enabled,
                      SetFields(ruleToKey(rules[i])) # {}, ~Refused(i),
                      NEW p \in Packets, Means(rules[i], p)
               PROVE  actedOn(p, Installed)
    BY DEF Acted
  <2> DEFINE R == {rules[k] : k \in {m \in Ids : node[m] # None}}
  <2>1. Shown(i) /\ Live(i)
    BY IdleOK DEF Served, Waits, Quiet, Live
  <2>2. node[i] # None
    BY <2>1, NotNone DEF Shown, Live, IInv
  <2>3. rules[i] \in R
    BY <2>2
  <2>4. Installable(R) /\ Installed = EntriesOf(R)
    BY AtRest
  <2> HIDE DEF R
  <2> QED
    BY <2>3, <2>4, PathActs
<1>2. Spec => []Served
  BY NodeShowsTable
<1> QED
  BY <1>1, <1>2, Invariance, PTL

\* And no packet is acted on that no enabled rule of the table is about.
THEOREM OnlyRulesAct == OneHandler /\ Spec => []NothingElse
<1> SUFFICES ASSUME OneHandler PROVE Spec => []NothingElse
  OBVIOUS
<1>1. IInv /\ Served => NothingElse
  <2> SUFFICES ASSUME IInv, Served, Quiet, NEW p \in Packets, actedOn(p, Installed)
               PROVE  \E r \in Stored(rules) : r.enabled /\ Means(r, p)
    BY DEF NothingElse
  <2> DEFINE R == {rules[k] : k \in {m \in Ids : node[m] # None}}
  <2>1. /\ Installable(R) /\ Installed = EntriesOf(R)
        /\ \A r \in R : r \in Stored(rules) /\ r.enabled
    BY AtRest
  <2> HIDE DEF R
  <2> QED
    BY <2>1, PathOnly
<1>2. Spec => []Served
  BY NodeShowsTable
<1> QED
  BY <1>1, <1>2, Invariance, PTL
=============================================================================
