-------------------------- MODULE StatsCacheProofs --------------------------
(***************************************************************************)
(* For any nodes, rules, thresholds and traffic: a listing shows zero only *)
(* where every node has counted nothing, and says ok or partial only of    *)
(* counters that are fresh; and the sums of a snapshot lie between what    *)
(* the nodes had counted when it was begun and what they count now.        *)
(***************************************************************************)
EXTENDS StatsCache, FiniteSetTheorems, WellFoundedInduction, TLAPS

-----------------------------------------------------------------------------
(* The inductive invariant *)

Ages == 0 .. StaleAfter + 1

Outcomes == {"ok", "partial", "failed"} \cup Omitted
Listed   == Outcomes \cup {"stale", "partial_stale"}
Tags     == {"", "ok", "partial"}

HitsOK == hits \in [nodes -> [Rules -> Nat]]
FanOK ==
    fan \in [age : Ages, warming : SUBSET nodes, todo : SUBSET nodes, ok : SUBSET nodes,
             has : SUBSET Rules, agg : [Rules -> Nat], old : Ages, low : {fan.low},
             hot : SUBSET Rules]
CacheOK ==
    cache \in [status : Outcomes, tag : Tags, age : Ages \cup {NoTime}, has : SUBSET Rules,
               agg : [Rules -> Nat], old : Ages \cup {NoTime}, hot : SUBSET Rules]
ReaderOK ==
    reader \in [pc : {"idle", "met"}, status : Listed, tag : Tags, hot : SUBSET Rules,
                mixed : BOOLEAN]

TypeOK ==
    /\ nodes \in Configs /\ loop \in {"new", "fetch", "backoff", "wait", "done"}
    /\ HitsOK /\ FanOK /\ CacheOK /\ ReaderOK

\* The clock was read before the first answer came, so no answer is older than the
\* round says; and a rule some node had counted when it began is counted by that
\* node's answer, or that answer is still to come.
FanCounts ==
    /\ fan.old <= fan.age
    /\ \A r \in fan.hot : \E n \in nodes : /\ hits[n][r] > 0
                                           /\ n \in fan.ok => fan.agg[r] > 0

\* A snapshot has an age, no more than which its answers are old; only a full one
\* is tagged ok, and its zeros are zeros.
CacheSays ==
    /\ cache.status \in {"ok", "partial"} => cache.age # NoTime
    /\ cache.age # NoTime => cache.old # NoTime /\ cache.old <= cache.age
    /\ cache.status = "ok" => cache.tag = "ok"
    /\ cache.tag = "ok" => \A r \in cache.hot : cache.agg[r] # 0

\* Unless the state was replaced, what Meta returned is what LookupMany meets.
ReaderMeets ==
    reader.pc = "met" /\ ~reader.mixed =>
        /\ reader.tag = cache.tag /\ reader.hot = cache.hot
        /\ reader.status = "ok" => cache.status = "ok"

IInv == TypeOK /\ FanCounts /\ CacheSays /\ ReaderMeets

-----------------------------------------------------------------------------
(* Operators *)

\* An age grows up to one past the threshold, and keeps its order with another.
LEMMA OlderFacts ==
    /\ \A a \in Ages : Older(a) \in Ages
    /\ \A a, b \in Ages : a <= b => Older(a) <= Older(b)
    /\ Older(NoTime) = NoTime
<1>1. StaleAfter \in Nat \ {0} /\ NoTime \notin Int
  BY StatsAssumption
<1>2. NoTime \notin 0 .. StaleAfter
  BY <1>1
<1> QED
  BY <1>1, <1>2 DEF Ages, Older

\* What deriveStatus makes of a stored outcome.
LEMMA StatusFacts ==
    ASSUME NEW base \in Outcomes, NEW age \in Ages \cup {NoTime}
    PROVE  /\ deriveStatus(base, age) \in
                  Listed
           /\ deriveStatus(base, age) = "ok" => base = "ok"
           /\ deriveStatus(base, age) \in {"ok", "partial"} =>
                  base \in {"ok", "partial"} /\ (age = NoTime \/ ~(age > StaleAfter))
<1>1. CASE base = "ok"
  BY <1>1 DEF deriveStatus, Omitted, Outcomes, Listed
<1>2. CASE base = "partial"
  BY <1>2 DEF deriveStatus, Omitted, Outcomes, Listed
<1>3. CASE base \notin {"ok", "partial"}
  BY <1>3 DEF deriveStatus, Omitted, Outcomes, Listed
<1> QED
  BY <1>1, <1>2, <1>3

\* What deriveBaseStatus makes of a round.
LEMMA BaseFacts ==
    ASSUME NEW f, NEW at, f.ok \subseteq nodes
    PROVE  /\ deriveBaseStatus(f, at) \in Outcomes
           /\ f.ok = {} => deriveBaseStatus(f, at) \notin {"ok", "partial"}
           /\ deriveBaseStatus(f, at) = "ok" => f.ok = nodes
<1>1. CASE nodes = {}
  <2>1. f.ok = {}
    BY <1>1
  <2> QED
    BY <1>1, <2>1 DEF deriveBaseStatus, Omitted, Outcomes
<1>2. CASE nodes # {} /\ f.ok = {} /\ at = NoTime
  BY <1>2 DEF deriveBaseStatus, Omitted, Outcomes
<1>3. CASE nodes # {} /\ f.ok = {} /\ at # NoTime
  BY <1>3 DEF deriveBaseStatus, Omitted, Outcomes
<1>4. CASE nodes # {} /\ f.ok # {} /\ f.ok # nodes
  BY <1>4 DEF deriveBaseStatus, Omitted, Outcomes
<1>5. CASE nodes # {} /\ f.ok # {} /\ f.ok = nodes
  BY <1>5 DEF deriveBaseStatus, Omitted, Outcomes
<1> QED
  BY <1>1, <1>2, <1>3, <1>4, <1>5

\* The fields of the records.
LEMMA FieldTypes ==
    ASSUME TypeOK
    PROVE  /\ fan.age \in Ages /\ fan.old \in Ages /\ fan.ok \subseteq nodes
           /\ fan.hot \subseteq Rules /\ fan.has \subseteq Rules
           /\ \A r \in Rules : fan.agg[r] \in Nat
           /\ \A n \in nodes, r \in Rules : hits[n][r] \in Nat
           /\ cache.status \in Outcomes /\ cache.age \in Ages \cup {NoTime}
           /\ cache.old \in Ages \cup {NoTime} /\ cache.hot \subseteq Rules
           /\ reader.pc \in {"idle", "met"} /\ reader.status \in Listed
<1>1. HitsOK /\ FanOK /\ CacheOK /\ ReaderOK
  BY DEF TypeOK
<1>2. /\ fan.age \in Ages /\ fan.old \in Ages /\ fan.ok \subseteq nodes
      /\ fan.hot \subseteq Rules /\ fan.has \subseteq Rules
      /\ \A r \in Rules : fan.agg[r] \in Nat
  BY <1>1 DEF FanOK
<1>3. \A n \in nodes, r \in Rules : hits[n][r] \in Nat
  BY <1>1 DEF HitsOK
<1>4. /\ cache.status \in Outcomes /\ cache.age \in Ages \cup {NoTime}
      /\ cache.old \in Ages \cup {NoTime} /\ cache.hot \subseteq Rules
  BY <1>1 DEF CacheOK
<1>5. reader.pc \in {"idle", "met"} /\ reader.status \in Listed
  BY <1>1 DEF ReaderOK
<1> QED
  BY <1>2, <1>3, <1>4, <1>5

\* Ages are integers, which no time is not.
LEMMA AgeFacts == 0 \in Ages /\ NoTime \notin Ages /\ Ages \subseteq Int
BY StatsAssumption DEF Ages

\* No fan-out and no request are consistent ones.
LEMMA IdleFacts ==
    /\ IdleFan.old = 0 /\ IdleFan.age = 0 /\ IdleFan.ok = {} /\ IdleFan.hot = {}
    /\ fan = IdleFan => FanOK
    /\ reader = IdleReader => ReaderOK
    /\ IdleReader.pc = "idle"
<1>1. /\ IdleFan.old = 0 /\ IdleFan.age = 0 /\ IdleFan.ok = {} /\ IdleFan.hot = {}
      /\ IdleReader.pc = "idle"
  BY DEF IdleFan, IdleReader
<1>2. fan = IdleFan => FanOK
  BY AgeFacts DEF IdleFan, NoStats, FanOK
<1>3. reader = IdleReader => ReaderOK
  <2>1. "initializing" \in Listed
    BY DEF Omitted, Outcomes, Listed
  <2>2. ASSUME NEW x \in Listed,
               reader = [pc |-> "idle", status |-> x, tag |-> "", hot |-> {}, mixed |-> FALSE]
        PROVE  ReaderOK
    BY <2>2 DEF Tags, ReaderOK
  <2> QED
    BY <2>1, <2>2 DEF IdleReader
<1> QED
  BY <1>1, <1>2, <1>3

LEMMA IdleFactsNext ==
    /\ fan' = IdleFan => FanOK'
    /\ reader' = IdleReader => ReaderOK'
<1>1. fan' = IdleFan => FanOK'
  BY AgeFacts DEF IdleFan, NoStats, FanOK
<1>2. reader' = IdleReader => ReaderOK'
  <2>1. "initializing" \in Listed
    BY DEF Omitted, Outcomes, Listed
  <2>2. ASSUME NEW x \in Listed,
               reader' = [pc |-> "idle", status |-> x, tag |-> "", hot |-> {}, mixed |-> FALSE]
        PROVE  ReaderOK'
    BY <2>2 DEF Tags, ReaderOK
  <2> QED
    BY <2>1, <2>2 DEF IdleReader
<1> QED
  BY <1>1, <1>2

-----------------------------------------------------------------------------
(* One lemma per action *)

LEMMA InitInv == Init => IInv
<1>0. 0 <= 0
  OBVIOUS
<1> SUFFICES ASSUME Init PROVE IInv
  OBVIOUS
<1> USE DEF Init
<1>1. HitsOK /\ CacheOK
  BY DEF HitsOK, CacheOK, NoStats, Omitted, Outcomes, Tags
<1>2. FanOK /\ ReaderOK
  BY IdleFacts
<1>3. FanCounts
  BY <1>0, IdleFacts DEF FanCounts
<1>4. CacheSays /\ ReaderMeets
  BY IdleFacts DEF CacheSays, ReaderMeets
<1> QED
  BY <1>1, <1>2, <1>3, <1>4 DEF IInv, TypeOK

LEMMA HitInv ==
    ASSUME IInv, NEW n \in nodes, NEW r \in Rules, Hit(n, r) PROVE IInv'
<1>1. /\ hits' = [hits EXCEPT ![n][r] = hits[n][r] + 1]
      /\ UNCHANGED <<nodes, loop, fan, cache, reader>>
  BY DEF Hit
<1>2. HitsOK /\ hits[n][r] + 1 \in Nat /\ hits[n][r] + 1 > 0
  BY FieldTypes DEF IInv, TypeOK
<1>3. /\ HitsOK'
      /\ \A m \in nodes, q \in Rules : hits[m][q] > 0 => hits'[m][q] > 0
  BY <1>1, <1>2 DEF HitsOK
<1>4. TypeOK'
  BY <1>1, <1>3 DEF IInv, TypeOK, FanOK, CacheOK, ReaderOK
<1>5. CacheSays' /\ ReaderMeets'
  BY <1>1 DEF IInv, CacheSays, ReaderMeets
<1>6. FanCounts'
  <2>1. fan.hot \subseteq Rules
    BY FieldTypes DEF IInv
  <2> QED
    BY <1>1, <1>3, <2>1 DEF IInv, FanCounts
<1> QED
  BY <1>4, <1>5, <1>6 DEF IInv

LEMMA TickInv ==
    ASSUME IInv, Tick PROVE IInv'
<1>0. TypeOK /\ FanOK /\ CacheOK /\ UNCHANGED <<nodes, hits, loop, reader>>
  BY DEF IInv, TypeOK, Tick
<1>1. /\ FanOK' /\ fan'.old <= fan'.age
      /\ fan'.hot = fan.hot /\ fan'.ok = fan.ok /\ fan'.agg = fan.agg
  <2>1. CASE loop = "fetch"
    <3> DEFINE old == IF fan.ok = {} THEN 0 ELSE Older(fan.old)
               age == Older(fan.age)
    <3>1. fan' = [fan EXCEPT !.age = age, !.old = old]
      BY <2>1 DEF Tick
    <3>2. fan.age \in Ages /\ fan.old \in Ages /\ fan.old <= fan.age
      BY FieldTypes DEF IInv, FanCounts
    <3>3. age \in Ages /\ Older(fan.old) \in Ages /\ Older(fan.old) <= age
      BY <3>2, OlderFacts
    <3>4. old \in Ages /\ old <= age
      BY <3>3, AgeFacts DEF Ages
    <3> HIDE DEF age, old
    <3> QED
      BY <1>0, <3>1, <3>3, <3>4 DEF FanOK
  <2>2. CASE loop # "fetch"
    <3>1. fan' = fan
      BY <2>2 DEF Tick
    <3> QED
      BY <1>0, <3>1 DEF FanOK, IInv, FanCounts
  <2> QED
    BY <2>1, <2>2
<1>2. cache' = [cache EXCEPT !.age = Older(cache.age), !.old = Older(cache.old)]
  BY DEF Tick
<1>3. \A a \in Ages \cup {NoTime} : /\ Older(a) \in Ages \cup {NoTime}
                                    /\ Older(a) = NoTime <=> a = NoTime
  BY AgeFacts, OlderFacts
<1>4. cache.age \in Ages \cup {NoTime} /\ cache.old \in Ages \cup {NoTime}
  BY <1>0, FieldTypes
<1>5. CacheOK'
  BY <1>0, <1>2, <1>3, <1>4 DEF CacheOK
<1>6. /\ cache'.age = Older(cache.age) /\ cache'.old = Older(cache.old)
      /\ cache'.status = cache.status /\ cache'.tag = cache.tag
      /\ cache'.hot = cache.hot /\ cache'.agg = cache.agg
  BY <1>0, <1>2 DEF CacheOK
<1>7. TypeOK'
  BY <1>0, <1>1, <1>5 DEF TypeOK, HitsOK, ReaderOK
<1>8. FanCounts'
  BY <1>0, <1>1 DEF IInv, FanCounts
<1>9. CacheSays'
  <2>1. cache.age # NoTime => Older(cache.old) <= Older(cache.age)
    BY <1>4, OlderFacts DEF IInv, CacheSays
  <2> QED
    BY <1>3, <1>4, <1>6, <2>1 DEF IInv, CacheSays
<1>10. ReaderMeets'
  BY <1>0, <1>6 DEF IInv, ReaderMeets
<1> QED
  BY <1>7, <1>8, <1>9, <1>10 DEF IInv

\* A round that begins has no answer, and its rules with a hit have a node.
LEMMA BeginInv ==
    ASSUME IInv, Begin, UNCHANGED <<disabled, nodes, hits, cache, stop, reader>>
    PROVE  IInv'
<1>1. PICK seen \in [nodes -> Health] :
        fan' = [IdleFan EXCEPT !.warming = {n \in nodes : seen[n] = "warming"},
                               !.todo = {n \in nodes : seen[n] = "online"},
                               !.low = [r \in Rules |-> Counted(nodes, r)],
                               !.hot = {r \in Rules : \E n \in nodes : hits[n][r] > 0}]
  BY DEF Begin
<1>2. /\ FanOK' /\ fan'.old = 0 /\ fan'.age = 0 /\ fan'.ok = {}
      /\ fan'.hot = {r \in Rules : \E n \in nodes : hits[n][r] > 0}
  BY <1>1, AgeFacts DEF FanOK, IdleFan, NoStats
<1>3. TypeOK'
  BY <1>2 DEF IInv, TypeOK, HitsOK, CacheOK, ReaderOK, Begin
<1>4. FanCounts'
  BY <1>2 DEF FanCounts
<1>5. CacheSays' /\ ReaderMeets'
  BY DEF IInv, CacheSays, ReaderMeets
<1> QED
  BY <1>3, <1>4, <1>5 DEF IInv

LEMMA AnswerInv ==
    ASSUME IInv, NEW n \in nodes, Answer(n) PROVE IInv'
<1>0. FanOK /\ UNCHANGED <<nodes, hits, loop, cache, reader>>
  BY DEF IInv, TypeOK, Answer
<1> DEFINE sum == [r \in Rules |-> fan.agg[r] + hits[n][r]]
<1>1. PICK missing \in SUBSET {r \in Rules : hits[n][r] = 0} :
        fan' = [fan EXCEPT !.todo = fan.todo \ {n}, !.ok = fan.ok \cup {n},
                           !.has = fan.has \cup (Rules \ missing), !.agg = sum]
  BY DEF Answer
<1>2. \A r \in Rules : hits[n][r] \in Nat /\ fan.agg[r] \in Nat
  BY FieldTypes DEF IInv
<1>3. sum \in [Rules -> Nat]
  BY <1>2
<1>4. \A r \in Rules : sum[r] = fan.agg[r] + hits[n][r]
  OBVIOUS
<1> HIDE DEF sum
<1>5. /\ FanOK' /\ fan'.old = fan.old /\ fan'.age = fan.age /\ fan'.ok = fan.ok \cup {n}
      /\ fan'.hot = fan.hot /\ fan'.agg = sum
  BY <1>0, <1>1, <1>3 DEF FanOK
<1>6. TypeOK'
  BY <1>0, <1>5 DEF IInv, TypeOK, HitsOK, CacheOK, ReaderOK
<1>7. CacheSays' /\ ReaderMeets'
  BY <1>0 DEF IInv, CacheSays, ReaderMeets
<1>8. FanCounts'
  <2>1. ASSUME NEW r \in fan.hot
        PROVE  \E m \in nodes : hits[m][r] > 0 /\ (m \in fan'.ok => fan'.agg[r] > 0)
    <3>1. PICK m \in nodes : hits[m][r] > 0 /\ (m \in fan.ok => fan.agg[r] > 0)
      BY DEF IInv, FanCounts
    <3>2. r \in Rules
      BY FieldTypes DEF IInv
    <3>3. m \in fan'.ok => fan'.agg[r] > 0
      BY <1>2, <1>4, <1>5, <3>1, <3>2
    <3> QED
      BY <3>1, <3>3
  <2> QED
    BY <1>0, <1>5, <2>1 DEF IInv, FanCounts
<1> QED
  BY <1>6, <1>7, <1>8 DEF IInv

LEMMA FailInv ==
    ASSUME IInv, NEW n \in nodes, Fail(n) PROVE IInv'
<1>0. FanOK /\ UNCHANGED <<nodes, hits, loop, cache, reader>>
  BY DEF IInv, TypeOK, Fail
<1>1. fan' = [fan EXCEPT !.todo = fan.todo \ {n}]
  BY DEF Fail
<1>2. /\ FanOK' /\ fan'.old = fan.old /\ fan'.age = fan.age /\ fan'.ok = fan.ok
      /\ fan'.hot = fan.hot /\ fan'.agg = fan.agg
  BY <1>0, <1>1 DEF FanOK
<1>3. TypeOK'
  BY <1>0, <1>2 DEF IInv, TypeOK, HitsOK, CacheOK, ReaderOK
<1>4. FanCounts' /\ CacheSays' /\ ReaderMeets'
  BY <1>0, <1>2 DEF IInv, FanCounts, CacheSays, ReaderMeets
<1> QED
  BY <1>3, <1>4 DEF IInv

\* The swap: a round nobody answered keeps the snapshot and changes the outcome to
\* one that promises nothing; any other brings its own snapshot.
LEMMA SwapInv ==
    ASSUME IInv, Swap PROVE IInv'
<1>0. /\ TypeOK /\ FanOK /\ CacheOK /\ ReaderOK
      /\ fan' = IdleFan /\ nodes' = nodes /\ hits' = hits /\ cache' = NextState(fan)
      /\ reader' = [reader EXCEPT !.mixed = reader.pc # "idle"]
      /\ loop' \in {"backoff", "wait"}
  BY DEF IInv, TypeOK, Swap
<1>1. fan.ok \subseteq nodes
  BY <1>0, FieldTypes
<1>2. FanOK' /\ FanCounts'
  <2>1. 0 <= 0
    OBVIOUS
  <2> QED
    BY <1>0, <2>1, IdleFacts, IdleFactsNext DEF FanCounts
<1>3. ReaderOK' /\ ReaderMeets'
  BY <1>0 DEF ReaderOK, ReaderMeets
<1>4. CacheOK' /\ CacheSays'
  <2>1. CASE fan.ok = {}
    <3> DEFINE base == deriveBaseStatus(fan, cache.age)
    <3>1. cache' = [cache EXCEPT !.status = base]
      BY <1>0, <2>1 DEF NextState
    <3>2. base \in Outcomes /\ base \notin {"ok", "partial"}
      BY <1>1, <2>1, BaseFacts
    <3> HIDE DEF base
    <3>3. /\ CacheOK' /\ cache'.status = base /\ cache'.tag = cache.tag
          /\ cache'.age = cache.age /\ cache'.old = cache.old
          /\ cache'.hot = cache.hot /\ cache'.agg = cache.agg
      BY <1>0, <3>1, <3>2 DEF CacheOK
    <3> QED
      BY <3>2, <3>3 DEF IInv, CacheSays
  <2>2. CASE fan.ok # {}
    <3> DEFINE base == deriveBaseStatus(fan, fan.age)
    <3>1. cache' = [status |-> base,
                    tag    |-> IF fan.ok = nodes THEN "ok" ELSE "partial",
                    age    |-> fan.age, has |-> fan.has, agg |-> fan.agg, old |-> fan.old,
                    hot    |-> fan.hot]
      BY <1>0, <2>2 DEF NextState
    <3>2. base \in Outcomes /\ (base = "ok" => fan.ok = nodes)
      BY <1>1, BaseFacts
    <3> HIDE DEF base
    <3>3. CacheOK'
      <4>1. /\ fan.age \in Ages /\ fan.old \in Ages /\ fan.has \subseteq Rules
            /\ fan.hot \subseteq Rules /\ fan.agg \in [Rules -> Nat]
        BY <1>0, FieldTypes DEF FanOK
      <4> QED
        BY <3>1, <3>2, <4>1 DEF CacheOK, Tags
    <3>4. fan.ok = nodes => \A r \in fan.hot : fan.agg[r] # 0
      <4> SUFFICES ASSUME fan.ok = nodes, NEW r \in fan.hot PROVE fan.agg[r] # 0
        OBVIOUS
      <4>1. fan.agg[r] > 0 /\ fan.agg[r] \in Nat
        BY <1>0, FieldTypes DEF IInv, FanCounts
      <4> QED
        BY <4>1
    <3>5. fan.age # NoTime /\ fan.old # NoTime /\ fan.old <= fan.age
      BY <1>0, AgeFacts, FieldTypes DEF IInv, FanCounts
    <3> QED
      BY <3>1, <3>2, <3>3, <3>4, <3>5 DEF CacheSays
  <2> QED
    BY <2>1, <2>2
<1> QED
  BY <1>0, <1>2, <1>3, <1>4 DEF IInv, TypeOK, HitsOK

LEMMA MetaInv ==
    ASSUME IInv, Meta PROVE IInv'
<1> DEFINE s == deriveStatus(cache.status, cache.age)
<1>1. /\ reader' = [pc |-> "met", status |-> s, tag |-> cache.tag, hot |-> cache.hot,
                    mixed |-> FALSE]
      /\ UNCHANGED <<disabled, nodes, hits, loop, fan, cache, stop>>
  BY DEF Meta
<1>2. s \in Listed /\ (s = "ok" => cache.status = "ok")
  BY StatusFacts, FieldTypes DEF IInv
<1> HIDE DEF s
<1>3. ReaderOK'
  BY <1>1, <1>2 DEF IInv, TypeOK, CacheOK, ReaderOK
<1>4. TypeOK'
  BY <1>1, <1>3 DEF IInv, TypeOK, HitsOK, FanOK, CacheOK
<1>5. FanCounts' /\ CacheSays' /\ ReaderMeets'
  BY <1>1, <1>2 DEF IInv, FanCounts, CacheSays, ReaderMeets
<1> QED
  BY <1>4, <1>5 DEF IInv

\* Steps that move only the loop, the shutdown or a request that ends.
LEMMA QuietInv ==
    ASSUME IInv, UNCHANGED <<nodes, hits, fan, cache>>,
           reader' \in {reader, IdleReader},
           loop' \in {"new", "fetch", "backoff", "wait", "done"}
    PROVE  IInv'
<1>1. ReaderOK' /\ ReaderMeets'
  BY IdleFacts, IdleFactsNext DEF IInv, TypeOK, ReaderOK, ReaderMeets
<1>2. TypeOK'
  BY <1>1 DEF IInv, TypeOK, HitsOK, FanOK, CacheOK
<1>3. FanCounts' /\ CacheSays'
  BY DEF IInv, FanCounts, CacheSays
<1> QED
  BY <1>1, <1>2, <1>3 DEF IInv

\* Whatever the nodes answer, fail to answer or count meanwhile, and whenever the
\* shutdown comes, fan-out, snapshot and listing stay in step.
THEOREM Invariance == Spec => []IInv
<1>1. IInv /\ [Next]_vars => IInv'
  <2> SUFFICES ASSUME IInv, [Next]_vars PROVE IInv'
    OBVIOUS
  <2>0. loop \in {"new", "fetch", "backoff", "wait", "done"}
    BY DEF IInv, TypeOK
  <2>1. CASE Start
    <3>1. CASE disabled
      BY <2>1, <3>1, QuietInv DEF Start
    <3>2. CASE ~disabled
      BY <2>1, <3>2, BeginInv DEF Start
    <3> QED
      BY <3>1, <3>2
  <2>2. CASE Refresh
    BY <2>2, BeginInv DEF Refresh
  <2>3. CASE Backoff \/ Return \/ Cancel \/ Stop \/ LookupMany
    BY <2>0, <2>3, QuietInv DEF Backoff, Return, Cancel, Stop, LookupMany
  <2>4. CASE Exited \/ UNCHANGED vars
    BY <2>0, <2>4, QuietInv DEF Exited, vars
  <2> QED
    BY <2>1, <2>2, <2>3, <2>4, HitInv, TickInv, AnswerInv, FailInv, SwapInv, MetaInv DEF Next
<1> QED
  BY <1>1, InitInv, PTL DEF Spec

-----------------------------------------------------------------------------
(* The properties *)

\* A listing that says ok or partial describes counters read at most StaleAfter
\* ago: refresh dates a snapshot before it asks the first node.
THEOREM FreshAsSaid == Spec => []FreshWhenSaid
<1>1. IInv => FreshWhenSaid
  <2> SUFFICES ASSUME IInv, deriveStatus(cache.status, cache.age) \in {"ok", "partial"}
               PROVE  cache.old \in 0 .. StaleAfter
    BY DEF FreshWhenSaid
  <2>1. cache.status \in {"ok", "partial"} /\ (cache.age = NoTime \/ ~(cache.age > StaleAfter))
    BY StatusFacts, FieldTypes DEF IInv
  <2>2. /\ cache.age # NoTime /\ cache.old # NoTime /\ cache.old <= cache.age
        /\ cache.age \in Ages /\ cache.old \in Ages
    BY <2>1, FieldTypes DEF IInv, CacheSays
  <2> QED
    BY <2>1, <2>2, StatsAssumption DEF Ages
<1> QED
  BY <1>1, Invariance, PTL

\* A listing shows zero only for a rule of which no node of the cluster had counted
\* a hit when its snapshot was begun: resolveRuleStats leaves out the zeros of
\* partial snapshots, and a full one has the answer of every node.
THEOREM ZerosAreZeros == Spec => []ZeroIsZero
<1>1. IInv => ZeroIsZero
  <2> SUFFICES ASSUME IInv, reader.pc = "met", ~reader.mixed, NEW r \in Rules,
                      Shown(r) = << 0 >>
               PROVE  reader.tag = "ok" /\ r \notin reader.hot
    BY DEF ZeroIsZero
  <2>1. /\ reader.tag = cache.tag /\ reader.hot = cache.hot
        /\ reader.status = "ok" => cache.status = "ok"
    BY DEF IInv, ReaderMeets
  <2>2. /\ cache.agg[r] = 0
        /\ reader.status = "ok" \/ reader.tag = "ok"
    BY DEF Shown, resolveRuleStats
  <2> QED
    BY <2>1, <2>2 DEF IInv, CacheSays
<1> QED
  BY <1>1, Invariance, PTL

-----------------------------------------------------------------------------
(* What the nodes have counted.  A sum over nodes is a fold in an order that  *)
(* CHOOSE leaves open; it is the number of marks when every node has one mark *)
(* for each hit.                                                              *)

MarksOf(h, r, n) == {n} \X (1 .. h[n][r])
Marks(h, r, ns) == UNION {MarksOf(h, r, n) : n \in ns}
Total(h, r, ns) == Cardinality(Marks(h, r, ns))

LEMMA Spans == \A k \in Nat : IsFiniteSet(1 .. k) /\ Cardinality(1 .. k) = k
<1> SUFFICES ASSUME NEW k \in Nat PROVE IsFiniteSet(1 .. k) /\ Cardinality(1 .. k) = k
  OBVIOUS
<1>1. 1 \in Int /\ k \in Int
  OBVIOUS
<1>2. IsFiniteSet(1 .. k) /\ Cardinality(1 .. k) = IF 1 > k THEN 0 ELSE k - 1 + 1
  BY <1>1, FS_Interval
<1> QED
  BY <1>2

\* Finitely many nodes have finitely many marks, and each adds its own.
LEMMA MarksFinite ==
    ASSUME NEW h, NEW r, NEW ns, IsFiniteSet(ns), \A n \in ns : h[n][r] \in Nat
    PROVE  IsFiniteSet(Marks(h, r, ns)) /\ Total(h, r, ns) \in Nat
<1> DEFINE parts == {MarksOf(h, r, n) : n \in ns}
           part == [n \in ns |-> MarksOf(h, r, n)]
<1>1. part \in Surjection(ns, parts)
  BY DEF Surjection
<1>2. \A n \in ns : IsFiniteSet(MarksOf(h, r, n))
  <2> SUFFICES ASSUME NEW n \in ns PROVE IsFiniteSet(MarksOf(h, r, n))
    OBVIOUS
  <2>1. IsFiniteSet(1 .. h[n][r])
    BY Spans
  <2> QED
    BY <2>1, FS_Singleton, FS_Product DEF MarksOf
<1>3. IsFiniteSet(parts) /\ \A p \in parts : IsFiniteSet(p)
  BY <1>1, <1>2, FS_Surjection
<1>4. IsFiniteSet(Marks(h, r, ns))
  BY <1>3, FS_UNION DEF Marks
<1> QED
  BY <1>4, FS_CardinalityType DEF Total

LEMMA TotalSplit ==
    ASSUME NEW h, NEW r, NEW ns, IsFiniteSet(ns), \A n \in ns : h[n][r] \in Nat, NEW x \in ns
    PROVE  Total(h, r, ns) = h[x][r] + Total(h, r, ns \ {x})
<1> DEFINE rest == Marks(h, r, ns \ {x})
           own == MarksOf(h, r, x)
<1>1. IsFiniteSet(ns \ {x}) /\ IsFiniteSet(rest) /\ Cardinality(rest) \in Nat
  BY FS_RemoveElement, MarksFinite DEF Total
<1>2. IsFiniteSet(own) /\ Cardinality(own) = h[x][r]
  <2>1. IsFiniteSet(1 .. h[x][r]) /\ Cardinality(1 .. h[x][r]) = h[x][r]
    BY Spans
  <2>2. IsFiniteSet({x}) /\ Cardinality({x}) = 1
    BY FS_Singleton
  <2>3. IsFiniteSet(own) /\ Cardinality(own) = 1 * Cardinality(1 .. h[x][r])
    BY <2>1, <2>2, FS_Product DEF MarksOf
  <2> QED
    BY <2>1, <2>3
<1>3. Marks(h, r, ns) = own \cup rest
  BY DEF Marks
<1>4. own \cap rest = {}
  BY DEF Marks, MarksOf
<1>5. Cardinality(own \cup rest) = Cardinality(own) + Cardinality(rest) - 0
  <2> HIDE DEF own, rest
  <2> QED
    BY <1>1, <1>2, <1>4, FS_Union, FS_EmptySet
<1> HIDE DEF own, rest
<1>6. Total(h, r, ns) = Cardinality(own \cup rest)
  BY <1>3 DEF Total
<1>7. Total(h, r, ns \ {x}) = Cardinality(rest)
  BY DEF Total, rest
<1> QED
  BY <1>1, <1>2, <1>5, <1>6, <1>7

\* Of no nodes there is nothing, and more hits make no less.
LEMMA TotalOfNone == \A h, r : Total(h, r, {}) = 0
BY FS_EmptySet DEF Total, Marks

LEMMA TotalGrows ==
    ASSUME NEW h, NEW g, NEW r, NEW ns, IsFiniteSet(ns),
           \A n \in ns : h[n][r] \in Nat /\ g[n][r] \in Nat /\ h[n][r] <= g[n][r]
    PROVE  Total(h, r, ns) <= Total(g, r, ns)
<1>1. \A n \in ns : MarksOf(h, r, n) \subseteq MarksOf(g, r, n)
  BY DEF MarksOf
<1>2. Marks(h, r, ns) \in SUBSET Marks(g, r, ns)
  BY <1>1 DEF Marks
<1> QED
  BY <1>2, MarksFinite, FS_Subset DEF Total

\* One round of the fold, on a function from the sets of nodes to what it makes of
\* them; there is one such function, and it counts the marks.
Round(h, r, g, s) ==
    IF s = {} THEN 0 ELSE LET x == CHOOSE x \in s : TRUE IN h[x][r] + g[s \ {x}]
Fold(h, r, ns) == CHOOSE g : g = [s \in SUBSET ns |-> Round(h, r, g, s)]

LEMMA FoldIsTotal ==
    ASSUME NEW h, NEW r, NEW ns, IsFiniteSet(ns), \A n \in ns : h[n][r] \in Nat
    PROVE  Fold(h, r, ns)[ns] = Total(h, r, ns)
<1> DEFINE t == [s \in SUBSET ns |-> Total(h, r, s)]
<1>1. \A s \in SUBSET ns : IsFiniteSet(s) /\ Cardinality(s) \in Nat
  BY FS_Subset, FS_CardinalityType
<1>2. \A s \in SUBSET ns : s # {} => (CHOOSE x \in s : TRUE) \in s
  OBVIOUS
<1>3. ASSUME NEW s \in SUBSET ns, s # {}, NEW x \in s
      PROVE  Total(h, r, s) = h[x][r] + Total(h, r, s \ {x})
  BY <1>1, <1>3, TotalSplit
<1>4. ASSUME NEW s \in SUBSET ns PROVE Total(h, r, s) = Round(h, r, t, s)
  <2>1. CASE s = {}
    BY <2>1, TotalOfNone DEF Round
  <2>2. CASE s # {}
    <3> DEFINE x == CHOOSE x \in s : TRUE
    <3>1. x \in s /\ s \ {x} \in SUBSET ns
      BY <1>2, <2>2
    <3> HIDE DEF x
    <3>2. Total(h, r, s) = h[x][r] + t[s \ {x}]
      BY <1>3, <2>2, <3>1
    <3> QED
      BY <2>2, <3>2 DEF Round, x
  <2> QED
    BY <2>1, <2>2
<1>5. t = [s \in SUBSET ns |-> Round(h, r, t, s)]
  BY <1>4
<1> HIDE DEF t
<1>6. Fold(h, r, ns) = [s \in SUBSET ns |-> Round(h, r, Fold(h, r, ns), s)]
  BY <1>5 DEF Fold
<1> DEFINE g == Fold(h, r, ns)
           bad == {s \in SUBSET ns : g[s] # Total(h, r, s)}
           sizes == {Cardinality(s) : s \in bad}
<1>7. bad = {}
  <2> SUFFICES ASSUME bad # {} PROVE FALSE
    OBVIOUS
  <2>1. sizes \subseteq Nat /\ sizes # {}
    BY <1>1
  <2>2. PICK k \in sizes : \A j \in sizes : ~(<<j, k>> \in OpToRel(<, Nat))
    BY <2>1, WFMin, NatLessThanWellFounded
  <2>3. PICK s \in bad : Cardinality(s) = k
    OBVIOUS
  <2>4. \A u \in bad : ~(Cardinality(u) < Cardinality(s))
    <3>1. \A j, l \in Nat : j < l => <<j, l>> \in OpToRel(<, Nat)
      BY DEF OpToRel
    <3> QED
      BY <1>1, <2>2, <2>3, <3>1
  <2> DEFINE x == CHOOSE x \in s : TRUE
  <2>5. g[s] = Round(h, r, g, s) /\ s \in SUBSET ns /\ g[s] # Total(h, r, s)
    BY <1>6
  <2>6. CASE s = {}
    BY <2>5, <2>6, TotalOfNone DEF Round
  <2>7. CASE s # {}
    <3>1. x \in s /\ s \ {x} \in SUBSET ns
      BY <1>2, <2>5, <2>7
    <3>2. g[s] = h[x][r] + g[s \ {x}]
      BY <2>5, <2>7 DEF Round
    <3> HIDE DEF x
    <3>3. Cardinality(s \ {x}) < Cardinality(s)
      BY <1>1, <2>5, <3>1, FS_RemoveElement
    <3>4. g[s \ {x}] = Total(h, r, s \ {x})
      BY <2>4, <3>1, <3>3
    <3> QED
      BY <1>3, <2>5, <2>7, <3>1, <3>2, <3>4
  <2> QED
    BY <2>6, <2>7
<1> QED
  BY <1>7

\* So what the module calls counted is that number.
LEMMA CountedIsTotal ==
    ASSUME NEW r, NEW ns, IsFiniteSet(ns), NEW h, \A n \in ns : h[n][r] \in Nat
    PROVE  /\ h = hits => Counted(ns, r) = Total(h, r, ns)
<1>1. Counted(ns, r) = Fold(hits, r, ns)[ns]
  BY Zenon DEF Counted, MapThenSumSet, MapThenFoldSet, Fold, Round
<1> QED
  BY <1>1, FoldIsTotal

-----------------------------------------------------------------------------
(* The sums of a round *)

\* While a round is under way, no node that answered is asked again; a number of
\* its snapshot is at most what those that answered count now, and with what the
\* others count now it makes up at least what all counted when the round began.
SumsOf(r) ==
    /\ fan.low[r] \in Nat
    /\ fan.agg[r] <= Total(hits, r, fan.ok)
    /\ fan.low[r] <= fan.agg[r] + Total(hits, r, nodes \ fan.ok)
FanSums == loop = "fetch" => fan.ok \cap fan.todo = {} /\ \A r \in Rules : SumsOf(r)

LEMMA SumTypes ==
    ASSUME TypeOK
    PROVE  /\ IsFiniteSet(nodes) /\ IsFiniteSet(fan.ok) /\ IsFiniteSet(nodes \ fan.ok)
           /\ \A r \in Rules : /\ Total(hits, r, nodes) \in Nat
                               /\ Total(hits, r, fan.ok) \in Nat
                               /\ Total(hits, r, nodes \ fan.ok) \in Nat
<1>1. /\ fan.ok \in SUBSET nodes /\ nodes \ fan.ok \in SUBSET nodes
      /\ \A n \in nodes, r \in Rules : hits[n][r] \in Nat
  BY FieldTypes
<1>2. IsFiniteSet(nodes)
  BY StatsAssumption DEF TypeOK
<1>3. IsFiniteSet(fan.ok) /\ IsFiniteSet(nodes \ fan.ok)
  BY <1>1, <1>2, FS_Subset
<1> QED
  BY <1>1, <1>2, <1>3, MarksFinite

\* A packet is counted on one side or on the other.
LEMMA HitSums ==
    ASSUME IInv, FanSums, NEW n \in nodes, NEW q \in Rules, Hit(n, q) PROVE FanSums'
<1>1. TypeOK /\ HitsOK /\ hits' = [hits EXCEPT ![n][q] = hits[n][q] + 1]
      /\ UNCHANGED <<nodes, loop, fan>>
  BY DEF IInv, TypeOK, Hit
<1>2. PICK g : g = hits'
  OBVIOUS
<1>3. PICK ok : ok = fan.ok
  OBVIOUS
<1>4. \A m \in nodes, r \in Rules : hits[m][r] \in Nat /\ g[m][r] \in Nat /\ hits[m][r] <= g[m][r]
  BY <1>1, <1>2, FieldTypes DEF HitsOK
<1>5. ASSUME NEW r \in Rules
      PROVE  /\ Total(hits, r, ok) <= Total(g, r, ok)
             /\ Total(hits, r, nodes \ ok) <= Total(g, r, nodes \ ok)
             /\ Total(g, r, ok) \in Nat /\ Total(g, r, nodes \ ok) \in Nat
  <2>1. /\ IsFiniteSet(ok) /\ IsFiniteSet(nodes \ ok) /\ ok \subseteq nodes
    BY <1>1, <1>3, SumTypes, FieldTypes
  <2> QED
    BY <1>4, <2>1, TotalGrows, MarksFinite
<1>6. ASSUME NEW r \in Rules, SumsOf(r) PROVE SumsOf(r)'
  <2>1. fan.agg[r] \in Nat /\ Total(hits, r, ok) \in Nat /\ Total(hits, r, nodes \ ok) \in Nat
    BY <1>1, <1>3, SumTypes, FieldTypes
  <2>2. /\ fan.low[r] \in Nat /\ fan.agg[r] <= Total(hits, r, ok)
        /\ fan.low[r] <= fan.agg[r] + Total(hits, r, nodes \ ok)
    BY <1>3, <1>6 DEF SumsOf
  <2>3. /\ fan.agg[r] <= Total(g, r, ok)
        /\ fan.low[r] <= fan.agg[r] + Total(g, r, nodes \ ok)
    BY <1>5, <2>1, <2>2
  <2> QED
    BY <1>1, <1>2, <1>3, <2>2, <2>3 DEF SumsOf
<1> QED
  BY <1>1, <1>6 DEF FanSums

\* A round that begins has counted nothing and lacks everything.
LEMMA BeginSums ==
    ASSUME IInv, Begin, UNCHANGED <<nodes, hits>> PROVE FanSums'
<1>1. PICK seen \in [nodes -> Health] :
        fan' = [IdleFan EXCEPT !.warming = {n \in nodes : seen[n] = "warming"},
                               !.todo = {n \in nodes : seen[n] = "online"},
                               !.low = [r \in Rules |-> Counted(nodes, r)],
                               !.hot = {r \in Rules : \E n \in nodes : hits[n][r] > 0}]
  BY DEF Begin
<1>2. TypeOK /\ IsFiniteSet(nodes)
  BY SumTypes DEF IInv
<1>3. \A r \in Rules : Counted(nodes, r) = Total(hits, r, nodes) /\ Total(hits, r, nodes) \in Nat
  BY <1>2, SumTypes, FieldTypes, CountedIsTotal
<1>4. /\ fan'.ok = {} /\ \A r \in Rules : fan'.agg[r] = 0
      /\ \A r \in Rules : fan'.low[r] = Counted(nodes, r)
  BY <1>1 DEF IdleFan, NoStats
<1>5. ASSUME NEW r \in Rules PROVE SumsOf(r)'
  <2>1. /\ Total(hits, r, {}) = 0 /\ nodes \ {} = nodes
    BY TotalOfNone
  <2>2. fan'.agg[r] = 0 /\ fan'.low[r] = Total(hits, r, nodes) /\ Total(hits, r, nodes) \in Nat
    BY <1>3, <1>4
  <2> QED
    BY <1>4, <2>1, <2>2 DEF SumsOf
<1> QED
  BY <1>4, <1>5 DEF FanSums

\* What a node answers passes from the one side to the other.
LEMMA AnswerSums ==
    ASSUME IInv, FanSums, NEW n \in nodes, Answer(n) PROVE FanSums'
<1>0. /\ TypeOK /\ FanOK /\ loop = "fetch" /\ n \in fan.todo
      /\ UNCHANGED <<nodes, hits, loop>>
  BY DEF IInv, TypeOK, Answer
<1> DEFINE sum == [r \in Rules |-> fan.agg[r] + hits[n][r]]
<1>1. PICK missing \in SUBSET {r \in Rules : hits[n][r] = 0} :
        fan' = [fan EXCEPT !.todo = fan.todo \ {n}, !.ok = fan.ok \cup {n},
                           !.has = fan.has \cup (Rules \ missing), !.agg = sum]
  BY DEF Answer
<1>2. \A r \in Rules : sum[r] = fan.agg[r] + hits[n][r]
  OBVIOUS
<1> HIDE DEF sum
<1>3. PICK ok, todo : ok = fan.ok /\ todo = fan.todo
  OBVIOUS
<1>4. /\ fan'.ok = ok \cup {n} /\ fan'.todo = todo \ {n} /\ fan'.agg = sum
      /\ fan'.low = fan.low
  BY <1>0, <1>1, <1>3 DEF FanOK
<1>5. /\ ok \subseteq nodes /\ n \notin ok /\ ok \cap todo = {}
      /\ \A m \in nodes, r \in Rules : hits[m][r] \in Nat
  BY <1>0, <1>3, FieldTypes DEF FanSums
<1>6. (ok \cup {n}) \ {n} = ok /\ (nodes \ ok) \ {n} = nodes \ (ok \cup {n})
  BY <1>5
<1>7. IsFiniteSet(ok) /\ IsFiniteSet(nodes \ ok) /\ IsFiniteSet(ok \cup {n})
  BY <1>0, <1>3, SumTypes, FS_AddElement
<1>8. ASSUME NEW r \in Rules
      PROVE  /\ Total(hits, r, ok \cup {n}) = hits[n][r] + Total(hits, r, ok)
             /\ Total(hits, r, nodes \ ok) = hits[n][r] + Total(hits, r, nodes \ (ok \cup {n}))
             /\ Total(hits, r, ok) \in Nat
             /\ Total(hits, r, nodes \ (ok \cup {n})) \in Nat
  <2>1. \A m \in ok \cup {n} : hits[m][r] \in Nat
    BY <1>5
  <2>2. Total(hits, r, ok \cup {n}) = hits[n][r] + Total(hits, r, (ok \cup {n}) \ {n})
    BY <1>7, <2>1, TotalSplit
  <2>3. \A m \in nodes \ ok : hits[m][r] \in Nat
    BY <1>5
  <2>4. n \in nodes \ ok
    BY <1>5
  <2>5. Total(hits, r, nodes \ ok) = hits[n][r] + Total(hits, r, (nodes \ ok) \ {n})
    BY <1>7, <2>3, <2>4, TotalSplit
  <2>6. IsFiniteSet(nodes \ (ok \cup {n}))
    BY <1>6, <1>7, FS_RemoveElement
  <2>7. Total(hits, r, ok) \in Nat /\ Total(hits, r, nodes \ (ok \cup {n})) \in Nat
    BY <1>5, <1>7, <2>6, MarksFinite
  <2> QED
    BY <1>6, <2>2, <2>5, <2>7
<1>9. ASSUME NEW r \in Rules PROVE SumsOf(r)'
  <2>1. SumsOf(r) /\ fan.agg[r] \in Nat /\ hits[n][r] \in Nat
    BY <1>0, FieldTypes DEF FanSums
  <2>2. fan'.agg[r] = fan.agg[r] + hits[n][r] /\ fan'.low[r] = fan.low[r]
    BY <1>2, <1>4
  <2>3. /\ fan.low[r] \in Nat /\ fan.agg[r] <= Total(hits, r, ok)
        /\ fan.low[r] <= fan.agg[r] + Total(hits, r, nodes \ ok)
    BY <1>3, <2>1 DEF SumsOf
  <2>4. /\ fan'.low[r] \in Nat /\ fan'.agg[r] <= Total(hits, r, ok \cup {n})
        /\ fan'.low[r] <= fan'.agg[r] + Total(hits, r, nodes \ (ok \cup {n}))
    <3> PICK a, b, c, d, l, x :
            /\ a = fan.agg[r] /\ x = hits[n][r] /\ l = fan.low[r]
            /\ b = Total(hits, r, ok) /\ c = Total(hits, r, nodes \ ok)
            /\ d = Total(hits, r, nodes \ (ok \cup {n}))
      OBVIOUS
    <3>1. /\ a \in Nat /\ x \in Nat /\ l \in Nat /\ b \in Nat /\ d \in Nat
          /\ c = x + d /\ a <= b /\ l <= a + c
      BY <1>8, <2>1, <2>3
    <3>2. a + x <= x + b /\ l <= (a + x) + d
      BY <3>1
    <3> QED
      BY <1>8, <2>2, <2>3, <3>2
  <2> QED
    BY <1>0, <1>4, <2>4 DEF SumsOf
<1> QED
  BY <1>4, <1>5, <1>9 DEF FanSums

\* A request that fails and a clock that ticks leave the sums; no other step keeps
\* or begins a round.
LEMMA SameSums ==
    ASSUME FanSums, UNCHANGED <<nodes, hits, loop>>,
           fan'.ok = fan.ok, fan'.agg = fan.agg, fan'.low = fan.low, fan'.todo \subseteq fan.todo
    PROVE  FanSums'
<1>1. \A r \in Rules : SumsOf(r) => SumsOf(r)'
  BY DEF SumsOf
<1> QED
  BY <1>1 DEF FanSums

THEOREM SumsInvariance == Spec => [](IInv /\ FanSums)
<1>1. Init => FanSums
  BY DEF Init, FanSums
<1>2. IInv /\ FanSums /\ [Next]_vars => FanSums'
  <2> SUFFICES ASSUME IInv, FanSums, [Next]_vars PROVE FanSums'
    OBVIOUS
  <2>0. FanOK
    BY DEF IInv, TypeOK
  <2>1. CASE Start
    <3>1. CASE disabled
      BY <2>1, <3>1 DEF Start, FanSums
    <3>2. CASE ~disabled
      BY <2>1, <3>2, BeginSums DEF Start
    <3> QED
      BY <3>1, <3>2
  <2>2. CASE Refresh
    BY <2>2, BeginSums DEF Refresh
  <2>3. CASE Backoff \/ Return \/ Swap
    BY <2>3 DEF Backoff, Return, Swap, FanSums
  <2>4. CASE Cancel \/ Stop \/ LookupMany \/ Meta \/ Exited \/ UNCHANGED vars
    <3>1. UNCHANGED <<nodes, hits, loop, fan>>
      BY <2>4 DEF Cancel, Stop, LookupMany, Meta, Exited, vars
    <3> QED
      BY <3>1, SameSums
  <2>5. ASSUME NEW n \in nodes, Fail(n) PROVE FanSums'
    <3>1. fan' = [fan EXCEPT !.todo = fan.todo \ {n}] /\ UNCHANGED <<nodes, hits, loop>>
      BY <2>5 DEF Fail
    <3>2. /\ fan'.ok = fan.ok /\ fan'.agg = fan.agg /\ fan'.low = fan.low
          /\ fan'.todo = fan.todo \ {n}
      BY <2>0, <3>1 DEF FanOK
    <3> QED
      BY <3>1, <3>2, SameSums
  <2>6. CASE Tick
    <3>1. UNCHANGED <<nodes, hits, loop>>
      BY <2>6 DEF Tick
    <3>2. /\ fan'.ok = fan.ok /\ fan'.agg = fan.agg /\ fan'.low = fan.low
          /\ fan'.todo = fan.todo
      BY <2>0, <2>6 DEF Tick, FanOK
    <3> QED
      BY <3>1, <3>2, SameSums
  <2> QED
    BY <2>1, <2>2, <2>3, <2>4, <2>5, <2>6, HitSums, AnswerSums DEF Next
<1> QED
  BY <1>1, <1>2, Invariance, PTL DEF Spec

\* The snapshot a round is about to store lies between what the nodes counted while
\* it was taken, whichever answer, whatever they count meanwhile, and a full one is
\* at least what the whole cluster had counted when the round began.
THEOREM SnapshotsCover == Spec => []Covered
<1>1. IInv /\ FanSums => Covered
  <2> SUFFICES ASSUME IInv, FanSums, loop = "fetch", fan.ok # {}, NEW r \in Rules
               PROVE  /\ NextState(fan).agg[r] <= Counted(fan.ok, r)
                      /\ NextState(fan).tag = "ok" => NextState(fan).agg[r] >= fan.low[r]
    BY DEF Covered
  <2>1. TypeOK /\ SumsOf(r)
    BY DEF IInv, FanSums
  <2>2. /\ NextState(fan).agg = fan.agg
        /\ NextState(fan).tag = "ok" => fan.ok = nodes
    BY DEF NextState
  <2>3. Counted(fan.ok, r) = Total(hits, r, fan.ok)
    <3>1. IsFiniteSet(fan.ok) /\ \A n \in fan.ok : hits[n][r] \in Nat
      BY <2>1, SumTypes, FieldTypes
    <3> QED
      BY <3>1, CountedIsTotal
  <2>4. fan.ok = nodes => fan.agg[r] >= fan.low[r]
    <3>1. fan.ok = nodes => Total(hits, r, nodes \ fan.ok) = 0
      BY TotalOfNone
    <3> QED
      BY <2>1, <3>1, FieldTypes DEF SumsOf
  <2> QED
    BY <2>1, <2>2, <2>3, <2>4 DEF SumsOf
<1> QED
  BY <1>1, SumsInvariance, PTL
=============================================================================
