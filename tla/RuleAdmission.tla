--------------------------- MODULE RuleAdmission ---------------------------
(***************************************************************************)
(* The rule service of the controller between its clients, the rules table *)
(* and one agent: which rules it stores, what it makes of later edits, and *)
(* what the packets of the node experience.                                *)
(*                                                                         *)
(* A request is served in the steps its handler makes: it reads the table  *)
(* and validates, writes the table, and calls the agent; other handlers    *)
(* run in between, for nothing but SQLite serialises them.  A request that *)
(* is refused changes nothing and is no step.  Every call reaches the      *)
(* agent: ControllerSync is about calls that fail.                         *)
(***************************************************************************)
EXTENDS ComboLookup, Functions

CONSTANTS
  Ids,       \* rule ids; their number bounds the rules stored at once
  Handlers,  \* the HTTP handlers that may run at the same time
  Requests,  \* the bodies of POST /rules
  Batches,   \* the bodies of POST /rules/batch: sequences of requests
  Patches,   \* the bodies of PUT /rules/:id
  Packets    \* the packets that may arrive at the node

List(s) == s \in Seq(Range(s))

\* What the JSON decoder makes of a body, and the tables of spellings of it.
Body(r) ==
  /\ DOMAIN r = {"decoder", "srcIP", "dstIP", "srcCIDR", "dstCIDR", "srcPort", "dstPort",
                 "protocol", "action", "rate", "lenMin", "lenMax", "flags", "anomaly", "enabled"}
  /\ {r.srcIP, r.dstIP} \subseteq DOMAIN IpOf \cup {None}
  /\ {r.srcCIDR, r.dstCIDR} \subseteq DOMAIN CidrOf \cup {None}
  /\ List(r.flags) /\ \A s \in Range(r.flags) : List(s)
  /\ r.enabled \in Seq(BOOLEAN)

ASSUME BodiesAssumption ==
  /\ \A r \in Requests \cup Patches : Body(r)
  /\ \A b \in Batches : List(b) /\ \A r \in Range(b) : Body(r)

VARIABLES
  rules,   \* the rules table: id to row, None when absent
  job,     \* what each handler is doing
  node,    \* the rules installed on the node, by id
  pushed   \* the agent's last answer to an add of the rule

vars == <<rules, job, node, pushed>>

Idle == [at |-> "idle", op |-> "none", id |-> None, row |-> None, was |-> FALSE,
         todo |-> <<>>, rows |-> <<>>, calls |-> <<>>]

Init ==
  /\ rules  = [i \in Ids |-> None]
  /\ job    = [h \in Handlers |-> Idle]
  /\ node   = [i \in Ids |-> None]
  /\ pushed = [i \in Ids |-> "none"]

-----------------------------------------------------------------------------
(* The table *)

Stored(t) == {t[i] : i \in {j \in Ids : t[j] # None}}

\* The columns of UNIQUE and of the duplicate checks.
Tuple(r) == <<r.srcIP, r.dstIP, r.srcCIDR, r.dstCIDR, r.srcPort, r.dstPort, r.protocol>>

\* GetByTuple and GetByCIDRTuple.
ByTuple(row) == {i \in Ids : rules[i] # None /\ Tuple(rules[i]) = Tuple(row)}

\* Exists and CIDRExists; Exists does not look at the networks of a row.
Exists(row) ==
  \E r \in Stored(rules) :
    /\ IF isCIDR(row) THEN r.srcCIDR = row.srcCIDR /\ r.dstCIDR = row.dstCIDR
                      ELSE r.srcIP = row.srcIP /\ r.dstIP = row.dstIP
    /\ <<r.srcPort, r.dstPort, r.protocol>> = <<row.srcPort, row.dstPort, row.protocol>>

\* UNIQUE: an address column without a value is NULL, which equals nothing.
Conflicts(row) == row.srcIP # None /\ row.dstIP # None /\ ByTuple(row) # {}

-----------------------------------------------------------------------------
(* Beginning a request *)

\* The row of every request that passes the checks that need no database.
rowOf ==
  LET all == Requests \cup UNION {Range(b) : b \in Batches}
  IN  [req \in {r \in all : CreateOk(r)} |-> NewRow(req)]

\* uuid.New: an id nobody knows.
Held(j) == {j.id} \cup {j.todo[n].id : n \in DOMAIN j.todo}
                  \cup {j.rows[n].id : n \in DOMAIN j.rows}
                  \cup {j.calls[n].id : n \in DOMAIN j.calls}

Fresh == {i \in Ids : rules[i] = None /\ node[i] = None /\ \A h \in Handlers : i \notin Held(job[h])}

Add(i, row) == [call |-> "add", id |-> i, row |-> row]
Del(i)   == [call |-> "delete", id |-> i, row |-> None]

\* Only enabled rules are sent.
CallsFor(i, row) == IF row.enabled THEN <<Add(i, row)>> ELSE <<>>

Begin(h, j) ==
  /\ job' = [job EXCEPT ![h] = j]
  /\ UNCHANGED <<rules, node, pushed>>

\* Create, up to repo.Create: no rule with the tuple.
BeginCreate(h, i, req) ==
  /\ job[h] = Idle
  /\ i \in Fresh
  /\ req \in DOMAIN rowOf
  /\ LET row == rowOf[req] IN
     /\ isCIDR(row) => ~checkCIDROverlap(row, Stored(rules))
     /\ ByTuple(row) = {}
     /\ Begin(h, [Idle EXCEPT !.at = "write", !.op = "insert", !.rows = <<[id |-> i, row |-> row]>>,
                              !.calls = CallsFor(i, row)])

mergedRow(old, row) == [old EXCEPT !.anomaly = @ \cup row.anomaly]

\* Create, up to repo.Update: tryAnomalyMerge takes the rule with the tuple.
BeginMerge(h, i, req) ==
  /\ job[h] = Idle
  /\ req \in DOMAIN rowOf
  /\ LET row == rowOf[req]
         old == rules[i]
     IN  /\ isCIDR(row) => ~checkCIDROverlap(row, Stored(rules))
         /\ i \in ByTuple(row)
         /\ row.anomaly # {} /\ old.anomaly # {}
         /\ old.action = row.action
         /\ ~(row.anomaly \subseteq old.anomaly)
         /\ Begin(h, [Idle EXCEPT !.at = "write", !.op = "update", !.id = i,
                                  !.row = mergedRow(old, row), !.was = old.enabled])

\* BatchCreate: ids are the ones its items would get.
BeginBatch(h, ids, batch) ==
  /\ job[h] = Idle
  /\ Range(ids) \subseteq Fresh
  /\ Begin(h, [Idle EXCEPT !.at = "items",
                           !.todo = [n \in DOMAIN batch |-> [id |-> ids[n], req |-> batch[n]]]])

\* Update, up to repo.Update.
BeginUpdate(h, i, req) ==
  /\ job[h] = Idle
  /\ rules[i] # None
  /\ UpdateOk(req, rules[i])
  /\ Begin(h, [Idle EXCEPT !.at = "write", !.op = "update", !.id = i,
                           !.row = UpdatedRow(req, rules[i]), !.was = rules[i].enabled])

\* Delete, up to repo.Delete.
BeginDelete(h, i) ==
  /\ job[h] = Idle
  /\ rules[i] # None
  /\ Begin(h, [Idle EXCEPT !.at = "write", !.op = "delete", !.id = i, !.was = rules[i].enabled])

\* The loop of BatchCreate: an item that fails a check is skipped.  The calls for
\* the enabled rows, which the code lists once they are stored, are listed with them.
itemOk(req, rows) ==
  /\ req \in DOMAIN rowOf
  /\ LET row     == rowOf[req]
         pending == {rows[n].row : n \in DOMAIN rows}
     IN  /\ isCIDR(row) => ~checkCIDROverlap(row, Stored(rules) \cup pending)
         /\ ~Exists(row)
         /\ \A r \in pending : Tuple(r) # Tuple(row)

BatchItem(h) ==
  /\ job[h].at = "items" /\ job[h].todo # <<>>
  /\ LET j    == job[h]
         item == Head(j.todo)
         row  == rowOf[item.req]
         rest == [j EXCEPT !.todo = Tail(@)]
     IN  job' = [job EXCEPT ![h] =
                   IF itemOk(item.req, j.rows)
                   THEN [rest EXCEPT !.rows = Append(@, [id |-> item.id, row |-> row]),
                                     !.calls = @ \o CallsFor(item.id, row)]
                   ELSE rest]
  /\ UNCHANGED <<rules, node, pushed>>

BatchChecked(h) ==
  /\ job[h].at = "items" /\ job[h].todo = <<>>
  /\ job' = [job EXCEPT ![h] = IF @.rows = <<>> THEN Idle
                               ELSE [@ EXCEPT !.at = "write", !.op = "insert"]]
  /\ UNCHANGED <<rules, node, pushed>>

-----------------------------------------------------------------------------
(* Writing the table *)

\* The handler goes on to its calls, or returns when it has none.
Then(h, calls) ==
  job' = [job EXCEPT ![h] = IF calls = <<>> THEN Idle
                            ELSE [Idle EXCEPT !.at = "push", !.calls = calls]]

\* repo.Create and repo.BatchCreate, one transaction.
WriteInsert(h) ==
  /\ job[h].at = "write" /\ job[h].op = "insert"
  /\ LET rows == job[h].rows
     IN  IF \E n \in DOMAIN rows : Conflicts(rows[n].row)
         THEN Then(h, <<>>) /\ UNCHANGED rules
         ELSE /\ rules' = [i \in Ids |-> IF \E n \in DOMAIN rows : rows[n].id = i
                                         THEN rows[CHOOSE n \in DOMAIN rows : rows[n].id = i].row
                                         ELSE rules[i]]
              /\ Then(h, job[h].calls)
  /\ UNCHANGED <<node, pushed>>

\* Bug variant of Transition: a rule switched on is sent as an update would be.
TransitionLeave(i, was, row) ==
  IF row.enabled THEN IF was THEN <<Del(i), Add(i, row)>> ELSE <<Add(i, row)>> ELSE <<>>

\* The switch at the end of Update, and of tryAnomalyMerge.
Transition(i, was, row) ==
  (IF was THEN <<Del(i)>> ELSE <<>>) \o (IF row.enabled THEN <<Add(i, row)>> ELSE <<>>)

\* repo.Update writes the whole row, if there still is one.
WriteUpdate(h) ==
  /\ job[h].at = "write" /\ job[h].op = "update"
  /\ LET j == job[h] IN
     /\ rules' = IF rules[j.id] = None THEN rules ELSE [rules EXCEPT ![j.id] = j.row]
     /\ Then(h, Transition(j.id, j.was, j.row))
  /\ UNCHANGED <<node, pushed>>

\* repo.Delete; a rule that is gone, or was read as disabled, is not sent.
WriteDelete(h) ==
  /\ job[h].at = "write" /\ job[h].op = "delete"
  /\ LET j == job[h] IN
     /\ rules' = [rules EXCEPT ![j.id] = None]
     /\ Then(h, IF rules[j.id] # None /\ j.was THEN <<Del(j.id)>> ELSE <<>>)
  /\ UNCHANGED <<node, pushed>>

-----------------------------------------------------------------------------
(* Calling the agent *)

InstalledOf(ids) == {node[i] : i \in {j \in ids : node[j] # None}}
Installed == InstalledOf(Ids)

\* SyncAddRule, SyncAddRulesBatch and SyncDeleteRule, one rule at a time.
Push(h) ==
  /\ job[h].at = "push"
  /\ LET c   == Head(job[h].calls)
         ans == IF c.call = "delete" THEN "none" ELSE Answer(c.row, InstalledOf(Ids \ {c.id}))
     IN  /\ pushed' = [pushed EXCEPT ![c.id] = ans]
         /\ node' = [node EXCEPT ![c.id] = CASE ans = "none" -> None
                                             [] ans = "ok"   -> Entry(c.row)
                                             [] OTHER        -> @]
         /\ Then(h, Tail(job[h].calls))
  /\ UNCHANGED rules

Next ==
  \E h \in Handlers :
    \/ \E i \in Ids, req \in Requests : BeginCreate(h, i, req) \/ BeginMerge(h, i, req)
    \/ \E batch \in Batches : \E ids \in [DOMAIN batch -> Ids] :
         IsInjective(ids) /\ BeginBatch(h, ids, batch)
    \/ \E i \in Ids, req \in Patches : BeginUpdate(h, i, req)
    \/ \E i \in Ids : BeginDelete(h, i)
    \/ BatchItem(h) \/ BatchChecked(h)
    \/ WriteInsert(h) \/ WriteUpdate(h) \/ WriteDelete(h)
    \/ Push(h)

Spec == Init /\ [][Next]_vars

-----------------------------------------------------------------------------
(* Properties *)

Rows == [srcIP : Addrs \cup {None}, dstIP : Addrs \cup {None},
         srcCIDR : Nets \cup {None}, dstCIDR : Nets \cup {None},
         srcPort : 0 .. MaxU16, dstPort : 0 .. MaxU16,
         protocol : validProtocols \ {None}, action : {"drop", "rate_limit"},
         rate : 0 .. MaxU32, lenMin : 0 .. MaxU16, lenMax : 0 .. MaxU16,
         flags : [set : SUBSET validTcpFlags, clear : SUBSET validTcpFlags],
         anomaly : SUBSET validBits, enabled : BOOLEAN]

\* What the node holds of them.
Entries == [cidr : BOOLEAN,
            key : [src : Addrs \cup Nets \cup {None}, dst : Addrs \cup Nets \cup {None},
                   srcPort : 0 .. MaxU16, dstPort : 0 .. MaxU16, protocol : validProtocols],
            val : [action : {"drop", "rate_limit"}, rate : 0 .. MaxU32,
                   lenMin : 0 .. MaxU16, lenMax : 0 .. MaxU16,
                   flags : [set : SUBSET validTcpFlags, clear : SUBSET validTcpFlags],
                   anomaly : SUBSET validBits]]

ASSUME NoneAssumption == None \notin Rows \cup Entries

\* What a rule has to be to mean something on the data path: a limiter with a
\* rate and a drop without one, no ports where there are none, a length range
\* that is not empty and not alone, flags that do not contradict and belong to
\* TCP, anomaly bits on a bounded IPv4 (or, for "invalid", any) target without
\* flags, addresses or networks.
Sound(r) ==
  /\ r \in Rows
  /\ (r.action = "rate_limit") <=> (r.rate > 0)
  /\ r.srcPort + r.dstPort > 0 => r.protocol \in {"all", "tcp", "udp"}
  /\ r.lenMin > 0 /\ r.lenMax > 0 => r.lenMin <= r.lenMax
  /\ r.lenMin + r.lenMax > 0 =>
       \/ {r.srcIP, r.dstIP, r.srcCIDR, r.dstCIDR} # {None}
       \/ r.srcPort + r.dstPort > 0 \/ r.protocol # "all"
  /\ r.flags # NoFlags => r.protocol = "tcp" /\ r.anomaly = {}
  /\ r.flags.set \cap r.flags.clear = {}
  /\ {r.srcIP, r.dstIP} = {None} \/ {r.srcCIDR, r.dstCIDR} = {None}
  /\ r.anomaly # {} =>
       /\ r.action = "drop"
       /\ {r.srcIP, r.dstIP, r.srcCIDR, r.dstCIDR} \cap (Hosts4 \cup Hosts6 \cup (Nets \ Default)) # {}
  /\ "bad_fragment" \in r.anomaly =>
       {r.srcIP, r.dstIP, r.srcCIDR, r.dstCIDR} \subseteq Hosts4 \cup Nets4 \cup {Any4, None}

\* Whatever creates, merges, batches, partial updates and deletes follow each other,
\* every row is a sound rule: no chain of edits, each checked against the row it read
\* only, leads to a combination Create would have refused.
WellFormed == \A i \in Ids : rules[i] # None => Sound(rules[i])

\* The agent refuses no rule of the controller as invalid: the two lists of checks,
\* kept by hand in two programs, agree on all the controller stores.
Agreed == \A i \in Ids : pushed[i] # "invalid"

Quiet == \A h \in Handlers : job[h] = Idle

\* The packets a row is about, from its own fields.
Means(r, p) ==
  /\ r.srcIP \in {None, Any4, Any6, p.src}
  /\ r.dstIP \in {None, Any4, Any6, p.dst}
  /\ r.srcCIDR # None => p.src \in Covers[r.srcCIDR]
  /\ r.dstCIDR # None => p.dst \in Covers[r.dstCIDR]
  /\ r.srcPort # 0 => p.srcPort = r.srcPort /\ p.protocol \in {"tcp", "udp"}
  /\ r.dstPort # 0 => p.dstPort = r.dstPort /\ p.protocol \in {"tcp", "udp"}
  /\ r.protocol \in {"all", p.protocol}
  /\ r.lenMin > 0 => p.len >= r.lenMin
  /\ r.lenMax > 0 => p.len <= r.lenMax
  /\ r.flags.set \subseteq p.flags /\ r.flags.clear \cap p.flags = {}
  /\ r.anomaly # {} => r.anomaly \cap p.anomaly # {}

\* The agent refused the rule for another one's key.  0.0.0.0 and :: are addresses
\* to the table and wildcards to the agent, so two rows may share a key.
Refused(i) ==
  /\ pushed[i] = "taken"
  /\ ~isCIDR(rules[i]) /\ {rules[i].srcIP, rules[i].dstIP} \cap {None, Any4, Any6} # {}

\* With one request served at a time: once it is, every packet an enabled rule is
\* about is dropped or rate limited, unless the rule has no field at all or was
\* refused for the key of another.  Classification by the agent, the probes of the programs and
\* the order of the four lookups lose no rule.
Acted ==
  Quiet => \A i \in Ids : rules[i] # None =>
    (rules[i].enabled /\ SetFields(ruleToKey(rules[i])) # {} /\ ~Refused(i)
      => \A p \in Packets : Means(rules[i], p) => actedOn(p, Installed))

\* And no other packet is: a disabled, deleted or narrowed rule stops nothing, and
\* no wildcard of a probe matches more than the rule says.
NothingElse ==
  Quiet => \A p \in Packets :
    actedOn(p, Installed) => \E r \in Stored(rules) : r.enabled /\ Means(r, p)

NoChange == [decoder |-> None, srcIP |-> None, dstIP |-> None, srcCIDR |-> None, dstCIDR |-> None,
             srcPort |-> 0, dstPort |-> 0, protocol |-> None, action |-> None, rate |-> 0,
             lenMin |-> <<>>, lenMax |-> <<>>, flags |-> <<>>, anomaly |-> {}, enabled |-> <<>>]

=============================================================================
