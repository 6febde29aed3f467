----------------------------- MODULE NodeRules -----------------------------
(***************************************************************************)
(* The node agent's exact-rule store and the BPF maps behind it.           *)
(*                                                                         *)
(* The agent keeps every rule twice: in memory (rules, ruleKeyIndex,       *)
(* comboRefCount) and in the kernel (the pair blacklist / blacklist_b, the *)
(* pair config_a / config_b and the selector active_config).  Handlers     *)
(* hold syncMu, publishMu and rulesMu from the first map write to the      *)
(* last, so they never interleave with each other; packets take no lock    *)
(* and run between any two map writes.  Hence one action per map write     *)
(* that a packet can see, and one handler at a time.                       *)
(*                                                                         *)
(* AddRule, AddRuleFromSync and AddRulesBatch do the same to each rule and *)
(* publish once at the end: a single add is a batch of one.  So are        *)
(* DeleteRule and DeleteRulesBatch.                                        *)
(*                                                                         *)
(* A map operation may fail.  MaxOpFaults bounds the failures one request  *)
(* meets, MaxFaults those of a whole behaviour; Faulty names the kinds of  *)
(* operation that fail at all.                                             *)
(***************************************************************************)
EXTENDS Integers, FiniteSets, Sequences

CONSTANTS
  Ids,          \* rule ids
  Keys,         \* five-tuples (rule_key)
  Combos,       \* supported combo types
  Combo,        \* Combo[k]: the combo type of k, None when unsupported
  Plain,        \* a value with match_anomaly = 0
  Anomaly,      \* a value with match_anomaly # 0
  None,         \* "absent": no rule, no owner, no map entry
  AddBatches,   \* the add requests clients send: sequences of items
  DelBatches,   \* the delete requests: sequences of ids
  SyncBatches,  \* the full-sync requests: sequences of items
  Faulty,       \* which of "insert", "delete", "publish", "clear" may fail
  MaxOpFaults,  \* bound: failed map operations during one request
  MaxFaults     \* bound: failed map operations during a behaviour

Vals  == {Plain, Anomaly}
Rule  == [key : Keys, val : Vals]
Item  == [id : Ids, key : Keys, val : Vals]
Slots == {0, 1}

ASSUME ConstantsAssumption ==
  /\ IsFiniteSet(Ids)
  /\ None \notin Ids /\ None \notin Vals /\ None \notin Rule /\ None \notin Combos
  /\ Plain # Anomaly
  /\ Combo \in [Keys -> Combos \cup {None}]
  /\ AddBatches \subseteq Seq(Item) \ {<<>>}
  /\ DelBatches \subseteq Seq(Ids) \ {<<>>}
  /\ SyncBatches \subseteq Seq(Item)
  /\ MaxOpFaults \in Nat /\ MaxFaults \in Nat

VARIABLES
  rules,           \* h.rules: the rule of each id, or None
  ruleKeyIndex,    \* h.ruleKeyIndex: the id that owns each key, or None
  comboRefCount,   \* h.comboRefCount
  activeRuleSlot,  \* h.activeRuleSlot: which of the two blacklists is active
  bl,              \* the maps blacklist (slot 0) and blacklist_b (slot 1)
  cfg,             \* the maps config_a (slot 0) and config_b (slot 1)
  activeConfig,    \* the map active_config, mirrored by h.activeSlot
  pc,              \* the next step of the running handler
  kind,            \* which handler runs: "add", "del", "sync" or "none"
  todo,            \* request items not looked at yet
  ids,             \* ids still to be deleted
  prepared,        \* validated items, one per id
  done,            \* succeeded items with what they replaced
  delta,           \* change of the rule count to publish
  shadow,          \* the tables DoAtomicSync builds before the flip
  committed,       \* the rules in force: what the last completed request left
  targets,         \* the ids the running add or delete names
  faults, opFaults \* failed map operations so far, in all and in this request

maps   == <<bl, cfg, activeConfig>>
memory == <<rules, ruleKeyIndex, comboRefCount, activeRuleSlot>>
local  == <<kind, todo, ids, prepared, done, delta, shadow>>
ghost  == <<committed, targets>>
fvars  == <<faults, opFaults>>
vars   == <<maps, memory, pc, local, ghost, fvars>>

-----------------------------------------------------------------------------
(* Helpers *)

Other(s) == 1 - s
Count(S) == Cardinality(S)
One(b)   == IF b THEN 1 ELSE 0

\* The ids of a rule table that hold a rule, and those with a given combo.
Present(t)    == {i \in Ids : t[i] # None}
OfCombo(t, c) == {i \in Present(t) : Combo[t[i].key] = c}
Anomalies(t)  == {i \in Present(t) : t[i].val = Anomaly}

\* The combo type of a table entry is c.
IsCombo(r, c) == r # None /\ Combo[r.key] = c

Config == [bitmap : SUBSET Combos, blCount : Nat, ruleSel : Slots, anomaly : Nat]

EmptyTable == [i \in Ids |-> None]
EmptyIndex == [k \in Keys |-> None]
NoShadow   == [rules |-> EmptyTable, index |-> EmptyIndex,
               combo |-> [c \in Combos |-> 0], count |-> 0, failed |-> FALSE]

\* A map operation of the given kind fails.
Fault(op) ==
  /\ op \in Faulty
  /\ faults < MaxFaults /\ opFaults < MaxOpFaults
  /\ faults' = faults + 1 /\ opFaults' = opFaults + 1

NoFault == UNCHANGED fvars

-----------------------------------------------------------------------------
Init ==
  /\ rules = EmptyTable
  /\ ruleKeyIndex = EmptyIndex
  /\ comboRefCount = [c \in Combos |-> 0]
  /\ activeRuleSlot = 0
  /\ bl = [s \in Slots |-> EmptyIndex]
  /\ cfg = [s \in Slots |-> [bitmap |-> {}, blCount |-> 0, ruleSel |-> 0, anomaly |-> 0]]
  /\ activeConfig = 0
  /\ pc = "idle" /\ kind = "none"
  /\ todo = <<>> /\ ids = <<>> /\ prepared = <<>> /\ done = <<>>
  /\ delta = 0
  /\ shadow = NoShadow
  /\ committed = EmptyTable /\ targets = {}
  /\ faults = 0 /\ opFaults = 0

\* The handler returns: it leaves the lock and its locals are garbage.
Return ==
  /\ pc' = "idle" /\ kind' = "none"
  /\ todo' = <<>> /\ ids' = <<>> /\ prepared' = <<>> /\ done' = <<>>
  /\ delta' = 0 /\ shadow' = NoShadow
  /\ targets' = {}

-----------------------------------------------------------------------------
(* AddRule, AddRuleFromSync, AddRulesBatch *)

\* Per-rule validation: unsupported combos and unparsable rules are refused.
Valid(it) == Combo[it.key] \in Combos

BeginAdd(b) ==
  /\ pc = "idle"
  /\ pc' = "prepare" /\ kind' = "add" /\ todo' = b
  /\ targets' = {b[n].id : n \in DOMAIN b}
  /\ opFaults' = 0
  /\ UNCHANGED <<maps, memory, ids, prepared, done, delta, shadow, committed, faults>>

\* Bug variant of KeepLast: no lookup of an earlier item with this id.
KeepLastAll(s, it) == Append(s, it)

\* Keep one prepared item per id: a later one takes the earlier one's place.
KeepLast(s, it) ==
  IF \E n \in DOMAIN s : s[n].id = it.id
  THEN [n \in DOMAIN s |-> IF s[n].id = it.id THEN it ELSE s[n]]
  ELSE Append(s, it)

PrepareItem ==
  /\ pc = "prepare" /\ todo # <<>>
  /\ prepared' = IF Valid(Head(todo)) THEN KeepLast(prepared, Head(todo)) ELSE prepared
  /\ todo' = Tail(todo)
  /\ UNCHANGED <<maps, memory, pc, kind, ids, done, delta, shadow, ghost, fvars>>

\* Take the lock (lines 495-498).
LockAdd ==
  /\ pc = "prepare" /\ todo = <<>>
  /\ pc' = "insert"
  /\ UNCHANGED <<maps, memory, local, ghost, fvars>>

\* The key belongs to another id, or BPF_NOEXIST would refuse it.
Refused(it) ==
  \/ ruleKeyIndex[it.key] \notin {None, it.id}
  \/ bl[activeRuleSlot][it.key] # None

\* The item moves an existing rule to another key.
Moves(it) == rules[it.id] # None /\ rules[it.id].key # it.key

SkipItem ==
  /\ prepared' = Tail(prepared) /\ pc' = "insert"
  /\ UNCHANGED <<memory, kind, todo, ids, done, delta, shadow, ghost>>

RefuseItem ==
  /\ pc = "insert" /\ prepared # <<>>
  /\ \/ Refused(Head(prepared)) /\ NoFault
     \/ ~Refused(Head(prepared)) /\ Fault("insert")
  /\ SkipItem
  /\ UNCHANGED maps

\* Bug variant of Recount: the new combo of a replaced rule is not counted.
RecountOldOnly(k, old) ==
  [c \in Combos |-> comboRefCount[c] + One(c = Combo[k] /\ old = None) - One(IsCombo(old, c))]

\* The reference counts after key k came in for the rule old (or for none).
Recount(k, old) ==
  [c \in Combos |-> comboRefCount[c] + One(c = Combo[k]) - One(IsCombo(old, c))]

\* Bug variant of Reindex: the key of the replaced rule stays in the index.
ReindexKeepOld(it, old) == [ruleKeyIndex EXCEPT ![it.key] = it.id]

\* The key index after the item took the place of the rule old.
Reindex(it, old) ==
  [k \in Keys |-> IF k = it.key THEN it.id
                  ELSE IF old # None /\ k = old.key THEN None ELSE ruleKeyIndex[k]]

\* Memory update of one item: reference counts, index, rule table.
CommitItem(it) ==
  LET old == rules[it.id] IN
  /\ comboRefCount' = Recount(it.key, old)
  /\ ruleKeyIndex' = Reindex(it, old)
  /\ rules' = [rules EXCEPT ![it.id] = [key |-> it.key, val |-> it.val]]
  /\ done' = Append(done, [id |-> it.id, key |-> it.key, old |-> old])
  /\ delta' = delta + One(old = None)
  /\ prepared' = Tail(prepared) /\ pc' = "insert"
  /\ UNCHANGED <<activeRuleSlot, kind, todo, ids, shadow, ghost>>

InsertItem ==
  LET it == Head(prepared) IN
  /\ pc = "insert" /\ prepared # <<>>
  /\ ~Refused(it) /\ NoFault
  /\ bl' = [bl EXCEPT ![activeRuleSlot][it.key] = it.val]
  /\ IF Moves(it)
     THEN pc' = "delold" /\ UNCHANGED <<memory, local, ghost>>
     ELSE CommitItem(it)
  /\ UNCHANGED <<cfg, activeConfig>>

\* The new entry is in; the old one goes before memory and config change.
DeleteOld ==
  LET it == Head(prepared) IN
  /\ pc = "delold"
  /\ bl[activeRuleSlot][rules[it.id].key] # None /\ NoFault
  /\ bl' = [bl EXCEPT ![activeRuleSlot][rules[it.id].key] = None]
  /\ CommitItem(it)
  /\ UNCHANGED <<cfg, activeConfig>>

\* The old entry cannot be deleted (it is missing, or the call fails): abort the item.
DeleteOldFails ==
  /\ pc = "delold"
  /\ \/ bl[activeRuleSlot][rules[Head(prepared).id].key] = None /\ NoFault
     \/ bl[activeRuleSlot][rules[Head(prepared).id].key] # None /\ Fault("delete")
  /\ pc' = "abort"
  /\ UNCHANGED <<maps, memory, local, ghost>>

\* Bug variant of AbortItem: the entry just inserted is left behind.
AbortItemLeave ==
  /\ pc = "abort" /\ NoFault
  /\ SkipItem
  /\ UNCHANGED maps

\* Best-effort removal of the entry just inserted.
AbortItem ==
  LET it == Head(prepared) IN
  /\ pc = "abort"
  /\ \/ NoFault /\ bl' = [bl EXCEPT ![activeRuleSlot][it.key] = None]
     \/ Fault("delete") /\ UNCHANGED bl
  /\ SkipItem
  /\ UNCHANGED <<cfg, activeConfig>>

\* All items done: publish once, unless none succeeded.
FinishItems ==
  /\ pc = "insert" /\ prepared = <<>>
  /\ \/ /\ done # <<>> /\ pc' = "copy"
        /\ UNCHANGED <<local, targets>>
     \/ done = <<>> /\ Return
  /\ UNCHANGED <<maps, memory, committed, fvars>>

-----------------------------------------------------------------------------
(* publishConfigUpdate: copy active to shadow, rebuild, flip the selector *)

\* Bug variant of PubCopy: the shadow keeps what it held two publishes ago.
PubCopySkip ==
  /\ pc = "copy" /\ NoFault
  /\ pc' = "write"
  /\ UNCHANGED <<maps, memory, local, ghost>>

PubCopy ==
  /\ pc = "copy" /\ NoFault
  /\ cfg' = [cfg EXCEPT ![Other(activeConfig)] = cfg[activeConfig]]
  /\ pc' = "write"
  /\ UNCHANGED <<bl, activeConfig, memory, local, ghost>>

\* Bug variant of PubWrite: the rule count does not start from the copied one.
PubWriteNoBase ==
  LET s == Other(activeConfig) IN
  /\ pc = "write" /\ NoFault
  /\ cfg' = [cfg EXCEPT ![s] =
               [bitmap  |-> {c \in Combos : comboRefCount[c] > 0},
                blCount |-> delta,
                ruleSel |-> @.ruleSel,
                anomaly |-> Count(Anomalies(rules))]]
  /\ pc' = "flip"
  /\ UNCHANGED <<bl, activeConfig, memory, local, ghost>>

\* The bitmap and the anomaly count are rebuilt, the rule count moves by delta.
PubWrite ==
  LET s == Other(activeConfig) IN
  /\ pc = "write" /\ NoFault
  /\ cfg' = [cfg EXCEPT ![s] =
               [bitmap  |-> {c \in Combos : comboRefCount[c] > 0},
                blCount |-> IF @.blCount + delta < 0 THEN 0 ELSE @.blCount + delta,
                ruleSel |-> @.ruleSel,
                anomaly |-> Count(Anomalies(rules))]]
  /\ pc' = "flip"
  /\ UNCHANGED <<bl, activeConfig, memory, local, ghost>>

PubFlip ==
  /\ pc = "flip" /\ NoFault
  /\ activeConfig' = Other(activeConfig)
  /\ committed' = rules
  /\ Return
  /\ UNCHANGED <<bl, cfg, memory>>

\* A failed publish undoes an add; a delete stands ("safe direction").
PubFail ==
  /\ pc \in {"copy", "write", "flip"} /\ Fault("publish")
  /\ \/ /\ kind = "add" /\ pc' = "rollback"
        /\ UNCHANGED <<local, ghost>>
     \/ kind = "del" /\ committed' = rules /\ Return
  /\ UNCHANGED <<maps, memory>>

\* Bug variant of RollbackItem: a replaced rule is not put back into the table.
RollbackItemForget ==
  LET d   == Head(done)
      old == d.old
  IN
  /\ pc = "rollback" /\ done # <<>>
  /\ NoFault /\ bl' = [bl EXCEPT ![activeRuleSlot][d.key] = None]
  /\ comboRefCount' = [c \in Combos |-> comboRefCount[c] - One(c = Combo[d.key])]
  /\ ruleKeyIndex' = [ruleKeyIndex EXCEPT ![d.key] = None]
  /\ rules' = [rules EXCEPT ![d.id] = None]
  /\ done' = Tail(done) /\ UNCHANGED pc
  /\ UNCHANGED <<cfg, activeConfig, activeRuleSlot, kind, todo, ids, prepared,
                 delta, shadow, ghost>>

\* One item of the rollback, in the order the items were added: drop the new
\* entry (best effort) and put the memory back.
RollbackItem ==
  LET d   == Head(done)
      old == d.old
  IN
  /\ pc = "rollback" /\ done # <<>>
  /\ \/ NoFault /\ bl' = [bl EXCEPT ![activeRuleSlot][d.key] = None]
     \/ Fault("delete") /\ UNCHANGED bl
  /\ comboRefCount' = [c \in Combos |-> comboRefCount[c]
                         - One(c = Combo[d.key]) + One(IsCombo(old, c))]
  /\ ruleKeyIndex' = [k \in Keys |-> IF old # None /\ k = old.key THEN d.id
                                     ELSE IF k = d.key THEN None
                                     ELSE ruleKeyIndex[k]]
  /\ rules' = [rules EXCEPT ![d.id] = old]
  /\ IF old # None /\ old.key # d.key
     THEN pc' = "reinsert" /\ UNCHANGED done
     ELSE done' = Tail(done) /\ UNCHANGED pc
  /\ UNCHANGED <<cfg, activeConfig, activeRuleSlot, kind, todo, ids, prepared,
                 delta, shadow, ghost>>

\* Put the replaced entry back (best effort, BPF_NOEXIST).
Reinsert ==
  LET old == Head(done).old IN
  /\ pc = "reinsert"
  /\ \/ /\ bl[activeRuleSlot][old.key] = None /\ NoFault
        /\ bl' = [bl EXCEPT ![activeRuleSlot][old.key] = old.val]
     \/ bl[activeRuleSlot][old.key] # None /\ NoFault /\ UNCHANGED bl
     \/ bl[activeRuleSlot][old.key] = None /\ Fault("insert") /\ UNCHANGED bl
  /\ done' = Tail(done) /\ pc' = "rollback"
  /\ UNCHANGED <<cfg, activeConfig, memory, kind, todo, ids, prepared, delta,
                 shadow, ghost>>

FinishRollback ==
  /\ pc = "rollback" /\ done = <<>>
  /\ Return
  /\ UNCHANGED <<maps, memory, committed, fvars>>

-----------------------------------------------------------------------------
(* DeleteRule, DeleteRulesBatch *)

BeginDelete(b) ==
  /\ pc = "idle"
  /\ pc' = "delete" /\ kind' = "del" /\ ids' = b
  /\ targets' = {b[n] : n \in DOMAIN b}
  /\ opFaults' = 0
  /\ UNCHANGED <<maps, memory, todo, prepared, done, delta, shadow, committed, faults>>

\* The id names a rule and the rule's entry is in the map.
Deletable(i) == rules[i] # None /\ bl[activeRuleSlot][rules[i].key] # None

\* Unknown id, missing entry or failing call: nothing changes for this id.
DeleteFails ==
  /\ pc = "delete" /\ ids # <<>>
  /\ \/ ~Deletable(Head(ids)) /\ NoFault
     \/ Deletable(Head(ids)) /\ Fault("delete")
  /\ ids' = Tail(ids)
  /\ UNCHANGED <<maps, memory, pc, kind, todo, prepared, done, delta, shadow, ghost>>

DeleteItem ==
  LET i == Head(ids)
      r == rules[i]
  IN
  /\ pc = "delete" /\ ids # <<>>
  /\ Deletable(i) /\ NoFault
  /\ bl' = [bl EXCEPT ![activeRuleSlot][r.key] = None]
  /\ comboRefCount' = [c \in Combos |-> comboRefCount[c] - One(IsCombo(r, c))]
  /\ ruleKeyIndex' = [ruleKeyIndex EXCEPT ![r.key] = None]
  /\ rules' = [rules EXCEPT ![i] = None]
  /\ ids' = Tail(ids) /\ delta' = delta - 1
  /\ UNCHANGED <<cfg, activeConfig, activeRuleSlot, pc, kind, todo, prepared, done,
                 shadow, ghost>>

FinishDelete ==
  /\ pc = "delete" /\ ids = <<>>
  /\ \/ /\ delta # 0 /\ pc' = "copy"
        /\ UNCHANGED <<local, targets>>
     \/ delta = 0 /\ Return
  /\ UNCHANGED <<maps, memory, committed, fvars>>

-----------------------------------------------------------------------------
(* DoAtomicSync *)

BeginSync(b) ==
  /\ pc = "idle"
  /\ pc' = "clear" /\ kind' = "sync" /\ todo' = b
  /\ opFaults' = 0
  /\ UNCHANGED <<maps, memory, ids, prepared, done, delta, shadow, ghost, faults>>

\* clearMap: every entry is deleted, or some deletes fail and their entries stay.
ClearMap(s) ==
  \/ NoFault /\ bl' = [bl EXCEPT ![s] = EmptyIndex]
  \/ /\ Fault("clear")
     /\ \E kept \in SUBSET {k \in Keys : bl[s][k] # None} :
          /\ kept # {}
          /\ bl' = [bl EXCEPT ![s] = [k \in Keys |-> IF k \in kept THEN bl[s][k] ELSE None]]

\* The error clearMap returns is not looked at.
SyncClear ==
  /\ pc = "clear"
  /\ ClearMap(Other(activeRuleSlot))
  /\ pc' = "fill"
  /\ UNCHANGED <<cfg, activeConfig, memory, local, ghost>>

SyncItem ==
  LET it == Head(todo)
      s  == Other(activeRuleSlot)
  IN
  /\ pc = "fill" /\ todo # <<>>
  /\ todo' = Tail(todo)
  /\ \/ /\ Valid(it) /\ bl[s][it.key] = None /\ NoFault
        /\ bl' = [bl EXCEPT ![s][it.key] = it.val]
        /\ shadow' = [shadow EXCEPT !.rules[it.id] = [key |-> it.key, val |-> it.val],
                                    !.index[it.key] = it.id,
                                    !.combo[Combo[it.key]] = @ + 1,
                                    !.count = @ + 1]
     \/ /\ \/ (~Valid(it) \/ bl[s][it.key] # None) /\ NoFault
           \/ Valid(it) /\ bl[s][it.key] = None /\ Fault("insert")
        /\ shadow' = [shadow EXCEPT !.failed = TRUE]
        /\ UNCHANGED bl
  /\ UNCHANGED <<cfg, activeConfig, memory, pc, kind, ids, prepared, done, delta, ghost>>

\* Any failed item aborts the sync without a flip.
SyncAbort ==
  /\ pc = "fill" /\ todo = <<>> /\ shadow.failed
  /\ Return
  /\ UNCHANGED <<maps, memory, committed, fvars>>

\* Bug variant of SyncConfig: the new config still selects the old rule map, and
\* a sync with failed items is published too.
SyncConfigSloppy ==
  LET s == Other(activeConfig) IN
  /\ pc = "fill" /\ todo = <<>>
  /\ NoFault
  /\ cfg' = [cfg EXCEPT ![s] = [bitmap  |-> {c \in Combos : shadow.combo[c] > 0},
                                blCount |-> shadow.count,
                                ruleSel |-> activeRuleSlot,
                                anomaly |-> Count(Anomalies(shadow.rules))]]
  /\ pc' = "swap"
  /\ UNCHANGED <<bl, activeConfig, memory, local, ghost>>

\* Step 3.  The active config is copied first and the errors of that copy are dropped
\* (sync.go:506); every field kept here is overwritten after it, so none shows.
SyncConfig ==
  LET s == Other(activeConfig) IN
  /\ pc = "fill" /\ todo = <<>> /\ ~shadow.failed
  /\ NoFault
  /\ cfg' = [cfg EXCEPT ![s] = [bitmap  |-> {c \in Combos : shadow.combo[c] > 0},
                                blCount |-> shadow.count,
                                ruleSel |-> Other(activeRuleSlot),
                                anomaly |-> Count(Anomalies(shadow.rules))]]
  /\ pc' = "swap"
  /\ UNCHANGED <<bl, activeConfig, memory, local, ghost>>

\* Steps 4 and 5: flip active_config, then install the new tables in memory.
SyncFlip ==
  /\ pc = "swap" /\ NoFault
  /\ activeConfig' = Other(activeConfig)
  /\ activeRuleSlot' = Other(activeRuleSlot)
  /\ rules' = shadow.rules
  /\ ruleKeyIndex' = shadow.index
  /\ comboRefCount' = shadow.combo
  /\ committed' = shadow.rules
  /\ pc' = "cleanup"
  /\ UNCHANGED <<bl, cfg, local, targets>>

\* Writing the shadow config or flipping fails: return without a flip.
SyncPublishFails ==
  /\ \/ pc = "fill" /\ todo = <<>> /\ ~shadow.failed
     \/ pc = "swap"
  /\ Fault("publish")
  /\ Return
  /\ UNCHANGED <<maps, memory, committed>>

\* Step 6: clear the map that was active until the flip; failures are logged.
SyncCleanup ==
  /\ pc = "cleanup"
  /\ ClearMap(Other(activeRuleSlot))
  /\ Return
  /\ UNCHANGED <<cfg, activeConfig, memory, committed>>

-----------------------------------------------------------------------------
Publish  == PubCopy \/ PubWrite \/ PubFlip \/ PubFail
Add      == \/ \E b \in AddBatches : BeginAdd(b)
            \/ PrepareItem \/ LockAdd \/ RefuseItem \/ InsertItem
            \/ DeleteOld \/ DeleteOldFails \/ AbortItem \/ FinishItems
            \/ RollbackItem \/ Reinsert \/ FinishRollback
Delete   == \/ \E b \in DelBatches : BeginDelete(b)
            \/ DeleteFails \/ DeleteItem \/ FinishDelete
Sync     == \/ \E b \in SyncBatches : BeginSync(b)
            \/ SyncClear \/ SyncItem \/ SyncAbort \/ SyncConfig \/ SyncFlip
            \/ SyncPublishFails \/ SyncCleanup

Next == Add \/ Delete \/ Sync \/ Publish

Spec == Init /\ [][Next]_vars

-----------------------------------------------------------------------------
(* Properties *)

Done == [id : Ids, key : Keys, old : Rule \cup {None}]

MemoryOK ==
  /\ rules \in [Ids -> Rule \cup {None}]
  /\ ruleKeyIndex \in [Keys -> Ids \cup {None}]
  /\ comboRefCount \in [Combos -> Int]
  /\ activeRuleSlot \in Slots

MapsOK ==
  /\ bl \in [Slots -> [Keys -> Vals \cup {None}]]
  /\ cfg \in [Slots -> Config]
  /\ activeConfig \in Slots

LocalOK ==
  /\ pc \in {"idle", "prepare", "insert", "delold", "abort", "copy", "write", "flip",
             "rollback", "reinsert", "delete", "clear", "fill", "swap", "cleanup"}
  /\ kind \in {"none", "add", "del", "sync"}
  /\ todo \in Seq(Item) /\ ids \in Seq(Ids) /\ prepared \in Seq(Item)
  /\ done \in Seq(Done)
  /\ delta \in Int
  /\ shadow \in [rules : [Ids -> Rule \cup {None}], index : [Keys -> Ids \cup {None}],
                 combo : [Combos -> Nat], count : Nat, failed : BOOLEAN]

GhostOK ==
  /\ committed \in [Ids -> Rule \cup {None}]
  /\ targets \in SUBSET Ids
  /\ faults \in Nat /\ opFaults \in Nat

\* Every variable has the type the Go and BPF structures give it.
TypeOK == MemoryOK /\ MapsOK /\ LocalOK /\ GhostOK

\* What lookup_rule needs from the active config to reach rule r at all: the
\* rule count is not zero, the bit of r's combo is set, and for an anomaly rule
\* the dispatch counter is not zero.
Reachable(r) ==
  LET c == cfg[activeConfig] IN
  /\ c.blCount > 0
  /\ Combo[r.key] \in c.bitmap
  /\ r.val = Anomaly => c.anomaly > 0

\* A packet that hits r now, and reads the maps at one instant, finds r.
Blocks(r) == Reachable(r) /\ bl[cfg[activeConfig].ruleSel][r.key] = r.val

\* No rule in force is ever hidden by the published config, at any step of any
\* handler and whatever map operations fail: publishConfigUpdate and
\* DoAtomicSync never publish a count of zero or a cleared bit over a live rule.
NeverHidden ==
  /\ cfg[activeConfig].blCount >= Count(Present(committed))
  /\ \A i \in Present(committed) : Reachable(committed[i])

\* Between requests the agent's rule table is the one its last successful
\* request left: a failed add has been undone completely.
RollbackRestores == pc = "idle" => rules = committed

\* Every rule in force that the running request does not name is enforced at
\* every step of the request: the entry is in the map the config selects, and
\* the config lets the lookup reach it.  Full sync has no instant without rules.
Enforced == \A i \in Present(committed) \ targets : Blocks(committed[i])

\* Between requests the key index is exactly the inverse of the rule table.
IndexInverse ==
  pc = "idle" =>
    \A k \in Keys, i \in Ids :
      ruleKeyIndex[k] = i <=> (rules[i] # None /\ rules[i].key = k)

\* Between requests the active map holds no entry without a rule: nothing is
\* dropped that the API cannot list and delete.
NoOrphan ==
  pc = "idle" =>
    \A k \in Keys : bl[activeRuleSlot][k] # None =>
      \E i \in Ids : rules[i] # None /\ rules[i].key = k

-----------------------------------------------------------------------------
(* The inductive invariant behind NeverHidden and RollbackRestores *)

LegalRule  == {r \in Rule : Combo[r.key] \in Combos} \cup {None}
LegalTable == [Ids -> LegalRule]

\* Config c lets the lookup reach every rule of table t.
Covers(c, t) ==
  /\ c.blCount >= Count(Present(t))
  /\ \A i \in Present(t) : /\ Combo[t[i].key] \in c.bitmap
                           /\ t[i].val = Anomaly => c.anomaly > 0

IdsOf(s)    == {s[n].id : n \in DOMAIN s}
Distinct(s) == \A m, n \in DOMAIN s : s[m].id = s[n].id => m = n

\* The succeeded items whose change of the rule table has not been undone.
Pending == IF pc = "reinsert" THEN Tail(done) ELSE done

\* Which handler is at which step, and which local it is about to use.
Control ==
  /\ pc = "idle" => kind = "none" /\ delta = 0 /\ prepared = <<>> /\ done = <<>>
  /\ pc \in {"prepare", "insert", "delold", "abort", "rollback", "reinsert"} => kind = "add"
  /\ pc \in {"copy", "write", "flip"} => kind \in {"add", "del"}
  /\ pc = "delete" => kind = "del"
  /\ pc \in {"clear", "fill", "swap", "cleanup"} => kind = "sync"
  /\ pc = "prepare" => done = <<>>
  /\ pc \in {"delold", "abort"} => prepared # <<>> /\ Moves(Head(prepared))
  /\ pc = "reinsert" => done # <<>> /\ Head(done).old # None

\* Only rules of supported combos get past validation.
OnlyLegal ==
  /\ rules \in LegalTable /\ committed \in LegalTable /\ shadow.rules \in LegalTable
  /\ \A n \in DOMAIN prepared : Valid(prepared[n])

\* During an add, the table is the one in force except where a succeeded item
\* changed it, and that item remembers what was in force.
AddUndoable ==
  kind = "add" =>
    /\ Distinct(prepared) /\ Distinct(Pending)
    /\ IdsOf(prepared) \cap IdsOf(Pending) = {}
    /\ \A n \in DOMAIN Pending :
         LET d == Pending[n] IN
         /\ d.old = committed[d.id]
         /\ rules[d.id] # None /\ rules[d.id].key = d.key
    /\ \A i \in Ids \ IdsOf(Pending) : rules[i] = committed[i]

\* During a delete, the table is the one in force without the deleted rules.
DeleteShrinks ==
  kind = "del" =>
    /\ \A i \in Ids : rules[i] \in {committed[i], None}
    /\ delta <= 0
    /\ delta = 0 => rules = committed

Untouched == kind \in {"none", "sync"} => rules = committed

\* The reference counts and the pending change of the rule count.
CountsCover ==
  /\ \A c \in Combos : comboRefCount[c] >= Count(OfCombo(rules, c))
  /\ \A c \in Combos : shadow.combo[c] >= Count(OfCombo(shadow.rules, c))
  /\ shadow.count >= Count(Present(shadow.rules))
  /\ pc \in {"prepare", "insert", "delold", "abort", "copy", "write", "delete"} =>
       Count(Present(rules)) = Count(Present(committed)) + delta

\* The active config covers the rules in force, the shadow config what the next
\* flip puts in force.
ConfigsCover ==
  /\ Covers(cfg[activeConfig], committed)
  /\ pc = "write" => cfg[Other(activeConfig)].blCount = cfg[activeConfig].blCount
  /\ pc = "flip"  => Covers(cfg[Other(activeConfig)], rules)
  /\ pc = "swap"  => Covers(cfg[Other(activeConfig)], shadow.rules)

\* At every step of every handler, whatever fails, the agent could undo or
\* finish what it has begun and its counters cover its rules.
IInv ==
  /\ TypeOK /\ Control /\ OnlyLegal /\ AddUndoable /\ DeleteShrinks
  /\ Untouched /\ CountsCover /\ ConfigsCover

-----------------------------------------------------------------------------
Store == INSTANCE RuleStore WITH table <- committed

\* The maps, counters, flips and rollbacks implement the rule table of
\* RuleStore: what a request leaves in force is what it asked for, applied at
\* one instant, with one rule per key.  Holds for requests of one rule with one
\* failed map operation.
ImplementsStore == Store!Spec

\* The same of batches, moves and key exchanges in them included, until a map
\* operation fails: after that the rollback of a batch breaks it (run
\* batch_rollback).
BatchesImplement == [][faults' = 0 => Store!Next \/ UNCHANGED committed]_vars
=============================================================================
