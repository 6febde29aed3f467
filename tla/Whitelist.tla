----------------------------- MODULE Whitelist -----------------------------
(***************************************************************************)
(* The whitelist of the node agent: entries that exempt traffic from every *)
(* rule.  In memory wlEntries, wlKeyIndex and wlComboRefCount; in the      *)
(* kernel the pair whitelist / whitelist_b and the config fields that say  *)
(* which of the two is active and which combo types it holds.              *)
(*                                                                         *)
(* Unlike rules, entries are inserted after the publish that announces     *)
(* them, a replaced entry leaves the map before the new one enters it, and *)
(* a failed insert is undone by a second publish.  Handlers hold syncMu,   *)
(* publishMu and wlMu throughout and so run one at a time; packets take no *)
(* lock, hence one action per map write that a packet can see.             *)
(*                                                                         *)
(* A single add or delete does what a batch of one does.                   *)
(***************************************************************************)
EXTENDS Integers, FiniteSets, SequencesExt

CONSTANTS
  Ids,          \* entry ids
  Keys,         \* five-tuples with wildcards (rule_key)
  Combos,       \* supported combo types, numbered in the order the gate tries them
  Combo,        \* Combo[k]: the combo type of k, None when unsupported
  None,         \* "absent"
  AddBatches,   \* the add requests: sequences of items
  DelBatches,   \* the delete requests: sequences of ids
  SyncBatches,  \* the full-sync requests: sequences of items
  Faulty,       \* which of "insert", "delete", "publish", "clear" may fail
  MaxOpFaults,  \* bound: failed map operations during one request
  MaxFaults     \* bound: failed map operations during a behaviour

Item  == [id : Ids, key : Keys]
Slots == {0, 1}

ASSUME WhitelistAssumption ==
  /\ IsFiniteSet(Ids)
  /\ Combos \subseteq Nat
  /\ None \notin Ids \cup Keys \cup Combos
  /\ Combo \in [Keys -> Combos \cup {None}]
  /\ AddBatches \subseteq Seq(Item) \ {<<>>}
  /\ DelBatches \subseteq Seq(Ids) \ {<<>>}
  /\ SyncBatches \subseteq Seq(Item)
  /\ MaxOpFaults \in Nat /\ MaxFaults \in Nat

VARIABLES
  wlEntries,       \* h.wlEntries: the key of each id, or None
  wlKeyIndex,      \* h.wlKeyIndex: the id that owns each key, or None
  wlComboRefCount, \* h.wlComboRefCount
  activeWLSlot,    \* h.activeWLSlot: which of the two maps is active
  wl,              \* the keys in whitelist (slot 0) and whitelist_b (slot 1)
  conf,            \* the whitelist's part of config_a (slot 0) and config_b (slot 1)
  activeConfig,    \* the map active_config, mirrored by h.activeSlot
  pc,              \* the next step of the running handler
  kind,            \* which handler runs: "add", "del", "sync", "clear" or "none"
  prepared,        \* the items of an add that change something; the items of a sync
  todo, done,      \* items the present phase has before and behind it
  ids,             \* ids still to be deleted
  delta,           \* change of the entry count to publish
  undoing,         \* the running add failed after its publish
  saved,           \* the counts a full sync restores when its publish fails
  committed,       \* history: the entries the last completed request left
  targets,         \* history: the ids whose entry the running request may change
  botched,         \* history: some step of an undo has failed
  faults, opFaults \* failed map operations, in all and in this request

maps   == <<wl, conf, activeConfig>>
table  == <<wlEntries, wlKeyIndex, wlComboRefCount>>
local  == <<kind, prepared, todo, done, ids, delta, undoing, saved>>
ghost  == <<committed, targets, botched>>
fvars  == <<faults, opFaults>>
vars   == <<maps, table, activeWLSlot, pc, local, ghost, fvars>>

-----------------------------------------------------------------------------
(* Helpers *)

Other(s) == 1 - s
Shadow   == Other(activeWLSlot)
One(b)   == IF b THEN 1 ELSE 0

EmptyTable == [i \in Ids |-> None]
EmptyIndex == [k \in Keys |-> None]
NoCounts   == [c \in Combos |-> 0]

Present(t)  == {i \in Ids : t[i] # None}
KeysOf(t)   == {t[i] : i \in Present(t)}
ItemKeys(s) == {s[n].key : n \in DOMAIN s}
ItemIds(s)  == {s[n].id : n \in DOMAIN s}

\* How many items of s have combo type c.
Number(s, c) == Cardinality({n \in DOMAIN s : Combo[s[n].key] = c})

\* One item per id, at the place of its first and with the key of its last.
Dedup(b) ==
  LET Keep(seq, it) ==
        IF it.id \in ItemIds(seq)
        THEN [n \in DOMAIN seq |-> IF seq[n].id = it.id THEN it ELSE seq[n]]
        ELSE Append(seq, it)
  IN  FoldLeft(Keep, <<>>, b)

\* The items of b that change something, and the entries they replace.
Changes(b) ==
  LET Keep(seq, it) == IF wlEntries[it.id] = it.key THEN seq ELSE Append(seq, it)
  IN  FoldLeft(Keep, <<>>, Dedup(b))
Replaced(s) ==
  LET Keep(seq, it) == IF wlEntries[it.id] = None THEN seq
                       ELSE Append(seq, [id |-> it.id, key |-> wlEntries[it.id]])
  IN  FoldLeft(Keep, <<>>, s)

DistinctKeys(s) == \A m, n \in DOMAIN s : s[m].key = s[n].key => m = n
Supported(b)    == \A n \in DOMAIN b : Combo[b[n].key] # None

Fault(op) ==
  /\ op \in Faulty
  /\ faults < MaxFaults /\ opFaults < MaxOpFaults
  /\ faults' = faults + 1 /\ opFaults' = opFaults + 1

NoFault == UNCHANGED fvars

Inserted(k) == wl' = [wl EXCEPT ![activeWLSlot] = @ \cup {k}]
Removed(k)  == wl' = [wl EXCEPT ![activeWLSlot] = @ \ {k}]

\* The handler goes to step l with the items s before it.
Phase(l, s) == pc' = l /\ todo' = s /\ done' = <<>>

Step == todo' = Tail(todo) /\ done' = Append(done, Head(todo))

-----------------------------------------------------------------------------
Init ==
  /\ wlEntries = EmptyTable /\ wlKeyIndex = EmptyIndex /\ wlComboRefCount = NoCounts
  /\ activeWLSlot = 0 /\ activeConfig = 0
  /\ wl = [s \in Slots |-> {}]
  /\ conf = [s \in Slots |-> [bitmap |-> {}, count |-> 0, sel |-> 0]]
  /\ pc = "idle" /\ kind = "none"
  /\ prepared = <<>> /\ todo = <<>> /\ done = <<>> /\ ids = <<>>
  /\ delta = 0 /\ undoing = FALSE /\ saved = NoCounts
  /\ committed = EmptyTable /\ targets = {} /\ botched = FALSE
  /\ faults = 0 /\ opFaults = 0

\* A request of kind k takes the locks; t are the ids it may change.
Begin(k, t) ==
  /\ pc = "idle"
  /\ kind' = k /\ targets' = t
  /\ opFaults' = 0
  /\ UNCHANGED <<maps, table, activeWLSlot, delta, undoing, saved, committed, botched, faults>>

\* The handler returns and leaves the entries t in force.
Return(t) ==
  /\ pc' = "idle" /\ kind' = "none"
  /\ prepared' = <<>> /\ todo' = <<>> /\ done' = <<>> /\ ids' = <<>>
  /\ delta' = 0 /\ undoing' = FALSE /\ saved' = NoCounts
  /\ committed' = t /\ targets' = {}

-----------------------------------------------------------------------------
(* Publishing: publishConfigUpdate and publishConfigUpdateForWLSync.  The   *)
(* gate reads the bitmap and the selector of a config separately, so they   *)
(* are copied and written in steps of their own; the count has no reader in *)
(* the kernel and goes with the bitmap.                                     *)

Publishing == {"copybits", "copysel", "writebits", "writesel", "flip"}
Target     == Other(activeConfig)

PubStep(l) ==
  /\ NoFault /\ pc' = l
  /\ UNCHANGED <<wl, activeConfig, table, activeWLSlot, local, ghost>>

PubCopyBits ==
  /\ pc = "copybits" /\ PubStep("copysel")
  /\ conf' = [conf EXCEPT ![Target].bitmap = conf[activeConfig].bitmap,
                          ![Target].count  = conf[activeConfig].count]

PubCopySel ==
  /\ pc = "copysel" /\ PubStep("writebits")
  /\ conf' = [conf EXCEPT ![Target].sel = conf[activeConfig].sel]

\* A full sync publishes its own count, the others a change of the copied one.
PubWriteBits ==
  LET count == conf[Target].count + delta IN
  /\ pc = "writebits" /\ PubStep("writesel")
  /\ conf' = [conf EXCEPT
       ![Target].bitmap = {c \in Combos : wlComboRefCount[c] > 0},
       ![Target].count  = IF kind = "sync" THEN Len(prepared)
                          ELSE IF count < 0 THEN 0 ELSE count]

PubWriteSel ==
  /\ pc = "writesel" /\ PubStep("flip")
  /\ conf' = [conf EXCEPT ![Target].sel = activeWLSlot]

PubFlip ==
  /\ pc = "flip" /\ NoFault
  /\ activeConfig' = Target
  /\ UNCHANGED <<wl, conf, wlComboRefCount, activeWLSlot, botched>>

\* What follows a successful publish.
FlipAdd ==
  /\ kind = "add" /\ ~undoing /\ PubFlip
  /\ Phase("insert", prepared)
  /\ UNCHANGED <<wlEntries, wlKeyIndex, kind, prepared, ids, delta, undoing, saved,
                 committed, targets>>

FlipUndo ==
  /\ undoing /\ PubFlip
  /\ Return(committed)
  /\ UNCHANGED <<wlEntries, wlKeyIndex>>

FlipDelete ==
  /\ kind \in {"del", "clear"} /\ PubFlip
  /\ Return(wlEntries)
  /\ UNCHANGED <<wlEntries, wlKeyIndex>>

\* The table of a full sync, and its inverse.
SyncEntries ==
  [i \in Ids |-> IF i \in ItemIds(prepared)
                 THEN (CHOOSE it \in ToSet(prepared) : it.id = i).key ELSE None]
SyncIndex ==
  [k \in Keys |-> IF k \in ItemKeys(prepared)
                  THEN (CHOOSE it \in ToSet(prepared) : it.key = k).id ELSE None]

FlipSync ==
  /\ kind = "sync" /\ PubFlip
  /\ wlEntries' = SyncEntries /\ wlKeyIndex' = SyncIndex
  /\ committed' = SyncEntries /\ targets' = {}
  /\ pc' = "cleanup"
  /\ UNCHANGED local

\* The counts without the running add.
Uncounted ==
  [c \in Combos |-> wlComboRefCount[c] - Number(prepared, c) + Number(Replaced(prepared), c)]

PubFails == pc \in Publishing /\ Fault("publish") /\ UNCHANGED maps

\* Bug variant of PubFailsAdd: the replaced entries' combos stay uncounted.
PubFailsAddForget ==
  /\ kind = "add" /\ ~undoing /\ PubFails
  /\ wlComboRefCount' = [c \in Combos |-> wlComboRefCount[c] - Number(prepared, c)]
  /\ Phase("reinsert", Replaced(prepared))
  /\ UNCHANGED <<wlEntries, wlKeyIndex, activeWLSlot, kind, prepared, ids, delta, undoing,
                 saved, ghost>>

PubFailsAdd ==
  /\ kind = "add" /\ ~undoing /\ PubFails
  /\ wlComboRefCount' = Uncounted
  /\ Phase("reinsert", Replaced(prepared))
  /\ UNCHANGED <<wlEntries, wlKeyIndex, activeWLSlot, kind, prepared, ids, delta, undoing,
                 saved, ghost>>

\* The second publish of a failed add fails, which is only logged.
PubFailsUndo ==
  /\ undoing /\ PubFails
  /\ botched' = TRUE
  /\ Return(committed)
  /\ UNCHANGED <<table, activeWLSlot>>

\* A delete puts back what it removed; its counts and entries at once, for they
\* have no reader before the lock is free.
PubFailsDelete ==
  /\ kind = "del" /\ PubFails
  /\ wlComboRefCount' = [c \in Combos |-> wlComboRefCount[c] + Number(done, c)]
  /\ wlEntries' = [i \in Ids |-> IF i \in ItemIds(done)
                                 THEN (CHOOSE it \in ToSet(done) : it.id = i).key
                                 ELSE wlEntries[i]]
  /\ wlKeyIndex' = [k \in Keys |-> IF k \in ItemKeys(done)
                                   THEN (CHOOSE it \in ToSet(done) : it.key = k).id
                                   ELSE wlKeyIndex[k]]
  /\ Phase("reinsert", done)
  /\ UNCHANGED <<activeWLSlot, kind, prepared, ids, delta, undoing, saved, ghost>>

\* Clearing is not undone: the entries are gone, the config lags behind.
PubFailsClear ==
  /\ kind = "clear" /\ PubFails
  /\ botched' = TRUE
  /\ Return(wlEntries)
  /\ UNCHANGED <<table, activeWLSlot>>

PubFailsSync ==
  /\ kind = "sync" /\ PubFails
  /\ activeWLSlot' = Shadow
  /\ wlComboRefCount' = saved
  /\ Return(committed)
  /\ UNCHANGED <<wlEntries, wlKeyIndex, botched>>

-----------------------------------------------------------------------------
(* AddWhitelist, AddWhitelistFromSync, AddWhitelistBatch *)

Conflicts(s) ==
  \/ ~DistinctKeys(s)
  \/ \E n \in DOMAIN s : wlKeyIndex[s[n].key] \notin {None, s[n].id}

\* Bug variant of BeginAdd: replaced entries stay in the map until the end.
BeginAddKeepOld(b) ==
  /\ Supported(b) /\ ~Conflicts(Dedup(b))
  /\ Begin("add", ItemIds(Changes(b)))
  /\ prepared' = Changes(b)
  /\ Phase("delold", <<>>)
  /\ UNCHANGED ids

\* Validation before the locks, conflicts under them; either refuses the whole
\* batch.  A single add that changes nothing returns at once, a batch publishes.
BeginAdd(b) ==
  /\ Supported(b) /\ ~Conflicts(Dedup(b))
  /\ Begin("add", ItemIds(Changes(b)))
  /\ prepared' = Changes(b)
  /\ Phase("delold", Replaced(Changes(b)))
  /\ UNCHANGED ids

\* The entries to be replaced leave the map first ("security-first").
DeleteOld ==
  /\ pc = "delold" /\ todo # <<>> /\ NoFault
  /\ Head(todo).key \in wl[activeWLSlot]
  /\ Removed(Head(todo).key) /\ Step
  /\ UNCHANGED <<conf, activeConfig, table, activeWLSlot, pc, kind, prepared, ids, delta,
                 undoing, saved, ghost>>

DeleteOldFails ==
  /\ pc = "delold" /\ todo # <<>>
  /\ \/ Head(todo).key \notin wl[activeWLSlot] /\ NoFault
     \/ Fault("delete")
  /\ Phase("reinsert", done)
  /\ UNCHANGED <<maps, table, activeWLSlot, kind, prepared, ids, delta, undoing, saved, ghost>>

\* The reference counts change before the publish, so the bit of a new combo is
\* set before its first entry is in the map.
CountAdd ==
  /\ pc = "delold" /\ todo = <<>> /\ NoFault
  /\ wlComboRefCount' =
       [c \in Combos |-> wlComboRefCount[c] - Number(Replaced(prepared), c) + Number(prepared, c)]
  /\ delta' = Len(prepared) - Len(Replaced(prepared))
  /\ pc' = "copybits"
  /\ UNCHANGED <<maps, wlEntries, wlKeyIndex, activeWLSlot, kind, prepared, todo, done, ids,
                 undoing, saved, ghost>>

\* BPF_NOEXIST: the insert fails by itself on a leftover of the same key.
InsertItem ==
  /\ pc = "insert" /\ todo # <<>> /\ NoFault
  /\ Head(todo).key \notin wl[activeWLSlot]
  /\ Inserted(Head(todo).key) /\ Step
  /\ UNCHANGED <<conf, activeConfig, table, activeWLSlot, pc, kind, prepared, ids, delta,
                 undoing, saved, ghost>>

\* Everything is undone: new entries leave the map, replaced ones return, and a
\* second publish takes the counts back.
InsertFails ==
  /\ pc = "insert" /\ todo # <<>>
  /\ \/ Head(todo).key \in wl[activeWLSlot] /\ NoFault
     \/ Fault("insert")
  /\ Phase("remove", done)
  /\ undoing' = TRUE
  /\ UNCHANGED <<maps, table, activeWLSlot, kind, prepared, ids, delta, saved, ghost>>

\* Bug variant of CommitAdd: replaced keys stay in the index.
CommitAddKeepIndex ==
  LET t == [i \in Ids |-> IF i \in ItemIds(prepared)
                          THEN (CHOOSE it \in ToSet(prepared) : it.id = i).key
                          ELSE wlEntries[i]]
  IN
  /\ pc = "insert" /\ todo = <<>> /\ NoFault
  /\ wlEntries' = t
  /\ wlKeyIndex' = [k \in Keys |-> IF k \in ItemKeys(prepared)
                                   THEN (CHOOSE it \in ToSet(prepared) : it.key = k).id
                                   ELSE wlKeyIndex[k]]
  /\ Return(t)
  /\ UNCHANGED <<maps, wlComboRefCount, activeWLSlot, botched>>

\* The memory follows: per item the old key leaves the index, the new one enters.
CommitAdd ==
  LET t == [i \in Ids |-> IF i \in ItemIds(prepared)
                          THEN (CHOOSE it \in ToSet(prepared) : it.id = i).key
                          ELSE wlEntries[i]]
  IN
  /\ pc = "insert" /\ todo = <<>> /\ NoFault
  /\ wlEntries' = t
  /\ wlKeyIndex' = [k \in Keys |-> IF k \in ItemKeys(prepared)
                                   THEN (CHOOSE it \in ToSet(prepared) : it.key = k).id
                                   ELSE IF k \in ItemKeys(Replaced(prepared)) THEN None
                                   ELSE wlKeyIndex[k]]
  /\ Return(t)
  /\ UNCHANGED <<maps, wlComboRefCount, activeWLSlot, botched>>

RemoveItem ==
  /\ pc = "remove" /\ todo # <<>>
  /\ Step
  /\ \/ /\ NoFault /\ Removed(Head(todo).key)
        /\ UNCHANGED botched
     \/ /\ Fault("delete") /\ botched' = TRUE
        /\ UNCHANGED wl
  /\ UNCHANGED <<conf, activeConfig, table, activeWLSlot, pc, kind, prepared, ids, delta,
                 undoing, saved, committed, targets>>

FinishRemove ==
  /\ pc = "remove" /\ todo = <<>> /\ NoFault
  /\ wlComboRefCount' = Uncounted
  /\ Phase("reinsert", Replaced(prepared))
  /\ UNCHANGED <<maps, wlEntries, wlKeyIndex, activeWLSlot, kind, prepared, ids, delta,
                 undoing, saved, ghost>>

-----------------------------------------------------------------------------
(* The end of every undo: entries return to the map, each at best effort. *)

ReinsertItem ==
  /\ pc = "reinsert" /\ todo # <<>>
  /\ Step
  /\ \/ /\ NoFault /\ Inserted(Head(todo).key)
        /\ UNCHANGED botched
     \/ /\ Fault("insert") /\ botched' = TRUE
        /\ UNCHANGED wl
  /\ UNCHANGED <<conf, activeConfig, table, activeWLSlot, pc, kind, prepared, ids, delta,
                 undoing, saved, committed, targets>>

FinishReinsert ==
  /\ pc = "reinsert" /\ todo = <<>> /\ ~undoing /\ NoFault
  /\ Return(committed)
  /\ UNCHANGED <<maps, table, activeWLSlot, botched>>

Republish ==
  /\ pc = "reinsert" /\ todo = <<>> /\ undoing /\ NoFault
  /\ pc' = "copybits" /\ delta' = -delta
  /\ UNCHANGED <<maps, table, activeWLSlot, kind, prepared, todo, done, ids, undoing, saved, ghost>>

-----------------------------------------------------------------------------
(* DeleteWhitelist, DeleteWhitelistBatch *)

BeginDelete(b) ==
  /\ Begin("del", ToSet(b))
  /\ ids' = b
  /\ Phase("delete", <<>>)
  /\ UNCHANGED prepared

\* Entry i leaves the map, the table and its combo's count.
Forget(i) ==
  /\ Removed(wlEntries[i])
  /\ wlComboRefCount' = [wlComboRefCount EXCEPT ![Combo[wlEntries[i]]] = @ - 1]
  /\ wlKeyIndex' = [wlKeyIndex EXCEPT ![wlEntries[i]] = None]
  /\ wlEntries' = [wlEntries EXCEPT ![i] = None]

Deletable(i) == wlEntries[i] # None /\ wlEntries[i] \in wl[activeWLSlot]

DeleteItem ==
  LET i == Head(ids) IN
  /\ pc = "delete" /\ ids # <<>> /\ NoFault
  /\ Deletable(i) /\ Forget(i)
  /\ ids' = Tail(ids)
  /\ done' = Append(done, [id |-> i, key |-> wlEntries[i]])
  /\ delta' = delta - 1
  /\ UNCHANGED <<conf, activeConfig, activeWLSlot, pc, kind, prepared, todo, undoing, saved, ghost>>

\* Missing ids and failed deletes are counted and skipped.
SkipItem ==
  /\ pc = "delete" /\ ids # <<>>
  /\ \/ ~Deletable(Head(ids)) /\ NoFault
     \/ wlEntries[Head(ids)] # None /\ Fault("delete")
  /\ ids' = Tail(ids)
  /\ UNCHANGED <<maps, table, activeWLSlot, pc, kind, prepared, todo, done, delta, undoing,
                 saved, ghost>>

FinishDelete ==
  /\ pc = "delete" /\ ids = <<>> /\ NoFault
  /\ \/ /\ done # <<>> /\ pc' = "copybits"
        /\ UNCHANGED <<local, ghost>>
     \/ /\ done = <<>> /\ Return(committed)
        /\ UNCHANGED botched
  /\ UNCHANGED <<maps, table, activeWLSlot>>

-----------------------------------------------------------------------------
(* ClearAllWhitelistFromSync, when the startup sync has given up *)

BeginClear ==
  /\ Begin("clear", Ids)
  /\ Phase("clearall", <<>>)
  /\ UNCHANGED <<prepared, ids>>

ClearItem(i) ==
  /\ pc = "clearall" /\ NoFault
  /\ Deletable(i) /\ Forget(i)
  /\ delta' = delta - 1
  /\ UNCHANGED <<conf, activeConfig, activeWLSlot, pc, kind, prepared, todo, done, ids,
                 undoing, saved, ghost>>

\* Publish what was removed, if anything was.
PublishCleared ==
  \/ /\ delta < 0 /\ pc' = "copybits"
     /\ UNCHANGED <<local, ghost>>
  \/ /\ delta = 0 /\ Return(committed)
     /\ UNCHANGED botched

\* The first failed delete stops it.
ClearFails(i) ==
  /\ pc = "clearall" /\ wlEntries[i] # None
  /\ \/ ~Deletable(i) /\ NoFault
     \/ Fault("delete")
  /\ PublishCleared
  /\ UNCHANGED <<maps, table, activeWLSlot>>

FinishClear ==
  /\ pc = "clearall" /\ wlEntries = EmptyTable /\ NoFault
  /\ wlComboRefCount' = NoCounts
  /\ PublishCleared
  /\ UNCHANGED <<maps, wlEntries, wlKeyIndex, activeWLSlot>>

-----------------------------------------------------------------------------
(* DoWhitelistAtomicSync *)

\* The ids whose entry the sync changes or drops.
Dropped(b) == {i \in Present(wlEntries) : [id |-> i, key |-> wlEntries[i]] \notin ToSet(b)}

BeginSync(b) ==
  /\ Supported(b) /\ DistinctKeys(b) /\ Dedup(b) = b
  /\ Begin("sync", Dropped(b) \cup {i \in ItemIds(b) : wlEntries[i] = None})
  /\ prepared' = b
  /\ Phase("clear", <<>>)
  /\ UNCHANGED ids

\* clearMap deletes key by key; a failed delete leaves its key behind.
Cleared(s)    == wl' = [wl EXCEPT ![s] = {}]
NotCleared(s) ==
  /\ Fault("clear")
  /\ \E left \in SUBSET wl[s] \ {{}} : wl' = [wl EXCEPT ![s] = left]

\* Bug variant of SyncClear: the shadow map keeps what it held.
SyncClearNot ==
  /\ pc = "clear" /\ NoFault
  /\ Phase("fill", prepared)
  /\ UNCHANGED <<maps, table, activeWLSlot, kind, prepared, ids, delta, undoing, saved, ghost>>

SyncClear ==
  /\ pc = "clear" /\ NoFault
  /\ Cleared(Shadow)
  /\ Phase("fill", prepared)
  /\ UNCHANGED <<conf, activeConfig, table, activeWLSlot, kind, prepared, ids, delta,
                 undoing, saved, ghost>>

SyncClearFails ==
  /\ pc = "clear" /\ NotCleared(Shadow)
  /\ Return(committed)
  /\ UNCHANGED <<conf, activeConfig, table, activeWLSlot, botched>>

\* The shadow map is empty and the keys are distinct: no key is there already.
SyncFill ==
  /\ pc = "fill" /\ todo # <<>> /\ NoFault
  /\ wl' = [wl EXCEPT ![Shadow] = @ \cup {Head(todo).key}]
  /\ Step
  /\ UNCHANGED <<conf, activeConfig, table, activeWLSlot, pc, kind, prepared, ids, delta,
                 undoing, saved, ghost>>

SyncFillFails ==
  /\ pc = "fill" /\ todo # <<>> /\ Fault("insert")
  /\ Return(committed)
  /\ UNCHANGED <<maps, table, activeWLSlot, botched>>

\* The selector and the counts change in memory, to be published next.
SyncSelect ==
  /\ pc = "fill" /\ todo = <<>> /\ NoFault
  /\ activeWLSlot' = Shadow
  /\ saved' = wlComboRefCount
  /\ wlComboRefCount' = [c \in Combos |-> Number(prepared, c)]
  /\ pc' = "copybits"
  /\ UNCHANGED <<maps, wlEntries, wlKeyIndex, kind, prepared, todo, done, ids, delta,
                 undoing, ghost>>

\* The old map is emptied; a failure is only logged.
SyncCleanup ==
  /\ pc = "cleanup"
  /\ \/ NoFault /\ Cleared(Shadow)
     \/ NotCleared(Shadow)
  /\ Return(committed)
  /\ UNCHANGED <<conf, activeConfig, table, activeWLSlot, botched>>

-----------------------------------------------------------------------------
Publish == \/ PubCopyBits \/ PubCopySel \/ PubWriteBits \/ PubWriteSel
           \/ FlipAdd \/ FlipUndo \/ FlipDelete \/ FlipSync
           \/ PubFailsAdd \/ PubFailsUndo \/ PubFailsDelete \/ PubFailsClear \/ PubFailsSync
Add     == \/ \E b \in AddBatches : BeginAdd(b)
           \/ DeleteOld \/ DeleteOldFails \/ CountAdd \/ InsertItem \/ InsertFails
           \/ CommitAdd \/ RemoveItem \/ FinishRemove
Undo    == ReinsertItem \/ FinishReinsert \/ Republish
Delete  == \/ \E b \in DelBatches : BeginDelete(b)
           \/ DeleteItem \/ SkipItem \/ FinishDelete
Clear   == \/ BeginClear \/ FinishClear
           \/ \E i \in Ids : ClearItem(i) \/ ClearFails(i)
Sync    == \/ \E b \in SyncBatches : BeginSync(b)
           \/ SyncClear \/ SyncClearFails \/ SyncFill \/ SyncFillFails \/ SyncSelect
           \/ SyncCleanup

Next == Add \/ Undo \/ Delete \/ Clear \/ Sync \/ Publish

Spec == Init /\ [][Next]_vars

-----------------------------------------------------------------------------
(* Properties *)

\* What a packet finds that reads all it needs at this instant.
Admitted ==
  LET c == conf[activeConfig] IN {k \in wl[c.sel] : Combo[k] \in c.bitmap}

\* Unless a step of an undo has failed, every entry in force that the running
\* request does not name is admitted at every step of every handler.
EntriesAdmitted ==
  ~botched => \A i \in Present(committed) \ targets : committed[i] \in Admitted

\* Unless a step of an undo has failed, nothing is admitted but what is in force
\* or what the running add or sync asks for; between requests, exactly what is
\* in force: a deleted or replaced entry exempts no packet, a refused one none.
NothingElseAdmitted ==
  ~botched => /\ Admitted \subseteq KeysOf(committed) \cup ItemKeys(prepared)
              /\ pc = "idle" => Admitted = KeysOf(committed)

\* "Security-first replacement": unless a step of an undo has failed, an id never
\* admits its old key and its new key at the same instant.
OldGoesFirst ==
  kind = "add" /\ ~botched =>
    \A n \in DOMAIN prepared :
      LET it == prepared[n] IN
      committed[it.id] # it.key => ~({committed[it.id], it.key} \subseteq Admitted)

\* Between requests, and whatever has failed, the memory is consistent: the
\* table is the one the last successful request left, the index is its inverse,
\* and each combo's count is the number of its entries.  Unless a step of an undo
\* has failed, the published count is their number: every second publish cancels
\* the first.
MemoryExact ==
  pc = "idle" =>
    /\ wlEntries = committed
    /\ \A k \in Keys, i \in Ids : wlKeyIndex[k] = i <=> wlEntries[i] = k
    /\ \A c \in Combos :
         wlComboRefCount[c] = Cardinality({i \in Present(wlEntries) : Combo[wlEntries[i]] = c})
    /\ ~botched => conf[activeConfig].count = Cardinality(Present(wlEntries))
=============================================================================
