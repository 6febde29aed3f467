----------------------------- MODULE CidrRules -----------------------------
(***************************************************************************)
(* The CIDR rules of the node agent: the manager that gives each network   *)
(* an id with a reference count and writes it into a longest-prefix trie,  *)
(* and the handlers that add, delete and replace the rules keyed by ids.   *)
(*                                                                         *)
(* An add checks for overlap and takes its references under the manager's  *)
(* own lock, before it takes the handlers' locks (syncMu, publishMu,       *)
(* rulesMu, here one lock); only then does it look at the rules.  Adds     *)
(* therefore interleave up to that point, and releases of one handler fall *)
(* between the steps of another.  Each critical section of the manager is  *)
(* one action; what a lock holder does to the rules is split where a map   *)
(* operation may fail.                                                     *)
(*                                                                         *)
(* NodeRules models what publishConfigUpdate does inside; here it succeeds *)
(* or fails as a whole.  IPv4 and IPv6 tables never mix and are one table. *)
(***************************************************************************)
EXTENDS Integers, FiniteSets, Sequences

CONSTANTS
  Ids,          \* rule ids
  Nets,         \* normalised networks
  Inside,       \* pairs <<m, n>>: m is strictly contained in n
  Ports,        \* what else a key holds; one of them is Bad
  Bad,          \* fields that validation refuses
  None,         \* "absent"
  Procs,        \* request handlers running at the same time
  Adds,         \* the rules clients add
  Dels,         \* the delete requests: sequences of ids
  Syncs,        \* the full-sync requests: sequences of rules, an id at most once
  Faulty,       \* which of "put", "untrie", "insert", "delete", "publish", "clear" may fail
  MaxOpFaults,  \* bound: failed operations during one request
  MaxFaults,    \* bound: failed operations during a behaviour
  MaxID         \* bound: no request starts once this many ids were given out

Sides == {"src", "dst"}
Slots == {0, 1}
NoNet == [s \in Sides |-> None]
NoId  == [s \in Sides |-> 0]
Net   == [Sides -> Nets \cup {None}]
Rule  == [id : Ids, net : Net \ {NoNet}, port : Ports]
Key   == [id : [Sides -> Nat], port : Ports]
Stored == [key : Key, net : Net \ {NoNet}]

ASSUME CidrAssumption ==
  /\ IsFiniteSet(Ids) /\ IsFiniteSet(Procs)
  /\ None \notin Nets \cup Procs \cup Ids /\ None \notin Stored
  /\ Inside \subseteq Nets \X Nets /\ \A n \in Nets : <<n, n>> \notin Inside
  /\ Adds \subseteq Rule
  /\ Dels \subseteq Seq(Ids)
  /\ Syncs \subseteq Seq(Rule)
  /\ \A b \in Syncs : \A m, n \in DOMAIN b : b[m].id = b[n].id => m = n
  /\ MaxOpFaults \in Nat /\ MaxFaults \in Nat /\ MaxID \in Nat

VARIABLES
  cidrs,              \* cidrs[s][n]: the id of network n on side s, 0 when it has none
  refs,               \* refs[s][n]: its reference count, 0 when it has none
  trie,               \* trie[s][n]: the id in the kernel's trie, 0 when absent
  nextID,             \* the next id to give out
  cidrRules,          \* h.cidrRules
  cidrRuleKeyIndex,   \* h.cidrRuleKeyIndex: a function on the keys in use
  cidrComboRefCount,  \* h.cidrComboRefCount
  slot,               \* h.activeRuleSlot
  cbl,                \* the keys in cidr_blacklist (0) and cidr_blist_b (1)
  conf,               \* the CIDR part of the config in force
  lock,               \* the handler that holds syncMu, publishMu and rulesMu
  pc, kind, todo,     \* per handler: next step, request kind, what is left of it
  req,                \* per handler: the rule at hand
  got,                \* per handler: the ids it holds a reference for, 0 for none
  drop, after,        \* per handler: networks to release, and where to go on then
  old,                \* lock holder: the rule the add replaces
  delta,              \* lock holder: change of the rule count to publish
  build, failed,      \* lock holder: the tables of a full sync, and whether an item failed
  retired,            \* lock holder: rules whose networks a full sync releases
  leaked,             \* history: releases that failed, by side and network
  lost,               \* history: keys that a rollback could not put back
  faults, opFaults    \* failed operations in all, and per running request

history == <<leaked, lost>>
manager == <<cidrs, refs, trie, nextID, history>>
table   == <<cidrRules, cidrRuleKeyIndex, cidrComboRefCount>>
maps    == <<slot, cbl, conf>>
ticket  == <<kind, todo, req, got>>
dropping == <<drop, after>>
holder  == <<old, delta, build, failed, retired>>
fvars   == <<faults, opFaults>>
vars    == <<manager, table, maps, lock, pc, ticket, dropping, holder, fvars>>

-----------------------------------------------------------------------------
(* Helpers *)

One(b)     == IF b THEN 1 ELSE 0
Shadow     == 1 - slot
EmptyTable == [i \in Ids |-> None]
Zero       == [s \in Sides |-> [n \in Nets |-> 0]]

\* The combo type of a CIDR key: which of its fields are set.  Every
\* combination with a network in it is supported, and Ports sets the same ones.
Combos == (SUBSET Sides) \ {{}}
ComboOf(k) == {s \in Sides : k.id[s] # 0}

EmptyBuild == [rules |-> EmptyTable, index |-> <<>>, combo |-> [c \in Combos |-> 0]]

\* A map with k set to v; a map without k.
With(f, k, v)  == [x \in DOMAIN f \cup {k} |-> IF x = k THEN v ELSE f[x]]
Without(f, k)  == [x \in DOMAIN f \ {k} |-> f[x]]

\* Rules that use network n on side s.
Using(t, s, n) == {i \in Ids : t[i] # None /\ t[i].net[s] = n}

Fault(p, op) ==
  /\ op \in Faulty
  /\ faults < MaxFaults /\ opFaults[p] < MaxOpFaults
  /\ faults' = faults + 1 /\ opFaults' = [opFaults EXCEPT ![p] = @ + 1]

NoFault == UNCHANGED fvars

Goto(p, l) == pc' = [pc EXCEPT ![p] = l]

\* Go on at l once the networks in net are released.
ReleaseThen(p, net, l) ==
  /\ Goto(p, IF net = NoNet THEN l ELSE "drop")
  /\ drop' = [drop EXCEPT ![p] = net]
  /\ after' = [after EXCEPT ![p] = l]

\* The key of the rule at hand, under the ids it was given.
KeyOf(p) == [id |-> got[p], port |-> req[p].port]

\* The networks the handler holds a reference for.
Held(p) == [s \in Sides |-> IF got[p][s] # 0 THEN req[p].net[s] ELSE None]
HandOver(p) == got' = [got EXCEPT ![p] = NoId]

-----------------------------------------------------------------------------
Init ==
  /\ cidrs = Zero /\ refs = Zero /\ trie = Zero /\ nextID = 1
  /\ leaked = Zero /\ lost = {}
  /\ cidrRules = EmptyTable /\ cidrRuleKeyIndex = <<>>
  /\ cidrComboRefCount = [c \in Combos |-> 0]
  /\ slot = 0 /\ cbl = [x \in Slots |-> {}] /\ conf = [bitmap |-> {}, count |-> 0]
  /\ lock = None
  /\ pc = [p \in Procs |-> "idle"] /\ kind = [p \in Procs |-> "none"]
  /\ todo = [p \in Procs |-> <<>>] /\ req = [p \in Procs |-> None]
  /\ got = [p \in Procs |-> NoId]
  /\ drop = [p \in Procs |-> NoNet] /\ after = [p \in Procs |-> "idle"]
  /\ old = None /\ delta = 0 /\ build = EmptyBuild /\ failed = FALSE
  /\ retired = EmptyTable
  /\ faults = 0 /\ opFaults = [p \in Procs |-> 0]

Begin(p, k, l, b, r) ==
  /\ pc[p] = "idle"
  /\ Goto(p, l)
  /\ kind' = [kind EXCEPT ![p] = k]
  /\ todo' = [todo EXCEPT ![p] = b] /\ req' = [req EXCEPT ![p] = r]
  /\ UNCHANGED <<manager, table, maps, lock, got, dropping, holder, fvars>>

\* Validation has no effect on the state: only valid rules are worth a step.
Valid(r) == r.port # Bad

BeginAdd(p, r)    == nextID <= MaxID /\ Valid(r) /\ Begin(p, "add", "checkSrc", <<>>, r)
BeginDelete(p, b) == Begin(p, "del", "lock", b, None)
BeginSync(p, b)   == nextID <= MaxID /\ Begin(p, "sync", "lock", b, None)

\* The locals of a handler that is done are garbage.
Forget(p) ==
  /\ Goto(p, "idle")
  /\ kind' = [kind EXCEPT ![p] = "none"]
  /\ todo' = [todo EXCEPT ![p] = <<>>] /\ req' = [req EXCEPT ![p] = None]
  /\ after' = [after EXCEPT ![p] = "idle"]
  /\ opFaults' = [opFaults EXCEPT ![p] = 0]
  /\ UNCHANGED <<got, drop, faults>>

\* The handler returns; it holds no lock.
Return(p) ==
  /\ pc[p] = "return"
  /\ Forget(p)
  /\ UNCHANGED <<manager, table, maps, lock, holder>>

-----------------------------------------------------------------------------
(* The unlocked half of an add, and the allocations of a full sync *)

\* Networks that strictly contain n or lie in it and have an id on side s.
Conflicts(s, n) == {m \in Nets : cidrs[s][m] # 0 /\ (<<m, n>> \in Inside \/ <<n, m>> \in Inside)}

\* One of the two overlap checks, each on its own snapshot of the ids.
Check(p, s, l, next) ==
  /\ pc[p] = l
  /\ Goto(p, IF Conflicts(s, req[p].net[s]) = {} THEN next ELSE "return")
  /\ UNCHANGED <<manager, table, maps, lock, ticket, dropping, holder, fvars>>

CheckSrc(p) == Check(p, "src", "checkSrc", "checkDst")
CheckDst(p) == Check(p, "dst", "checkDst", "allocSrc")

\* The rule has no network on this side.
AllocNothing(p, s, l, next) ==
  /\ pc[p] = l /\ req[p].net[s] = None
  /\ Goto(p, next)
  /\ UNCHANGED <<manager, table, maps, lock, ticket, dropping, holder, fvars>>

\* Bug variant of AllocKnown: the second user of a network is not counted.
AllocKnownUncounted(p, s, l, next) ==
  LET n == req[p].net[s] IN
  /\ pc[p] = l /\ n # None /\ cidrs[s][n] # 0
  /\ got' = [got EXCEPT ![p][s] = cidrs[s][n]]
  /\ Goto(p, next)
  /\ UNCHANGED <<manager, table, maps, lock, kind, todo, req, dropping, holder, fvars>>

\* The network has an id already.
AllocKnown(p, s, l, next) ==
  LET n == req[p].net[s] IN
  /\ pc[p] = l /\ n # None /\ cidrs[s][n] # 0
  /\ refs' = [refs EXCEPT ![s][n] = @ + 1]
  /\ got' = [got EXCEPT ![p][s] = cidrs[s][n]]
  /\ Goto(p, next)
  /\ UNCHANGED <<cidrs, trie, nextID, history, table, maps, lock, kind, todo, req,
                 dropping, holder, fvars>>

\* A new network: the trie first, then the tables.
AllocNew(p, s, l, next) ==
  LET n == req[p].net[s] IN
  /\ pc[p] = l /\ n # None /\ cidrs[s][n] = 0 /\ NoFault
  /\ nextID' = nextID + 1
  /\ trie' = [trie EXCEPT ![s][n] = nextID]
  /\ cidrs' = [cidrs EXCEPT ![s][n] = nextID]
  /\ refs' = [refs EXCEPT ![s][n] = 1]
  /\ got' = [got EXCEPT ![p][s] = nextID]
  /\ Goto(p, next)
  /\ UNCHANGED <<history, table, maps, lock, kind, todo, req, dropping, holder>>

\* The trie refuses the entry: the id is spent, nothing is kept.  What the
\* other side got is released; a full sync counts the item as failed.
AllocFails(p, s, l) ==
  LET n == req[p].net[s] IN
  /\ pc[p] = l /\ n # None /\ cidrs[s][n] = 0 /\ Fault(p, "put")
  /\ nextID' = nextID + 1
  /\ HandOver(p)
  /\ ReleaseThen(p, Held(p), IF kind[p] = "sync" THEN "item" ELSE "return")
  /\ failed' = (failed \/ kind[p] = "sync")
  /\ UNCHANGED <<cidrs, refs, trie, history, table, maps, lock, kind, todo, req,
                 old, delta, build, retired>>

\* Where to go with both ids: an add waits for the lock, a full sync has it.
Allocated(p) == IF kind[p] = "sync" THEN "write" ELSE "lock"

AllocSrcID(p) ==
  \/ AllocNothing(p, "src", "allocSrc", "allocDst")
  \/ AllocKnown(p, "src", "allocSrc", "allocDst")
  \/ AllocNew(p, "src", "allocSrc", "allocDst")
  \/ AllocFails(p, "src", "allocSrc")

AllocDstID(p) ==
  \/ AllocNothing(p, "dst", "allocDst", Allocated(p))
  \/ AllocKnown(p, "dst", "allocDst", Allocated(p))
  \/ AllocNew(p, "dst", "allocDst", Allocated(p))
  \/ AllocFails(p, "dst", "allocDst")

-----------------------------------------------------------------------------
(* ReleaseSrcID, ReleaseDstID: src before dst, one critical section each *)

\* The side released next.
NextSide(p) == IF drop[p]["src"] # None THEN "src" ELSE "dst"

Released(p) ==
  LET rest == [drop[p] EXCEPT ![NextSide(p)] = None] IN
  /\ drop' = [drop EXCEPT ![p] = rest]
  /\ Goto(p, IF rest = NoNet THEN after[p] ELSE "drop")
  /\ UNCHANGED <<table, maps, lock, ticket, after, holder, nextID>>

\* Other users remain.  (Without a count the call is an error nobody looks at.)
ReleaseShared(p) ==
  LET s == NextSide(p)
      n == drop[p][s]
  IN
  /\ pc[p] = "drop" /\ refs[s][n] # 1
  /\ refs' = [refs EXCEPT ![s][n] = IF @ = 0 THEN 0 ELSE @ - 1]
  /\ Released(p)
  /\ UNCHANGED <<cidrs, trie, history, fvars>>

\* Bug variant of ReleaseLast: the id stays in the table.
ReleaseLastKeepID(p) ==
  LET s == NextSide(p)
      n == drop[p][s]
  IN
  /\ pc[p] = "drop" /\ refs[s][n] = 1 /\ NoFault
  /\ trie' = [trie EXCEPT ![s][n] = 0]
  /\ refs' = [refs EXCEPT ![s][n] = 0]
  /\ Released(p)
  /\ UNCHANGED <<cidrs, history>>

\* The last user: the trie entry goes first, then the id.
ReleaseLast(p) ==
  LET s == NextSide(p)
      n == drop[p][s]
  IN
  /\ pc[p] = "drop" /\ refs[s][n] = 1 /\ NoFault
  /\ trie' = [trie EXCEPT ![s][n] = 0]
  /\ cidrs' = [cidrs EXCEPT ![s][n] = 0]
  /\ refs' = [refs EXCEPT ![s][n] = 0]
  /\ Released(p)
  /\ UNCHANGED history

\* The trie keeps the entry: the call changes nothing, and no caller retries.
ReleaseFails(p) ==
  LET s == NextSide(p)
      n == drop[p][s]
  IN
  /\ pc[p] = "drop" /\ refs[s][n] = 1 /\ Fault(p, "untrie")
  /\ leaked' = [leaked EXCEPT ![s][n] = @ + 1]
  /\ Released(p)
  /\ UNCHANGED <<cidrs, refs, trie, lost>>

ReleaseID(p) ==
  ReleaseShared(p) \/ ReleaseLast(p) \/ ReleaseFails(p)

-----------------------------------------------------------------------------
(* The locked half of an add *)

Acquire(p) ==
  /\ pc[p] = "lock" /\ lock = None
  /\ lock' = p
  /\ Goto(p, CASE kind[p] = "add" -> "insert"
               [] kind[p] = "del" -> "delete"
               [] OTHER           -> "clear")
  /\ UNCHANGED <<manager, table, maps, ticket, dropping, holder, fvars>>

Unlock(p) ==
  /\ pc[p] = "unlock"
  /\ lock' = None /\ Forget(p)
  /\ old' = None /\ delta' = 0 /\ failed' = FALSE
  /\ UNCHANGED <<manager, table, maps, build, retired>>

\* Another id owns the key, or the map holds it already.
Refused(p) ==
  \/ KeyOf(p) \in DOMAIN cidrRuleKeyIndex /\ cidrRuleKeyIndex[KeyOf(p)] # req[p].id
  \/ KeyOf(p) \in cbl[slot]

\* Bug variant of RefuseAdd: this early return forgets to unlock.
RefuseAddLocked(p) ==
  /\ pc[p] = "insert"
  /\ \/ Refused(p) /\ NoFault
     \/ ~Refused(p) /\ Fault(p, "insert")
  /\ HandOver(p)
  /\ ReleaseThen(p, req[p].net, "return")
  /\ UNCHANGED <<manager, table, maps, lock, kind, todo, req, holder>>

\* The handler unlocks first and releases after that.
RefuseAdd(p) ==
  /\ pc[p] = "insert"
  /\ \/ Refused(p) /\ NoFault
     \/ ~Refused(p) /\ Fault(p, "insert")
  /\ lock' = None /\ HandOver(p)
  /\ ReleaseThen(p, req[p].net, "return")
  /\ UNCHANGED <<manager, table, maps, kind, todo, req, holder>>

\* Insert the new entry; remember the rule the id had.
InsertKey(p) ==
  LET o == cidrRules[req[p].id] IN
  /\ pc[p] = "insert" /\ ~Refused(p) /\ NoFault
  /\ cbl' = [cbl EXCEPT ![slot] = @ \cup {KeyOf(p)}]
  /\ old' = o
  /\ Goto(p, IF o # None /\ o.key # KeyOf(p) THEN "delold" ELSE "commit")
  /\ UNCHANGED <<manager, table, slot, conf, lock, ticket, dropping, delta, build,
                 failed, retired>>

DeleteOldKey(p) ==
  /\ pc[p] = "delold" /\ old.key \in cbl[slot] /\ NoFault
  /\ cbl' = [cbl EXCEPT ![slot] = @ \ {old.key}]
  /\ Goto(p, "commit")
  /\ UNCHANGED <<manager, table, slot, conf, lock, ticket, dropping, holder>>

\* The old entry is missing or stays.
OldKeyStays(p) ==
  /\ pc[p] = "delold"
  /\ \/ old.key \notin cbl[slot] /\ NoFault
     \/ old.key \in cbl[slot] /\ Fault(p, "delete")
  /\ Goto(p, "abort")
  /\ UNCHANGED <<manager, table, maps, lock, ticket, dropping, holder>>

\* Take the new entry out again (best effort), unlock, release.
AbortAdd(p) ==
  /\ pc[p] = "abort"
  /\ \/ NoFault /\ cbl' = [cbl EXCEPT ![slot] = @ \ {KeyOf(p)}]
     \/ Fault(p, "delete") /\ UNCHANGED cbl
  /\ lock' = None /\ old' = None /\ HandOver(p)
  /\ ReleaseThen(p, req[p].net, "return")
  /\ UNCHANGED <<manager, table, slot, conf, kind, todo, req, delta, build, failed, retired>>

\* Reference counts of the combos after rule a took the place of rule b.
Recount(a, b) ==
  [c \in Combos |-> cidrComboRefCount[c] + One(a # None /\ ComboOf(a.key) = c)
                                         - One(b # None /\ ComboOf(b.key) = c)]

\* Bug variant of CommitAdd: the old rule's networks are released before the publish.
CommitAddRelease(p) ==
  LET new == [key |-> KeyOf(p), net |-> req[p].net]
      id  == req[p].id
      idx == IF old = None THEN cidrRuleKeyIndex ELSE Without(cidrRuleKeyIndex, old.key)
  IN
  /\ pc[p] = "commit"
  /\ cidrComboRefCount' = Recount(new, old)
  /\ cidrRules' = [cidrRules EXCEPT ![id] = new]
  /\ cidrRuleKeyIndex' = With(idx, KeyOf(p), id)
  /\ delta' = One(old = None)
  /\ HandOver(p) /\ ReleaseThen(p, IF old = None THEN NoNet ELSE old.net, "publish")
  /\ UNCHANGED <<manager, maps, lock, kind, todo, req, old, build, failed, retired, fvars>>

\* Memory takes the rule, and with it the references; the old rule's are kept
\* until the publish.
CommitAdd(p) ==
  LET new == [key |-> KeyOf(p), net |-> req[p].net]
      id  == req[p].id
      idx == IF old = None THEN cidrRuleKeyIndex ELSE Without(cidrRuleKeyIndex, old.key)
  IN
  /\ pc[p] = "commit"
  /\ cidrComboRefCount' = Recount(new, old)
  /\ cidrRules' = [cidrRules EXCEPT ![id] = new]
  /\ cidrRuleKeyIndex' = With(idx, KeyOf(p), id)
  /\ delta' = One(old = None)
  /\ HandOver(p) /\ Goto(p, "publish")
  /\ UNCHANGED <<manager, maps, lock, kind, todo, req, dropping, old, build, failed,
                 retired, fvars>>

\* The CIDR part of the config publishConfigUpdate writes.
Published(d) ==
  [bitmap |-> {c \in Combos : cidrComboRefCount[c] > 0},
   count  |-> IF conf.count + d < 0 THEN 0 ELSE conf.count + d]

\* Only now may the networks of the replaced rule go.
PublishAdd(p) ==
  /\ pc[p] = "publish" /\ kind[p] = "add" /\ NoFault
  /\ conf' = Published(delta)
  /\ old' = None
  /\ ReleaseThen(p, IF old = None THEN NoNet ELSE old.net, "unlock")
  /\ UNCHANGED <<manager, table, slot, cbl, lock, ticket, delta, build, failed, retired>>

\* A failed publish takes the new rule out of the map (best effort) and out of
\* memory and releases its networks.
RollbackAdd(p) ==
  LET id  == req[p].id
      new == cidrRules[id]
  IN
  /\ pc[p] = "rollback"
  /\ \/ NoFault /\ cbl' = [cbl EXCEPT ![slot] = @ \ {new.key}]
     \/ Fault(p, "delete") /\ UNCHANGED cbl
  /\ cidrComboRefCount' = Recount(None, new)
  /\ cidrRules' = [cidrRules EXCEPT ![id] = None]
  /\ cidrRuleKeyIndex' = Without(cidrRuleKeyIndex, new.key)
  /\ ReleaseThen(p, new.net, IF old = None THEN "unlock" ELSE "restore")
  /\ UNCHANGED <<manager, slot, conf, lock, ticket, holder>>

\* Bug variant of RestoreOld: the replaced rule's entry is not put back.
RestoreOldForget(p) ==
  LET id == req[p].id IN
  /\ pc[p] = "restore"
  /\ NoFault
  /\ cidrComboRefCount' = Recount(old, None)
  /\ cidrRules' = [cidrRules EXCEPT ![id] = old]
  /\ cidrRuleKeyIndex' = With(cidrRuleKeyIndex, old.key, id)
  /\ old' = None /\ Goto(p, "unlock")
  /\ UNCHANGED <<manager, maps, lock, ticket, dropping, delta, build, failed, retired>>

\* The replaced rule comes back under the ids it had.
RestoreOld(p) ==
  LET id == req[p].id IN
  /\ pc[p] = "restore"
  /\ \/ NoFault /\ cbl' = [cbl EXCEPT ![slot] = @ \cup {old.key}] /\ UNCHANGED lost
     \/ /\ old.key \notin cbl[slot] /\ Fault(p, "insert") /\ UNCHANGED cbl
        /\ lost' = lost \cup {old.key}
  /\ cidrComboRefCount' = Recount(old, None)
  /\ cidrRules' = [cidrRules EXCEPT ![id] = old]
  /\ cidrRuleKeyIndex' = With(cidrRuleKeyIndex, old.key, id)
  /\ old' = None /\ Goto(p, "unlock")
  /\ UNCHANGED <<cidrs, refs, trie, nextID, leaked, slot, conf, lock, ticket, dropping, delta,
                 build, failed, retired>>

-----------------------------------------------------------------------------
(* DeleteRule, DeleteRulesBatch *)

Deletable(i) == cidrRules[i] # None /\ cidrRules[i].key \in cbl[slot]

DeleteFails(p) ==
  LET i == Head(todo[p]) IN
  /\ pc[p] = "delete" /\ todo[p] # <<>>
  /\ \/ ~Deletable(i) /\ NoFault
     \/ Deletable(i) /\ Fault(p, "delete")
  /\ todo' = [todo EXCEPT ![p] = Tail(@)]
  /\ UNCHANGED <<manager, table, maps, lock, pc, kind, req, got, dropping, holder>>

DeleteItem(p) ==
  LET i == Head(todo[p])
      r == cidrRules[i]
  IN
  /\ pc[p] = "delete" /\ todo[p] # <<>>
  /\ Deletable(i) /\ NoFault
  /\ cbl' = [cbl EXCEPT ![slot] = @ \ {r.key}]
  /\ cidrComboRefCount' = Recount(None, r)
  /\ cidrRuleKeyIndex' = Without(cidrRuleKeyIndex, r.key)
  /\ cidrRules' = [cidrRules EXCEPT ![i] = None]
  /\ todo' = [todo EXCEPT ![p] = Tail(@)]
  /\ delta' = delta - 1
  /\ ReleaseThen(p, r.net, "delete")
  /\ UNCHANGED <<manager, slot, conf, lock, kind, req, got, old, build, failed, retired>>

\* One publish for the whole request, if anything was deleted.
DeleteDone(p) ==
  /\ pc[p] = "delete" /\ todo[p] = <<>>
  /\ Goto(p, IF delta = 0 THEN "unlock" ELSE "publish")
  /\ UNCHANGED <<manager, table, maps, lock, ticket, dropping, holder, fvars>>

PublishDelete(p) ==
  /\ pc[p] = "publish" /\ kind[p] = "del" /\ NoFault
  /\ conf' = Published(delta)
  /\ Goto(p, "unlock")
  /\ UNCHANGED <<manager, table, slot, cbl, lock, ticket, dropping, holder>>

\* An add is undone; a delete stands with the old config.
PublishFails(p) ==
  /\ pc[p] = "publish" /\ kind[p] # "sync" /\ Fault(p, "publish")
  /\ Goto(p, IF kind[p] = "add" THEN "rollback" ELSE "unlock")
  /\ UNCHANGED <<manager, table, maps, lock, ticket, dropping, holder>>

-----------------------------------------------------------------------------
(* DoAtomicSync: the new tables in the shadow map, the ids in the shared tries *)

\* Clearing the map t: every entry, or all but some that could not be deleted.
ClearMap(p, t, l) ==
  /\ \/ NoFault /\ cbl' = [cbl EXCEPT ![t] = {}]
     \/ \E left \in (SUBSET cbl[t]) \ {{}} : Fault(p, "clear") /\ cbl' = [cbl EXCEPT ![t] = left]
  /\ Goto(p, l)
  /\ UNCHANGED <<manager, table, slot, conf, lock, ticket, dropping, holder>>

SyncClear(p) == pc[p] = "clear" /\ ClearMap(p, Shadow, "item")

SyncItem(p) ==
  LET r == Head(todo[p]) IN
  /\ pc[p] = "item" /\ todo[p] # <<>>
  /\ todo' = [todo EXCEPT ![p] = Tail(@)] /\ req' = [req EXCEPT ![p] = r]
  /\ Goto(p, IF Valid(r) THEN "allocSrc" ELSE "item")
  /\ failed' = (failed \/ ~Valid(r))
  /\ UNCHANGED <<manager, table, maps, lock, kind, got, dropping, old, delta, build,
                 retired, fvars>>

\* The entry cannot be written: count the item as failed, release its networks.
SyncWriteFails(p) ==
  /\ pc[p] = "write"
  /\ \/ KeyOf(p) \in cbl[Shadow] /\ NoFault
     \/ KeyOf(p) \notin cbl[Shadow] /\ Fault(p, "insert")
  /\ failed' = TRUE
  /\ HandOver(p) /\ ReleaseThen(p, req[p].net, "item")
  /\ UNCHANGED <<manager, table, maps, lock, kind, todo, req, old, delta, build, retired>>

SyncWrite(p) ==
  LET k == KeyOf(p) IN
  /\ pc[p] = "write" /\ k \notin cbl[Shadow] /\ NoFault
  /\ cbl' = [cbl EXCEPT ![Shadow] = @ \cup {k}]
  /\ build' = [rules |-> [build.rules EXCEPT ![req[p].id] = [key |-> k, net |-> req[p].net]],
               index |-> With(build.index, k, req[p].id),
               combo |-> [build.combo EXCEPT ![ComboOf(k)] = @ + 1]]
  /\ HandOver(p) /\ Goto(p, "item")
  /\ UNCHANGED <<manager, table, slot, conf, lock, kind, todo, req, dropping, old, delta,
                 failed, retired>>

\* An item failed, or the config cannot be written: no flip, and the networks
\* of the rules built so far are released.
SyncAbort(p) ==
  /\ pc[p] = "item" /\ todo[p] = <<>>
  /\ \/ failed /\ NoFault
     \/ ~failed /\ Fault(p, "publish")
  /\ retired' = build.rules /\ build' = EmptyBuild
  /\ Goto(p, "release")
  /\ UNCHANGED <<manager, table, maps, lock, ticket, dropping, old, delta, failed>>

\* Bug variant of SyncFlip: the old rules' networks are forgotten.
SyncFlipForget(p) ==
  /\ pc[p] = "item" /\ todo[p] = <<>> /\ ~failed /\ NoFault
  /\ slot' = Shadow
  /\ conf' = [bitmap |-> {c \in Combos : build.combo[c] > 0},
              count  |-> Cardinality({i \in Ids : build.rules[i] # None})]
  /\ cidrRules' = build.rules
  /\ cidrRuleKeyIndex' = build.index
  /\ cidrComboRefCount' = build.combo
  /\ build' = EmptyBuild
  /\ Goto(p, "retire")
  /\ UNCHANGED <<manager, cbl, lock, ticket, dropping, old, delta, failed, retired>>

\* Config and memory take the new tables; the old rules' networks go after that.
SyncFlip(p) ==
  /\ pc[p] = "item" /\ todo[p] = <<>> /\ ~failed /\ NoFault
  /\ slot' = Shadow
  /\ conf' = [bitmap |-> {c \in Combos : build.combo[c] > 0},
              count  |-> Cardinality({i \in Ids : build.rules[i] # None})]
  /\ cidrRules' = build.rules
  /\ cidrRuleKeyIndex' = build.index
  /\ cidrComboRefCount' = build.combo
  /\ retired' = cidrRules /\ build' = EmptyBuild
  /\ Goto(p, "retire")
  /\ UNCHANGED <<manager, cbl, lock, ticket, dropping, old, delta, failed>>

\* One rule's networks; Go maps are walked in any order.
SyncRelease(p) ==
  /\ pc[p] \in {"release", "retire"}
  /\ \E i \in Ids :
       /\ retired[i] # None
       /\ retired' = [retired EXCEPT ![i] = None]
       /\ ReleaseThen(p, retired[i].net, pc[p])
  /\ UNCHANGED <<manager, table, maps, lock, ticket, old, delta, build, failed, fvars>>

SyncReleased(p) ==
  /\ pc[p] \in {"release", "retire"} /\ retired = EmptyTable
  /\ Goto(p, IF pc[p] = "release" THEN "unlock" ELSE "cleanup")
  /\ UNCHANGED <<manager, table, maps, lock, ticket, dropping, holder, fvars>>

SyncCleanup(p) == pc[p] = "cleanup" /\ ClearMap(p, Shadow, "unlock")

-----------------------------------------------------------------------------
AddStep(p) ==
  \/ CheckSrc(p) \/ CheckDst(p)
  \/ RefuseAdd(p) \/ InsertKey(p) \/ DeleteOldKey(p) \/ OldKeyStays(p) \/ AbortAdd(p)
  \/ CommitAdd(p) \/ PublishAdd(p) \/ RollbackAdd(p) \/ RestoreOld(p)
DeleteStep(p) ==
  DeleteFails(p) \/ DeleteItem(p) \/ DeleteDone(p) \/ PublishDelete(p)
SyncStep(p) ==
  \/ SyncClear(p) \/ SyncItem(p) \/ SyncWriteFails(p) \/ SyncWrite(p)
  \/ SyncAbort(p) \/ SyncFlip(p) \/ SyncRelease(p) \/ SyncReleased(p) \/ SyncCleanup(p)

\* A step of a running handler.
Run(p) ==
  \/ AddStep(p) \/ DeleteStep(p) \/ SyncStep(p) \/ PublishFails(p)
  \/ AllocSrcID(p) \/ AllocDstID(p) \/ ReleaseID(p)
  \/ Acquire(p) \/ Unlock(p) \/ Return(p)

Request(p) ==
  \/ \E r \in Adds  : BeginAdd(p, r)
  \/ \E b \in Dels  : BeginDelete(p, b)
  \/ \E b \in Syncs : BeginSync(p, b)

Next == \E p \in Procs : Request(p) \/ Run(p)

Spec == Init /\ [][Next]_vars

\* A handler that can go on goes on, and sync.Mutex lets no waiter starve.
FairSpec == Spec /\ \A p \in Procs : WF_vars(Run(p)) /\ SF_vars(Acquire(p))

-----------------------------------------------------------------------------
(* Properties *)

\* The replaced rule is out of the table and its networks wait for the publish.
OldWaits ==
  old # None /\ lock # None /\ pc[lock] \in {"publish", "rollback", "drop", "restore"}

\* Everybody who holds a reference for network n on side s.
Users(s, n) ==
    Cardinality(Using(cidrRules, s, n)) + Cardinality(Using(build.rules, s, n))
  + Cardinality(Using(retired, s, n))   + One(OldWaits /\ old.net[s] = n)
  + Cardinality({p \in Procs : Held(p)[s] = n}) + Cardinality({p \in Procs : drop[p][s] = n})

\* Every reference has exactly one holder: a rule in force, a rule of a full
\* sync that is built or retired, the rule an add replaces, or a handler that
\* has just taken it or is about to release it.  What is left over is what
\* failed releases lost (AllocSrcID, ReleaseSrcID and every early return).
RefsExact == \A s \in Sides, n \in Nets : refs[s][n] = Users(s, n) + leaked[s][n]

\* The ids the rule r is keyed by are the ids its networks have in the tries.
Keyed(r) == \A s \in Sides : IF r.net[s] = None THEN r.key.id[s] = 0
                             ELSE /\ r.key.id[s] = trie[s][r.net[s]]
                                  /\ r.key.id[s] # 0

\* No release, by whatever handler, takes an id away under a rule in force or
\* under an add that waits for the lock (the comments on mutation order in
\* manager.go and on releases after the flip in sync.go).
IdsStay ==
  /\ \A i \in Ids : cidrRules[i] # None => Keyed(cidrRules[i])
  /\ OldWaits => Keyed(old)
  /\ \A p \in Procs, s \in Sides : got[p][s] # 0 => got[p][s] = trie[s][req[p].net[s]]

\* The manager's table and the kernel's trie agree, and no id has two networks.
TrieMatches ==
  \A s \in Sides : /\ cidrs[s] = trie[s]
                   /\ \A m, n \in Nets : cidrs[s][m] = cidrs[s][n] /\ m # n => cidrs[s][m] = 0

\* Between requests every rule has its entry in the active map, and the config
\* in force does not hide it, unless the map refused to take the entry back in
\* a rollback.
Enforced ==
  lock = None =>
    \A i \in Ids : cidrRules[i] # None /\ cidrRules[i].key \notin lost =>
      /\ cidrRules[i].key \in cbl[slot]
      /\ ComboOf(cidrRules[i].key) \in conf.bitmap
      /\ conf.count > 0

\* The networks a running full sync has put into the tries or is taking out.
SyncNets(s) ==
  {n \in Nets : /\ lock # None /\ kind[lock] = "sync"
                /\ \/ Using(build.rules, s, n) \cup Using(retired, s, n) # {}
                   \/ Held(lock)[s] = n \/ drop[lock][s] = n}

\* With one handler at a time, networks of one side that are in the trie do not
\* contain one another, so that the longest match of an address is the network of
\* the rule in force.  The one exception is a running full sync, which does not
\* look for overlaps (sync.go:332): a network that it has brought or is removing
\* may nest with another until it ends, and only then; that its own rules do not
\* nest is the controller's business.  A network whose release failed stays for ever.
LongestMatch ==
  leaked = Zero => \A s \in Sides, m, n \in Nets :
    trie[s][m] # 0 /\ trie[s][n] # 0 /\ <<m, n>> \in Inside => {m, n} \cap SyncNets(s) # {}

\* Every request returns: no early return keeps the lock.
Returns == \A p \in Procs : pc[p] # "idle" ~> pc[p] = "idle"

=============================================================================
