# A TLA+ verification of xdrop

xdrop is a distributed packet filter. A **controller** (Go, SQLite, HTTP) keeps the rules and the
whitelist and pushes them to **node agents** (Go), which write them into BPF maps read by **XDP
programs** (C) for every packet. This directory holds the TLA+ modules that model it, the TLC
configurations that check them, and the TLAPS proofs about them.

## The system

| Part | State | Operations | Hard behaviour |
|---|---|---|---|
| Exact-rule store (`node/agent/api/rules_mutation.go`, `sync.go`) | `rules`, `ruleKeyIndex`, `comboRefCount`, `activeRuleSlot`; the maps `blacklist`, `blacklist_b` | AddRule, AddRuleFromSync, AddRulesBatch, DeleteRule, DeleteRulesBatch, DoAtomicSync | each map call may fail half-way; packets read between any two map writes |
| Config double buffer (`config.go`) | `config_a`, `config_b`, `active_config`, `activeSlot` | publishConfigUpdate, publishConfigUpdateForWLSync | the shadow is two publishes old; deltas and absolute values are mixed |
| CIDR rules (`cidr_rules.go`, `cidr/manager.go`) | CIDR to id, reference counts, four tries, `cidrRules`, dual CIDR maps | addCIDRRule, addCIDRRuleFromSync, delete, full sync | overlap check and allocation outside the lock; releases that fail |
| Whitelist (`whitelist.go`, `sync.go`) | `wlEntries`, `wlKeyIndex`, `wlComboRefCount`, dual maps | add, delete, batches, full sync, clear | replacement, two publishes in one request |
| XDP programs (`node/bpf/xdrop_gate.c`, `xdrop_main.c`) | per packet: slot, selectors, what was read | gate, main, anomaly verify (tail calls) | no lock: reads interleave with the agent |
| Startup sync (`sync/controller_sync.go`) | what was fetched | SyncOnStartup | the controller's pushes race with the pull |
| Agent start (`main.go`, `bpf/loader.go`, `bpf/xdp_link.go`, `ifmgr`) | pinned maps, pinned links, attached programs, interface settings | load, clear, wire, attach, pin, roll back, shut down | what one process leaves in the kernel meets the next one; a signal during the start |
| Controller services (`controller/internal/service`) | the database, node status | create, update, delete, batches, merge; fan-out with retries; full and diff sync | lost answers, concurrent updates, partial success |
| Rule fields (`rule_service.go`, `decoder.go`; `node/agent/api/validate.go`, `convert.go`, `combo.go`) | a row of the table | decoder sugar, validation, partial update, merge; classification and validation on the node | two programs and a BPF program have to agree on what a rule is |
| Statistics cache (`stats_cache.go`, `aggregated_stats.go`, `api/rules.go`) | one snapshot with its age and outcome | refresh, Meta, LookupMany, Stop | partial answers, slow fan-outs, shutdown at any time |
| Schedulers (`controller/internal/scheduler`) | failure counts, running flags | SyncChecker, HealthChecker, ExpireCleaner | snapshots that are stale when applied; detection by counts |
| Agent statistics, rate limiter, web UI, CLI | counters | read-only, or pure arithmetic | left out, see "Not modelled" |

The agent's handlers call the BPF maps; the programs see the maps only. The controller calls the
agents over HTTP; an agent pulls from the controller once, at start. The schedulers run beside the
API handlers with no lock in common.

What makes each part correct: the agent's memory, maps and published config agree well enough at
*every* map write that no rule in force is out of reach; a failed request is undone; a full sync is
all or nothing; reference counts match their users; what the nodes hold converges to what the
database holds; a stored rule is well formed, accepted by the nodes and acts on exactly the packets
its fields describe; a number that is shown is not older or more certain than it says; and an agent
that serves finds and leaves the kernel as its successor expects.

## Modules

| Module | What it models |
|---|---|
| `RuleStore` | What the agent promises of its rules: a table by id in which no two rules share a key, changed at one instant per request. No maps, no failures. |
| `NodeRules` | The exact-rule handlers and `publishConfigUpdate`, one action per map write that a packet or an error can see. |
| `NodeRulesProofs` | The inductive invariant of `NodeRules` proved, and what follows from it whatever fails; then when the maps are exact: what holds until something fails, and for adds of one rule with one failure; the refinement of `RuleStore`. |
| `RulesDataPath` | `NodeRules` together with one packet in `xdp_firewall_main` / `xdp_anomaly_verify`, one action per map read. |
| `RulesDataPathProofs` | No publish or flip lets a packet through, proved from the exactness of the maps. |
| `CidrRules` | The CIDR manager and the handlers of CIDR rules, several handlers at once. |
| `CidrRulesProofs` | The account of the references: who holds which, at every step of every handler. |
| `Whitelist` | The whitelist handlers, their publishes and their undo paths. |
| `WhitelistGate` | `Whitelist` together with one packet in `xdp_whitelist_gate`. |
| `WhitelistProofs` | What the whitelist's memory, configs and maps hold at every step of every handler, and what a packet in the gate can make of it. |
| `NodeApi` | An agent as the controller meets it: a table by id, and what one HTTP call does to it or refuses. |
| `ControllerSync` | The controller's database, its requests, the pushes to the nodes, full, diff and legacy sync, the three schedulers, and the agents' startup sync. |
| `ControllerSyncProofs` | Where enabled rows can be, until an agent restarts. |
| `RuleFields` | What the controller accepts as a rule: decoder sugar, validators, the row a create or a partial update writes, the overlap check. Operators only. |
| `ComboLookup` | What the agent makes of a rule and the XDP programs of a packet: the agent's validators, the combos, the four lookups. Operators only. |
| `RuleAdmission` | The rule service between clients, the rules table and one agent: which rows can come about, and which packets are acted on. |
| `RuleAdmissionProofs` | Rows are sound and the agent accepts them, for concurrent handlers. |
| `StatsCache` | The controller's statistics cache: refresh loop, listing, shutdown. |
| `StatsCacheProofs` | Freshness and zeros of a listing, the sums of a snapshot. |
| `AgentStart` | Successive lives of an agent process and what they leave in the kernel. |
| `AgentStartProofs` | What each life of an agent leaves to the next. |
| `MCNodeRules`, `MCRulesDataPath`, `MCCidrRules`, `MCWhitelistGate`, `MCControllerSync`, `MCRuleAdmission`, `MCStatsCache`, `MCAgentStart` | Instances: a few ids, keys or networks, and the requests clients send. |

`RulesDataPath` and `WhitelistGate` each compose an agent module with a packet; `NodeRules` is shown
to implement `RuleStore`. The rule side and the whitelist side share `syncMu`, `publishMu` and the two
configs, but each changes only its own tables under those locks, and every publish copies the other
side's fields or rebuilds them from tables that have not changed, so they are checked separately.
`ControllerSync` extends `NodeApi`: seen from the controller, a handler of `NodeRules` or `Whitelist` is
one atomic change of the table or a refusal, which is what `RuleStore` and the runs of those modules
establish. `RuleAdmission` extends `ComboLookup`, which extends `RuleFields`: there a row has all its fields, the
calls do not fail, and the ids and maps of a node are abstracted to the set of rules it holds.

Definitions whose comment begins "Bug variant of" are plausible mistakes in the code; no `Next`
uses them. They show that the properties notice.

### How NodeRules corresponds to the code

* `rules`, `ruleKeyIndex`, `comboRefCount`, `activeRuleSlot` are the fields of `Handlers`; `bl`,
  `cfg`, `activeConfig` are the BPF maps. `h.activeSlot` always equals the map `active_config` and
  is not kept twice.
* A rule's value is reduced to whether `match_anomaly` is zero (`Plain`, `Anomaly`): the only part of
  it that the config and the choice of lookup function depend on. A key is a model value; `Combo`
  gives its combo type, or `None` for the field combinations `validateComboType` refuses.
* The handlers hold `syncMu`, `publishMu` and `rulesMu` from the first map call to the last, so one
  handler runs at a time; `pc` is where it is. A single add is a batch of one, which is what the
  three add paths do to a rule line by line; the same for deletes.
* Each map call may fail if its kind is in `Faulty`. `Fault` counts failures against `MaxOpFaults`
  (per request) and `MaxFaults` (in all), the only bounds of the model; the proofs hold for every
  value of them.
* `PubWrite` and `SyncConfig` stand for several writes to the *shadow* config. A packet that still
  uses that slot reads each field on its own and each field has only the old and the new value, so
  writing them together hides only combinations of old and new fields; the properties ask of each
  field separately that both values admit every rule that is kept. A publish that fails half-way
  leaves a shadow that the next publish copies over entirely, so `PubFail` leaves it unchanged.
* `config` array lookups at a fixed index below `max_entries` do not fail, so the copy in
  `PubCopy` copies every slot.
* `committed` is history: the rules the last completed request left in force. `targets` is the set of
  ids the running request names.

### How CidrRules corresponds to the code

* `cidrs`, `refs`, `trie`, `nextID` are the manager's tables, one per side; the tables for IPv4 and
  IPv6 never meet and are one. A network is a model value, `Inside` says which contains which.
  `net.ParseCIDR` and the normalisation of host bits have happened before the model begins.
* The manager's lock covers each of its methods and nothing else, so each method is one action. The
  handler's steps up to the lock (`ListSrcCIDRs`, overlap check, `AllocSrcID`, the same for the
  destination) interleave with every other handler; `lock` is `syncMu`, `publishMu` and `rulesMu`, which
  the handlers always take together, and after it only the holder moves the rules.
* A release is one action per network because its failure keeps the network (`ReleaseFails`);
  `ReleaseThen` sends a handler through its releases and then on to `after`.
* `publishConfigUpdate` is one step that succeeds or fails: what happens inside is in `NodeRules`.
* `Ports` stands for everything else in a key; `Bad` is what the later validation refuses, which
  exercises the early returns that must release.
* `leaked` and `lost` are history: failed releases, and keys that a rollback could not put back.
* `MaxID` bounds the ids given out; no *request* starts above it, so started ones finish.

### How Whitelist and WhitelistGate correspond to the code

* `wlEntries`, `wlKeyIndex`, `wlComboRefCount`, `activeWLSlot` are the fields of `Handlers`; `wl` is
  the pair of maps; `conf` holds slots 1, 3 and 8 of the configs: count, bitmap, selector.
* `AddWhitelist` and `AddWhitelistFromSync` do to one entry what `AddWhitelistBatch` does to several, in
  the same order, and so do the deletes; a single add is a batch of one. Order within an undo differs
  between them only in memory, which nobody reads before the locks are free.
* A publish copies bits, copies the selector, writes bits, writes the selector, flips: the gate reads
  those two fields at different times, so each write is a step. The count has no reader in the
  kernel and moves with the bits. Any of the steps may fail, and the next publish copies over what a
  failed one left.
* `clearMap` is one step. It empties the *shadow* map key by key; only a packet that has read its
  selector before an earlier flip can look there, and for it the properties of `WhitelistGate` except
  the packets under which a map was emptied (`cleared`). A failed delete leaves any nonempty subset.
* `botched` is history: some step of an undo has failed, of which the code only writes a log line.
  The properties on the maps' contents except what follows; `MemoryExact` does not.
* The packet keeps `kept`, the entries it could hit that were in force and untouched all the time it
  has been in the gate, and `seen`, all entries in force or asked for meanwhile.

### How NodeApi and ControllerSync correspond to the code

* `db` has one row per id. An id is used once: `fresh`, then disabled (`off`) or enabled (`on`), then
  `gone`. A row's value stands for what a rule does; its tuple, `KeyOf`, never changes, because
  `RuleService.Update` takes no address, port or protocol. Deleting an id that is gone is tried too.
* A worker is an API request, the sync checker or the expire cleaner; `job` is its place between two
  database statements or calls. Nothing is locked across them, so all workers interleave there.
  `Create` is the look-up of the tuple and `Insert` the INSERT; `Update` and `Write`, `Delete` and `Erase`
  likewise; `ListNodes`, `ReadRules` and `ReadWhitelist` are the three reads of a full sync or a check.
  The anomaly merge is an update of the row it found.
* `task[w][n]` is the goroutine of job `w` for node `n`. The limit on concurrent goroutines delays, and
  blocks nobody for ever, since every task ends; it is left out.
* A call is answered; refused because no agent listens; lost; or timed out and still in `late`, from
  where `Deliver` carries it out at any later time. An answer lost after the call took effect is a late
  call delivered at once. Late calls die with a restart of the agent.
* `Node.Status` changes together with the step next to which `UpdateStatus` stands: "syncing" with the
  start of a sync, "online" or "offline" with its last call.
* The health checker's round lists all nodes and then pings them in parallel. The model has one loop per
  node, which allows every order of pings the rounds allow. Its comparison with the *listed* status is
  kept (`seen`). `OfflineThreshold` is 3 in the code and 1 in the runs, `RetryCount` 0 or 1.
* An agent that restarts has empty maps. It fetches the rules, then the whitelist (`Fetch`), applies both
  before it listens (`Boot`), or gives up when its attempts are used up; the attempts before the last
  change nothing that lasts and are left out.
* Rules are exact rules with valid fields. What a batch on a node leaves behind in maps when a map call
  fails is in `NodeRules`; here such a call is one that failed.
* `alone` and `asked` are history: no job has begun beside another, or after a fault; and the ids that
  some job has held as enabled.

### How RuleFields, ComboLookup and RuleAdmission correspond to the code

* A request is a record of what the client wrote. Absent strings are `None`, a pointer field is a sequence of
  length 0 or 1 (the tri-state of `Update`), `match_anomaly` a set of bits, `tcp_flags` a sequence of literals.
  The text of addresses and networks is a model value that `IpOf` and `CidrOf` parse to a canonical one, two
  spellings to the same, junk to `Bad`. Names, comments, sources and times are left out.
* All validators return an error and change nothing, so acceptance is a conjunction (`CreateOk`, `UpdateOk`) and a
  refused request is no step. `tempReq` keeps what `Update` does: the length check does not see the row's networks.
* `comboFields` is the table of `combo.go`, `probeFields` the blocks of `lookup_rule` in `xdrop_main.c`; `TablesAgree`, an
  assumption TLC evaluates on every run, says that they agree for each of the 31 nonempty sets of fields.
* A handler reads and validates (`BeginCreate`, `BeginMerge`, `BeginBatch` with `BatchItem`, `BeginUpdate`,
  `BeginDelete`), writes (`WriteInsert`, `WriteUpdate`, `WriteDelete`) and calls the agent (`Push`), with other handlers in
  between if the instance has several.
* A rule on the node is its kind, key and value; a network's id in the tries is the network. The bitmap a
  packet reads is the set of the installed rules' combos: that it is, at every instant that matters, is what
  `NodeRules` and `CidrRules` are about.
* `actedOn` is true when a packet is dropped or metered by a rate limiter. What the limiter decides is left out.

### How StatsCache corresponds to the code

* `cache` is `cacheState`: base status, outcome and age of the snapshot, numbers. Times are ages that a `Tick` advances
  together, up to one past `StaleAfter`. The three numbers of a rule are one.
* `refresh` is `Begin` (clock read, nodes copied, requests begun), an `Answer` or `Fail` per node, and `Swap`. The status of the nodes
  when they are copied is any: it changes under another lock at any time. The concurrency limit only delays.
* `Return` is either `select` taking `stopCh` or the context; a `select` with several ready channels takes any.
* `Cancel` and `Stop` are the deferred calls of `main`; the HTTP server is shut down before.
* A listing is `Meta` and `LookupMany`, which take the lock separately; `mixed` is history: the state was replaced in
  between. `low`, `old` and `hot` are history too: what the nodes had counted when the round began, the age of the oldest
  answer, and the rules with a hit at that time.

### How AgentStart corresponds to the code

* `life` numbers the processes. `maps` and `pinMaps` are the map sets of the two collections, by the life that created
  them; `content` is the life whose entries they hold; `ff` the forwarding flag in the config. `pinMaps` may be replaced at
  any load, which is the schema check of `reconcilePinnedMaps`.
* `prog`, `pin` and `fd` are the kernel's: a link is attached while a pin or a descriptor refers to it. `Legacy` is a program
  attached without a link, which `PreDetach` removes.
* `pc` is where `main` is, `sig` where the shutdown goroutine is; both run. After `CloseLinks` the collections are
  closed, so the steps of `main` that need a program or a map fail (`FaultOrClosed`).
* `Crash` is possible at every step and stands for SIGKILL, a panic, and a signal before `signal.Notify`.
* Where the code ends with `log.Fatalf`, `FatalRestored`, `GiveUp` and `Fatal` tell whether `RestoreAll` was called before, as at each
  call site.
* `set` is what is on at an interface: up, promiscuous mode, offloads. `saved` is `originalStates`, lost with the process.
  `ConfigureInterface` reads each feature, saves, sets the flags and disables the offloads. A read that fails is taken as "off" and the
  start goes on, so what is saved may lack features that were on; `misread` is the history of these. A disabling that fails is only logged
  (`stuck`); without the interface, up or promiscuous mode the start ends, after a part of the work. `RestoreAll` undoes what is saved, each
  command succeeding or not.
* A collection that cannot be loaded at all ends every pinning mode. In auto mode the drifted pins may be gone when the load goes on without pins.

## Runs

| Run | Question | Result |
|---|---|---|
| `rules` | single-rule requests and full syncs, any one map call of a request failing, two in all; one packet beside them | all properties hold; the store implements `RuleStore`; the packet is dropped unless a rule map was emptied under it |
| `faults` | batches and full syncs, every kind of failure, two per request | the inductive invariant holds; until the first failure batches implement `RuleStore` |
| `cidr_race` | two handlers of CIDR rules at once, one failed release or publish | references have one holder, tries match the tables, every request returns |
| `cidr_faults` | one handler of CIDR rules, every kind of failure, two per request | ids stay; rules enforced; the longest match is the rule's network unless a release failed or a full sync is running |
| `wl` | whitelist adds, replacements, batches, deletes, clears, full syncs, two failures; one packet in the gate beside them | memory always consistent; maps exact unless an undo failed; the packet admitted exactly for cause, unless a map was emptied under it |
| `ctl` | two API requests at a time, for two rules of one tuple, one apart, and a whitelist entry; sync checker and expire cleaner; no call fails | undisturbed pushes are complete; a rule nobody enabled is on no node |
| `ctl_live` | from an empty or a filled database: a request, with one lost or late call, a retry and one restart; sync checker and health checker | every job ends; each node ends up online with the right numbers |
| `admit` | sequences of requests of every kind, right and wrong, and eight packets | rows stay well formed; the node refuses none as invalid; rules act on their packets and no others |
| `stats` | zero to two nodes, slow, failing, offline or warming; a listing; a shutdown at any time | zeros are zeros, freshness is right, `Stop` returns, the cache recovers |
| `start` | three lives, three pinning modes, a pair or one interface, signals and crashes anywhere, one failed operation | serving agents are attached, configured, clean; no gap; rollback complete; interfaces as before, but for features whose read failed |
| `batch_rollback`, `startup_disabled` | what comments and documents claim | violated, see "Findings" |

Bounds. Two ids and three good keys are enough for a move, a key taken over by another id, two rules
sharing a combo and two that do not; the fourth key has no supported combo. The networks are one, one
inside it and one apart: shared, nested and unrelated. Two failures in all let a failed rollback step
follow a failed publish and let a second request run on what the first left. Two handlers are enough
for the races of the CIDR adds, which are pairwise. In `rules` and `wl` a packet enters only until `WatchedFaults`
failures have happened: with two it would meet the same mixtures again. The next-state relation of these modules is not
bounded otherwise: requests repeat for ever, so every publish is run from both slots.
In `start`, one interface is up and promiscuous and the other is down with an offload on, so that each read can lose what was on and each
restore has something to undo; one offload stands for three. Each failed command counts as one failed operation. Three lives let a
pinned link, a pinned map or a changed interface of one life meet a second one and its restart.

In `ControllerSync` the number of requests, faults and restarts is bounded: two requests can overlap, be a
create and its update, or an insert of a tuple that is taken; one late call can arrive after the sync that
repaired its absence; one restart can fall into any job. In `ctl_live` the one request meets a database from before
(`Running`: rows on every node, or disabled), so that it may be an update or a delete as well as a create. Schedulers run for ever. One node is enough, as
nodes share nothing but the rows that are sent to them. In `ctl` the two rules have one tuple, the hard
case of the database, and the third can be in a batch with either; the request slots, the two
rules and the two values are interchangeable (`Alike`). Failed and late calls are left to `ctl_live`: the properties of `ctl` are about what
the controller decides and in which order, and `CalmExact` asks for undisturbed pushes anyway. `DisabledStaysOff`
is checked in `ctl` without restarts, since a restart violates it (`startup_disabled`).

`admit` has two ids: an overlap, a taken key and a merge are pairwise. Its requests contain each kind of rule that
is accepted and one for each check that refuses; widths are 3 instead of 65535, so the first value outside is there. One
handler runs at a time: with two, the races of "Known limits" violate `Acted` and `NothingElse` as they should. `stats` needs one rule, as rules do
not meet, and one hit per node to tell zero from nonzero. In `start` the third life meets what a second one
made of the remains of the first; one failure can be anywhere in any of them. It ends after `MaxLives`, and only this run,
like those of the controller with their bounded requests, may stop.

Fairness. In `CidrRules` only `Returns` needs it: weak fairness of each handler's steps (a goroutine that can run is
run) and strong fairness of taking the lock (a Go mutex hands itself to a waiter that has waited a
millisecond, so a waiter is not passed over for ever). It would be violated by an early return that
keeps the lock, of which the CIDR paths have many. In `ControllerSync` each worker (`Works`), each node's health loop and each
agent with its accepted calls (`Serves`) is weakly fair: they are goroutines that can run, timers that fire, and requests a
server has already accepted. That a call is lost, an agent restarts, a rule expires or a client asks
for something is never required. In `StatsCache` timers fire, a request to a node ends, at the latest by its timeout, and
`Return` is strongly fair: while a channel is closed every `select` may take it, and Go chooses among the ready cases at
random, so the ticker does not win for ever. Clock and traffic are not fair. The other modules state safety only.

### Findings

* `batch_rollback` (`rules_mutation.go:582`): a batch is undone first item first. If item 1 moved
  rule `a` from key `k` and item 2 gave `k` to rule `b`, the failed publish leaves `a` in the table
  without map entry and without index entry. `Enforced`, and with it the other properties of run
  `rules`, holds for requests of one rule.
* `startup_disabled` (`controller_sync.go:79`): an agent that starts fetches all rules of the database and
  puts disabled ones in force too, where API.md says they are not synced. The sync checker notices
  only if the numbers differ.

### Known limits

Where the code gives no guarantee, the properties make an exception, and each exception is one of these:

* The error of clearing the shadow rule map is dropped (`sync.go:243`), so an entry that could not be
  deleted is flipped in and belongs to no rule, although a comment relies on the next sync clearing it
  (`sync.go:488`). `NoOrphan` is checked without failures of that step. The whitelist's full sync returns the
  error instead, and run `wl` shows its leftovers are never admitted.
* A full sync copies the active config to the shadow one and drops the errors of the copy (`sync.go:506`). It then overwrites all that
  concerns rules, but an entry it does not overwrite (whitelist bitmap, count and selector, fast forward, filtered interface) may be as old as two
  publishes after the flip. No module composes rule syncs with the whitelist or with the start, so no property sees it.
* Two adds of nested networks at once both pass the overlap check (`cidr_rules.go:60`), which runs before
  the lock. `LongestMatch` is checked with one handler.
* A full sync writes its networks into the tries in use (`sync.go:332`), so until the flip an address may
  match a network that the active rules do not know. `LongestMatch` excepts the networks of a running full sync.
* The old whitelist map is emptied immediately after the flip (`sync.go:894`), and so is the old rule map
  (`sync.go:619`); a packet that read the selector before it finds its entry in neither. `KeptAdmitted` and
  `FlipConsistent` except packets under which a map was emptied.
* Adds write to the active map, not to the shadow map as the README of the repository says
  (`rules_mutation.go:165`): a rule moved to another combo is enforced under neither key until the publish.
  `NeverHidden` excepts the rules the running request names.
* The UNIQUE constraint of table `rules` treats an empty address as NULL and every NULL as different
  (`sqlite.go:41`, `sqlite.go:809`), so two concurrent creates of a tuple with an empty address both insert. The
  nodes refuse the second row. `CountsConverge` excepts such rows.
* The sync checker compares numbers only (`sync_checker.go:152`). When the delete of an update is lost, its add is refused as a
  duplicate, the node keeps the old version, and the numbers agree for ever. `CountsConverge` is what the code achieves.
* Merge and Update write back a whole row they read earlier (`rule_service.go:253`, `rule_service.go:483`), and the overlap check of
  a create is in no transaction with its INSERT (`rule_service.go:88`): of two racing requests one may be lost, and nested
  networks may be stored. Run `admit` serves one request at a time.
* A rule without any field, or with 0.0.0.0 or :: as its only one, is stored and then refused by every node
  (`combo.go:76` has no combo for it). "", 0.0.0.0 and :: are three rows and one key: the node refuses the later ones. `Acted` excepts both.
* The length check of Update does not see the networks of a CIDR rule (`rule_service.go:364`), so a rule that has only networks and a
  length can be created and not edited any more.
* The duplicate check of BatchCreate for an exact rule also finds CIDR rules with the same ports and protocol and no addresses
  (`sqlite.go:526`), so such an item is refused where Create would accept it.
* Meta and LookupMany take the cache's lock separately (`rules.go:269`, `rules.go:279`): a listing may show the status of one snapshot and the
  numbers of the next. `ZeroIsZero` excepts it.
* A node answers zero for a rule whose map entry it cannot look up (`rules_list.go:236`), and its counters start again at zero after a
  restart, an update of the rule or a full sync; the cache takes these numbers as they are. In `StatsCache` counters only grow,
  so `Covered` and `ZeroIsZero` say nothing of hits counted before such a reset, nor of a failed lookup.
* Both collections are cleared only if the main one is pinned (`main.go:150`). If pinning fails for it and not for the
  gate's, `whitelist_b` keeps entries of an earlier life. `CleanStart` is checked while nothing has failed.
* What an interface was set to is kept in memory (`ifmgr.go`), so a killed agent leaves it changed and the next one takes that
  for the original. A signal during the start may find a link or an interface main has not recorded yet (`main.go:295`), and the pin of an
  interface that is no longer configured stays. `RestoredOnExit` and `NoGap` except these.
* A failed `ip link show` or `ethtool -k` is taken as "off" (`ifmgr.go:69`, `ifmgr.go:222`; the comment at `ifmgr.go:65` says so), so a clean exit
  after it disables promiscuous mode that was on, and leaves offloads disabled that were on. `RestoredOnExit` excepts features
  that were on when reading them failed, and only these. Commands of `RestoreAll` that fail are excepted too.

## Proofs

Eight modules hold theorems, all of them checked by TLAPS to the last leaf and none of them limited to an instance: they
hold for every value of the constants the named assumptions allow. Those assumptions are evaluated by TLC on every run. Each
module proves an inductive invariant or several, which TLC checked on the instances above before it was proved, and takes the
properties of the runs from it.

| Module | Theorems (property of a run) |
|---|---|
| `NodeRulesProofs` | `Invariance` (`IInv`), `TypeCorrect` (`TypeOK`), `RulesNeverHidden` (`NeverHidden`), `FailedAddUndone` (`RollbackRestores`), `ExactInvariance`, `RulesEnforced` (`Enforced`), `IndexExact` (`IndexInverse`), `NothingOrphaned` (`NoOrphan`), `ExactUntilFailure`, `StoreImplemented` (`ImplementsStore`), `BatchesImplemented` (`BatchesImplement`) |
| `RulesDataPathProofs` | `PacketOnlyWatches`, `PacketInvariance`, `NoFlipLeaks` (`FlipConsistent`) |
| `CidrRulesProofs` | `Invariance`, `CountsExact` (`RefsExact`), `TablesAgree` (`TrieMatches`), `NoIdLost` (`IdsStay`), `MapsInvariance`, `RulesInForce` (`Enforced`), `FlatInvariance`, `MatchIsRule` (`LongestMatch`) |
| `WhitelistProofs` | `WhitelistInvariance`, `EntriesStayAdmitted` (`EntriesAdmitted`), `OnlyEntriesAdmitted` (`NothingElseAdmitted`), `OldAlwaysGoesFirst` (`OldGoesFirst`), `MemoryAlwaysExact` (`MemoryExact`), `GateInvariance`, `KeptAlwaysAdmitted` (`KeptAdmitted`), `AlwaysForCause` (`AdmittedForCause`), `AgentInGate` |
| `RuleAdmissionProofs` | `Invariance`, `RowsSound` (`WellFormed`), `AgentAgrees` (`Agreed`), `PathActs`, `PathOnly`, `NodeShowsTable`, `RulesAct` (`Acted`), `OnlyRulesAct` (`NothingElse`) |
| `ControllerSyncProofs` | `Invariance`, `OffUntilRestart`, `DisabledOff` (`DisabledStaysOff`), `CalmPushesExact` (`CalmExact`) |
| `StatsCacheProofs` | `Invariance`, `FreshAsSaid` (`FreshWhenSaid`), `ZerosAreZeros` (`ZeroIsZero`), `SnapshotsCover` (`Covered`) |
| `AgentStartProofs` | `Invariance`, `ServesAttached` (`Serving`), `FailedStartUndone` (`RolledBack`), `StartsClean` (`CleanStart`), `InterfacesRestored` (`RestoredOnExit`), `FilteredThroughout` (`NoGap`) |

**Exact rules, whatever fails** (`NodeRulesProofs`; `ConstantsAssumption`: finite `Ids`, `None` outside the other sets, `Combo` a
function, requests nonempty sequences). `NeverHidden` alone is not inductive: that the flip is safe depends on the shadow
config, which was built from `rules`, the counters and `delta`. `IInv` says what each step has established so far: `Control` (which
locals are live where), `OnlyLegal` (no rule of an unsupported combo), `AddUndoable` (the table differs from the committed one
only where a succeeded item remembers the old rule, one item per id), `DeleteShrinks`, `Untouched`, `CountsCover` (reference
counts at least the rules that need them; the rule count plus `delta` is right), `ConfigsCover` (active config covers the
committed rules, shadow config what the flip is about to put in force). The counters are bounded from below only, because
that is all the code keeps: after a rollback of a batch or a delete that was not published they may be too high.

**Exact rules, exactly** (the second half of `NodeRulesProofs`). What the maps contain is exact only as long as no undo goes wrong, so these
theorems have conditions, each of which an instance of TLC meets. `DistinctSyncs`: a full sync names no id twice; the controller
sends the rows of a table whose primary key the id is. `Narrow`: adds of one rule, at most one failed map call per
request, and the clearing of a map does not fail. Without the first, the finding `batch_rollback` is a counterexample;
without the second a failed undo is; the third is the first of the known limits. `ExactUntilFailure` and `BatchesImplemented` drop `Narrow` and
speak of the time before the first failure. Run `rules` meets `Narrow` and `DistinctSyncs`, run `faults` `DistinctSyncs`. The invariant
`EInv` adds to `IInv`: `Selectors` (each config names its map), `AsAsked` (the table differs from the committed one only as the running
request asks, a full sync has built or failed each item), `Failures` (only a failure leads to an undo), and, when nothing has
failed or under `Narrow`, `Exact`: index and active map mirror the table, except that in the middle of a move the map has the new
entry beside the old one and in the middle of its undo neither; a full sync builds such a mirror in the shadow; no two committed
rules share a key, so that an undo always finds its key free. The refinement follows step by step: the step that commits is the
request of `RuleStore`, all others stutter.

**The packet** (`RulesDataPathProofs`). A packet changes nothing the agent reads (`PacketOnlyWatches`), so all of the above holds beside
it. `DInv` says of each place in the programs that what the packet reads next still leads to its rule: the config of the slot it
has read, though that may have become the shadow and be rewritten, reaches the rule; the map it has selected is the active
one until a full sync clears the other, which marks the packet `cleared`. The condition `ExactWhileWatched` asks for exact maps while the packet
is followed: `DistinctSyncs`, and `Narrow` or `WatchedFaults = 0`; run `rules` has `Narrow`.

**CIDR rules** (`CidrRulesProofs`; `CidrAssumption`). `RefsExact` is an equation of cardinalities; it is preserved because each step moves a
reference from one holder to another, and to know that one needs where each handler is and what it holds: `ProcOK` (a step
fits the request, the lock is held exactly in the steps that need it, a network is dropped only in "drop", ids are taken for the
networks the steps have come to, a full sync builds each id once), `HolderOK` (the lock holder's tables are empty outside the steps
that use them), `ManagerOK` (a network has a count exactly when it has an id; ids are below `nextID`), `KeysOK`. `IdsStay` follows: a release that
finds the count at one is the release of the only holder, so no rule can be keyed by the id.

`Enforced` says nothing while a handler has the lock, so `MapsInv` says what holds then, for any number of handlers and failures:
`MemoryOK` (the key index is the inverse of the table, the combo counts are exact, of the rules in force and of those a full sync builds),
`EntriesOK` (each rule has its entry in the active map, each built rule in the shadow, except an old rule whose entry a move has taken
out and keys that a failed rollback has lost), `ConfigOK` (the bitmap has every rule's combo, the count plus what is still to be
published is at least the number of rules; the rule whose publish is to come is exempt), `AddOK` and `DeltaOK` (the add's new key is nobody else's).

`LongestMatch` is about one handler (`OneHandler`), because two adds check before they allocate and neither sees the other. It also needs `FlatSyncs`:
the rules of one full sync do not contain one another, which the agent does not check and the controller does when it stores them
(save for the racing creates of "Known limits");
the syncs of run `cidr_faults` are such. `FlatInv` says that no network in use by the rules in force, by the rule a move replaces or by
the request under way contains another, likewise for the networks of a full sync, and that what an add's checks found still holds when it takes its ids
(`Checked`). That `Inside` is strict containment is part of `CidrAssumption`: a network is not in conflict with itself, so a second rule may share it.

**Whitelist** (`WhitelistProofs`; `WhitelistAssumption`: finite `Ids`, `None` outside the other sets, `Combo` a function, requests sequences of
items or ids; `PacketsAssumption`). There is no condition on requests, failures or their number. The properties say nothing of memory while a
handler runs, so `IInv` says how far it has come. It speaks of two tables: `Published`, which the active config describes, and `Announced`,
which the counts describe; an add announces the table it is to leave (`Final`) before it inserts anything, publishes it, and on failure takes it
back by a second publish, a full sync announces its own. `Memory`: the index is the inverse of `wlEntries`, the counts are those of `Announced`.
`DeltaOK`: `delta` is the difference of the two tables in size, so that the second publish cancels the first. `Confs`: the active config
has bitmap, count and selector of what is published, the other one what each step of the publish has already written. `KindInv`: for each handler and each of
its steps, what the active map holds (in a replacement the committed entries without those taken out, then also those inserted, and back), and for a full sync the shadow map
too. `Once`: no two ids have one key, which keeps the deletion of one entry from hiding another. The counts need what `Dedup`, `Changes` and
`Replaced` return; they are folds, and `FoldExists` shows once, by exhibiting a solution over sets of places and finding no smallest one that differs, that
such a fold is what its recursion says.

The gate adds to it what a packet has been told (`GateInv`): the map that its config, or the selector it has read, leads to holds every entry left
alone since the packet came (`kept`), and nothing that was not in force or asked for meanwhile (`seen`); each of those entries has its combo in the bitmap. A
step of the agent preserves that because it only inserts what is asked for, only removes what the request names (`WlStep`), and writes into
a config only what the active one has or memory says (`ConfWrites`), each of which tells a packet the truth (`ForceShows`).
TLC checked `IInv` and `GateInv` on run `wl` before they were proved.

**Rule fields** (`RuleAdmissionProofs`; `FieldsAssumption`, `BodiesAssumption`: what parses to what, and what a JSON body can be;
`NoneAssumption`: "no row" is not a row).
Any number of handlers run at the same time. The invariant says that the rows of the table, the rows jobs are about to
write and the calls they are about to make are sound: `WellFormed` and valid for the agent. It carries the calls that belong to the
rows of a batch beside the rows, which is why `job` lists them as items are accepted. That an update keeps rows sound is the heart of
it: the row is validated against what was read, and validity does not depend on what is in the table meanwhile.

That a packet meets exactly the rules that are about it is proved in two halves. The first has no state: for any set `R` of rules
as a node can have installed them (`Installable`: valid ones, no two of one key, no two nested networks for one direction), a
packet a rule of `R` is about is acted on (`PathActs`), and one that none is about is not (`PathOnly`). The proof follows the combo a
rule is classified into through the probe that masks a packet with that combo; for networks, through the two tries, where no other
installed network can hide the rule's because they do not nest, and through "both ends are networks" and the one-ended lookups.
`FieldsAssumption` says for this what the two tries of each direction are (`sv4_cidr_trie` and its like in `xdrop.c`, one per address family, so a network
covers addresses of its own family only) and what a network is (two prefixes nest or have no address in common). The second half is
`Served`, an invariant of one handler: stored rows do not clash (`TableApart`), what the handler has checked still holds when it writes
(`JobServed`), and the node shows each row as it should be except those that a call is still to come about (`Shown`, `Waits`). At rest nothing
waits, so the node has installed the enabled rows, and the halves give `RulesAct` and `OnlyRulesAct`. The condition `OneHandler` is needed: two
racing creates store nested networks ("Known limits").

**The controller** (`ControllerSyncProofs`; `ControllerSyncAssumption`, `NodeApiAssumption`). `IInv` types every variable, and in the place of "table" says "table
of allowed ids": those asked for, and after a restart all. It is carried through everything that holds rows: the database, the
rows of a job, planned pushes, calls under way, what a diff or legacy sync has listed, the nodes. `DisabledOff` has the condition `MaxRestarts = 0`, since a
restart breaks the property (`startup_disabled`); `OffUntilRestart` says the same of any behaviour until the first restart.

`CalmExact` speaks of rest only, so `CalmInv` says what holds on the way, while nothing has gone wrong and one job runs (`Calm`; what is
not calm never is again): what a request has read still is so when it writes (`Changes`); afterwards the calls it has still to make lead
each node from what it holds to the enabled rows (`Due`), which for the update of an enabled rule is a deletion and an add that fits only after
it; a full sync leads there from anything, in two steps (`Syncing`); a check finds the numbers right; what is left of a
cleaner's round is as it was read. That a deletion may be answered with "not found" and made again costs nothing, because deleting twice is
deleting once (`CallDue`), while an add that fits is never refused. TLC checked `CalmInv` on run `ctl`, and with two nodes and the health checker.

**Statistics** (`StatsCacheProofs`; `StatsAssumption`). Ages that advance together are compared through the oldest answer of the round (`old`);
`ZeroIsZero` needs that a rule the nodes had counted when the round began (`hot`) has a node that counts it still, which if it has
answered is in the sum; and that nothing replaces the snapshot between the two lock sections of a listing, or the listing is `mixed`.
`Covered` compares sums over nodes, each a fold in an order that `CHOOSE` leaves open. `FoldIsTotal` shows that such a fold is the number of
marks when every node has one for each hit: it exhibits one solution of the recursion, and finds no smallest set of nodes on which
another differs. `FanSums` then says that a number of a round under way is at most what the nodes that answered count now, and with what the
others count now makes up what all had counted when the round began (`low`).

**Start** (`AgentStartProofs`; `AgentStartAssumption`, the interfaces of a pair being different). The invariant relates the place in `main` to
links, pins, descriptors, maps and saved features, over any number of lives. Its part on interfaces (`Remembered`)
is that of an interface without an entry in `saved` the features are as before, and of one with an entry the saved ones are, no offload is on that
was off, and no flag off that was saved as on (`Undoable`); "as before" is but for what was misread. `PutBackFacts` and `RestoreFacts` carry this through `RestoreAll`: with no command failing it ends at
`AsBefore`; a command that failed sets `unrestored`. The assumption also says that the offloads are finitely many, so that failed
commands can be counted, and that `NoState` is no set of features. `NoGap` is an action property and follows from the invariant in
the state before the step.

Only model-checked, and why:

* `Returns` (twice), `CountsConverge`, `StopReturns`, `Recovers`: liveness under fairness, out of the prover's reach.

## Plan

1. `NodeRules`, `RuleStore`, `NodeRulesProofs`, `RulesDataPath`: done.
2. `CidrRules`: done. Left: a CIDR rule and an exact rule of one id in one request, the batch paths
   over both kinds. `ClearAll` of the manager has no caller.
3. `Whitelist`, `WhitelistGate`: done.
4. `NodeApi`, `ControllerSync`: done. Left: rows of one tuple with an empty address against several nodes, and
   the legacy full sync whose pre-clean is skipped (`node_client.go:359`).
5. `RuleFields`, `ComboLookup`, `RuleAdmission`, `StatsCache`, `AgentStart`: done. Left: the token bucket, racing requests in
   `RuleAdmission` with the properties that survive them.
6. Proofs: done for every safety property of the runs. Left: liveness, which TLC checks.

## Not modelled

Packet parsing and byte encodings (pure, tested in Go), the rate limiter's arithmetic, the agent's own statistics and
listing, the web interface, the legacy single program `xdrop.c`. Of the controller: the HTTP layer and its authentication, configuration,
database migrations, pagination, the sync log, node time stamps, of the statistics the top-N list, the legacy fan-out, diagnostics and counters
that fall back to zero (see "Known limits"), and functions without a caller
(`SyncWhitelistFull`, `SyncDeleteRulesBatch`, `DiffSyncToAllNodes`, `DeleteExpired`).
