--------------------------- MODULE ControllerSync ---------------------------
(***************************************************************************)
(* The controller: its database, the API requests that change it, the push *)
(* of each change to the nodes, and the schedulers that repair what a push *)
(* missed: health checker, sync checker and expire cleaner.                *)
(*                                                                         *)
(* A worker is an API request or a scheduler; a job is what it is doing.   *)
(* Every database statement and every HTTP call is a step of its own, and  *)
(* nothing is locked across two of them.  A job pushes by running one task *)
(* per node, side by side.  A call may fail before it reaches the agent,   *)
(* or time out and take effect later, while the controller retries or goes *)
(* on.                                                                     *)
(***************************************************************************)
EXTENDS NodeApi, Sequences

CONSTANTS
  Nodes,
  Requests,         \* slots for concurrent API requests
  Schedulers,       \* which of "checker", "cleaner", "health" run
  UniqueKeys,       \* keys on which the UNIQUE constraint of table rules works: none
                    \* of src_ip and dst_ip is NULL, that is, empty
  Expiring,         \* rules created with an expiry
  RetryCount,       \* sync.retry_count
  OfflineThreshold, \* offlineThreshold
  MaxBatch,         \* bound: items of one request
  MaxRequests,      \* bound: API requests
  MaxFaults,        \* bound: failed or late calls
  MaxRestarts       \* bound: agent restarts

ASSUME ControllerSyncAssumption ==
  /\ IsFiniteSet(Nodes)
  /\ Schedulers \subseteq {"checker", "cleaner", "health"}
  /\ UniqueKeys \subseteq Keys /\ Expiring \subseteq RuleIds
  /\ RetryCount \in Nat /\ OfflineThreshold \in Nat \ {0}
  /\ MaxBatch \in Nat /\ MaxRequests \in Nat /\ MaxFaults \in Nat /\ MaxRestarts \in Nat

VARIABLES
  db,       \* each id's row: not yet there, a disabled or enabled one, or deleted
  status,   \* Node.Status in the controller's memory
  fails,    \* HealthChecker.failCounts
  seen,     \* the status a running ping of the health checker has listed, or "none"
  job,      \* what each worker does
  task,     \* each worker's call sequence to each node
  table,    \* what each agent enforces
  agent,    \* "up", "down", "halfway" through what it fetches, or "fetched" it
  fetched,  \* what a starting agent has fetched
  late,     \* timed-out calls that will still take effect
  requests, faults, restarts, \* counters for the bounds
  alone,    \* history: no job has begun beside another, or after a fault or restart
  asked     \* history: the rows jobs have held as enabled

dvars == <<db, job, asked>>
nvars == <<table, late, faults>>
avars == <<agent, fetched, restarts>>
hvars == <<fails, seen>>
vars  == <<db, status, fails, seen, job, task, table, agent, fetched, late,
           requests, faults, restarts, alone, asked>>

Workers  == Requests \cup (Schedulers \ {"health"})
Statuses == {"unknown", "online", "offline", "syncing"}

Row   == [state : {"fresh", "off", "on", "gone"}, val : Vals \cup {None}]
Fresh == [state |-> "fresh", val |-> None]
Gone  == [state |-> "gone", val |-> None]
NoRows == [i \in {} |-> Fresh]

Present(i) == db[i].state \in {"on", "off"}
\* Bug variant of Enabled: ListEnabled without its WHERE clause.
EnabledAll == [i \in Ids |-> db[i].val]

\* ListEnabled of the rules and List of the whitelist; List of both.
Enabled == [i \in Ids |-> IF db[i].state = "on" THEN db[i].val ELSE None]
Listed  == [i \in Ids |-> db[i].val]

\* GetByTuple, Exists and the SELECT of the whitelist; the UNIQUE constraint.
Taken(i) == \E j \in Ids : Present(j) /\ KeyOf[j] = KeyOf[i]

\* A push: kind "push" makes one call with retries, "full" is FullSyncToNode and
\* "check" is SyncChecker.checkNode.
Push(c)  == [kind |-> "push", call |-> c]
Full     == [kind |-> "full", call |-> Add(Empty)]
Check    == [kind |-> "check", call |-> Add(Empty)]

\* A job: its next step, the rows it read or will write, whether a row it changes
\* was enabled, the pushes it has still to make, the one it makes and the nodes it
\* has listed for it.
Idle == [op |-> "idle", rows |-> NoRows, on |-> FALSE, pushes |-> <<>>, now |-> Full,
         nodes |-> {}]
\* The job after its last database write.
Pushing(pushes, rest) ==
  [Idle EXCEPT !.rows = rest,
               !.pushes = pushes,
               !.op = IF pushes # <<>> THEN "list" ELSE IF rest # NoRows THEN "clean" ELSE "idle"]

\* A task: its next step, attempts made, the mode and scope of a sync in steps,
\* and what it listed.
Done == [pc |-> "done", att |-> 0, mode |-> "none", scope |-> {}, list |-> Empty, cur |-> {}]

Init ==
  /\ db = [i \in Ids |-> Fresh]
  /\ status = [n \in Nodes |-> "unknown"]
  /\ fails = [n \in Nodes |-> 0] /\ seen = [n \in Nodes |-> "none"]
  /\ job = [w \in Workers |-> Idle]
  /\ task = [w \in Workers |-> [n \in Nodes |-> Done]]
  /\ table = [n \in Nodes |-> Empty]
  /\ agent = [n \in Nodes |-> "up"] /\ fetched = [n \in Nodes |-> Empty]
  /\ late = {}
  /\ requests = 0 /\ faults = 0 /\ restarts = 0
  /\ alone = TRUE /\ asked = {}

-----------------------------------------------------------------------------
(* Calls *)

\* One call: answered; refused because nobody listens; lost; or timed out and
\* still under way.
Calls(n, c, ok) ==
  \/ /\ agent[n] = "up"
     /\ \E e \in Effects(c, table[n]) : ok = e.ok /\ table' = [table EXCEPT ![n] = e.table]
     /\ UNCHANGED <<late, faults>>
  \/ /\ ~ok /\ agent[n] # "up"
     /\ UNCHANGED nvars
  \/ /\ ~ok /\ agent[n] = "up" /\ faults < MaxFaults
     /\ faults' = faults + 1
     /\ late' \in {late, late \cup {[node |-> n, call |-> c]}}
     /\ UNCHANGED table

Reads(n, ok) ==
  \/ ok /\ agent[n] = "up" /\ UNCHANGED nvars
  \/ ~ok /\ agent[n] # "up" /\ UNCHANGED nvars
  \/ ~ok /\ agent[n] = "up" /\ faults < MaxFaults /\ faults' = faults + 1 /\ UNCHANGED <<table, late>>

Deliver(l) ==
  /\ agent[l.node] = "up"
  /\ \E e \in Effects(l.call, table[l.node]) : table' = [table EXCEPT ![l.node] = e.table]
  /\ late' = late \ {l}
  /\ UNCHANGED <<dvars, status, hvars, task, avars, requests, faults, alone>>

-----------------------------------------------------------------------------
(* API requests: rule_service.go, whitelist_service.go, node_service.go *)

SetJob(w, j) ==
  /\ job' = [job EXCEPT ![w] = j]
  /\ asked' = asked \cup {i \in DOMAIN j.rows : j.rows[i].state = "on"}

Begin(w, j) ==
  /\ job[w] = Idle
  /\ SetJob(w, j)
  /\ alone' = (alone /\ faults = 0 /\ restarts = 0 /\ \A v \in Workers : job[v] = Idle)

Request(r, j) ==
  /\ requests < MaxRequests
  /\ requests' = requests + 1
  /\ Begin(r, j)

Unused(S) == \A i \in S : db[i] = Fresh /\ \A w \in Workers : i \notin DOMAIN job[w].rows

\* RuleService.Create and BatchCreate up to the insert: validation, and items whose
\* tuple is in the database or earlier in the batch are dropped.  WhitelistService
\* .Create up to the SELECT of repo.Create.
Create(r) ==
  \E S \in (SUBSET RuleIds) \cup {{i} : i \in WlIds} :
    /\ S # {} /\ Cardinality(S) <= MaxBatch
    /\ Unused(S) /\ DistinctKeys(S) /\ \A i \in S : ~Taken(i)
    /\ \E rows \in [S -> [state : IF S \subseteq RuleIds THEN {"on", "off"} ELSE {"on"},
                          val : Vals]] :
         Request(r, [Idle EXCEPT !.op = "insert", !.rows = rows])
    /\ UNCHANGED <<db, status, hvars, task, nvars, avars>>

\* The INSERT: the whole batch is one transaction.  Then SyncAddRule,
\* SyncAddRulesBatch or SyncAddWhitelist for what is enabled.
Insert(r) ==
  LET rows  == job[r].rows
      items == [i \in Ids |-> IF i \in DOMAIN rows /\ rows[i].state = "on" THEN rows[i].val ELSE None]
  IN
  /\ job[r].op = "insert"
  /\ \/ /\ \E i \in DOMAIN rows : KeyOf[i] \in UniqueKeys /\ Taken(i)
        /\ SetJob(r, Idle)
        /\ UNCHANGED db
     \/ /\ \A i \in DOMAIN rows : KeyOf[i] \in UniqueKeys => ~Taken(i)
        /\ db' = [i \in Ids |-> IF i \in DOMAIN rows THEN rows[i] ELSE db[i]]
        /\ SetJob(r, Pushing(IF items = Empty THEN <<>> ELSE <<Push(Add(items))>>, NoRows))
  /\ UNCHANGED <<status, hvars, task, nvars, avars, requests, alone>>

\* RuleService.Update up to the write: the row read, with the request's fields.
\* tryAnomalyMerge is such an update.
Update(r) ==
  \E i \in RuleIds, state \in {"on", "off"}, v \in Vals :
    /\ Present(i)
    /\ Request(r, [Idle EXCEPT !.op = "write", !.on = (db[i].state = "on"),
                               !.rows = [j \in {i} |-> [state |-> state, val |-> v]]])
    /\ UNCHANGED <<db, status, hvars, task, nvars, avars>>

\* Bug variant of Transition: a rule that is disabled stays on the nodes.
TransitionKeeps(i, was, row) ==
  LET add == Push(Add([j \in Ids |-> IF j = i THEN row.val ELSE None]))
      del == Push(Del({i}))
  IN  IF row.state = "on" THEN IF was THEN <<del, add>> ELSE <<add>> ELSE <<>>

\* What follows from the states before and after an update.
Transition(i, was, row) ==
  LET add == Push(Add([j \in Ids |-> IF j = i THEN row.val ELSE None]))
      del == Push(Del({i}))
  IN  IF row.state = "on" THEN IF was THEN <<del, add>> ELSE <<add>>
                          ELSE IF was THEN <<del>> ELSE <<>>

\* The UPDATE touches no row when the rule has been deleted meanwhile, and the push
\* goes out all the same.
Write(r) ==
  \E i \in DOMAIN job[r].rows :
    LET row == job[r].rows[i] IN
    /\ job[r].op = "write"
    /\ db' = IF Present(i) THEN [db EXCEPT ![i] = row] ELSE db
    /\ SetJob(r, Pushing(Transition(i, job[r].on, row), NoRows))
    /\ UNCHANGED <<status, hvars, task, nvars, avars, requests, alone>>

\* RuleService.Delete: the read that decides whether to push, then the DELETE.
Delete(r) ==
  \E i \in RuleIds :
    /\ Present(i)
    /\ Request(r, [Idle EXCEPT !.op = "erase", !.on = (db[i].state = "on"),
                               !.rows = [j \in {i} |-> db[i]]])
    /\ UNCHANGED <<db, status, hvars, task, nvars, avars>>

Erase(r) ==
  \E i \in DOMAIN job[r].rows :
    /\ job[r].op = "erase"
    /\ db' = [db EXCEPT ![i] = Gone]
    /\ SetJob(r, Pushing(IF Present(i) /\ job[r].on THEN <<Push(Del({i}))>> ELSE <<>>, NoRows))
    /\ UNCHANGED <<status, hvars, task, nvars, avars, requests, alone>>

\* WhitelistService.Delete: no read, and the push does not depend on the row.
DeleteWl(r) ==
  \E i \in WlIds :
    /\ db[i] # Fresh
    /\ db' = [db EXCEPT ![i] = Gone]
    /\ Request(r, Pushing(<<Push(Del({i}))>>, NoRows))
    /\ UNCHANGED <<status, hvars, task, nvars, avars>>

\* RuleService.BatchDelete: one transaction, then FullSyncToAllNodes.
BatchDelete(r) ==
  \E S \in SUBSET {i \in RuleIds : db[i] # Fresh} :
    /\ S # {} /\ Cardinality(S) <= MaxBatch
    /\ db' = [i \in Ids |-> IF i \in S THEN Gone ELSE db[i]]
    /\ Request(r, Pushing(<<Full>>, NoRows))
    /\ UNCHANGED <<status, hvars, task, nvars, avars>>

-----------------------------------------------------------------------------
(* Pushing: sync_service.go *)

First(kind) == [Done EXCEPT !.pc = CASE kind = "push" -> "call" [] kind = "full" -> "fullwl"
                                     [] kind = "check" -> "count"]

\* The steps on node n that set Node.Status.
Mark(n, pc) == CASE pc = "good" -> "online" [] pc = "bad" -> "offline"
                 [] pc \in {"diffwl", "fullwl"} -> "syncing" [] OTHER -> status[n]

\* The tasks of the push p on the nodes S; syncs set Node.Status.
Launch(w, p, S) ==
  /\ SetJob(w, [job[w] EXCEPT !.op = "wait", !.now = p, !.nodes = {},
                              !.pushes = IF p.kind = "push" THEN Tail(@) ELSE @])
  /\ task' = [task EXCEPT ![w] = [n \in Nodes |-> IF n \in S THEN First(p.kind) ELSE Done]]
  /\ status' = [n \in Nodes |-> IF n \in S THEN Mark(n, First(p.kind).pc) ELSE status[n]]

\* Every Sync... function lists the nodes and skips the offline ones.  NodeService
\* .List asks all of them for statistics before it answers.
ListNodes(w) ==
  LET p    == Head(job[w].pushes)
      busy == {n \in Nodes : status[n] # "offline"}
  IN
  /\ job[w].op = "list"
  /\ \/ p.kind = "push" /\ Launch(w, p, busy)
     \/ /\ p.kind # "push"
        /\ SetJob(w, [job[w] EXCEPT !.op = "rules", !.nodes = busy, !.now = p, !.pushes = Tail(@)])
        /\ UNCHANGED <<status, task>>
  /\ UNCHANGED <<db, hvars, nvars, avars, requests, alone>>

\* Full sync and check read the rules, then the whitelist.
ReadRules(w) ==
  /\ job[w].op = "rules"
  /\ SetJob(w, [job[w] EXCEPT !.op = "whitelist", !.now.call = Add(Only(Enabled, RuleIds))])
  /\ UNCHANGED <<db, status, hvars, task, nvars, avars, requests, alone>>

ReadWhitelist(w) ==
  LET p == [job[w].now EXCEPT !.call = Add(Over(@.items, Only(Enabled, WlIds)))] IN
  /\ job[w].op = "whitelist"
  /\ Launch(w, p, job[w].nodes)
  /\ UNCHANGED <<db, hvars, nvars, avars, requests, alone>>

\* NodeService.ForceSync: full sync of one node, offline or not.
ForceSync(r) ==
  \E n \in Nodes :
    /\ Request(r, [Idle EXCEPT !.op = "rules", !.nodes = {n}])
    /\ UNCHANGED <<db, status, hvars, task, nvars, avars>>

\* wg.Wait: on to the next push, the next expired rule, or the answer.
Return(w) ==
  /\ job[w].op = "wait"
  /\ \A n \in Nodes : task[w][n] = Done
  /\ SetJob(w, Pushing(job[w].pushes, job[w].rows))
  /\ UNCHANGED <<db, status, hvars, task, nvars, avars, requests, alone>>

\* Task w of node n goes on with k; "good" and "bad" end a sync.
Goes(w, n, k) ==
  /\ task' = [task EXCEPT ![w][n] = IF k.pc \in {"good", "bad", "done"} THEN Done ELSE k]
  /\ status' = [status EXCEPT ![n] = Mark(n, k.pc)]
  /\ UNCHANGED <<dvars, hvars, avars, requests, alone>>

At(w, n, pc)  == task[w][n].pc = pc
To(w, n, pc)  == [task[w][n] EXCEPT !.pc = pc]
Items(w)      == job[w].now.call.items

\* Bug variant of TryCall: the retry loop ends only with success.
TryCallForever(w, n) ==
  /\ At(w, n, "call")
  /\ \E ok \in BOOLEAN :
       /\ Calls(n, job[w].now.call, ok)
       /\ Goes(w, n, IF ok THEN To(w, n, "done") ELSE task[w][n])

\* Call with retries.
TryCall(w, n) ==
  /\ At(w, n, "call")
  /\ \E ok \in BOOLEAN :
       /\ Calls(n, job[w].now.call, ok)
       /\ Goes(w, n, IF ok \/ task[w][n].att = RetryCount THEN To(w, n, "done")
                     ELSE [task[w][n] EXCEPT !.att = @ + 1])

\* Bug variant of SameCounts: the whitelist is left out.
SameRuleCounts(T, U) == Cardinality(Has(T) \cap RuleIds) = Cardinality(Has(U) \cap RuleIds)

\* SyncChecker.checkNode: only the numbers are compared, with the snapshot the
\* round began with.
SameCounts(T, U) == \A S \in Scopes : Cardinality(Has(T) \cap S) = Cardinality(Has(U) \cap S)

Count(w, n) ==
  /\ At(w, n, "count")
  /\ \E ok \in BOOLEAN :
       /\ Reads(n, ok)
       /\ Goes(w, n, To(w, n, IF ok /\ ~SameCounts(table[n], Items(w)) THEN "diffwl" ELSE "done"))

-----------------------------------------------------------------------------
(* Full sync and diff sync: sync_service.go, node_client.go *)

\* DiffSyncToNode and FullSyncToNode replace the whitelist first.
DiffWhitelist(w, n) ==
  /\ At(w, n, "diffwl")
  /\ \E ok \in BOOLEAN :
       /\ Calls(n, Replace(Items(w), WlIds), ok)
       /\ Goes(w, n, IF ok THEN [Done EXCEPT !.pc = "get", !.mode = "diff", !.scope = RuleIds]
                     ELSE First("full"))

FullWhitelist(w, n) ==
  /\ At(w, n, "fullwl")
  /\ \E ok \in BOOLEAN :
       /\ Calls(n, Replace(Items(w), WlIds), ok)
       /\ Goes(w, n, To(w, n, IF ok THEN "atomic" ELSE "bad"))

AtomicSync(w, n) ==
  /\ At(w, n, "atomic")
  /\ \E ok \in BOOLEAN :
       /\ Calls(n, Replace(Items(w), RuleIds), ok)
       /\ Goes(w, n, IF ok THEN To(w, n, "good")
                     ELSE [Done EXCEPT !.pc = "get", !.mode = "legacy", !.scope = RuleIds])

\* What DiffSync, and the legacy FullSync, delete and add of a scope they listed.
ToDelete(k, w) == Has(k.list) \ IF k.mode = "diff" THEN Has(Items(w)) ELSE {}
ToAdd(k, w)    == Only(Items(w), k.scope \ IF k.mode = "diff" THEN Has(k.list) ELSE {})

\* Deletes before adds, rules before whitelist; steps with nothing to do are skipped.
Added(k, w)   == IF k.scope = RuleIds THEN [k EXCEPT !.pc = "get", !.scope = WlIds, !.list = Empty]
                                      ELSE [k EXCEPT !.pc = "good"]
Deleted(k, w) == IF ToAdd(k, w) # Empty THEN [k EXCEPT !.pc = "add"] ELSE Added(k, w)
Got(k, w)     == IF ToDelete(k, w) # {} THEN [k EXCEPT !.pc = "del"] ELSE Deleted(k, w)
\* A failed diff sync turns to full sync, a failed full sync puts the node offline.
Failed(k)     == IF k.mode = "diff" THEN First("full") ELSE [k EXCEPT !.pc = "bad"]

Get(w, n) ==
  LET k == [task[w][n] EXCEPT !.list = Only(table[n], task[w][n].scope)] IN
  /\ At(w, n, "get")
  /\ \E ok \in BOOLEAN :
       /\ Reads(n, ok)
       /\ Goes(w, n, IF ok THEN Got(k, w) ELSE Failed(task[w][n]))

DeleteListed(w, n) ==
  LET k == task[w][n] IN
  /\ At(w, n, "del")
  /\ \E ok \in BOOLEAN :
       /\ Calls(n, Del(ToDelete(k, w)), ok)
       /\ Goes(w, n, IF ok THEN Deleted(k, w) ELSE Failed(k))

\* The legacy FullSync restores what it listed when it cannot add.
AddMissing(w, n) ==
  LET k == task[w][n] IN
  /\ At(w, n, "add")
  /\ \E ok \in BOOLEAN :
       /\ Calls(n, Add(ToAdd(k, w)), ok)
       /\ Goes(w, n, IF ok THEN Added(k, w)
                     ELSE IF k.mode = "legacy" /\ k.list # Empty THEN [k EXCEPT !.pc = "residue"]
                     ELSE Failed(k))

\* Rollback: list what a partial add left, delete it, add the snapshot again.
ListResidue(w, n) ==
  LET left == Has(table[n]) \cap task[w][n].scope IN
  /\ At(w, n, "residue")
  /\ \E ok \in BOOLEAN :
       /\ Reads(n, ok)
       /\ Goes(w, n, IF ok /\ left # {} THEN [task[w][n] EXCEPT !.pc = "clean", !.cur = left]
                     ELSE To(w, n, "restore"))

DeleteResidue(w, n) ==
  /\ At(w, n, "clean")
  /\ \E ok \in BOOLEAN :
       /\ Calls(n, Del(task[w][n].cur), ok)
       /\ Goes(w, n, To(w, n, IF ok THEN "restore" ELSE "bad"))

Restore(w, n) ==
  /\ At(w, n, "restore")
  /\ \E ok \in BOOLEAN :
       /\ Calls(n, Add(task[w][n].list), ok)
       /\ Goes(w, n, To(w, n, "bad"))

Task(w, n) ==
  \/ TryCall(w, n) \/ Count(w, n) \/ DiffWhitelist(w, n) \/ FullWhitelist(w, n)
  \/ AtomicSync(w, n) \/ Get(w, n) \/ DeleteListed(w, n) \/ AddMissing(w, n)
  \/ ListResidue(w, n) \/ DeleteResidue(w, n) \/ Restore(w, n)

-----------------------------------------------------------------------------
(* Schedulers: sync_checker.go, expire_cleaner.go, health_checker.go *)

\* A round of the sync checker; the next tick waits for its end.
CheckRound ==
  /\ "checker" \in Schedulers
  /\ Begin("checker", Pushing(<<Check>>, NoRows))
  /\ UNCHANGED <<db, status, hvars, task, nvars, avars, requests>>

\* A round of the expire cleaner lists the expired rules.
CleanRound ==
  /\ "cleaner" \in Schedulers
  /\ \E S \in SUBSET {i \in Expiring : Present(i)} :
       /\ S # {}
       /\ Begin("cleaner", Pushing(<<>>, [i \in S |-> db[i]]))
  /\ UNCHANGED <<db, status, hvars, task, nvars, avars, requests>>

\* It deletes them one by one, and pushes what was enabled when it listed it.
CleanOne ==
  /\ "cleaner" \in Schedulers
  /\ \E i \in DOMAIN job["cleaner"].rows :
      LET rows == job["cleaner"].rows
          rest == [j \in DOMAIN rows \ {i} |-> rows[j]]
      IN
      /\ job["cleaner"].op = "clean"
      /\ db' = [db EXCEPT ![i] = Gone]
      /\ SetJob("cleaner", Pushing(IF rows[i].state = "on" THEN <<Push(Del({i}))>> ELSE <<>>, rest))
      /\ UNCHANGED <<status, hvars, task, nvars, avars, requests, alone>>

\* The health checker lists the nodes, pings them, and compares with what it listed.
HealthList(n) ==
  /\ "health" \in Schedulers
  /\ seen[n] = "none"
  /\ seen' = [seen EXCEPT ![n] = status[n]]
  /\ UNCHANGED <<dvars, status, fails, task, nvars, avars, requests, alone>>

Ping(n) ==
  /\ seen[n] # "none"
  /\ \E ok \in BOOLEAN :
       LET count == IF ok THEN 0
                    ELSE IF fails[n] = OfflineThreshold THEN OfflineThreshold ELSE fails[n] + 1
       IN
       /\ Reads(n, ok)
       /\ fails' = [fails EXCEPT ![n] = count]
       /\ status' = [status EXCEPT ![n] =
            IF ok /\ seen[n] # "online" THEN "online"
            ELSE IF ~ok /\ count = OfflineThreshold /\ seen[n] # "offline" THEN "offline" ELSE @]
  /\ seen' = [seen EXCEPT ![n] = "none"]
  /\ UNCHANGED <<dvars, task, avars, requests, alone>>

-----------------------------------------------------------------------------
(* Restart of an agent: controller_sync.go, main.go *)

\* Its maps are cleared; calls it had not answered are gone.
Crash(n) ==
  /\ agent[n] = "up" /\ restarts < MaxRestarts
  /\ restarts' = restarts + 1
  /\ agent' = [agent EXCEPT ![n] = "down"]
  /\ table' = [table EXCEPT ![n] = Empty]
  /\ late' = {l \in late : l.node # n}
  /\ UNCHANGED <<dvars, status, hvars, task, fetched, faults, requests, alone>>

\* SyncOnStartup fetches the rules, GET /rules without parameters, then the whitelist.
Fetch(n) ==
  /\ \/ /\ agent[n] = "down"
        /\ agent' = [agent EXCEPT ![n] = "halfway"]
        /\ fetched' = [fetched EXCEPT ![n] = Only(Listed, RuleIds)]
     \/ /\ agent[n] = "halfway"
        /\ agent' = [agent EXCEPT ![n] = "fetched"]
        /\ fetched' = [fetched EXCEPT ![n] = Over(@, Only(Listed, WlIds))]
  /\ UNCHANGED <<dvars, status, hvars, task, nvars, restarts, requests, alone>>

\* It applies them before it listens.  Items it cannot all apply, or a controller
\* out of reach, leave it with nothing once the retries are used up.
Boot(n) ==
  /\ \/ /\ agent[n] = "fetched"
        /\ \E e \in Effects(Replace(fetched[n], Ids), table[n]) :
             table' = [table EXCEPT ![n] = e.table]
        /\ UNCHANGED faults
     \/ /\ agent[n] \in {"down", "halfway"} /\ faults < MaxFaults
        /\ faults' = faults + 1
        /\ UNCHANGED table
  /\ agent' = [agent EXCEPT ![n] = "up"]
  /\ fetched' = [fetched EXCEPT ![n] = Empty]
  /\ UNCHANGED <<dvars, status, hvars, task, late, restarts, requests, alone>>

-----------------------------------------------------------------------------
Api(r) == Create(r) \/ Insert(r) \/ Update(r) \/ Write(r) \/ Delete(r) \/ Erase(r)
          \/ DeleteWl(r) \/ BatchDelete(r) \/ ForceSync(r)
Pusher(w) == ListNodes(w) \/ ReadRules(w) \/ ReadWhitelist(w) \/ Return(w)
Node(n) == HealthList(n) \/ Ping(n) \/ Crash(n) \/ Fetch(n) \/ Boot(n)

Next ==
  \/ \E r \in Requests : Api(r)
  \/ \E w \in Workers : Pusher(w) \/ \E n \in Nodes : Task(w, n)
  \/ CheckRound \/ CleanRound \/ CleanOne
  \/ \E n \in Nodes : Node(n)
  \/ \E l \in late : Deliver(l)

Spec == Init /\ [][Next]_vars

\* What a worker does of itself, and what an agent does.
Works(w) ==
  \/ \E n \in Nodes : Task(w, n)
  \/ Pusher(w)
  \/ w \in Requests /\ (Insert(w) \/ Write(w) \/ Erase(w))
  \/ w = "checker" /\ CheckRound
  \/ w = "cleaner" /\ CleanOne
Serves(n) == Fetch(n) \/ Boot(n) \/ \E l \in late : l.node = n /\ Deliver(l)

\* Goroutines run, tickers tick, a late call is carried out, a started agent comes
\* up.  Requests, expiries and restarts need not happen.
Fairness ==
  /\ \A w \in Workers : WF_vars(Works(w))
  /\ \A n \in Nodes : WF_vars(HealthList(n) \/ Ping(n)) /\ WF_vars(Serves(n))

FairSpec == Spec /\ Fairness

-----------------------------------------------------------------------------
(* Properties *)

Quiet == \A w \in Workers : job[w] = Idle

\* When no call has failed, no agent has restarted and no two jobs have overlapped,
\* every finished request leaves each node with exactly the enabled rows: the pushes
\* of Create, Update (each of its four transitions), Delete, BatchDelete, the
\* whitelist requests and the expire cleaner are complete.
CalmExact ==
  Quiet /\ alone /\ faults = 0 /\ restarts = 0 => \A n \in Nodes : table[n] = Enabled

\* A rule that no request has asked to enable is on no node.  API.md:290: a rule
\* created with enabled = false is stored "without syncing to BPF".
DisabledStaysOff == \A n \in Nodes : Has(table[n]) \subseteq asked

\* Requests and rounds come to an end, whatever is refused or lost, and no two of
\* them wait for each other: again and again the controller is at rest.
Returns == []<>Quiet

\* Once the database rests, every node comes to hold, and holds, as many rules and
\* whitelist entries as it should, and is online: the checker repairs what crashes,
\* lost and late calls and stale snapshots have left.  Two rows with one key, which
\* no node accepts, are excepted.
CountsConverge ==
  <>[](DistinctKeys(Has(Enabled)) =>
         \A n \in Nodes :
           /\ status[n] = "online"
           /\ \A S \in Scopes :
                Cardinality(Has(table[n]) \cap S) = Cardinality(Has(Enabled) \cap S))

=============================================================================
