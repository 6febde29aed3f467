---------------------------- MODULE StatsCache ----------------------------
(***************************************************************************)
(* The controller's cache of per-rule statistics: the refresh loop that    *)
(* asks every node for its counters and swaps the cached state, the rule   *)
(* listing that reads the cache in two separate steps, and the shutdown    *)
(* that cancels the loop and waits for it.                                 *)
(*                                                                         *)
(* A rule's match count, drop count and drop rate are one number (zero is  *)
(* all three being zero).  Times are kept as ages, which one Tick of the   *)
(* clock advances together; an age past StaleAfter is not told apart from  *)
(* a larger one.  When the ticker and the backoff timer fire is left open. *)
(* So is what the node registry holds when a round copies it (it is module *)
(* ControllerSync's); ``unknown'' and ``syncing'' nodes, which the cache   *)
(* adds up, are ``warming''.                                               *)
(***************************************************************************)
EXTENDS FiniteSetsExt, Integers

CONSTANTS
    Configs,      \* sets of nodes the configuration file may name
    Rules,        \* rules of the page that is listed
    StaleAfter,   \* stats_cache.stale_threshold_seconds, in clock ticks
    MaxHits,      \* bound: a node counts at most this many hits of a rule
    NoTime        \* the zero time.Time

ASSUME StatsAssumption ==
    /\ \A ns \in Configs : IsFiniteSet(ns)
    /\ StaleAfter \in Nat \ {0} /\ MaxHits \in Nat \ {0}
    /\ NoTime \notin Int

VARIABLES
    disabled,   \* cfg.Disabled
    nodes,      \* the nodes InitFromConfig loaded
    hits,       \* each node's counter of each rule
    loop,       \* where runLoop is; "done" once doneCh is closed
    fan,        \* the fan-out under way
    cache,      \* *cacheState
    stop,       \* the shutdown: cancel, then Stop, which waits for doneCh
    reader      \* one List or listAll request

vars == <<disabled, nodes, hits, loop, fan, cache, stop, reader>>

Health == {"warming", "online", "offline"}
Omitted == {"initializing", "waiting_for_health", "no_nodes",
            "failed_no_snapshot", "disabled"}

Older(age) == IF age \in 0 .. StaleAfter THEN age + 1 ELSE age
NoStats == [r \in Rules |-> 0]
Counted(ns, r) == MapThenSumSet(LAMBDA n : hits[n][r], ns)

\* No fan-out.  age is how long ago now was read; todo are the nodes that have
\* not answered, ok those that have; has and agg are result.Stats.  History: low,
\* what all nodes had counted when the round began, hot, the rules some node had
\* counted a hit of by then, and old, the age of the oldest answer.
IdleFan == [age |-> 0, warming |-> {}, todo |-> {}, ok |-> {},
            has |-> {}, agg |-> NoStats, old |-> 0, low |-> NoStats,
            hot |-> {}]

\* No request.  Else what Meta returned, with the history of its snapshot;
\* mixed: the state was replaced since.
IdleReader == [pc |-> "idle", status |-> "initializing", tag |-> "", hot |-> {}, mixed |-> FALSE]

---------------------------------------------------------------------------
(* What the cache is made of. *)

\* deriveStatus: ok and partial turn stale with time, nothing else does.
deriveStatus(base, age) ==
    LET isStale == age # NoTime /\ age > StaleAfter
    IN  CASE base = "ok" /\ isStale      -> "stale"
          [] base = "partial" /\ isStale -> "partial_stale"
          [] OTHER                       -> base

\* The base outcome of a round; at is lastSnapshotAt of the new state.
deriveBaseStatus(f, at) ==
    CASE nodes = {}                                           -> "no_nodes"
      [] nodes # {} /\ f.ok = {} /\ at = NoTime               ->
            IF f.warming = nodes THEN "waiting_for_health" ELSE "failed_no_snapshot"
      [] nodes # {} /\ f.ok = {} /\ at # NoTime               -> "failed"
      [] f.ok # {} /\ f.ok # nodes                            -> "partial"
      [] f.ok # {} /\ f.ok = nodes                            -> "ok"

\* Bug variant of resolveRuleStats: zeros of partial snapshots are not filtered.
resolveRuleStatsAll(status, tag, hit, cached) ==
    IF status = "ok" \/ hit THEN <<cached>> ELSE <<>>

\* resolveRuleStats: the number the listing puts on a rule, or none.
resolveRuleStats(status, tag, hit, cached) ==
    IF status = "ok" \/ (hit /\ (tag = "ok" \/ cached # 0)) THEN <<cached>> ELSE <<>>

---------------------------------------------------------------------------
Init ==
    /\ disabled \in BOOLEAN
    /\ nodes \in Configs
    /\ hits = [n \in nodes |-> NoStats]
    /\ loop = "new"
    /\ fan = IdleFan
    /\ cache = [status |-> IF disabled THEN "disabled" ELSE "initializing",
                tag |-> "", age |-> NoTime, has |-> {}, agg |-> NoStats,
                old |-> NoTime, hot |-> {}]
    /\ stop = "no"
    /\ reader = IdleReader

---------------------------------------------------------------------------
(* Traffic and time, as long as the controller runs. *)

\* A packet matches rule r on node n.  Counters only grow here: a restart of the
\* agent, an update of the rule and a full sync reset them, and a lookup that fails
\* reports zero (rules_list.go:236); none of these is modelled.
Hit(n, r) ==
    /\ stop = "no" /\ hits[n][r] < MaxHits
    /\ hits' = [hits EXCEPT ![n][r] = @ + 1]
    /\ UNCHANGED <<disabled, nodes, loop, fan, cache, stop, reader>>

Tick ==
    /\ stop = "no"
    /\ fan' = IF loop = "fetch"
              THEN [fan EXCEPT !.age = Older(@), !.old = IF fan.ok = {} THEN 0 ELSE Older(@)]
              ELSE fan
    /\ cache' = [cache EXCEPT !.age = Older(@), !.old = Older(@)]
    /\ UNCHANGED <<disabled, nodes, hits, loop, stop, reader>>

---------------------------------------------------------------------------
(* Start, runLoop and refresh. *)

\* The first half of refresh: now is read, then the nodes are copied under the
\* registry's lock, and a request to every online one is begun.
Begin ==
    /\ loop' = "fetch"
    /\ \E seen \in [nodes -> Health] :
         LET online == {n \in nodes : seen[n] = "online"}
         IN  fan' = [IdleFan EXCEPT !.warming = {n \in nodes : seen[n] = "warming"},
                                    !.todo = online,
                                    !.low = [r \in Rules |-> Counted(nodes, r)],
                                    !.hot = {r \in Rules : \E n \in nodes : hits[n][r] > 0}]

\* Start: a disabled cache runs no loop and closes doneCh at once.
Start ==
    /\ loop = "new"
    /\ IF disabled THEN loop' = "done" /\ UNCHANGED fan ELSE Begin
    /\ UNCHANGED <<disabled, nodes, hits, cache, stop, reader>>

\* Node n answers with its counters.  A rule it counted nothing for may be
\* missing: the node does not hold it.
Answer(n) ==
    /\ loop = "fetch" /\ n \in fan.todo /\ stop = "no"
    /\ \E missing \in SUBSET {r \in Rules : hits[n][r] = 0} :
         fan' = [fan EXCEPT !.todo = @ \ {n}, !.ok = @ \cup {n},
                            !.has = @ \cup (Rules \ missing),
                            !.agg = [r \in Rules |-> @[r] + hits[n][r]]]
    /\ UNCHANGED <<disabled, nodes, hits, loop, cache, stop, reader>>

\* The request to node n is refused, runs into PerNodeTimeout, or is cancelled.
Fail(n) ==
    /\ loop = "fetch" /\ n \in fan.todo
    /\ fan' = [fan EXCEPT !.todo = @ \ {n}]
    /\ UNCHANGED <<disabled, nodes, hits, loop, cache, stop, reader>>

\* Bug variant of NextState: nodes that were skipped as warming are forgotten.
NextStateWarm(f) ==
    IF f.ok = {}
    THEN [cache EXCEPT !.status = deriveBaseStatus(f, cache.age)]
    ELSE [status |-> deriveBaseStatus(f, f.age),
          tag    |-> IF f.ok = nodes \ f.warming THEN "ok" ELSE "partial",
          age    |-> f.age, has |-> f.has, agg |-> f.agg, old |-> f.old,
          hot    |-> f.hot]

\* Bug variant of NextState: the clock is read after the fan-out.
NextStateLate(f) ==
    IF f.ok = {}
    THEN [cache EXCEPT !.status = deriveBaseStatus(f, cache.age)]
    ELSE [status |-> deriveBaseStatus(f, 0),
          tag    |-> IF f.ok = nodes THEN "ok" ELSE "partial",
          age    |-> 0, has |-> f.has, agg |-> f.agg, old |-> f.old,
          hot    |-> f.hot]

\* The state a round f leads to.  A round nobody answered keeps the snapshot.
NextState(f) ==
    IF f.ok = {}
    THEN [cache EXCEPT !.status = deriveBaseStatus(f, cache.age)]
    ELSE [status |-> deriveBaseStatus(f, f.age),
          tag    |-> IF f.ok = nodes THEN "ok" ELSE "partial",
          age    |-> f.age, has |-> f.has, agg |-> f.agg, old |-> f.old,
          hot    |-> f.hot]

\* The second half of refresh, under the write lock: the state is replaced.
\* A round of which every node is absent is followed by the backoff.
Swap ==
    /\ loop = "fetch" /\ fan.todo = {}
    /\ cache' = NextState(fan)
    /\ fan' = IdleFan
    /\ loop' = IF nodes # {} /\ fan.ok = {} THEN "backoff" ELSE "wait"
    /\ reader' = [reader EXCEPT !.mixed = reader.pc # "idle"]
    /\ UNCHANGED <<disabled, nodes, hits, stop>>

\* Bug variant of Backoff: the loop ends with the backoff.
BackoffQuit ==
    /\ loop = "backoff"
    /\ loop' = "done"
    /\ UNCHANGED <<disabled, nodes, hits, fan, cache, stop, reader>>

\* The backoff timer fires.
Backoff ==
    /\ loop = "backoff"
    /\ loop' = "wait"
    /\ UNCHANGED <<disabled, nodes, hits, fan, cache, stop, reader>>

\* The ticker fires; select may take it although the loop is to stop.
Refresh ==
    /\ loop = "wait"
    /\ Begin
    /\ UNCHANGED <<disabled, nodes, hits, cache, stop, reader>>

\* Bug variant of Return: only the select of the backoff looks at the stop.
ReturnBackoff ==
    /\ loop = "backoff" /\ stop # "no"
    /\ loop' = "done"
    /\ UNCHANGED <<disabled, nodes, hits, fan, cache, stop, reader>>

\* stopCh is closed or the context done: runLoop returns and closes doneCh.
Return ==
    /\ loop \in {"backoff", "wait"} /\ stop # "no"
    /\ loop' = "done"
    /\ UNCHANGED <<disabled, nodes, hits, fan, cache, stop, reader>>

---------------------------------------------------------------------------
(* The end of main: the server is shut down and takes no more requests, the *)
(* context is cancelled, then Stop closes stopCh and waits for doneCh.      *)

Cancel ==
    /\ loop # "new" /\ stop = "no"
    /\ stop' = "cancelled"
    /\ UNCHANGED <<disabled, nodes, hits, loop, fan, cache, reader>>

Stop ==
    /\ stop = "cancelled" /\ loop = "done"
    /\ stop' = "returned"
    /\ UNCHANGED <<disabled, nodes, hits, loop, fan, cache, reader>>

\* main has returned.
Exited == stop = "returned" /\ UNCHANGED vars

---------------------------------------------------------------------------
(* List and listAll. *)

\* Meta: the state pointer is taken under the read lock, the clock read after.
\* Without numbers to show, the listing ends here.
Meta ==
    /\ reader.pc = "idle" /\ stop = "no"
    /\ LET s == deriveStatus(cache.status, cache.age)
       IN  /\ s \notin Omitted
           /\ reader' = [pc |-> "met", status |-> s, tag |-> cache.tag, hot |-> cache.hot,
                         mixed |-> FALSE]
    /\ UNCHANGED <<disabled, nodes, hits, loop, fan, cache, stop>>

\* The response: LookupMany takes the read lock again.
Shown(r) ==
    resolveRuleStats(reader.status, reader.tag, r \in cache.has, cache.agg[r])

LookupMany ==
    /\ reader.pc = "met"
    /\ reader' = IdleReader
    /\ UNCHANGED <<disabled, nodes, hits, loop, fan, cache, stop>>

---------------------------------------------------------------------------
Next ==
    \/ \E n \in nodes : Answer(n) \/ Fail(n) \/ \E r \in Rules : Hit(n, r)
    \/ Tick \/ Start \/ Swap \/ Backoff \/ Refresh \/ Return
    \/ Cancel \/ Stop \/ Exited
    \/ Meta \/ LookupMany

\* Timers fire, every request ends within its timeout, the goroutines are
\* scheduled; a select with a closed channel takes it sooner or later.
Fairness ==
    /\ WF_vars(Start) /\ WF_vars(Swap) /\ WF_vars(Backoff) /\ WF_vars(Refresh)
    /\ WF_vars(Stop) /\ SF_vars(Return)
    /\ WF_vars(\E n \in nodes : Answer(n) \/ Fail(n))

Spec == Init /\ [][Next]_vars /\ Fairness

---------------------------------------------------------------------------
(* Properties. *)

\* The snapshot a round is about to store lies between what the nodes counted
\* while it was taken: each number is at most what those that answered count
\* now, and in one tagged ok (lastSnapshotBaseStatus) at least what all nodes
\* had counted when it began, so that its zeros are zeros of the whole cluster.
Covered ==
    loop = "fetch" /\ fan.todo = {} /\ fan.ok # {} =>
        \A r \in Rules :
            /\ NextState(fan).agg[r] <= Counted(fan.ok, r)
            /\ NextState(fan).tag = "ok" => NextState(fan).agg[r] >= fan.low[r]

\* A listing shows zero (resolveRuleStats) only for a rule of which no node that
\* its snapshot knows had counted a hit; when no refresh came between its Meta
\* and its LookupMany.
ZeroIsZero ==
    reader.pc = "met" /\ ~reader.mixed =>
        \A r \in Rules : Shown(r) = <<0>> => reader.tag = "ok" /\ r \notin reader.hot

\* A listing that says ok or partial describes counters none of which was read
\* more than StaleAfter ago, however long the fan-out took and the refresh loop
\* is stuck.
FreshWhenSaid ==
    deriveStatus(cache.status, cache.age) \in {"ok", "partial"} => cache.old \in 0 .. StaleAfter

\* Stop returns: the loop ends and closes doneCh, and so does a disabled cache.
StopReturns == stop = "cancelled" ~> stop = "returned"

\* If from some time on every round finds all nodes online and answering, the
\* cache is ok for good, whatever rounds failed before.
Recovers ==
    (/\ <>[](nodes # {} /\ ~disabled /\ stop = "no")
     /\ <>[](loop = "fetch" => nodes = fan.todo \cup fan.ok))
        => <>[](cache.status = "ok")
===========================================================================
