----------------------- MODULE ControllerSyncProofs -----------------------
(***************************************************************************)
(* What the nodes can hold, for any number of nodes, requests, schedulers, *)
(* retries and lost or late calls: only rows that some request has held as *)
(* enabled, until an agent restarts and fetches the table by itself.       *)
(*                                                                         *)
(* The argument follows the rows through everything that carries them: the *)
(* database, the jobs that have read it, the pushes they plan, the calls   *)
(* still under way, what a sync has listed on a node, and the nodes.       *)
(*                                                                         *)
(* And, as long as nothing goes wrong and jobs do not overlap, that they   *)
(* hold exactly the enabled rows: the calls a job has still to make lead   *)
(* each node there.                                                        *)
(***************************************************************************)
EXTENDS ControllerSync, TLAPS

-----------------------------------------------------------------------------
(* The inductive invariant *)

\* The ids an agent may hold: those asked for, and after a restart any.
Allowed == IF restarts = 0 THEN asked ELSE Ids

\* Tables, calls and pushes that put only ids of A on a node.
Known(A)  == {T \in Tables : Has(T) \subseteq A}
Safe(A)   == {c \in Call : Has(c.items) \subseteq A}
Pushes(A) == [kind : {"push", "full", "check"}, call : Safe(A)]

\* Rows of which only those of A are enabled.
Rows(A) == {f \in UNION {[S -> Row] : S \in SUBSET Ids} :
              \A i \in DOMAIN f : f[i].state = "on" => i \in A}

\* Jobs that push ids of A and hold those of B as enabled; a job that goes to list the
\* nodes has something to push, and only a sync or check reads the tables.
Ops == {"idle", "insert", "write", "erase", "list", "clean", "rules", "whitelist", "wait"}
JobRecords(A, B) == [op : Ops, rows : Rows(B), on : BOOLEAN, pushes : Seq(Pushes(A)),
                     now : Pushes(A), nodes : SUBSET Nodes]
Jobs(A, B) == {j \in JobRecords(A, B) : /\ j.op = "list" => j.pushes # <<>>
                                        /\ j.op \in {"rules", "whitelist"} => j.now.kind # "push"}

Steps == {"call", "count", "diffwl", "fullwl", "atomic", "get", "del", "add", "residue",
          "clean", "restore", "good", "bad", "done"}
Tasks(A) == [pc : Steps, att : Nat, mode : {"none", "diff", "legacy"}, scope : SUBSET Ids,
             list : Known(A), cur : SUBSET Ids]

JobOK ==
  /\ asked \subseteq Ids
  /\ db \in [Ids -> Row] /\ \A i \in Ids : db[i].state = "on" => i \in Allowed
  /\ job \in [Workers -> Jobs(Allowed, Allowed)]

TaskOK == task \in [Workers -> [Nodes -> Tasks(Allowed)]]

NodeOK ==
  /\ table \in [Nodes -> Known(Allowed)]
  /\ late \subseteq [node : Nodes, call : Safe(Allowed)]

StatusOK ==
  /\ status \in [Nodes -> Statuses]
  /\ fails \in [Nodes -> 0 .. OfflineThreshold] /\ seen \in [Nodes -> Statuses \cup {"none"}]

AgentOK ==
  /\ agent \in [Nodes -> {"up", "down", "halfway", "fetched"}]
  /\ fetched \in [Nodes -> Tables]
  /\ restarts \in 0 .. MaxRestarts
  /\ restarts = 0 => \A n \in Nodes : agent[n] = "up"

IInv == JobOK /\ TaskOK /\ NodeOK /\ StatusOK /\ AgentOK

-----------------------------------------------------------------------------
(* Tables and calls *)

LEMMA RowsAre ==
  ASSUME NEW A, NEW f
  PROVE  /\ f \in Rows(A) => /\ DOMAIN f \subseteq Ids /\ f \in [DOMAIN f -> Row]
                             /\ \A i \in DOMAIN f : f[i].state = "on" => i \in A
         /\ \A S \in SUBSET Ids :
              f \in [S -> Row] /\ (\A i \in S : f[i].state = "on" => i \in A) => f \in Rows(A)
<1>1. ASSUME f \in Rows(A)
      PROVE  /\ DOMAIN f \subseteq Ids /\ f \in [DOMAIN f -> Row]
             /\ \A i \in DOMAIN f : f[i].state = "on" => i \in A
  <2>1. PICK S \in SUBSET Ids : f \in [S -> Row]
    BY <1>1 DEF Rows
  <2> QED
    BY <1>1, <2>1 DEF Rows
<1>2. ASSUME NEW S \in SUBSET Ids, f \in [S -> Row], \A i \in S : f[i].state = "on" => i \in A
      PROVE  f \in Rows(A)
  <2>1. DOMAIN f = S
    BY <1>2
  <2> QED
    BY <1>2, <2>1 DEF Rows
<1> QED
  BY <1>1, <1>2

LEMMA TableTypes ==
  ASSUME NEW A
  PROVE  /\ Empty \in Known(A) /\ Has(Empty) = {}
         /\ \A T \in Known(A) : \A S : Only(T, S) \in Known(A)
         /\ \A T, U \in Known(A) : Over(T, U) \in Known(A)
BY DEF Known, Tables, Has, Only, Over, Empty

LEMMA CallTypes ==
  ASSUME NEW A
  PROVE  /\ \A T \in Known(A) : Add(T) \in Safe(A)
         /\ \A S \in SUBSET Ids : Del(S) \in Safe(A)
         /\ \A T \in Known(A), S \in SUBSET Ids : Replace(T, S) \in Safe(A)
<1>1. ASSUME NEW k \in {"add", "del", "replace"}, NEW T \in Known(A), NEW S \in SUBSET Ids
      PROVE  [kind |-> k, items |-> T, ids |-> S] \in Safe(A)
  BY <1>1 DEF Safe, Call, Known
<1>2. \A T : Has(T) \in SUBSET Ids
  BY DEF Has
<1> QED
  BY <1>1, <1>2, TableTypes DEF Add, Del, Replace

\* A call puts on the node what it carries.
LEMMA EffectTypes ==
  ASSUME NEW A, NEW c \in Safe(A), NEW T \in Known(A), NEW e \in Effects(c, T)
  PROVE  e.table \in Known(A)
<1>1. c.items \in Known(A) /\ c.kind \in {"add", "del", "replace"} /\ c.ids \subseteq Ids
  BY DEF Safe, Call, Known
<1>2. CASE c.kind = "add"
  <2>1. PICK S : e.table = Over(Only(c.items, S), T)
    BY <1>2 DEF Effects
  <2> QED
    BY <1>1, <2>1, TableTypes
<1>3. CASE c.kind = "del"
  BY <1>3, TableTypes DEF Effects
<1>4. CASE c.kind = "replace"
  BY <1>1, <1>4, TableTypes DEF Effects
<1> QED
  BY <1>1, <1>2, <1>3, <1>4

\* What was allowed stays allowed when more is.
LEMMA Monotone ==
  ASSUME NEW A, NEW B, A \subseteq B
  PROVE  /\ Known(A) \subseteq Known(B) /\ Safe(A) \subseteq Safe(B)
         /\ Pushes(A) \subseteq Pushes(B) /\ Rows(A) \subseteq Rows(B)
         /\ Jobs(A, A) \subseteq Jobs(B, B) /\ Tasks(A) \subseteq Tasks(B)
<1>1. Known(A) \subseteq Known(B) /\ Safe(A) \subseteq Safe(B)
  BY DEF Known, Safe
<1>2. Pushes(A) \subseteq Pushes(B)
  BY <1>1 DEF Pushes
<1>3. Rows(A) \subseteq Rows(B)
  BY DEF Rows
<1>4. Tasks(A) \subseteq Tasks(B)
  BY <1>1 DEF Tasks
<1>5. \A s \in Seq(Pushes(A)) : s \in Seq(Pushes(B))
  BY <1>2
<1>6. Jobs(A, A) \subseteq Jobs(B, B)
  BY <1>2, <1>3, <1>5 DEF Jobs, JobRecords
<1> QED
  BY <1>1, <1>2, <1>3, <1>4, <1>6

-----------------------------------------------------------------------------
(* Jobs *)

\* What the parts of the invariant say after a step that leaves their variables alone.
LEMMA Kept ==
  ASSUME IInv, Allowed \subseteq Allowed'
  PROVE  /\ UNCHANGED dvars => JobOK'
         /\ UNCHANGED task => TaskOK'
         /\ UNCHANGED <<table, late>> => NodeOK'
         /\ UNCHANGED <<status, hvars>> => StatusOK'
         /\ UNCHANGED avars => AgentOK'
<1> USE DEF IInv
<1> DEFINE A == Allowed
           B == Allowed'
<1>0. /\ Known(A) \subseteq Known(B) /\ Safe(A) \subseteq Safe(B)
      /\ Jobs(A, A) \subseteq Jobs(B, B) /\ Tasks(A) \subseteq Tasks(B)
  BY Monotone
<1>1. UNCHANGED dvars => JobOK'
  BY <1>0 DEF JobOK, dvars
<1>2. UNCHANGED task => TaskOK'
  <2>1. [Nodes -> Tasks(A)] \subseteq [Nodes -> Tasks(B)]
    BY <1>0
  <2> QED
    BY <2>1 DEF TaskOK
<1>3. UNCHANGED <<table, late>> => NodeOK'
  BY <1>0 DEF NodeOK
<1>4. UNCHANGED <<status, hvars>> => StatusOK'
  BY DEF StatusOK, hvars
<1>5. UNCHANGED avars => AgentOK'
  BY DEF AgentOK, avars
<1> QED
  BY <1>1, <1>2, <1>3, <1>4, <1>5

\* A worker takes up a job; what it then holds as enabled counts as asked for.
LEMMA SetJobTypes ==
  ASSUME IInv, NEW w \in Workers, NEW j \in Jobs(Allowed, Ids), SetJob(w, j), UNCHANGED restarts
  PROVE  /\ Allowed \subseteq Allowed' /\ asked' \subseteq Ids
         /\ job' \in [Workers -> Jobs(Allowed', Allowed')]
         /\ \A i \in DOMAIN j.rows : j.rows[i].state = "on" => i \in Allowed'
<1>1. j.rows \in Rows(Ids)
  BY DEF Jobs, JobRecords
<1>2. DOMAIN j.rows \subseteq Ids /\ j.rows \in [DOMAIN j.rows -> Row]
  BY <1>1, RowsAre
<1>3. Allowed \subseteq Allowed' /\ asked' \subseteq Ids
  BY <1>2 DEF SetJob, Allowed, IInv, JobOK
<1>4. \A i \in DOMAIN j.rows : j.rows[i].state = "on" => i \in Allowed'
  BY <1>2 DEF SetJob, Allowed
<1>5. j.rows \in Rows(Allowed')
  BY <1>2, <1>4, RowsAre
<1>6. Pushes(Allowed) \subseteq Pushes(Allowed') /\ Jobs(Allowed, Allowed) \subseteq Jobs(Allowed', Allowed')
  BY <1>3, Monotone
<1>7. j \in Jobs(Allowed', Allowed')
  <2>1. j.pushes \in Seq(Pushes(Allowed'))
    BY <1>6 DEF Jobs, JobRecords
  <2> QED
    BY <1>5, <1>6, <2>1 DEF Jobs, JobRecords
<1>8. job \in [Workers -> Jobs(Allowed', Allowed')]
  BY <1>6 DEF IInv, JobOK
<1>9. job' \in [Workers -> Jobs(Allowed', Allowed')]
  BY <1>7, <1>8 DEF SetJob
<1> QED
  BY <1>3, <1>4, <1>9

\* Pushes and jobs the code makes from scratch.
LEMMA PushTypes ==
  ASSUME NEW A
  PROVE  /\ Full \in Pushes(A) /\ Check \in Pushes(A)
         /\ \A c \in Safe(A) : Push(c) \in Pushes(A)
         /\ NoRows \in Rows(Ids)
         /\ <<>> \in Seq(Pushes(A))
<1>1. Add(Empty) \in Safe(A)
  BY TableTypes, CallTypes
<1>2. NoRows \in [{} -> Row] /\ {} \in SUBSET Ids
  BY DEF NoRows
<1>3. NoRows \in Rows(Ids)
  BY <1>2, RowsAre
<1> QED
  BY <1>1, <1>3 DEF Full, Check, Push, Pushes

LEMMA IdleType ==
  ASSUME NEW A
  PROVE  Idle \in Jobs(A, Ids)
<1>0. /\ Full \in Pushes(A) /\ NoRows \in Rows(Ids) /\ <<>> \in Seq(Pushes(A))
      /\ "idle" \in Ops /\ FALSE \in BOOLEAN /\ {} \in SUBSET Nodes
      /\ Full.kind # "push" /\ Idle.now = Full
  BY PushTypes DEF Ops, Full, Idle
<1> QED
  BY <1>0 DEF Idle, Jobs, JobRecords

LEMMA IdleTypes ==
  ASSUME NEW A, NEW op \in Ops \ {"list"}, NEW rows \in Rows(Ids), NEW on \in BOOLEAN,
         NEW ns \in SUBSET Nodes
  PROVE  /\ [Idle EXCEPT !.op = op, !.rows = rows] \in Jobs(A, Ids)
         /\ [Idle EXCEPT !.op = op, !.on = on, !.rows = rows] \in Jobs(A, Ids)
         /\ [Idle EXCEPT !.op = op, !.nodes = ns] \in Jobs(A, Ids)
<1>1. Idle \in Jobs(A, Ids) /\ Idle.now.kind # "push"
  BY IdleType DEF Idle, Full
<1>2. [Idle EXCEPT !.op = op, !.rows = rows] \in Jobs(A, Ids)
  BY <1>1 DEF Jobs, JobRecords
<1>3. [Idle EXCEPT !.op = op, !.on = on, !.rows = rows] \in Jobs(A, Ids)
  BY <1>1 DEF Jobs, JobRecords
<1>4. [Idle EXCEPT !.op = op, !.nodes = ns] \in Jobs(A, Ids)
  BY <1>1 DEF Jobs, JobRecords
<1> QED
  BY <1>2, <1>3, <1>4

LEMMA PushingTypes ==
  ASSUME NEW A, NEW pushes \in Seq(Pushes(A)), NEW rows \in Rows(Ids)
  PROVE  Pushing(pushes, rows) \in Jobs(A, Ids)
<1>0. "idle" \in Ops /\ "list" \in Ops /\ "clean" \in Ops
  BY DEF Ops
<1>1. Idle \in Jobs(A, Ids)
  BY IdleType
<1>2. \A o \in Ops \ {"rules", "whitelist"} :
        (o = "list" => pushes # <<>>) =>
          [Idle EXCEPT !.rows = rows, !.pushes = pushes, !.op = o] \in Jobs(A, Ids)
  BY <1>1 DEF Jobs, JobRecords
<1> QED
  BY <1>0, <1>2 DEF Pushing

-----------------------------------------------------------------------------
(* API requests *)

\* A step of a worker that changes at most its job and the database.
LEMMA WorkerStep ==
  ASSUME IInv, NEW w \in Workers, NEW j \in Jobs(Allowed, Ids), SetJob(w, j),
         UNCHANGED <<status, hvars, task, nvars, avars>>,
         db' \in [Ids -> Row], \A i \in Ids : db'[i].state = "on" => i \in Allowed
  PROVE  IInv'
<1>1. UNCHANGED restarts /\ UNCHANGED <<table, late>> /\ UNCHANGED <<status, hvars>>
  BY DEF nvars, avars
<1>2. /\ Allowed \subseteq Allowed' /\ asked' \subseteq Ids
      /\ job' \in [Workers -> Jobs(Allowed', Allowed')]
  BY <1>1, SetJobTypes
<1>3. JobOK'
  BY <1>2 DEF JobOK
<1>4. TaskOK' /\ NodeOK' /\ StatusOK' /\ AgentOK'
  BY <1>1, <1>2, Kept
<1> QED
  BY <1>3, <1>4 DEF IInv

\* What a worker's job holds.
LEMMA JobHolds ==
  ASSUME IInv, NEW w \in Workers
  PROVE  /\ job[w].op \in Ops /\ job[w].on \in BOOLEAN /\ job[w].rows \in Rows(Allowed)
         /\ job[w].rows \in Rows(Ids)
         /\ job[w].pushes \in Seq(Pushes(Allowed)) /\ job[w].now \in Pushes(Allowed)
         /\ job[w].nodes \in SUBSET Nodes
         /\ DOMAIN job[w].rows \subseteq Ids /\ job[w].rows \in [DOMAIN job[w].rows -> Row]
         /\ \A i \in DOMAIN job[w].rows : job[w].rows[i].state = "on" => i \in Allowed
<1>1. job[w] \in Jobs(Allowed, Allowed)
  BY DEF IInv, JobOK
<1>2. /\ job[w].op \in Ops /\ job[w].on \in BOOLEAN /\ job[w].rows \in Rows(Allowed)
      /\ job[w].pushes \in Seq(Pushes(Allowed)) /\ job[w].now \in Pushes(Allowed)
      /\ job[w].nodes \in SUBSET Nodes
  BY <1>1 DEF Jobs, JobRecords
<1>3. /\ DOMAIN job[w].rows \subseteq Ids /\ job[w].rows \in [DOMAIN job[w].rows -> Row]
      /\ \A i \in DOMAIN job[w].rows : job[w].rows[i].state = "on" => i \in Allowed
  BY <1>2, RowsAre
<1>4. job[w].rows \in Rows(Ids)
  BY <1>3, RowsAre
<1> QED
  BY <1>2, <1>3, <1>4

\* A table of rows that the jobs or the database hold as enabled.
LEMMA PickedKnown ==
  ASSUME IInv, NEW T, T \in Tables, \A i \in Ids : T[i] # None => i \in Allowed
  PROVE  T \in Known(Allowed) /\ Push(Add(T)) \in Pushes(Allowed)
<1>1. T \in Known(Allowed)
  BY DEF Known, Has
<1> QED
  BY <1>1, CallTypes, PushTypes

LEMMA CreateStep ==
  ASSUME IInv, NEW r \in Requests, Create(r)
  PROVE  IInv'
<1>1. PICK S, rows :
        /\ S \in (SUBSET RuleIds) \cup {{i} : i \in WlIds}
        /\ rows \in [S -> [state : IF S \subseteq RuleIds THEN {"on", "off"} ELSE {"on"}, val : Vals]]
        /\ SetJob(r, [Idle EXCEPT !.op = "insert", !.rows = rows])
  BY DEF Create, Request, Begin
<1>2. S \in SUBSET Ids /\ r \in Workers
  BY <1>1 DEF Ids, Workers
<1>3. rows \in [S -> Row]
  BY <1>1 DEF Row
<1>4. rows \in Rows(Ids)
  BY <1>2, <1>3, RowsAre
<1>5. [Idle EXCEPT !.op = "insert", !.rows = rows] \in Jobs(Allowed, Ids)
  BY <1>4, IdleTypes, PushTypes DEF Ops
<1>6. UNCHANGED <<db, status, hvars, task, nvars, avars>>
  BY DEF Create
<1> QED
  BY <1>1, <1>2, <1>5, <1>6, WorkerStep DEF IInv, JobOK

LEMMA InsertStep ==
  ASSUME IInv, NEW r \in Requests, Insert(r)
  PROVE  IInv'
<1> DEFINE rows  == job[r].rows
           items == [i \in Ids |-> IF i \in DOMAIN rows /\ rows[i].state = "on" THEN rows[i].val ELSE None]
           ps    == IF items = Empty THEN <<>> ELSE <<Push(Add(items))>>
<1>0. r \in Workers
  BY DEF Workers
<1>1. /\ DOMAIN rows \subseteq Ids /\ rows \in [DOMAIN rows -> Row]
      /\ \A i \in DOMAIN rows : rows[i].state = "on" => i \in Allowed
  BY <1>0, JobHolds
<1>2. items \in Tables /\ \A i \in Ids : items[i] # None => i \in Allowed
  BY <1>1 DEF Tables, Row
<1>3. ps \in Seq(Pushes(Allowed))
  <2>1. Push(Add(items)) \in Pushes(Allowed)
    BY <1>2, PickedKnown
  <2> QED
    BY <2>1, PushTypes
<1>4. Idle \in Jobs(Allowed, Ids) /\ Pushing(ps, NoRows) \in Jobs(Allowed, Ids)
  BY <1>3, IdleType, PushingTypes, PushTypes
<1>5. UNCHANGED <<status, hvars, task, nvars, avars>>
  BY DEF Insert
<1>6. \/ SetJob(r, Idle) /\ UNCHANGED db
      \/ /\ db' = [i \in Ids |-> IF i \in DOMAIN rows THEN rows[i] ELSE db[i]]
         /\ SetJob(r, Pushing(ps, NoRows))
  BY DEF Insert
<1>7. db \in [Ids -> Row] /\ \A i \in Ids : db[i].state = "on" => i \in Allowed
  BY DEF IInv, JobOK
<1>8. db' \in [Ids -> Row] /\ \A i \in Ids : db'[i].state = "on" => i \in Allowed
  <2> HIDE DEF ps
  <2> QED
    BY <1>1, <1>6, <1>7
<1> QED
  <2> HIDE DEF ps
  <2> QED
    BY <1>0, <1>4, <1>5, <1>6, <1>8, WorkerStep

LEMMA UpdateStep ==
  ASSUME IInv, NEW r \in Requests, Update(r) \/ Delete(r)
  PROVE  IInv'
<1>0. r \in Workers /\ RuleIds \subseteq Ids /\ db \in [Ids -> Row]
  BY DEF Workers, Ids, IInv, JobOK
<1>1. PICK i \in Ids, row \in Row, op \in {"write", "erase"}, on \in BOOLEAN :
        SetJob(r, [Idle EXCEPT !.op = op, !.on = on, !.rows = [j \in {i} |-> row]])
  <2>1. CASE Update(r)
    <3>1. PICK i \in RuleIds, state \in {"on", "off"}, v \in Vals :
            SetJob(r, [Idle EXCEPT !.op = "write", !.on = (db[i].state = "on"),
                                   !.rows = [j \in {i} |-> [state |-> state, val |-> v]]])
      BY <2>1 DEF Update, Request, Begin
    <3>2. [state |-> state, val |-> v] \in Row
      BY DEF Row
    <3> QED
      BY <1>0, <3>1, <3>2
  <2>2. CASE Delete(r)
    <3>1. PICK i \in RuleIds :
            SetJob(r, [Idle EXCEPT !.op = "erase", !.on = (db[i].state = "on"),
                                   !.rows = [j \in {i} |-> db[i]]])
      BY <2>2 DEF Delete, Request, Begin
    <3> QED
      BY <1>0, <3>1
  <2> QED
    BY <2>1, <2>2
<1>2. [j \in {i} |-> row] \in [{i} -> Row] /\ {i} \in SUBSET Ids
  OBVIOUS
<1>3. [j \in {i} |-> row] \in Rows(Ids)
  BY <1>2, RowsAre
<1>4. [Idle EXCEPT !.op = op, !.on = on, !.rows = [j \in {i} |-> row]] \in Jobs(Allowed, Ids)
  BY <1>3, IdleTypes, PushTypes DEF Ops
<1>5. UNCHANGED <<db, status, hvars, task, nvars, avars>>
  BY DEF Update, Delete
<1> QED
  BY <1>0, <1>1, <1>4, <1>5, WorkerStep DEF IInv, JobOK

LEMMA WriteStep ==
  ASSUME IInv, NEW r \in Requests, Write(r)
  PROVE  IInv'
<1>0. r \in Workers
  BY DEF Workers
<1>1. PICK i \in DOMAIN job[r].rows :
        /\ db' = IF Present(i) THEN [db EXCEPT ![i] = job[r].rows[i]] ELSE db
        /\ SetJob(r, Pushing(Transition(i, job[r].on, job[r].rows[i]), NoRows))
        /\ UNCHANGED <<status, hvars, task, nvars, avars>>
  BY DEF Write
<1> DEFINE row == job[r].rows[i]
           T   == [j \in Ids |-> IF j = i THEN row.val ELSE None]
<1>2. i \in Ids /\ row \in Row /\ (row.state = "on" => i \in Allowed)
  BY <1>0, JobHolds
<1>3. Transition(i, job[r].on, row) \in Seq(Pushes(Allowed))
  <2>1. CASE row.state = "on"
    <3>1. T \in Tables /\ \A j \in Ids : T[j] # None => j \in Allowed
      BY <1>2, <2>1 DEF Tables, Row
    <3>2. Push(Add(T)) \in Pushes(Allowed) /\ Push(Del({i})) \in Pushes(Allowed)
      BY <1>2, <3>1, PickedKnown, CallTypes, PushTypes
    <3> QED
      BY <2>1, <3>2 DEF Transition
  <2>2. CASE row.state # "on"
    <3>1. Push(Del({i})) \in Pushes(Allowed)
      BY <1>2, CallTypes, PushTypes
    <3> QED
      BY <2>2, <3>1 DEF Transition
  <2> QED
    BY <2>1, <2>2
<1>4. Pushing(Transition(i, job[r].on, row), NoRows) \in Jobs(Allowed, Ids)
  BY <1>3, PushingTypes, PushTypes
<1>5. db' \in [Ids -> Row] /\ \A j \in Ids : db'[j].state = "on" => j \in Allowed
  BY <1>1, <1>2 DEF IInv, JobOK
<1> QED
  BY <1>0, <1>1, <1>4, <1>5, WorkerStep

LEMMA EraseStep ==
  ASSUME IInv, NEW r \in Requests, Erase(r)
  PROVE  IInv'
<1>0. r \in Workers
  BY DEF Workers
<1>1. PICK i \in DOMAIN job[r].rows :
        /\ db' = [db EXCEPT ![i] = Gone]
        /\ SetJob(r, Pushing(IF Present(i) /\ job[r].on THEN <<Push(Del({i}))>> ELSE <<>>, NoRows))
        /\ UNCHANGED <<status, hvars, task, nvars, avars>>
  BY DEF Erase
<1>2. i \in Ids
  BY <1>0, JobHolds
<1> DEFINE ps == IF Present(i) /\ job[r].on THEN <<Push(Del({i}))>> ELSE <<>>
<1>3. ps \in Seq(Pushes(Allowed))
  <2>1. Push(Del({i})) \in Pushes(Allowed)
    BY <1>2, CallTypes, PushTypes
  <2> QED
    BY <2>1, PushTypes
<1>4. Pushing(ps, NoRows) \in Jobs(Allowed, Ids)
  BY <1>3, PushingTypes, PushTypes
<1>5. db' \in [Ids -> Row] /\ \A j \in Ids : db'[j].state = "on" => j \in Allowed
  BY <1>1, <1>2 DEF IInv, JobOK, Gone, Row
<1> QED
  BY <1>0, <1>1, <1>4, <1>5, WorkerStep

LEMMA DeleteWlStep ==
  ASSUME IInv, NEW r \in Requests, DeleteWl(r)
  PROVE  IInv'
<1>0. r \in Workers /\ WlIds \subseteq Ids
  BY DEF Workers, Ids
<1>1. PICK i \in WlIds :
        /\ db' = [db EXCEPT ![i] = Gone]
        /\ SetJob(r, Pushing(<<Push(Del({i}))>>, NoRows))
        /\ UNCHANGED <<status, hvars, task, nvars, avars>>
  BY DEF DeleteWl, Request, Begin
<1>2. Push(Del({i})) \in Pushes(Allowed)
  BY <1>0, CallTypes, PushTypes
<1>3. Pushing(<<Push(Del({i}))>>, NoRows) \in Jobs(Allowed, Ids)
  <2>1. <<Push(Del({i}))>> \in Seq(Pushes(Allowed))
    BY <1>2
  <2> QED
    BY <2>1, PushingTypes, PushTypes
<1>4. db' \in [Ids -> Row] /\ \A j \in Ids : db'[j].state = "on" => j \in Allowed
  BY <1>0, <1>1 DEF IInv, JobOK, Gone, Row
<1> QED
  BY <1>0, <1>1, <1>3, <1>4, WorkerStep

LEMMA BatchDeleteStep ==
  ASSUME IInv, NEW r \in Requests, BatchDelete(r)
  PROVE  IInv'
<1>0. r \in Workers
  BY DEF Workers
<1>1. PICK S :
        /\ db' = [i \in Ids |-> IF i \in S THEN Gone ELSE db[i]]
        /\ SetJob(r, Pushing(<<Full>>, NoRows))
        /\ UNCHANGED <<status, hvars, task, nvars, avars>>
  BY DEF BatchDelete, Request, Begin
<1>2. Full \in Pushes(Allowed)
  BY PushTypes
<1>3. Pushing(<<Full>>, NoRows) \in Jobs(Allowed, Ids)
  <2>1. <<Full>> \in Seq(Pushes(Allowed))
    BY <1>2
  <2> QED
    BY <2>1, PushingTypes, PushTypes
<1>4. db' \in [Ids -> Row] /\ \A j \in Ids : db'[j].state = "on" => j \in Allowed
  BY <1>1 DEF IInv, JobOK, Gone, Row
<1> QED
  BY <1>0, <1>1, <1>3, <1>4, WorkerStep

LEMMA ForceSyncStep ==
  ASSUME IInv, NEW r \in Requests, ForceSync(r)
  PROVE  IInv'
<1>0. r \in Workers
  BY DEF Workers
<1>1. PICK n \in Nodes : /\ SetJob(r, [Idle EXCEPT !.op = "rules", !.nodes = {n}])
                         /\ UNCHANGED <<db, status, hvars, task, nvars, avars>>
  BY DEF ForceSync, Request, Begin
<1>2. [Idle EXCEPT !.op = "rules", !.nodes = {n}] \in Jobs(Allowed, Ids)
  BY IdleTypes, PushTypes DEF Ops
<1> QED
  BY <1>0, <1>1, <1>2, WorkerStep DEF IInv, JobOK

-----------------------------------------------------------------------------
(* Rounds of the schedulers *)

LEMMA CheckRoundStep ==
  ASSUME IInv, CheckRound
  PROVE  IInv'
<1>1. /\ "checker" \in Workers /\ SetJob("checker", Pushing(<<Check>>, NoRows))
      /\ UNCHANGED <<db, status, hvars, task, nvars, avars>>
  BY DEF CheckRound, Begin, Workers
<1>2. Check \in Pushes(Allowed)
  BY PushTypes
<1>3. Pushing(<<Check>>, NoRows) \in Jobs(Allowed, Ids)
  <2>1. <<Check>> \in Seq(Pushes(Allowed))
    BY <1>2
  <2> QED
    BY <2>1, PushingTypes, PushTypes
<1> QED
  BY <1>1, <1>3, WorkerStep DEF IInv, JobOK

LEMMA CleanRoundStep ==
  ASSUME IInv, CleanRound
  PROVE  IInv'
<1>1. /\ "cleaner" \in Workers /\ UNCHANGED <<db, status, hvars, task, nvars, avars>>
  BY DEF CleanRound, Workers
<1>2. PICK S \in SUBSET {i \in Expiring : Present(i)} :
        SetJob("cleaner", Pushing(<<>>, [i \in S |-> db[i]]))
  BY DEF CleanRound, Begin
<1>3. S \in SUBSET Ids /\ [i \in S |-> db[i]] \in [S -> Row]
  BY ControllerSyncAssumption DEF IInv, JobOK, Ids
<1>4. [i \in S |-> db[i]] \in Rows(Ids)
  BY <1>3, RowsAre
<1>5. Pushing(<<>>, [i \in S |-> db[i]]) \in Jobs(Allowed, Ids)
  BY <1>4, PushingTypes, PushTypes
<1> QED
  BY <1>1, <1>2, <1>5, WorkerStep DEF IInv, JobOK

LEMMA CleanOneStep ==
  ASSUME IInv, CleanOne
  PROVE  IInv'
<1> DEFINE rows == job["cleaner"].rows
<1>1. "cleaner" \in Workers /\ UNCHANGED <<status, hvars, task, nvars, avars>>
  BY DEF CleanOne, Workers
<1>2. PICK i \in DOMAIN rows :
        /\ db' = [db EXCEPT ![i] = Gone]
        /\ SetJob("cleaner", Pushing(IF rows[i].state = "on" THEN <<Push(Del({i}))>> ELSE <<>>,
                                     [j \in DOMAIN rows \ {i} |-> rows[j]]))
  BY DEF CleanOne
<1>3. DOMAIN rows \subseteq Ids /\ rows \in [DOMAIN rows -> Row]
  BY <1>1, JobHolds
<1> DEFINE rest == [j \in DOMAIN rows \ {i} |-> rows[j]]
           ps   == IF rows[i].state = "on" THEN <<Push(Del({i}))>> ELSE <<>>
<1>4. rest \in [DOMAIN rows \ {i} -> Row] /\ DOMAIN rows \ {i} \in SUBSET Ids
  BY <1>3
<1>5. rest \in Rows(Ids)
  <2> HIDE DEF rest, rows
  <2> QED
    BY <1>4, RowsAre
<1>6. ps \in Seq(Pushes(Allowed))
  <2>1. Push(Del({i})) \in Pushes(Allowed)
    BY <1>3, CallTypes, PushTypes
  <2> QED
    BY <2>1, PushTypes
<1>7. Pushing(ps, rest) \in Jobs(Allowed, Ids)
  <2> HIDE DEF ps, rest
  <2> QED
    BY <1>5, <1>6, PushingTypes
<1>8. db' \in [Ids -> Row] /\ \A j \in Ids : db'[j].state = "on" => j \in Allowed
  BY <1>2, <1>3 DEF IInv, JobOK, Gone, Row
<1> QED
  BY <1>1, <1>2, <1>7, <1>8, WorkerStep

-----------------------------------------------------------------------------
(* Pushing *)

LEMMA TaskTypes ==
  ASSUME NEW A
  PROVE  /\ Done \in Tasks(A)
         /\ \A kind \in {"push", "full", "check"} : First(kind) \in Tasks(A)
<1>1. Done \in Tasks(A)
  BY TableTypes DEF Done, Tasks, Steps
<1>2. \A kind \in {"push", "full", "check"} :
        \E pc \in {"call", "fullwl", "count"} : First(kind) = [Done EXCEPT !.pc = pc]
  BY DEF First
<1>3. \A pc \in {"call", "fullwl", "count"} : [Done EXCEPT !.pc = pc] \in Tasks(A)
  BY <1>1 DEF Tasks, Steps
<1> QED
  BY <1>1, <1>2, <1>3

LEMMA MarkTypes ==
  ASSUME IInv, NEW n \in Nodes, NEW pc
  PROVE  Mark(n, pc) \in Statuses
BY DEF Mark, Statuses, IInv, StatusOK

\* The tasks of a push begin.
LEMMA LaunchStep ==
  ASSUME IInv, NEW w \in Workers, NEW p \in Pushes(Allowed), NEW S,
         p.kind = "push" => job[w].pushes # <<>>,
         Launch(w, p, S), UNCHANGED <<db, hvars, nvars, avars>>
  PROVE  IInv'
<1> DEFINE ps == IF p.kind = "push" THEN Tail(job[w].pushes) ELSE job[w].pushes
           j  == [job[w] EXCEPT !.op = "wait", !.now = p, !.nodes = {}, !.pushes = ps]
<1>1. ps \in Seq(Pushes(Allowed))
  <2>1. job[w].pushes \in Seq(Pushes(Allowed))
    BY JobHolds
  <2> QED
    BY <2>1
<1>2. job[w] \in Jobs(Allowed, Ids)
  <2>1. job[w] \in Jobs(Allowed, Allowed) /\ job[w].rows \in Rows(Ids)
    BY JobHolds DEF IInv, JobOK
  <2> QED
    BY <2>1 DEF Jobs, JobRecords
<1>3. j \in Jobs(Allowed, Ids) /\ SetJob(w, j)
  <2>1. SetJob(w, j)
    BY DEF Launch
  <2> HIDE DEF ps
  <2>2. j \in Jobs(Allowed, Ids)
    BY <1>1, <1>2 DEF Jobs, JobRecords, Ops
  <2> QED
    BY <2>1, <2>2
<1>4. /\ Allowed \subseteq Allowed' /\ asked' \subseteq Ids
      /\ job' \in [Workers -> Jobs(Allowed', Allowed')]
  <2> HIDE DEF j
  <2> QED
    BY <1>3, SetJobTypes DEF avars
<1>5. JobOK'
  BY <1>4 DEF JobOK, IInv
<1>6. TaskOK'
  <2> DEFINE f == [n \in Nodes |-> IF n \in S THEN First(p.kind) ELSE Done]
  <2>1. f \in [Nodes -> Tasks(Allowed')] /\ task' = [task EXCEPT ![w] = f]
    BY TaskTypes DEF Pushes, Launch
  <2>2. task \in [Workers -> [Nodes -> Tasks(Allowed')]]
    <3>1. Tasks(Allowed) \subseteq Tasks(Allowed')
      BY <1>4, Monotone
    <3> QED
      BY <3>1 DEF IInv, TaskOK
  <2> HIDE DEF f
  <2> QED
    BY <2>1, <2>2 DEF TaskOK
<1>7. StatusOK'
  <2>1. \A n \in Nodes : Mark(n, First(p.kind).pc) \in Statuses
    BY MarkTypes
  <2> QED
    BY <2>1 DEF IInv, StatusOK, Launch, hvars
<1>8. NodeOK' /\ AgentOK'
  BY <1>4, Kept DEF nvars
<1> QED
  BY <1>5, <1>6, <1>7, <1>8 DEF IInv

LEMMA ListNodesStep ==
  ASSUME IInv, NEW w \in Workers, ListNodes(w)
  PROVE  IInv'
<1> DEFINE p    == Head(job[w].pushes)
           busy == {n \in Nodes : status[n] # "offline"}
           j    == [job[w] EXCEPT !.op = "rules", !.nodes = busy, !.now = p, !.pushes = Tail(@)]
<1>1. job[w] \in Jobs(Allowed, Ids) /\ job[w].pushes # <<>>
  <2>1. job[w] \in Jobs(Allowed, Allowed) /\ job[w].rows \in Rows(Ids)
    BY JobHolds DEF IInv, JobOK
  <2> QED
    BY <2>1 DEF Jobs, JobRecords, ListNodes
<1>2. p \in Pushes(Allowed) /\ Tail(job[w].pushes) \in Seq(Pushes(Allowed))
  <2>1. job[w].pushes \in Seq(Pushes(Allowed))
    BY JobHolds
  <2> QED
    BY <1>1, <2>1
<1>3. CASE Launch(w, p, busy)
  <2>1. UNCHANGED <<db, hvars, nvars, avars>>
    BY DEF ListNodes
  <2> HIDE DEF p, busy
  <2> QED
    BY <1>1, <1>2, <1>3, <2>1, LaunchStep
<1>4. CASE p.kind # "push" /\ SetJob(w, j) /\ UNCHANGED <<status, task>>
  <2> DEFINE t == Tail(job[w].pushes)
  <2>1. UNCHANGED <<db, status, hvars, task, nvars, avars>>
    BY <1>4 DEF ListNodes
  <2>2. busy \in SUBSET Nodes
    OBVIOUS
  <2>3. j \in Jobs(Allowed, Ids)
    <3> HIDE DEF p, busy, t
    <3>1. [job[w] EXCEPT !.op = "rules", !.nodes = busy, !.now = p, !.pushes = t] \in Jobs(Allowed, Ids)
      BY <1>1, <1>2, <1>4, <2>2 DEF Jobs, JobRecords, Ops, t
    <3> QED
      BY <3>1 DEF t
  <2> HIDE DEF j
  <2> QED
    BY <1>4, <2>1, <2>3, WorkerStep DEF IInv, JobOK
<1> QED
  BY <1>3, <1>4 DEF ListNodes

\* What the database has as enabled, and what a sync reads of it.
LEMMA ReadTypes ==
  ASSUME IInv, NEW S
  PROVE  Only(Enabled, S) \in Known(Allowed)
<1>1. Enabled \in Tables /\ \A i \in Ids : Enabled[i] # None => i \in Allowed
  BY DEF Enabled, Tables, Row, IInv, JobOK
<1> QED
  BY <1>1, PickedKnown, TableTypes

LEMMA ReadRulesStep ==
  ASSUME IInv, NEW w \in Workers, ReadRules(w)
  PROVE  IInv'
<1> DEFINE c == Add(Only(Enabled, RuleIds))
           j == [job[w] EXCEPT !.op = "whitelist", !.now.call = c]
<1>1. c \in Safe(Allowed)
  BY ReadTypes, CallTypes
<1>2. job[w] \in Jobs(Allowed, Ids) /\ job[w].now.kind # "push" /\ job[w].now \in Pushes(Allowed)
  <2>1. job[w] \in Jobs(Allowed, Allowed) /\ job[w].rows \in Rows(Ids) /\ job[w].now \in Pushes(Allowed)
    BY JobHolds DEF IInv, JobOK
  <2> QED
    BY <2>1 DEF Jobs, JobRecords, ReadRules
<1>3. [job[w].now EXCEPT !.call = c] \in Pushes(Allowed) /\ [job[w].now EXCEPT !.call = c].kind # "push"
  <2> HIDE DEF c
  <2> QED
    BY <1>1, <1>2 DEF Pushes
<1>4. j \in Jobs(Allowed, Ids)
  <2> DEFINE q == [job[w].now EXCEPT !.call = c]
  <2>1. j = [job[w] EXCEPT !.op = "whitelist", !.now = q]
    BY <1>2 DEF Jobs, JobRecords
  <2> HIDE DEF q, j
  <2>2. q \in Pushes(Allowed) /\ q.kind # "push"
    BY <1>3 DEF q
  <2> QED
    BY <1>2, <2>1, <2>2 DEF Jobs, JobRecords, Ops
<1>5. SetJob(w, j) /\ UNCHANGED <<db, status, hvars, task, nvars, avars>>
  BY DEF ReadRules
<1> HIDE DEF j
<1> QED
  BY <1>4, <1>5, WorkerStep DEF IInv, JobOK

LEMMA ReadWhitelistStep ==
  ASSUME IInv, NEW w \in Workers, ReadWhitelist(w)
  PROVE  IInv'
<1> DEFINE c == Add(Over(job[w].now.call.items, Only(Enabled, WlIds)))
           p == [job[w].now EXCEPT !.call = c]
<1>1. job[w].now \in Pushes(Allowed) /\ job[w].now.kind # "push"
  <2>1. job[w] \in Jobs(Allowed, Allowed) /\ job[w].now \in Pushes(Allowed)
    BY JobHolds DEF IInv, JobOK
  <2> QED
    BY <2>1 DEF Jobs, JobRecords, ReadWhitelist
<1>2. job[w].now.call.items \in Known(Allowed)
  BY <1>1 DEF Pushes, Safe, Call, Known
<1>3. c \in Safe(Allowed)
  BY <1>2, ReadTypes, TableTypes, CallTypes
<1>4. p \in Pushes(Allowed) /\ p.kind # "push"
  <2> HIDE DEF c
  <2> QED
    BY <1>1, <1>3 DEF Pushes
<1>5. Launch(w, p, job[w].nodes) /\ UNCHANGED <<db, hvars, nvars, avars>>
  BY DEF ReadWhitelist
<1> HIDE DEF p
<1> QED
  BY <1>4, <1>5, LaunchStep

LEMMA ReturnStep ==
  ASSUME IInv, NEW w \in Workers, Return(w)
  PROVE  IInv'
<1>1. Pushing(job[w].pushes, job[w].rows) \in Jobs(Allowed, Ids)
  BY JobHolds, PushingTypes
<1> QED
  BY <1>1, WorkerStep DEF Return, IInv, JobOK

-----------------------------------------------------------------------------
(* Calls and tasks *)

LEMMA CallStep ==
  ASSUME IInv, NEW n \in Nodes, NEW c \in Safe(Allowed), NEW ok, Calls(n, c, ok),
         UNCHANGED <<asked, restarts>>
  PROVE  NodeOK'
<1>0. Allowed' = Allowed
  BY DEF Allowed
<1>1. CASE \E e \in Effects(c, table[n]) : table' = [table EXCEPT ![n] = e.table] /\ UNCHANGED late
  <2>1. PICK e \in Effects(c, table[n]) : table' = [table EXCEPT ![n] = e.table]
    BY <1>1
  <2>2. e.table \in Known(Allowed)
    BY EffectTypes DEF IInv, NodeOK
  <2> QED
    BY <1>0, <1>1, <2>1, <2>2 DEF IInv, NodeOK
<1>2. CASE UNCHANGED nvars
  BY <1>0, <1>2 DEF IInv, NodeOK, nvars
<1>3. CASE late' \in {late, late \cup {[node |-> n, call |-> c]}} /\ UNCHANGED table
  BY <1>0, <1>3 DEF IInv, NodeOK
<1> QED
  BY <1>1, <1>2, <1>3 DEF Calls

\* A task of a push goes on.
LEMMA GoesStep ==
  ASSUME IInv, NEW w \in Workers, NEW n \in Nodes, NEW k \in Tasks(Allowed), Goes(w, n, k), NodeOK'
  PROVE  IInv'
<1>1. Allowed' = Allowed /\ UNCHANGED <<dvars, hvars, avars>>
  BY DEF Goes, Allowed, dvars, avars
<1>2. TaskOK'
  <2> DEFINE q == IF k.pc \in {"good", "bad", "done"} THEN Done ELSE k
  <2>1. q \in Tasks(Allowed) /\ task' = [task EXCEPT ![w][n] = q]
    BY TaskTypes DEF Goes
  <2> HIDE DEF q
  <2>2. [task[w] EXCEPT ![n] = q] \in [Nodes -> Tasks(Allowed)]
    BY <2>1 DEF IInv, TaskOK
  <2>3. task' = [task EXCEPT ![w] = [task[w] EXCEPT ![n] = q]]
    BY <2>1
  <2> QED
    BY <1>1, <2>2, <2>3 DEF IInv, TaskOK
<1>3. StatusOK'
  <2>1. Mark(n, k.pc) \in Statuses
    BY MarkTypes
  <2> QED
    BY <2>1 DEF Goes, IInv, StatusOK, hvars
<1> QED
  BY <1>1, <1>2, <1>3, Kept DEF IInv

LEMMA CallGoes ==
  ASSUME IInv, NEW w \in Workers, NEW n \in Nodes, NEW c \in Safe(Allowed), NEW ok,
         NEW k \in Tasks(Allowed), Calls(n, c, ok), Goes(w, n, k)
  PROVE  IInv'
<1>1. UNCHANGED <<asked, restarts>>
  BY DEF Goes, dvars, avars
<1> QED
  BY <1>1, CallStep, GoesStep

LEMMA ReadGoes ==
  ASSUME IInv, NEW w \in Workers, NEW n \in Nodes, NEW ok,
         NEW k \in Tasks(Allowed), Reads(n, ok), Goes(w, n, k)
  PROVE  IInv'
<1>1. UNCHANGED <<asked, restarts, table, late>>
  BY DEF Goes, Reads, nvars, dvars, avars
<1>2. NodeOK'
  BY <1>1 DEF IInv, NodeOK, Allowed
<1> QED
  BY <1>2, GoesStep

\* What a task holds, and how it moves on.
LEMMA TaskHolds ==
  ASSUME IInv, NEW w \in Workers, NEW n \in Nodes
  PROVE  /\ task[w][n] \in Tasks(Allowed) /\ task[w][n].list \in Known(Allowed)
         /\ task[w][n].cur \in SUBSET Ids /\ task[w][n].scope \in SUBSET Ids
         /\ \A pc \in Steps : To(w, n, pc) \in Tasks(Allowed)
         /\ job[w].now.call \in Safe(Allowed) /\ Items(w) \in Known(Allowed)
<1>1. task[w][n] \in Tasks(Allowed)
  BY DEF IInv, TaskOK
<1>2. /\ task[w][n].list \in Known(Allowed)
      /\ task[w][n].cur \in SUBSET Ids /\ task[w][n].scope \in SUBSET Ids
  BY <1>1 DEF Tasks
<1>3. \A pc \in Steps : To(w, n, pc) \in Tasks(Allowed)
  BY <1>1 DEF Tasks, To
<1>4. job[w].now \in Pushes(Allowed)
  BY JobHolds
<1>5. job[w].now.call \in Safe(Allowed)
  BY <1>4 DEF Pushes
<1>6. Items(w) \in Known(Allowed)
  BY <1>5 DEF Items, Safe, Call, Known
<1> QED
  BY <1>1, <1>2, <1>3, <1>5, <1>6

LEMMA GoalTypes ==
  ASSUME NEW A, NEW w, NEW k \in Tasks(A)
  PROVE  /\ Added(k, w) \in Tasks(A) /\ Deleted(k, w) \in Tasks(A) /\ Got(k, w) \in Tasks(A)
         /\ Failed(k) \in Tasks(A)
<1>0. Empty \in Known(A) /\ WlIds \in SUBSET Ids /\ First("full") \in Tasks(A)
  BY TableTypes, TaskTypes DEF Ids
<1>1. \A pc \in Steps : [k EXCEPT !.pc = pc] \in Tasks(A)
  BY DEF Tasks
<1>2. "get" \in Steps /\ "good" \in Steps /\ "add" \in Steps /\ "del" \in Steps /\ "bad" \in Steps
  BY DEF Steps
<1>3. [k EXCEPT !.pc = "get", !.scope = WlIds, !.list = Empty] \in Tasks(A)
  BY <1>0, <1>2 DEF Tasks
<1>4. Added(k, w) \in Tasks(A)
  BY <1>1, <1>2, <1>3 DEF Added
<1>5. Deleted(k, w) \in Tasks(A)
  BY <1>1, <1>2, <1>4 DEF Deleted
<1>6. Got(k, w) \in Tasks(A)
  BY <1>1, <1>2, <1>5 DEF Got
<1>7. Failed(k) \in Tasks(A)
  BY <1>0, <1>1, <1>2 DEF Failed
<1> QED
  BY <1>4, <1>5, <1>6, <1>7

LEMMA TaskStep ==
  ASSUME IInv, NEW w \in Workers, NEW n \in Nodes, Task(w, n)
  PROVE  IInv'
<1> DEFINE k == task[w][n]
<1>0. /\ k \in Tasks(Allowed) /\ k.list \in Known(Allowed)
      /\ k.cur \in SUBSET Ids /\ k.scope \in SUBSET Ids
      /\ job[w].now.call \in Safe(Allowed) /\ Items(w) \in Known(Allowed)
      /\ RuleIds \in SUBSET Ids /\ WlIds \in SUBSET Ids
  BY TaskHolds DEF Ids
<1>1. /\ \A pc \in Steps : To(w, n, pc) \in Tasks(Allowed) /\ [k EXCEPT !.pc = pc] \in Tasks(Allowed)
      /\ First("full") \in Tasks(Allowed) /\ Done \in Tasks(Allowed)
      /\ Added(k, w) \in Tasks(Allowed) /\ Deleted(k, w) \in Tasks(Allowed)
      /\ Failed(k) \in Tasks(Allowed)
  BY <1>0, TaskHolds, TaskTypes, GoalTypes DEF To
<1>2. \A S \in SUBSET Ids : Replace(Items(w), S) \in Safe(Allowed)
  BY <1>0, CallTypes
<1>3. \A m \in {"diff", "legacy"} : [Done EXCEPT !.pc = "get", !.mode = m, !.scope = RuleIds] \in Tasks(Allowed)
  <2> SUFFICES ASSUME NEW m \in {"diff", "legacy"}
               PROVE  [Done EXCEPT !.pc = "get", !.mode = m, !.scope = RuleIds] \in Tasks(Allowed)
    OBVIOUS
  <2>1. "get" \in Steps /\ m \in {"none", "diff", "legacy"}
    BY DEF Steps
  <2> QED
    BY <1>0, <1>1, <2>1 DEF Tasks
<1>4. CASE TryCall(w, n)
  <2>1. [k EXCEPT !.att = @ + 1] \in Tasks(Allowed)
    BY <1>0 DEF Tasks
  <2>2. "done" \in Steps
    BY DEF Steps
  <2>3. PICK ok \in BOOLEAN, q \in Tasks(Allowed) : Calls(n, job[w].now.call, ok) /\ Goes(w, n, q)
    BY <1>1, <1>4, <2>1, <2>2 DEF TryCall
  <2> QED
    BY <1>0, <2>3, CallGoes
<1>5. CASE Count(w, n)
  <2>1. PICK ok \in BOOLEAN, q \in Tasks(Allowed) : Reads(n, ok) /\ Goes(w, n, q)
    BY <1>1, <1>5 DEF Count, Steps
  <2> QED
    BY <2>1, ReadGoes
<1>6. CASE DiffWhitelist(w, n)
  <2>1. PICK ok \in BOOLEAN, q \in Tasks(Allowed) : Calls(n, Replace(Items(w), WlIds), ok) /\ Goes(w, n, q)
    BY <1>1, <1>3, <1>6 DEF DiffWhitelist
  <2> QED
    BY <1>0, <1>2, <2>1, CallGoes
<1>7. CASE FullWhitelist(w, n)
  <2>1. PICK ok \in BOOLEAN, q \in Tasks(Allowed) : Calls(n, Replace(Items(w), WlIds), ok) /\ Goes(w, n, q)
    BY <1>1, <1>7 DEF FullWhitelist, Steps
  <2> QED
    BY <1>0, <1>2, <2>1, CallGoes
<1>8. CASE AtomicSync(w, n)
  <2>1. PICK ok \in BOOLEAN, q \in Tasks(Allowed) : Calls(n, Replace(Items(w), RuleIds), ok) /\ Goes(w, n, q)
    BY <1>1, <1>3, <1>8 DEF AtomicSync, Steps
  <2> QED
    BY <1>0, <1>2, <2>1, CallGoes
<1>9. CASE Get(w, n)
  <2> DEFINE q == [k EXCEPT !.list = Only(table[n], k.scope)]
  <2>1. Only(table[n], k.scope) \in Known(Allowed)
    BY TableTypes DEF IInv, NodeOK
  <2>2. q \in Tasks(Allowed)
    BY <1>0, <2>1 DEF Tasks
  <2>3. Got(q, w) \in Tasks(Allowed)
    <3> HIDE DEF q
    <3> QED
      BY <2>2, GoalTypes
  <2>4. PICK ok \in BOOLEAN : /\ Reads(n, ok)
                              /\ Goes(w, n, IF ok THEN Got(q, w) ELSE Failed(k))
    BY <1>9 DEF Get
  <2> QED
    <3> HIDE DEF q, k
    <3> QED
      BY <1>1, <2>3, <2>4, ReadGoes
<1>10. CASE DeleteListed(w, n)
  <2>1. ToDelete(k, w) \in SUBSET Ids
    BY DEF ToDelete, Has
  <2>2. PICK ok \in BOOLEAN, q \in Tasks(Allowed) : Calls(n, Del(ToDelete(k, w)), ok) /\ Goes(w, n, q)
    BY <1>1, <1>10 DEF DeleteListed
  <2> QED
    BY <2>1, <2>2, CallTypes, CallGoes
<1>11. CASE AddMissing(w, n)
  <2>1. ToAdd(k, w) \in Known(Allowed)
    BY <1>0, TableTypes DEF ToAdd
  <2>2. PICK ok \in BOOLEAN, q \in Tasks(Allowed) : Calls(n, Add(ToAdd(k, w)), ok) /\ Goes(w, n, q)
    BY <1>1, <1>11 DEF AddMissing, Steps
  <2> QED
    BY <2>1, <2>2, CallTypes, CallGoes
<1>12. CASE ListResidue(w, n)
  <2> DEFINE left == Has(table[n]) \cap k.scope
             q    == [k EXCEPT !.pc = "clean", !.cur = left]
  <2>1. left \in SUBSET Ids
    BY DEF Has
  <2>2. q \in Tasks(Allowed)
    <3> HIDE DEF left
    <3> QED
      BY <1>0, <2>1 DEF Tasks, Steps
  <2>3. PICK ok \in BOOLEAN : /\ Reads(n, ok)
                              /\ Goes(w, n, IF ok /\ left # {} THEN q ELSE To(w, n, "restore"))
    BY <1>12 DEF ListResidue
  <2>4. To(w, n, "restore") \in Tasks(Allowed)
    BY <1>1 DEF Steps
  <2> QED
    <3> HIDE DEF q, left
    <3> QED
      BY <2>2, <2>3, <2>4, ReadGoes
<1>13. CASE DeleteResidue(w, n)
  <2>1. PICK ok \in BOOLEAN, q \in Tasks(Allowed) : Calls(n, Del(k.cur), ok) /\ Goes(w, n, q)
    BY <1>1, <1>13 DEF DeleteResidue, Steps
  <2> QED
    BY <1>0, <2>1, CallTypes, CallGoes
<1>14. CASE Restore(w, n)
  <2>1. PICK ok \in BOOLEAN, q \in Tasks(Allowed) : Calls(n, Add(k.list), ok) /\ Goes(w, n, q)
    BY <1>1, <1>14 DEF Restore, Steps
  <2> QED
    BY <1>0, <2>1, CallTypes, CallGoes
<1> QED
  BY <1>4, <1>5, <1>6, <1>7, <1>8, <1>9, <1>10, <1>11, <1>12, <1>13, <1>14 DEF Task

-----------------------------------------------------------------------------
(* The nodes, and the theorem *)

LEMMA DeliverStep ==
  ASSUME IInv, NEW l \in late, Deliver(l)
  PROVE  IInv'
<1>1. l.node \in Nodes /\ l.call \in Safe(Allowed) /\ Allowed' = Allowed
  BY DEF IInv, NodeOK, Deliver, Allowed, dvars, avars
<1>2. PICK e \in Effects(l.call, table[l.node]) : table' = [table EXCEPT ![l.node] = e.table]
  BY DEF Deliver
<1>3. e.table \in Known(Allowed)
  BY <1>1, EffectTypes DEF IInv, NodeOK
<1>4. NodeOK'
  BY <1>1, <1>2, <1>3 DEF IInv, NodeOK, Deliver
<1> QED
  BY <1>1, <1>4, Kept DEF Deliver, IInv, avars

LEMMA HealthStep ==
  ASSUME IInv, NEW n \in Nodes, HealthList(n) \/ Ping(n)
  PROVE  IInv'
<1>1. Allowed' = Allowed /\ UNCHANGED <<dvars, task, table, late, avars>>
  BY DEF HealthList, Ping, Reads, Allowed, nvars, dvars, avars
<1>2. CASE HealthList(n)
  BY <1>1, <1>2, Kept DEF HealthList, IInv, StatusOK
<1>3. CASE Ping(n)
  <2>1. PICK ok \in BOOLEAN :
          LET count == IF ok THEN 0
                       ELSE IF fails[n] = OfflineThreshold THEN OfflineThreshold ELSE fails[n] + 1
          IN
          /\ fails' = [fails EXCEPT ![n] = count]
          /\ status' = [status EXCEPT ![n] =
               IF ok /\ seen[n] # "online" THEN "online"
               ELSE IF ~ok /\ count = OfflineThreshold /\ seen[n] # "offline" THEN "offline" ELSE @]
    BY <1>3 DEF Ping
  <2> DEFINE count == IF ok THEN 0
                      ELSE IF fails[n] = OfflineThreshold THEN OfflineThreshold ELSE fails[n] + 1
  <2>2. count \in 0 .. OfflineThreshold
    BY ControllerSyncAssumption DEF IInv, StatusOK
  <2>3. fails' \in [Nodes -> 0 .. OfflineThreshold]
    BY <2>1, <2>2 DEF IInv, StatusOK
  <2>4. status' \in [Nodes -> Statuses]
    BY <2>1 DEF IInv, StatusOK, Statuses
  <2>5. seen' \in [Nodes -> Statuses \cup {"none"}]
    BY <1>3 DEF Ping, IInv, StatusOK
  <2> QED
    BY <1>1, <2>3, <2>4, <2>5, Kept DEF IInv, StatusOK
<1> QED
  BY <1>2, <1>3

LEMMA CrashStep ==
  ASSUME IInv, NEW n \in Nodes, Crash(n)
  PROVE  IInv'
<1>1. restarts' = restarts + 1 /\ restarts \in 0 .. MaxRestarts /\ restarts < MaxRestarts
  BY DEF Crash, IInv, AgentOK
<1>2. Allowed \subseteq Allowed' /\ restarts' \in 0 .. MaxRestarts /\ restarts' # 0
  BY <1>1, ControllerSyncAssumption DEF Allowed, IInv, JobOK
<1>3. AgentOK'
  BY <1>1, <1>2 DEF Crash, IInv, AgentOK
<1>4. NodeOK'
  <2>1. Known(Allowed) \subseteq Known(Allowed') /\ Safe(Allowed) \subseteq Safe(Allowed')
    BY <1>2, Monotone
  <2>2. Empty \in Known(Allowed')
    BY TableTypes
  <2> QED
    BY <2>1, <2>2 DEF Crash, IInv, NodeOK
<1> QED
  BY <1>2, <1>3, <1>4, Kept DEF Crash, IInv

LEMMA StartStep ==
  ASSUME IInv, NEW n \in Nodes, Fetch(n) \/ Boot(n)
  PROVE  IInv'
<1>1. Allowed' = Allowed /\ UNCHANGED <<dvars, task, late, status, hvars, restarts>>
  BY DEF Fetch, Boot, Allowed, nvars, dvars
<1>2. agent[n] # "up" /\ restarts \in Nat /\ restarts # 0 /\ restarts \in 0 .. MaxRestarts
  BY ControllerSyncAssumption DEF Fetch, Boot, IInv, AgentOK
<1>3. Allowed = Ids
  BY <1>2 DEF Allowed
<1>4. Listed \in Tables
  BY DEF Listed, Tables, IInv, JobOK, Row
<1>5. \A T \in Tables : T \in Known(Allowed)
  BY <1>3 DEF Known, Has
<1>6. \A T, U \in Tables : \A S : Only(T, S) \in Tables /\ Over(T, U) \in Tables
  BY DEF Tables, Only, Over
<1>7. CASE Fetch(n)
  <2>1. \E T \in Tables : fetched' = [fetched EXCEPT ![n] = T]
    BY <1>4, <1>6, <1>7 DEF Fetch, IInv, AgentOK
  <2>2. AgentOK'
    BY <1>2, <1>7, <2>1 DEF Fetch, IInv, AgentOK
  <2> QED
    BY <1>1, <1>7, <2>2, Kept DEF Fetch, IInv, nvars
<1>8. CASE Boot(n)
  <2>1. Empty \in Tables
    BY DEF Empty, Tables
  <2>2. AgentOK'
    BY <1>2, <1>8, <2>1 DEF Boot, IInv, AgentOK
  <2>3. NodeOK'
    <3>1. CASE UNCHANGED table
      BY <1>1, <3>1 DEF IInv, NodeOK
    <3>2. CASE \E e \in Effects(Replace(fetched[n], Ids), table[n]) : table' = [table EXCEPT ![n] = e.table]
      <4>1. Replace(fetched[n], Ids) \in Safe(Allowed)
        BY <1>5, CallTypes DEF IInv, AgentOK
      <4>2. PICK e \in Effects(Replace(fetched[n], Ids), table[n]) : table' = [table EXCEPT ![n] = e.table]
        BY <3>2
      <4>3. e.table \in Known(Allowed)
        BY <4>1, EffectTypes DEF IInv, NodeOK
      <4> QED
        BY <1>1, <4>2, <4>3 DEF IInv, NodeOK
    <3> QED
      BY <1>8, <3>1, <3>2 DEF Boot
  <2> QED
    BY <1>1, <2>2, <2>3, Kept DEF IInv
<1> QED
  BY <1>7, <1>8

\* In every state the database, the jobs, the calls under way and the nodes carry only
\* rows that are allowed: the types of the model, and the argument of the next theorem.
THEOREM Invariance == Spec => []IInv
<1>1. Init => IInv
  <2> SUFFICES ASSUME Init PROVE IInv
    OBVIOUS
  <2>1. restarts = 0 /\ asked = {} /\ late = {} /\ Allowed = {}
    BY DEF Init, Allowed
  <2>2. JobOK
    <3>1. Idle \in Jobs(Allowed, Ids) /\ Idle.rows = NoRows
      BY IdleType DEF Idle
    <3>2. NoRows \in [{} -> Row] /\ {} \in SUBSET Ids
      BY DEF NoRows
    <3>3. NoRows \in Rows(Allowed)
      BY <3>2, RowsAre
    <3>4. Idle \in Jobs(Allowed, Allowed)
      BY <3>1, <3>3 DEF Jobs, JobRecords
    <3> QED
      BY <2>1, <3>4 DEF Init, JobOK, Fresh, Row
  <2>3. TaskOK
    BY TaskTypes DEF Init, TaskOK
  <2>4. NodeOK
    BY <2>1, TableTypes DEF Init, NodeOK
  <2>5. StatusOK
    BY ControllerSyncAssumption DEF Init, StatusOK, Statuses
  <2>6. AgentOK
    <3>1. Empty \in Tables
      BY DEF Empty, Tables
    <3> QED
      BY <3>1, ControllerSyncAssumption DEF Init, AgentOK
  <2> QED
    BY <2>2, <2>3, <2>4, <2>5, <2>6 DEF IInv
<1>2. IInv /\ [Next]_vars => IInv'
  <2> SUFFICES ASSUME IInv, [Next]_vars PROVE IInv'
    OBVIOUS
  <2>1. ASSUME NEW r \in Requests, Api(r) PROVE IInv'
    BY <2>1, CreateStep, InsertStep, UpdateStep, WriteStep, EraseStep, DeleteWlStep,
       BatchDeleteStep, ForceSyncStep DEF Api
  <2>2. ASSUME NEW w \in Workers, Pusher(w) PROVE IInv'
    BY <2>2, ListNodesStep, ReadRulesStep, ReadWhitelistStep, ReturnStep DEF Pusher
  <2>3. ASSUME NEW n \in Nodes, Node(n) PROVE IInv'
    BY <2>3, HealthStep, CrashStep, StartStep DEF Node
  <2>4. CASE UNCHANGED vars
    <3>1. UNCHANGED <<dvars, task, table, late, status, hvars, avars>> /\ Allowed' = Allowed
      BY <2>4 DEF vars, dvars, hvars, avars, Allowed
    <3> QED
      BY <3>1, Kept DEF IInv
  <2> QED
    BY <2>1, <2>2, <2>3, <2>4, TaskStep, CheckRoundStep, CleanRoundStep, CleanOneStep,
       DeliverStep DEF Next
<1> QED
  BY <1>1, <1>2, PTL DEF Spec

\* Until an agent restarts, a node holds only what some request has held as enabled,
\* whatever calls are lost or late and whichever jobs overlap: a rule stored with
\* enabled = false stays in the database (RuleService.Create, ListEnabled).
THEOREM OffUntilRestart == Spec => [](restarts = 0 => DisabledStaysOff)
<1>1. IInv => (restarts = 0 => DisabledStaysOff)
  BY DEF IInv, NodeOK, Allowed, Known, DisabledStaysOff
<1> QED
  BY <1>1, Invariance, PTL

\* In particular always, when agents do not restart: SyncOnStartup is the only way in
\* which a disabled rule gets to a node (controller_sync.go:79).
THEOREM DisabledOff ==
  ASSUME MaxRestarts = 0
  PROVE  Spec => []DisabledStaysOff
<1>1. IInv => DisabledStaysOff
  BY DEF IInv, AgentOK, NodeOK, Allowed, Known, DisabledStaysOff
<1> QED
  BY <1>1, Invariance, PTL

-----------------------------------------------------------------------------
(* While nothing goes wrong and no two jobs overlap *)

\* No call has failed, no agent has restarted, and no job has begun beside another.
Calm == alone /\ faults = 0 /\ restarts = 0

AtRest == \A n \in Nodes : table[n] = Enabled

\* What a call makes of a table that takes it all, and that a table does.
After(c, T) == IF c.kind = "del" THEN Only(T, Ids \ c.ids) ELSE Over(c.items, T)
Takes(c, T) == \/ c.kind = "del"
               \/ c.kind = "add" /\ c.ids = Has(c.items) /\ Fits(Has(c.items), T)

AllCalls(ps) == \A k \in 1 .. Len(ps) : ps[k].kind = "push"

\* The calls ps lead from the table T to the enabled rows: no push, a call, or a
\* deletion and the call that follows it.
Due(T, ps) ==
  \/ Len(ps) = 0 /\ T = Enabled
  \/ /\ Len(ps) = 1
     /\ Takes(ps[1].call, T) /\ After(ps[1].call, T) = Enabled
  \/ /\ Len(ps) = 2
     /\ Takes(ps[1].call, T) /\ Takes(ps[2].call, After(ps[1].call, T))
     /\ After(ps[2].call, After(ps[1].call, T)) = Enabled

\* Before its write a job has read what it changes, and the nodes are as they should.
Accepted(row) == row.state \in {"on", "off"} /\ row.val \in Vals
Changes(w) ==
  LET rows == job[w].rows IN
  /\ AtRest
  /\ job[w].op = "insert" => /\ \A i \in DOMAIN rows : db[i] = Fresh
                             /\ DistinctKeys({i \in Ids : Present(i)} \cup DOMAIN rows)
  /\ job[w].op \in {"insert", "write"} => \A i \in DOMAIN rows : Accepted(rows[i])
  /\ job[w].op \in {"write", "erase"} =>
       \A i \in DOMAIN rows : Present(i) /\ job[w].on = (db[i].state = "on")

\* After it, what is still to be pushed leads each node to the enabled rows.
Listing(w) ==
  LET ps == job[w].pushes IN
  \/ Len(ps) = 1 /\ ps[1].kind # "push" /\ (ps[1].kind = "check" => AtRest)
  \/ AllCalls(ps) /\ \A n \in Nodes : Due(table[n], ps)
Reading(w) ==
  /\ job[w].pushes = <<>>
  /\ job[w].now.kind = "check" => AtRest
  /\ \A n \in Nodes \ job[w].nodes : table[n] = Enabled
  /\ job[w].op = "whitelist" => Items(w) = Only(Enabled, RuleIds)
Calling(w, n) ==
  LET c == job[w].now.call IN
  \/ task[w][n] = Done /\ Due(table[n], job[w].pushes)
  \/ At(w, n, "call") /\ Takes(c, table[n]) /\ Due(After(c, table[n]), job[w].pushes)
Syncing(w, n) ==
  \/ table[n] = Enabled /\ (task[w][n] = Done \/ At(w, n, "count"))
  \/ At(w, n, "fullwl")
  \/ At(w, n, "atomic") /\ Only(table[n], WlIds) = Only(Enabled, WlIds)
Waiting(w) ==
  IF job[w].now.kind = "push"
  THEN AllCalls(job[w].pushes) /\ \A n \in Nodes : Calling(w, n)
  ELSE /\ job[w].pushes = <<>> /\ Items(w) = Enabled
       /\ \A n \in Nodes : Syncing(w, n)

\* The expired rows that are left are as the cleaner has read them.
AsRead(w) == LET rows == job[w].rows IN \A i \in DOMAIN rows : rows[i] = db[i] /\ Present(i)

Doing(w) ==
  LET op == job[w].op IN
  /\ op \in {"insert", "write", "erase"} => Changes(w)
  /\ op = "list" => Listing(w)
  /\ op \in {"rules", "whitelist"} => Reading(w)
  /\ op = "wait" => Waiting(w)
  /\ op = "clean" => AtRest
  /\ op \in {"list", "rules", "whitelist", "wait", "clean"} => AsRead(w)

Undisturbed == late = {} /\ \A n \in Nodes : status[n] # "offline"
RowsSound   == /\ DistinctKeys({i \in Ids : Present(i)})
               /\ \A i \in Ids : Present(i) => db[i].val \in Vals
OneJob      == \A v, w \in Workers : job[v] # Idle /\ job[w] # Idle => v = w
TasksDone   == \A w \in Workers : job[w].op # "wait" => \A n \in Nodes : task[w][n] = Done

CalmParts ==
  /\ Undisturbed /\ RowsSound /\ OneJob /\ TasksDone
  /\ \A w \in Workers : job[w] # Idle => Doing(w)
  /\ Quiet => AtRest

CalmInv == faults \in Nat /\ (Calm => CalmParts)

-----------------------------------------------------------------------------
(* Tables and calls, undisturbed *)

\* A call the table takes is carried out in full; only a deletion may be reported as
\* incomplete, and then it may be made again.
LEMMA CallDue ==
  ASSUME NEW T \in Tables, NEW c, c.items \in Tables, Takes(c, T), NEW e \in Effects(c, T)
  PROVE  /\ e.table = After(c, T) /\ (e.ok \/ c.kind = "del")
         /\ c.kind = "del" => Takes(c, After(c, T)) /\ After(c, After(c, T)) = After(c, T)
<1>1. CASE c.kind = "del"
  <2>1. e.table = After(c, T)
    BY <1>1 DEF Effects, After
  <2>2. After(c, After(c, T)) = After(c, T)
    BY <1>1 DEF After, Only
  <2> QED
    BY <1>1, <2>1, <2>2 DEF Takes
<1>2. CASE c.kind = "add" /\ c.ids = Has(c.items) /\ Fits(Has(c.items), T)
  <2>1. PICK S \in IF c.ids \subseteq WlIds THEN StoredWl(T, c.items) ELSE Stored(T, c.items) :
          e = [table |-> Over(Only(c.items, S), T), ok |-> S = c.ids]
    BY <1>2 DEF Effects
  <2>2. S = Has(c.items)
    <3>1. CASE S \in StoredWl(T, c.items)
      BY <1>2, <3>1 DEF StoredWl, Fits
    <3>2. CASE S \in Stored(T, c.items)
      <4>1. S \subseteq Has(c.items) /\ \A i \in Has(c.items) \ S : ~Fits(S \cup {i}, T)
        BY <3>2 DEF Stored
      <4>2. \A i \in Has(c.items) : S \cup {i} \subseteq Has(c.items)
        BY <4>1
      <4>3. \A U : U \subseteq Has(c.items) => Fits(U, T)
        BY <1>2 DEF Fits, DistinctKeys
      <4> QED
        BY <4>1, <4>2, <4>3
    <3> QED
      BY <2>1, <3>1, <3>2
  <2>3. Only(c.items, S) = c.items
    BY <2>2 DEF Only, Has, Tables
  <2> QED
    BY <1>2, <2>1, <2>2, <2>3 DEF After
<1> QED
  BY <1>1, <1>2 DEF Takes

\* A replacement by rows with different keys is carried out in full.
LEMMA ReplaceDue ==
  ASSUME NEW T \in Tables, NEW I \in Tables, NEW S, DistinctKeys(Has(I)),
         NEW e \in Effects(Replace(I, S), T)
  PROVE  e.ok /\ e.table = Over(Only(I, S), Only(T, Ids \ S))
<1>1. Has(Only(I, S)) \subseteq Has(I)
  BY DEF Has, Only
<1>2. DistinctKeys(Has(Only(I, S)))
  BY <1>1 DEF DistinctKeys
<1> QED
  BY <1>2 DEF Effects, Replace

LEMMA ScopesSplit ==
  ASSUME NEW T \in Tables, NEW I \in Tables
  PROVE  /\ Only(Over(Only(I, WlIds), Only(T, Ids \ WlIds)), WlIds) = Only(I, WlIds)
         /\ Only(T, WlIds) = Only(I, WlIds) =>
              Over(Only(I, RuleIds), Only(T, Ids \ RuleIds)) = I
         /\ Over(Only(I, RuleIds), Only(I, WlIds)) = I
<1>1. \A i \in Ids : (i \in RuleIds) # (i \in WlIds)
  BY NodeApiAssumption DEF Ids
<1>2. Only(Over(Only(I, WlIds), Only(T, Ids \ WlIds)), WlIds) = Only(I, WlIds)
  BY <1>1 DEF Only, Over, Tables
<1>3. ASSUME Only(T, WlIds) = Only(I, WlIds)
      PROVE  Over(Only(I, RuleIds), Only(T, Ids \ RuleIds)) = I
  <2>1. \A i \in Ids : Only(T, WlIds)[i] = Only(I, WlIds)[i]
    BY <1>3
  <2>2. \A i \in WlIds : T[i] = I[i]
    BY <2>1 DEF Only, Ids
  <2>3. \A i \in Ids : Over(Only(I, RuleIds), Only(T, Ids \ RuleIds))[i] = I[i]
    BY <1>1, <2>2 DEF Only, Over
  <2> QED
    BY <2>3 DEF Over, Tables
<1>4. Over(Only(I, RuleIds), Only(I, WlIds)) = I
  BY <1>1 DEF Only, Over, Tables
<1> QED
  BY <1>2, <1>3, <1>4

LEMMA EnabledTypes ==
  ASSUME IInv, RowsSound
  PROVE  /\ Enabled \in Tables /\ DistinctKeys(Has(Enabled))
         /\ \A i \in Ids : (Enabled[i] # None) = (db[i].state = "on")
         /\ \A n \in Nodes : table[n] \in Tables
<1>1. db \in [Ids -> Row] /\ \A n \in Nodes : table[n] \in Tables
  BY DEF IInv, JobOK, NodeOK, Known
<1>2. Enabled \in Tables
  BY <1>1 DEF Enabled, Tables, Row
<1>3. \A i \in Ids : (Enabled[i] # None) = (db[i].state = "on")
  BY NodeApiAssumption DEF Enabled, RowsSound, Present
<1>4. Has(Enabled) \subseteq {i \in Ids : Present(i)}
  BY <1>3 DEF Has, Present
<1>5. DistinctKeys(Has(Enabled))
  BY <1>4 DEF RowsSound, DistinctKeys
<1> QED
  BY <1>1, <1>2, <1>3, <1>5

-----------------------------------------------------------------------------
(* Jobs, undisturbed *)

\* The one job takes its next step, and all the others are idle.
LEMMA Settles ==
  ASSUME IInv, TasksDone, NEW w \in Workers, NEW j, SetJob(w, j),
         \A v \in Workers \ {w} : job[v] = Idle /\ task'[v] = task[v],
         j.op # "wait" => \A n \in Nodes : task'[w][n] = Done,
         Undisturbed', RowsSound', j # Idle => Doing(w)', j = Idle => AtRest'
  PROVE  CalmParts'
<1>1. /\ job' = [job EXCEPT ![w] = j] /\ job'[w] = j
      /\ \A v \in Workers \ {w} : job'[v] = Idle
  BY DEF SetJob, IInv, JobOK
<1>2. OneJob'
  BY <1>1 DEF OneJob
<1>3. TasksDone'
  <2> SUFFICES ASSUME NEW v \in Workers, job'[v].op # "wait", NEW n \in Nodes
               PROVE  task'[v][n] = Done
    BY DEF TasksDone
  <2>1. CASE v = w
    BY <1>1, <2>1
  <2>2. CASE v # w
    BY <2>2 DEF TasksDone, Idle
  <2> QED
    BY <2>1, <2>2
<1>4. \A v \in Workers : job'[v] # Idle => Doing(v)'
  <2>1. \A v \in Workers : job'[v] # Idle => v = w
    BY <1>1
  <2> QED
    BY <1>1, <2>1
<1>5. Quiet' => AtRest'
  BY <1>1 DEF Quiet
<1> QED
  BY <1>2, <1>3, <1>4, <1>5 DEF CalmParts

LEMMA BeginSettles ==
  ASSUME IInv, CalmParts, Calm', NEW w \in Workers, NEW j, Begin(w, j), j.op # "wait",
         UNCHANGED <<status, task, nvars>>
  PROVE  /\ Quiet /\ AtRest /\ RowsSound /\ job'[w] = j
         /\ RowsSound' /\ (j # Idle => Doing(w)') /\ (j = Idle => AtRest') => CalmParts'
<1>1. Quiet /\ SetJob(w, j)
  BY DEF Begin, Calm, Quiet
<1>2. AtRest /\ RowsSound /\ TasksDone /\ Undisturbed'
  BY <1>1 DEF CalmParts, Undisturbed, nvars
<1>3. \A v \in Workers \ {w} : job[v] = Idle /\ task'[v] = task[v]
  BY <1>1 DEF Quiet
<1>4. \A n \in Nodes : task'[w][n] = Done
  BY <1>1, <1>2 DEF TasksDone, Quiet, Idle
<1>5. job'[w] = j
  BY <1>1 DEF SetJob, IInv, JobOK
<1> QED
  BY <1>1, <1>2, <1>3, <1>4, <1>5, Settles

LEMMA StepSettles ==
  ASSUME IInv, CalmParts, NEW w \in Workers, NEW j, SetJob(w, j), j.op # "wait",
         job[w].op # "idle", job[w].op = "wait" => \A n \in Nodes : task[w][n] = Done,
         UNCHANGED <<status, task, nvars>>
  PROVE  /\ Doing(w) /\ RowsSound /\ job'[w] = j
         /\ RowsSound' /\ (j # Idle => Doing(w)') /\ (j = Idle => AtRest') => CalmParts'
<1>1. job[w] # Idle
  BY DEF Idle
<1>2. Doing(w) /\ RowsSound /\ TasksDone /\ Undisturbed'
  BY <1>1 DEF CalmParts, Undisturbed, nvars
<1>3. \A v \in Workers \ {w} : job[v] = Idle /\ task'[v] = task[v]
  BY <1>1 DEF CalmParts, OneJob
<1>4. \A n \in Nodes : task'[w][n] = Done
  BY <1>2 DEF TasksDone
<1>5. job'[w] = j
  BY DEF SetJob, IInv, JobOK
<1> QED
  BY <1>2, <1>3, <1>4, <1>5, Settles

LEMMA CallsOnly ==
  /\ AllCalls(<<>>)
  /\ \A c, d : AllCalls(<<Push(c)>>) /\ AllCalls(<<Push(c), Push(d)>>)
BY DEF AllCalls, Push

\* A job that has pushes to make, or rows left, or is done.
LEMMA PushingDoes ==
  ASSUME NEW w \in Workers, NEW ps, NEW rows, job'[w] = Pushing(ps, rows),
         \/ Len(ps) = 1 /\ ps[1].kind # "push" /\ (ps[1].kind = "check" => AtRest')
         \/ AllCalls(ps) /\ \A n \in Nodes : Due(table[n], ps)',
         \A i \in DOMAIN rows : rows[i] = db'[i] /\ Present(i)'
  PROVE  /\ Pushing(ps, rows).op # "wait"
         /\ Pushing(ps, rows) # Idle => Doing(w)'
         /\ Pushing(ps, rows) = Idle => AtRest'
<1> DEFINE j == Pushing(ps, rows)
<1>1. /\ j.rows = rows /\ j.pushes = ps
      /\ j.op = IF ps # <<>> THEN "list" ELSE IF rows # NoRows THEN "clean" ELSE "idle"
  BY DEF Pushing, Idle
<1>2. j.op \in {"list", "clean", "idle"}
  BY <1>1
<1>3. ps = <<>> => AtRest'
  BY DEF Due, AtRest
<1>4. AsRead(w)'
  BY <1>1 DEF AsRead
<1>5. j.op = "list" => Listing(w)'
  BY <1>1 DEF Listing
<1>6. j.op # "list" => AtRest'
  BY <1>1, <1>3
<1>7. j.op = "idle" => j = Idle
  BY DEF Pushing, Idle
<1>8. j = Idle => AtRest'
  <2>1. j = Idle => j.op # "list"
    BY DEF Idle
  <2> QED
    BY <1>6, <2>1
<1>9. j # Idle => Doing(w)'
  <2> SUFFICES ASSUME j # Idle PROVE Doing(w)'
    OBVIOUS
  <2>1. j.op \in {"list", "clean"} /\ job'[w].op = j.op
    BY <1>2, <1>7
  <2> HIDE DEF j
  <2> QED
    BY <1>4, <1>5, <1>6, <2>1 DEF Doing
<1> QED
  BY <1>2, <1>8, <1>9

-----------------------------------------------------------------------------
(* Requests and rounds begin *)

LEMMA CreateCalm ==
  ASSUME IInv, CalmParts, Calm', NEW r \in Requests, Create(r)
  PROVE  CalmParts'
<1>1. PICK S, rows :
        /\ S \in (SUBSET RuleIds) \cup {{i} : i \in WlIds}
        /\ Unused(S) /\ DistinctKeys(S) /\ \A i \in S : ~Taken(i)
        /\ rows \in [S -> [state : IF S \subseteq RuleIds THEN {"on", "off"} ELSE {"on"}, val : Vals]]
        /\ Request(r, [Idle EXCEPT !.op = "insert", !.rows = rows])
  BY DEF Create
<1>2. PICK j : j = [Idle EXCEPT !.op = "insert", !.rows = rows]
  OBVIOUS
<1>3. r \in Workers /\ Begin(r, j) /\ j.op = "insert" /\ j.rows = rows /\ S \subseteq Ids
  BY <1>1, <1>2 DEF Request, Workers, Idle, Ids
<1>4. UNCHANGED <<db, status, task, nvars, table>>
  BY DEF Create, nvars
<1>5. /\ AtRest /\ RowsSound /\ job'[r] = j
      /\ RowsSound' /\ (j # Idle => Doing(r)') /\ (j = Idle => AtRest') => CalmParts'
  BY <1>3, <1>4, BeginSettles
<1>6. RowsSound' /\ AtRest' /\ \A i \in Ids : Present(i)' = Present(i)
  BY <1>4, <1>5 DEF RowsSound, AtRest, Enabled, Present
<1>7. DistinctKeys({i \in Ids : Present(i)} \cup S)
  BY <1>1, <1>3, <1>5 DEF RowsSound, DistinctKeys, Taken
<1>8. DOMAIN rows = S /\ \A i \in S : Accepted(rows[i]) /\ db[i] = Fresh
  BY <1>1 DEF Accepted, Unused
<1>9. Changes(r)'
  <2>1. job'[r].op = "insert" /\ job'[r].rows = rows
    BY <1>3, <1>5
  <2>2. \A i \in DOMAIN rows : db'[i] = Fresh
    BY <1>4, <1>8
  <2>3. {i \in Ids : Present(i)}' = {i \in Ids : Present(i)}
    BY <1>6
  <2>4. DistinctKeys({i \in Ids : Present(i)} \cup DOMAIN rows)'
    BY <1>7, <1>8, <2>3 DEF DistinctKeys
  <2> QED
    BY <1>6, <1>8, <2>1, <2>2, <2>4 DEF Changes
<1>10. Doing(r)'
  BY <1>3, <1>5, <1>9 DEF Doing
<1> QED
  BY <1>3, <1>5, <1>6, <1>10 DEF Idle

LEMMA UpdateCalm ==
  ASSUME IInv, CalmParts, Calm', NEW r \in Requests, Update(r) \/ Delete(r)
  PROVE  CalmParts'
<1>1. \E i \in RuleIds, op \in {"write", "erase"} : \E row, on :
        /\ Present(i) /\ on = (db[i].state = "on") /\ (op = "write" => Accepted(row))
        /\ Request(r, [Idle EXCEPT !.op = op, !.on = on, !.rows = [k \in {i} |-> row]])
  <2>1. CASE Update(r)
    <3>1. PICK i \in RuleIds, state \in {"on", "off"}, v \in Vals :
            /\ Present(i)
            /\ Request(r, [Idle EXCEPT !.op = "write", !.on = (db[i].state = "on"),
                                       !.rows = [k \in {i} |-> [state |-> state, val |-> v]]])
      BY <2>1 DEF Update
    <3>2. Accepted([state |-> state, val |-> v])
      BY DEF Accepted
    <3> QED
      BY <3>1, <3>2
  <2>2. CASE Delete(r)
    <3>1. PICK i \in RuleIds :
            /\ Present(i)
            /\ Request(r, [Idle EXCEPT !.op = "erase", !.on = (db[i].state = "on"),
                                       !.rows = [k \in {i} |-> db[i]]])
      BY <2>2 DEF Delete
    <3> QED
      BY <3>1
  <2> QED
    BY <2>1, <2>2
<1>2. PICK i \in RuleIds, op \in {"write", "erase"} : \E row, on :
        /\ Present(i) /\ on = (db[i].state = "on") /\ (op = "write" => Accepted(row))
        /\ Request(r, [Idle EXCEPT !.op = op, !.on = on, !.rows = [k \in {i} |-> row]])
  BY <1>1
<1>3. PICK row, on :
        /\ Present(i) /\ on = (db[i].state = "on") /\ (op = "write" => Accepted(row))
        /\ Request(r, [Idle EXCEPT !.op = op, !.on = on, !.rows = [k \in {i} |-> row]])
  BY <1>2
<1>4. PICK j : j = [Idle EXCEPT !.op = op, !.on = on, !.rows = [k \in {i} |-> row]]
  OBVIOUS
<1>5. /\ r \in Workers /\ Begin(r, j) /\ j.op = op /\ j.on = on /\ j.rows = [k \in {i} |-> row]
      /\ i \in Ids
  BY <1>3, <1>4 DEF Request, Workers, Idle, Ids
<1>6. UNCHANGED <<db, status, task, nvars, table>>
  BY DEF Update, Delete, nvars
<1>7. /\ AtRest /\ RowsSound /\ job'[r] = j
      /\ RowsSound' /\ (j # Idle => Doing(r)') /\ (j = Idle => AtRest') => CalmParts'
  BY <1>5, <1>6, BeginSettles
<1>8. RowsSound' /\ AtRest' /\ \A k \in Ids : Present(k)' = Present(k)
  BY <1>6, <1>7 DEF RowsSound, AtRest, Enabled, Present
<1>9. Changes(r)'
  <2>1. job'[r].op = op /\ job'[r].on = on /\ DOMAIN job'[r].rows = {i} /\ job'[r].rows[i] = row
    BY <1>5, <1>7
  <2>2. Present(i)' /\ on = (db'[i].state = "on")
    BY <1>3, <1>5, <1>6, <1>8
  <2> QED
    BY <1>3, <1>8, <2>1, <2>2 DEF Changes
<1>10. Doing(r)'
  BY <1>5, <1>7, <1>9 DEF Doing
<1> QED
  BY <1>5, <1>7, <1>8, <1>10 DEF Idle

\* Deleting a row, and then pushing the deletion or, when it was not enabled, nothing.
LEMMA Removal ==
  ASSUME db \in [Ids -> Row], RowsSound, AtRest, NEW i \in Ids, db' = [db EXCEPT ![i] = Gone],
         UNCHANGED table
  PROVE  /\ RowsSound'
         /\ \A n \in Nodes : Due(table[n], <<Push(Del({i}))>>)'
         /\ db[i].state # "on" => \A n \in Nodes : Due(table[n], <<>>)'
<1>1. \A k \in Ids : Present(k)' => k # i /\ Present(k) /\ db'[k] = db[k]
  BY DEF Present, Gone
<1>2. RowsSound'
  BY <1>1 DEF RowsSound, DistinctKeys
<1>3. Enabled' = Only(Enabled, Ids \ {i})
  BY DEF Enabled, Only, Gone
<1>4. db[i].state # "on" => Enabled' = Enabled
  BY DEF Enabled, Gone
<1>5. \A n \in Nodes : table'[n] = Enabled
  BY DEF AtRest
<1>6. PICK c : c = Del({i})
  OBVIOUS
<1>7. /\ c.kind = "del" /\ c.ids = {i}
      /\ \A n \in Nodes : Takes(c, table'[n]) /\ After(c, table'[n]) = Enabled'
  BY <1>3, <1>5, <1>6 DEF Takes, After, Del
<1>8. PICK ps : ps = <<Push(c)>>
  OBVIOUS
<1>9. Len(ps) = 1 /\ ps[1].kind = "push" /\ ps[1].call = c
  BY <1>8 DEF Push
<1>10. \A n \in Nodes : Due(table[n], ps)'
  BY <1>7, <1>9 DEF Due
<1>11. db[i].state # "on" => \A n \in Nodes : Due(table[n], <<>>)'
  BY <1>4, <1>5 DEF Due
<1> QED
  BY <1>2, <1>6, <1>8, <1>10, <1>11

LEMMA DeleteWlCalm ==
  ASSUME IInv, CalmParts, Calm', NEW r \in Requests, DeleteWl(r)
  PROVE  CalmParts'
<1>1. PICK i \in WlIds : /\ db' = [db EXCEPT ![i] = Gone]
                         /\ Request(r, Pushing(<<Push(Del({i}))>>, NoRows))
                         /\ UNCHANGED <<status, task, nvars>>
  BY DEF DeleteWl
<1>2. PICK ps, j : ps = <<Push(Del({i}))>> /\ j = Pushing(ps, NoRows)
  OBVIOUS
<1>3. /\ r \in Workers /\ Begin(r, j) /\ i \in Ids /\ UNCHANGED <<status, task, nvars, table>>
      /\ Len(ps) = 1
  BY <1>1, <1>2 DEF Request, Workers, Ids, nvars
<1>4. j.op # "wait"
  BY <1>2 DEF Pushing, Idle
<1>5. /\ AtRest /\ RowsSound /\ job'[r] = j
      /\ RowsSound' /\ (j # Idle => Doing(r)') /\ (j = Idle => AtRest') => CalmParts'
  BY <1>3, <1>4, BeginSettles
<1>6. RowsSound' /\ \A n \in Nodes : Due(table[n], ps)'
  BY <1>1, <1>2, <1>3, <1>5, Removal DEF IInv, JobOK
<1>7. \A k \in DOMAIN NoRows : NoRows[k] = db'[k] /\ Present(k)'
  BY DEF NoRows
<1>8. (j # Idle => Doing(r)') /\ (j = Idle => AtRest')
  BY <1>2, <1>3, <1>5, <1>6, <1>7, CallsOnly, PushingDoes
<1> QED
  BY <1>5, <1>6, <1>8

\* A batch delete and a check begin with a sync in mind.
LEMMA SyncCalm ==
  ASSUME IInv, CalmParts, Calm', NEW w \in Workers, NEW p \in {Full, Check},
         Begin(w, Pushing(<<p>>, NoRows)), p = Check => UNCHANGED db,
         NEW S, db' = [i \in Ids |-> IF i \in S THEN Gone ELSE db[i]],
         UNCHANGED <<status, task, nvars>>
  PROVE  CalmParts'
<1>1. PICK ps, j : ps = <<p>> /\ j = Pushing(ps, NoRows)
  OBVIOUS
<1>2. Len(ps) = 1 /\ ps[1] = p /\ p.kind # "push" /\ (p.kind = "check" => p = Check)
  BY <1>1 DEF Full, Check
<1>3. j.op # "wait" /\ Begin(w, j)
  BY <1>1 DEF Pushing, Idle
<1>4. /\ AtRest /\ RowsSound /\ job'[w] = j
      /\ RowsSound' /\ (j # Idle => Doing(w)') /\ (j = Idle => AtRest') => CalmParts'
  BY <1>3, BeginSettles
<1>5. RowsSound'
  <2>1. \A k \in Ids : Present(k)' => Present(k) /\ db'[k] = db[k]
    BY DEF Present, Gone
  <2> QED
    BY <1>4, <2>1 DEF RowsSound, DistinctKeys
<1>6. p = Check => AtRest'
  BY <1>4 DEF AtRest, Enabled, nvars
<1>7. \A k \in DOMAIN NoRows : NoRows[k] = db'[k] /\ Present(k)'
  BY DEF NoRows
<1>8. (j # Idle => Doing(w)') /\ (j = Idle => AtRest')
  BY <1>1, <1>2, <1>4, <1>6, <1>7, PushingDoes
<1> QED
  BY <1>4, <1>5, <1>8

LEMMA BatchDeleteCalm ==
  ASSUME IInv, CalmParts, Calm', NEW r \in Requests, BatchDelete(r)
  PROVE  CalmParts'
<1>1. PICK S : /\ db' = [i \in Ids |-> IF i \in S THEN Gone ELSE db[i]]
               /\ Request(r, Pushing(<<Full>>, NoRows))
               /\ UNCHANGED <<status, task, nvars>>
  BY DEF BatchDelete
<1>2. Full # Check
  BY DEF Full, Check
<1> QED
  BY <1>1, <1>2, SyncCalm DEF Request, Workers

LEMMA CheckRoundCalm ==
  ASSUME IInv, CalmParts, Calm', CheckRound
  PROVE  CalmParts'
<1>1. /\ "checker" \in Workers /\ Begin("checker", Pushing(<<Check>>, NoRows))
      /\ UNCHANGED <<db, status, task, nvars>>
  BY DEF CheckRound, Workers
<1>2. PICK S : S = {}
  OBVIOUS
<1>3. db' = [i \in Ids |-> IF i \in S THEN Gone ELSE db[i]]
  BY <1>1, <1>2 DEF IInv, JobOK
<1>4. Check \in {Full, Check} /\ (Check = Check => UNCHANGED db) /\ UNCHANGED <<status, task, nvars>>
  BY <1>1
<1> QED
  BY <1>1, <1>3, <1>4, SyncCalm

LEMMA ForceSyncCalm ==
  ASSUME IInv, CalmParts, Calm', NEW r \in Requests, ForceSync(r)
  PROVE  CalmParts'
<1>1. PICK n \in Nodes : Request(r, [Idle EXCEPT !.op = "rules", !.nodes = {n}])
  BY DEF ForceSync
<1>2. PICK j : j = [Idle EXCEPT !.op = "rules", !.nodes = {n}]
  OBVIOUS
<1>3. /\ r \in Workers /\ Begin(r, j) /\ UNCHANGED <<db, status, task, nvars, table>>
      /\ j.op = "rules" /\ j.nodes = {n} /\ j.pushes = <<>> /\ j.now = Full /\ j.rows = NoRows
  BY <1>1, <1>2 DEF Request, Workers, ForceSync, Idle, nvars
<1>4. /\ AtRest /\ RowsSound /\ job'[r] = j
      /\ RowsSound' /\ (j # Idle => Doing(r)') /\ (j = Idle => AtRest') => CalmParts'
  BY <1>3, BeginSettles
<1>5. RowsSound' /\ AtRest'
  BY <1>3, <1>4 DEF RowsSound, AtRest, Enabled, Present
<1>6. Reading(r)' /\ AsRead(r)'
  <2>1. Reading(r)'
    BY <1>3, <1>4, <1>5 DEF Reading, AtRest, Full
  <2>2. AsRead(r)'
    BY <1>3, <1>4 DEF AsRead, NoRows
  <2> QED
    BY <2>1, <2>2
<1>7. Doing(r)' /\ j # Idle
  BY <1>3, <1>4, <1>6 DEF Doing, Idle
<1> QED
  BY <1>4, <1>5, <1>7

LEMMA CleanRoundCalm ==
  ASSUME IInv, CalmParts, Calm', CleanRound
  PROVE  CalmParts'
<1>1. PICK S \in SUBSET {i \in Expiring : Present(i)} :
        Begin("cleaner", Pushing(<<>>, [i \in S |-> db[i]]))
  BY DEF CleanRound
<1>2. PICK rows, j : rows = [i \in S |-> db[i]] /\ j = Pushing(<<>>, rows)
  OBVIOUS
<1>3. /\ "cleaner" \in Workers /\ Begin("cleaner", j)
      /\ UNCHANGED <<db, status, task, nvars, table>>
  BY <1>1, <1>2 DEF CleanRound, Workers, nvars
<1>4. j.op # "wait"
  BY <1>2 DEF Pushing, Idle
<1>5. /\ AtRest /\ RowsSound /\ job'["cleaner"] = j
      /\ RowsSound' /\ (j # Idle => Doing("cleaner")') /\ (j = Idle => AtRest') => CalmParts'
  BY <1>3, <1>4, BeginSettles
<1>6. RowsSound' /\ AtRest'
  BY <1>3, <1>5 DEF RowsSound, AtRest, Enabled, Present
<1>7. \A i \in DOMAIN rows : rows[i] = db'[i] /\ Present(i)'
  BY <1>2, <1>3 DEF Present
<1>8. \A n \in Nodes : Due(table[n], <<>>)'
  BY <1>6 DEF Due, AtRest
<1>9. (j # Idle => Doing("cleaner")') /\ (j = Idle => AtRest')
  BY <1>2, <1>3, <1>5, <1>7, <1>8, CallsOnly, PushingDoes
<1> QED
  BY <1>5, <1>6, <1>9

-----------------------------------------------------------------------------
(* Requests write *)

\* After a write: what is to be pushed leads from the rows as they were to the rows now.
LEMMA WriteSettles ==
  ASSUME IInv, CalmParts, NEW w \in Workers, NEW ps, NEW rows, SetJob(w, Pushing(ps, rows)),
         job[w].op \in {"insert", "write", "erase", "clean"}, AllCalls(ps),
         UNCHANGED <<status, task, nvars>>,
         RowsSound', \A n \in Nodes : Due(table[n], ps)',
         \A i \in DOMAIN rows : rows[i] = db'[i] /\ Present(i)'
  PROVE  CalmParts'
<1>1. PICK j : j = Pushing(ps, rows)
  OBVIOUS
<1>2. j.op # "wait"
  BY <1>1 DEF Pushing, Idle
<1>3. /\ job'[w] = j
      /\ RowsSound' /\ (j # Idle => Doing(w)') /\ (j = Idle => AtRest') => CalmParts'
  BY <1>1, <1>2, StepSettles
<1>4. (j # Idle => Doing(w)') /\ (j = Idle => AtRest')
  BY <1>1, <1>3, PushingDoes
<1> QED
  BY <1>3, <1>4

\* What a job before its write knows.
LEMMA AboutToWrite ==
  ASSUME IInv, CalmParts, NEW w \in Workers, job[w].op \in {"insert", "write", "erase", "clean"}
  PROVE  Doing(w) /\ RowsSound /\ AtRest
<1>1. job[w] # Idle
  BY DEF Idle
<1>2. Doing(w) /\ RowsSound
  BY <1>1 DEF CalmParts
<1>3. AtRest
  BY <1>2 DEF Doing, Changes
<1> QED
  BY <1>2, <1>3

LEMMA NoRowsLeft == \A i \in DOMAIN NoRows : NoRows[i] = db'[i] /\ Present(i)'
BY DEF NoRows

\* New rows: what is enabled of them is added to nodes that have none of it, nor its keys.
LEMMA InsertCalm ==
  ASSUME IInv, CalmParts, NEW r \in Requests, Insert(r)
  PROVE  CalmParts'
<1> DEFINE rows  == job[r].rows
           items == [i \in Ids |-> IF i \in DOMAIN rows /\ rows[i].state = "on" THEN rows[i].val ELSE None]
<1>1. r \in Workers /\ job[r].op = "insert" /\ UNCHANGED <<status, task, nvars, table>>
  BY DEF Workers, Insert, nvars
<1>2. /\ RowsSound /\ AtRest
      /\ \A i \in DOMAIN rows : db[i] = Fresh /\ Accepted(rows[i])
      /\ DistinctKeys({i \in Ids : Present(i)} \cup DOMAIN rows)
  <2>1. Doing(r) /\ RowsSound
    BY <1>1, AboutToWrite
  <2>2. Changes(r)
    BY <1>1, <2>1 DEF Doing
  <2> QED
    BY <1>1, <2>1, <2>2 DEF Changes
<1>3. DOMAIN rows \subseteq Ids /\ rows \in [DOMAIN rows -> Row]
  BY <1>1, JobHolds
<1>4. CASE SetJob(r, Idle) /\ UNCHANGED db
  <2>1. Idle.op # "wait" /\ job[r].op # "idle" /\ job[r].op # "wait"
    BY <1>1 DEF Idle
  <2>2. RowsSound' /\ (Idle # Idle => Doing(r)') /\ (Idle = Idle => AtRest') => CalmParts'
    BY <1>1, <1>4, <2>1, StepSettles
  <2>3. RowsSound' /\ AtRest'
    BY <1>1, <1>2, <1>4 DEF RowsSound, AtRest, Enabled, Present
  <2> QED
    BY <2>2, <2>3
<1>5. CASE /\ db' = [i \in Ids |-> IF i \in DOMAIN rows THEN rows[i] ELSE db[i]]
           /\ SetJob(r, Pushing(IF items = Empty THEN <<>> ELSE <<Push(Add(items))>>, NoRows))
  <2>1. /\ \A i \in Ids : Present(i)' = (Present(i) \/ i \in DOMAIN rows)
        /\ \A i \in DOMAIN rows : db'[i] = rows[i]
        /\ \A i \in Ids \ DOMAIN rows : db'[i] = db[i]
    BY <1>2, <1>3, <1>5 DEF Present, Fresh, Accepted
  <2>2. RowsSound'
    <3>1. {i \in Ids : Present(i)}' = {i \in Ids : Present(i)} \cup DOMAIN rows
      BY <1>3, <2>1
    <3>2. DistinctKeys({i \in Ids : Present(i)})'
      BY <1>2, <3>1 DEF DistinctKeys
    <3>3. \A i \in Ids : Present(i)' => db'[i].val \in Vals
      BY <1>2, <2>1 DEF RowsSound, Accepted
    <3> QED
      BY <3>2, <3>3 DEF RowsSound
  <2>3. Enabled' = Over(items, Enabled)
    <3>1. \A i \in Ids : i \in DOMAIN rows => Enabled[i] = None /\ rows[i].val # None
      BY <1>2, NodeApiAssumption DEF Enabled, Fresh, Accepted
    <3> QED
      BY <2>1, <3>1 DEF Enabled, Over
  <2>4. /\ items \in Tables /\ Has(items) \subseteq DOMAIN rows
        /\ Enabled \in Tables /\ Has(Enabled) \subseteq {i \in Ids : Present(i)}
        /\ Has(Enabled) \cap DOMAIN rows = {}
    <3>1. items \in Tables /\ Has(items) \subseteq DOMAIN rows
      BY <1>3 DEF Has, Tables, Row
    <3>2. Enabled \in Tables /\ Has(Enabled) \subseteq {i \in Ids : Present(i)}
      BY <1>2, EnabledTypes DEF Has, Present
    <3>3. Has(Enabled) \cap DOMAIN rows = {}
      BY <1>2, <3>2 DEF Present, Fresh
    <3> QED
      BY <3>1, <3>2, <3>3
  <2>5. Fits(Has(items), Enabled)
    BY <1>2, <2>4 DEF Fits, DistinctKeys
  <2>6. PICK I : I = items
    OBVIOUS
  <2>7. PICK c, ps : c = Add(I) /\ ps = IF I = Empty THEN <<>> ELSE <<Push(c)>>
    OBVIOUS
  <2>8. \A n \in Nodes : table'[n] = Enabled
    BY <1>1, <1>2 DEF AtRest
  <2> HIDE DEF items
  <2>9. \A n \in Nodes : Due(table[n], ps)'
    <3>1. CASE I = Empty
      <4>1. Enabled' = Enabled
        BY <2>3, <2>4, <2>6, <3>1 DEF Over, Empty, Tables
      <4> QED
        BY <2>7, <2>8, <3>1, <4>1 DEF Due
    <3>2. CASE I # Empty
      <4>1. /\ Len(ps) = 1 /\ ps[1].kind = "push" /\ ps[1].call = c
            /\ c.kind = "add" /\ c.items = I /\ c.ids = Has(I)
        BY <2>7, <3>2 DEF Push, Add
      <4>2. \A n \in Nodes : Takes(c, table'[n]) /\ After(c, table'[n]) = Enabled'
        BY <2>3, <2>5, <2>6, <2>8, <4>1 DEF Takes, After
      <4> QED
        BY <4>1, <4>2 DEF Due
    <3> QED
      BY <3>1, <3>2
  <2>10. SetJob(r, Pushing(ps, NoRows)) /\ AllCalls(ps)
    BY <1>5, <2>6, <2>7, CallsOnly
  <2> QED
    BY <1>1, <2>2, <2>9, <2>10, NoRowsLeft, WriteSettles
<1> QED
  BY <1>4, <1>5 DEF Insert

\* The four transitions of an update.
LEMMA WriteCalm ==
  ASSUME IInv, CalmParts, NEW r \in Requests, Write(r)
  PROVE  CalmParts'
<1>1. r \in Workers /\ job[r].op = "write" /\ UNCHANGED <<status, task, nvars, table>>
  BY DEF Workers, Write, nvars
<1>2. PICK i \in DOMAIN job[r].rows :
        /\ db' = IF Present(i) THEN [db EXCEPT ![i] = job[r].rows[i]] ELSE db
        /\ SetJob(r, Pushing(Transition(i, job[r].on, job[r].rows[i]), NoRows))
  BY DEF Write
<1>3. PICK row : row = job[r].rows[i]
  OBVIOUS
<1>4. RowsSound /\ AtRest /\ Present(i) /\ job[r].on = (db[i].state = "on") /\ Accepted(row)
  <2>1. Doing(r) /\ RowsSound
    BY <1>1, AboutToWrite
  <2>2. Changes(r)
    BY <1>1, <2>1 DEF Doing
  <2> QED
    BY <1>1, <1>3, <2>1, <2>2 DEF Changes
<1>5. i \in Ids /\ db \in [Ids -> Row]
  BY <1>1, JobHolds DEF IInv, JobOK
<1>6. db' = [db EXCEPT ![i] = row] /\ \A k \in Ids : Present(k)' = Present(k)
  BY <1>2, <1>3, <1>4, <1>5 DEF Present, Accepted
<1>7. RowsSound'
  BY <1>4, <1>5, <1>6 DEF RowsSound, DistinctKeys, Accepted
<1>8. PICK I, add, del : /\ I = [j \in Ids |-> IF j = i THEN row.val ELSE None]
                         /\ add = Add(I) /\ del = Del({i})
  OBVIOUS
<1>9. /\ add.kind = "add" /\ add.items = I /\ add.ids = Has(I) /\ Has(I) = {i}
      /\ del.kind = "del" /\ del.ids = {i}
  BY <1>4, <1>5, <1>8, NodeApiAssumption DEF Add, Del, Has, Accepted
<1>10. PICK was, ps : was = job[r].on /\ ps = Transition(i, was, row)
  OBVIOUS
<1>11. \A n \in Nodes : table'[n] = Enabled
  BY <1>1, <1>4 DEF AtRest
<1>12. PICK less : less = Only(Enabled, Ids \ {i})
  OBVIOUS
<1>13. /\ ~was => less = Enabled
       /\ Enabled' = IF row.state = "on" THEN Over(I, less) ELSE less
  <2>1. ~was => less = Enabled
    BY <1>4, <1>10, <1>12 DEF Enabled, Only
  <2>2. \A k \in Ids : Enabled'[k] = IF k # i THEN Enabled[k]
                                     ELSE IF row.state = "on" THEN row.val ELSE None
    BY <1>5, <1>6 DEF Enabled
  <2>3. \A k \in Ids : less[k] = IF k # i THEN Enabled[k] ELSE None
    BY <1>12 DEF Only
  <2>4. Enabled' \in [Ids -> {Enabled'[k] : k \in Ids}] /\ less \in [Ids -> {less[k] : k \in Ids}]
    BY <1>12 DEF Enabled, Only
  <2>5. CASE row.state = "on"
    <3>1. row.val # None
      BY <1>4, NodeApiAssumption DEF Accepted
    <3>2. Over(I, less) = [k \in Ids |-> IF k = i THEN row.val ELSE less[k]]
      BY <1>8, <3>1 DEF Over
    <3> QED
      BY <2>1, <2>2, <2>3, <2>4, <2>5, <3>2
  <2>6. CASE row.state # "on"
    BY <2>1, <2>2, <2>3, <2>4, <2>6
  <2> QED
    BY <2>5, <2>6
<1>14. Fits({i}, less)
  <2>1. Has(less) \subseteq Has(Enabled) /\ i \notin Has(less)
    BY <1>12 DEF Has, Only
  <2>2. Has(Enabled) \subseteq {k \in Ids : Present(k)}
    BY <1>4, EnabledTypes DEF Has, Present
  <2>3. Has(less) \cup {i} \subseteq {k \in Ids : Present(k)}
    BY <1>4, <1>5, <2>1, <2>2
  <2> QED
    BY <1>4, <2>1, <2>3 DEF Fits, RowsSound, DistinctKeys
<1>15. /\ \A T : Takes(del, T) /\ After(del, T) = Only(T, Ids \ {i})
       /\ \A T : Fits({i}, T) => Takes(add, T)
       /\ \A T : After(add, T) = Over(I, T)
  BY <1>9 DEF Takes, After
<1>16. /\ \A n \in Nodes : Due(table[n], ps)'
       /\ AllCalls(ps)
  <2>1. CASE row.state = "on" /\ was
    <3>1. ps = <<Push(del), Push(add)>>
      BY <1>8, <1>10, <2>1 DEF Transition
    <3>2. /\ Len(ps) = 2 /\ ps[1].kind = "push" /\ ps[1].call = del
          /\ ps[2].kind = "push" /\ ps[2].call = add
      BY <3>1 DEF Push
    <3> QED
      BY <1>11, <1>12, <1>13, <1>14, <1>15, <2>1, <3>1, <3>2, CallsOnly DEF Due
  <2>2. CASE row.state = "on" /\ ~was
    <3>1. ps = <<Push(add)>>
      BY <1>8, <1>10, <2>2 DEF Transition
    <3>2. Len(ps) = 1 /\ ps[1].kind = "push" /\ ps[1].call = add
      BY <3>1 DEF Push
    <3> QED
      BY <1>11, <1>13, <1>14, <1>15, <2>2, <3>1, <3>2, CallsOnly DEF Due
  <2>3. CASE row.state # "on" /\ was
    <3>1. ps = <<Push(del)>>
      BY <1>8, <1>10, <2>3 DEF Transition
    <3>2. Len(ps) = 1 /\ ps[1].kind = "push" /\ ps[1].call = del
      BY <3>1 DEF Push
    <3> QED
      BY <1>11, <1>12, <1>13, <1>15, <2>3, <3>1, <3>2, CallsOnly DEF Due
  <2>4. CASE row.state # "on" /\ ~was
    <3>1. ps = <<>>
      BY <1>10, <2>4 DEF Transition
    <3> QED
      BY <1>11, <1>13, <2>4, <3>1, CallsOnly DEF Due
  <2>5. was \in BOOLEAN
    BY <1>4, <1>10
  <2> QED
    BY <2>1, <2>2, <2>3, <2>4, <2>5
<1>17. SetJob(r, Pushing(ps, NoRows))
  BY <1>2, <1>3, <1>10
<1> QED
  BY <1>1, <1>7, <1>16, <1>17, NoRowsLeft, WriteSettles

LEMMA EraseCalm ==
  ASSUME IInv, CalmParts, NEW r \in Requests, Erase(r)
  PROVE  CalmParts'
<1>1. r \in Workers /\ job[r].op = "erase" /\ UNCHANGED <<status, task, nvars, table>>
  BY DEF Workers, Erase, nvars
<1>2. PICK i \in DOMAIN job[r].rows :
        /\ db' = [db EXCEPT ![i] = Gone]
        /\ SetJob(r, Pushing(IF Present(i) /\ job[r].on THEN <<Push(Del({i}))>> ELSE <<>>, NoRows))
  BY DEF Erase
<1>3. RowsSound /\ AtRest /\ Present(i) /\ job[r].on = (db[i].state = "on")
  <2>1. Doing(r) /\ RowsSound
    BY <1>1, AboutToWrite
  <2>2. Changes(r)
    BY <1>1, <2>1 DEF Doing
  <2> QED
    BY <1>1, <2>1, <2>2 DEF Changes
<1>4. i \in Ids /\ db \in [Ids -> Row]
  BY <1>1, JobHolds DEF IInv, JobOK
<1>5. PICK ps : ps = IF db[i].state = "on" THEN <<Push(Del({i}))>> ELSE <<>>
  OBVIOUS
<1>6. RowsSound' /\ \A n \in Nodes : Due(table[n], ps)'
  BY <1>1, <1>2, <1>3, <1>4, <1>5, Removal
<1>7. SetJob(r, Pushing(ps, NoRows)) /\ AllCalls(ps)
  BY <1>2, <1>3, <1>5, CallsOnly
<1> QED
  BY <1>1, <1>6, <1>7, NoRowsLeft, WriteSettles

LEMMA CleanOneCalm ==
  ASSUME IInv, CalmParts, CleanOne
  PROVE  CalmParts'
<1> DEFINE old == job["cleaner"].rows
<1>1. /\ "cleaner" \in Workers /\ job["cleaner"].op = "clean"
      /\ UNCHANGED <<status, task, nvars, table>>
  BY DEF Workers, CleanOne, nvars
<1>2. PICK i \in DOMAIN old :
        /\ db' = [db EXCEPT ![i] = Gone]
        /\ SetJob("cleaner", Pushing(IF old[i].state = "on" THEN <<Push(Del({i}))>> ELSE <<>>,
                                     [j \in DOMAIN old \ {i} |-> old[j]]))
  BY DEF CleanOne
<1>3. RowsSound /\ AtRest /\ \A k \in DOMAIN old : old[k] = db[k] /\ Present(k)
  <2>1. Doing("cleaner") /\ RowsSound /\ AtRest
    BY <1>1, AboutToWrite
  <2> QED
    BY <1>1, <2>1 DEF Doing, AsRead
<1>4. DOMAIN old \subseteq Ids /\ db \in [Ids -> Row]
  BY <1>1, JobHolds DEF IInv, JobOK
<1>5. PICK ps, rest : /\ ps = IF db[i].state = "on" THEN <<Push(Del({i}))>> ELSE <<>>
                      /\ rest = [j \in DOMAIN old \ {i} |-> old[j]]
  OBVIOUS
<1>6. RowsSound' /\ \A n \in Nodes : Due(table[n], ps)'
  BY <1>1, <1>2, <1>3, <1>4, <1>5, Removal
<1>7. SetJob("cleaner", Pushing(ps, rest)) /\ AllCalls(ps)
  BY <1>2, <1>3, <1>5, CallsOnly
<1>8. \A k \in DOMAIN rest : rest[k] = db'[k] /\ Present(k)'
  BY <1>2, <1>3, <1>4, <1>5 DEF Present
<1> QED
  BY <1>1, <1>6, <1>7, <1>8, WriteSettles

-----------------------------------------------------------------------------
(* Pushes begin and end *)

\* No node is offline, so every node is in.
LEMMA ListNodesCalm ==
  ASSUME IInv, CalmParts, NEW w \in Workers, ListNodes(w)
  PROVE  CalmParts'
<1>1. /\ job[w].op = "list" /\ job[w] # Idle /\ UNCHANGED <<db, nvars, table, late>>
      /\ {n \in Nodes : status[n] # "offline"} = Nodes
  BY DEF ListNodes, Idle, nvars, CalmParts, Undisturbed
<1>2. RowsSound /\ TasksDone /\ Undisturbed /\ Listing(w) /\ AsRead(w)
  BY <1>1 DEF CalmParts, Doing
<1>3. PICK ps, p, rest : ps = job[w].pushes /\ p = Head(ps) /\ rest = Tail(ps)
  OBVIOUS
<1>4. /\ ps \in Seq(Pushes(Allowed)) /\ ps # <<>> /\ job[w] \in JobRecords(Allowed, Allowed)
  BY <1>1, <1>3 DEF IInv, JobOK, Jobs, JobRecords
<1>5. p = ps[1] /\ Len(rest) = Len(ps) - 1 /\ (Len(rest) = 1 => rest[1] = ps[2])
  BY <1>3, <1>4
<1>6. Len(rest) = 0 => rest = <<>>
  BY <1>3, <1>4
<1>7. RowsSound' /\ Enabled' = Enabled /\ \A i \in Ids : Present(i)' = Present(i)
  BY <1>1, <1>2 DEF RowsSound, Present, Enabled
<1>8. \A v \in Workers \ {w} : job[v] = Idle
  BY <1>1 DEF CalmParts, OneJob
<1>9. DOMAIN job[w].rows \subseteq Ids
  BY JobHolds
<1>10. CASE p.kind = "push"
  <2>1. Launch(w, p, Nodes)
    BY <1>1, <1>3, <1>10 DEF ListNodes
  <2>2. PICK j : j = [job[w] EXCEPT !.op = "wait", !.now = p, !.nodes = {}, !.pushes = rest]
    OBVIOUS
  <2>3. SetJob(w, j)
    BY <1>3, <1>10, <2>1, <2>2 DEF Launch
  <2>4. j.op = "wait" /\ j.now = p /\ j.pushes = rest /\ j.rows = job[w].rows
    BY <1>4, <2>2 DEF JobRecords
  <2>5. job'[w] = j
    BY <2>3 DEF SetJob, IInv, JobOK
  <2>6. First("push") = [Done EXCEPT !.pc = "call"] /\ First("push").pc = "call"
    BY DEF First, Done
  <2>7. /\ \A v \in Workers \ {w} : task'[v] = task[v]
        /\ \A n \in Nodes : task'[w][n] = First("push")
    BY <1>10, <2>1 DEF Launch, IInv, TaskOK
  <2>8. Undisturbed'
    BY <1>1, <1>2, <1>10, <2>1, <2>6 DEF Launch, Mark, Undisturbed
  <2>9. AllCalls(ps) /\ AllCalls(rest)
    <3>1. Len(ps) \in Nat \ {0}
      BY <1>4
    <3>2. AllCalls(ps)
      BY <1>2, <1>3, <1>5, <1>10 DEF Listing
    <3>3. \A k \in 1 .. Len(rest) : rest[k] = ps[k + 1] /\ k + 1 \in 1 .. Len(ps)
      BY <1>3, <1>4, <1>5, <3>1
    <3> QED
      BY <3>2, <3>3 DEF AllCalls
  <2>10. \A n \in Nodes : Takes(p.call, table[n]) /\ Due(After(p.call, table[n]), rest)
    <3> SUFFICES ASSUME NEW n \in Nodes
                 PROVE  Takes(p.call, table[n]) /\ Due(After(p.call, table[n]), rest)
      OBVIOUS
    <3>1. Due(table[n], ps)
      BY <1>2, <1>3, <1>5, <1>10 DEF Listing
    <3>2. Len(ps) # 0 /\ Len(ps) \in Nat
      BY <1>4
    <3> QED
      BY <1>5, <3>1, <3>2 DEF Due
  <2>11. Waiting(w)'
    <3>1. \A n \in Nodes : Takes(p.call, table'[n]) /\ Due(After(p.call, table[n]), rest)'
      BY <1>1, <1>7, <2>10 DEF Due
    <3>2. \A n \in Nodes : At(w, n, "call")'
      BY <2>6, <2>7 DEF At
    <3>3. \A n \in Nodes : Calling(w, n)'
      BY <2>4, <2>5, <3>1, <3>2 DEF Calling
    <3> QED
      BY <1>10, <2>4, <2>5, <2>9, <3>3 DEF Waiting
  <2>12. AsRead(w)'
    BY <1>1, <1>2, <1>7, <1>9, <2>4, <2>5 DEF AsRead
  <2>13. Doing(w)' /\ j # Idle
    BY <2>4, <2>5, <2>11, <2>12 DEF Doing, Idle
  <2> QED
    BY <1>2, <1>7, <1>8, <2>3, <2>4, <2>7, <2>8, <2>13, Settles
<1>11. CASE p.kind # "push"
  <2>1. PICK j : j = [job[w] EXCEPT !.op = "rules", !.nodes = Nodes, !.now = p, !.pushes = rest]
    OBVIOUS
  <2>2. SetJob(w, j) /\ UNCHANGED <<status, task>>
    BY <1>1, <1>3, <1>11, <2>1 DEF ListNodes
  <2>3. j.op = "rules" /\ j.nodes = Nodes /\ j.now = p /\ j.pushes = rest /\ j.rows = job[w].rows
    BY <1>4, <2>1 DEF JobRecords
  <2>4. /\ job'[w] = j
        /\ RowsSound' /\ (j # Idle => Doing(w)') /\ (j = Idle => AtRest') => CalmParts'
    <3>1. UNCHANGED <<status, task, nvars>>
      BY <1>1, <2>2
    <3> QED
      BY <1>1, <2>2, <2>3, <3>1, StepSettles
  <2>5. rest = <<>> /\ (p.kind = "check" => AtRest)
    <3>1. Len(ps) \in Nat \ {0}
      BY <1>4
    <3>2. ~AllCalls(ps)
      BY <1>5, <1>11, <3>1 DEF AllCalls
    <3> QED
      BY <1>2, <1>3, <1>5, <1>6, <3>2 DEF Listing
  <2>6. Reading(w)'
    BY <1>1, <1>7, <2>3, <2>4, <2>5 DEF Reading, AtRest
  <2>7. AsRead(w)'
    BY <1>1, <1>2, <1>7, <1>9, <2>3, <2>4 DEF AsRead
  <2>8. Doing(w)' /\ j # Idle
    BY <2>3, <2>4, <2>6, <2>7 DEF Doing, Idle
  <2> QED
    BY <1>7, <2>4, <2>8
<1> QED
  BY <1>10, <1>11

LEMMA ReadRulesCalm ==
  ASSUME IInv, CalmParts, NEW w \in Workers, ReadRules(w)
  PROVE  CalmParts'
<1>1. job[w].op = "rules" /\ job[w].op # "idle" /\ UNCHANGED <<db, status, task, nvars, table>>
  BY DEF ReadRules, nvars
<1>2. PICK c : c = Add(Only(Enabled, RuleIds))
  OBVIOUS
<1>3. PICK p : p = [job[w].now EXCEPT !.call = c]
  OBVIOUS
<1>4. PICK j : j = [job[w] EXCEPT !.op = "whitelist", !.now = p]
  OBVIOUS
<1>5. job[w] \in JobRecords(Allowed, Allowed) /\ job[w].now \in Pushes(Allowed)
  BY JobHolds DEF IInv, JobOK, Jobs
<1>6. p.kind = job[w].now.kind /\ p.call = c /\ c.items = Only(Enabled, RuleIds)
  BY <1>2, <1>3, <1>5 DEF Pushes, Add
<1>7. /\ j.op = "whitelist" /\ j.now = p /\ j.rows = job[w].rows
      /\ j.pushes = job[w].pushes /\ j.nodes = job[w].nodes
  BY <1>4, <1>5 DEF JobRecords
<1>8. SetJob(w, j)
  <2>1. [job[w] EXCEPT !.op = "whitelist", !.now.call = c] = j
    BY <1>3, <1>4, <1>5 DEF JobRecords
  <2> QED
    BY <1>2, <2>1 DEF ReadRules
<1>9. /\ Doing(w) /\ RowsSound /\ job'[w] = j
      /\ RowsSound' /\ (j # Idle => Doing(w)') /\ (j = Idle => AtRest') => CalmParts'
  BY <1>1, <1>7, <1>8, StepSettles
<1>10. RowsSound' /\ Enabled' = Enabled /\ \A i \in Ids : Present(i)' = Present(i)
  BY <1>1, <1>9 DEF RowsSound, Present, Enabled
<1>11. Reading(w) /\ AsRead(w) /\ DOMAIN job[w].rows \subseteq Ids
  BY <1>1, <1>9, JobHolds DEF Doing
<1>12. Reading(w)'
  <2>1. Items(w)' = Only(Enabled, RuleIds)'
    BY <1>6, <1>7, <1>9, <1>10 DEF Items, Only
  <2> QED
    BY <1>1, <1>6, <1>7, <1>9, <1>10, <1>11, <2>1 DEF Reading, AtRest
<1>13. AsRead(w)'
  BY <1>1, <1>7, <1>9, <1>10, <1>11 DEF AsRead
<1>14. Doing(w)' /\ j # Idle
  BY <1>7, <1>9, <1>12, <1>13 DEF Doing, Idle
<1> QED
  BY <1>9, <1>10, <1>14

LEMMA ReadWhitelistCalm ==
  ASSUME IInv, CalmParts, NEW w \in Workers, ReadWhitelist(w)
  PROVE  CalmParts'
<1>1. /\ job[w].op = "whitelist" /\ job[w] # Idle /\ UNCHANGED <<db, nvars, table, late>>
  BY DEF ReadWhitelist, Idle, nvars
<1>2. RowsSound /\ Undisturbed /\ TasksDone /\ Reading(w) /\ AsRead(w) /\ DOMAIN job[w].rows \subseteq Ids
  BY <1>1, JobHolds DEF CalmParts, Doing
<1>3. PICK c : c = Add(Over(job[w].now.call.items, Only(Enabled, WlIds)))
  OBVIOUS
<1>4. PICK p : p = [job[w].now EXCEPT !.call = c]
  OBVIOUS
<1>5. /\ job[w] \in JobRecords(Allowed, Allowed) /\ job[w].now \in Pushes(Allowed)
      /\ job[w].now.kind # "push"
  BY <1>1, JobHolds DEF IInv, JobOK, Jobs
<1>6. p.kind = job[w].now.kind /\ p.kind \in {"full", "check"} /\ p.call = c /\ c.items = Enabled
  <2>1. c.items = Over(Only(Enabled, RuleIds), Only(Enabled, WlIds))
    BY <1>1, <1>2, <1>3 DEF Reading, Items, Add
  <2>2. c.items = Enabled
    BY <1>2, <2>1, EnabledTypes, ScopesSplit
  <2> QED
    BY <1>4, <1>5, <2>2 DEF Pushes
<1>7. PICK ns : ns = job[w].nodes
  OBVIOUS
<1>8. Launch(w, p, ns)
  BY <1>3, <1>4, <1>7 DEF ReadWhitelist
<1>9. PICK j : j = [job[w] EXCEPT !.op = "wait", !.now = p, !.nodes = {}, !.pushes = job[w].pushes]
  OBVIOUS
<1>10. SetJob(w, j)
  BY <1>6, <1>8, <1>9 DEF Launch
<1>11. j.op = "wait" /\ j.now = p /\ j.pushes = job[w].pushes /\ j.rows = job[w].rows
  BY <1>5, <1>9 DEF JobRecords
<1>12. job'[w] = j
  BY <1>10 DEF SetJob, IInv, JobOK
<1>13. First(p.kind).pc = IF p.kind = "full" THEN "fullwl" ELSE "count"
  BY <1>6 DEF First, Done
<1>14. /\ \A v \in Workers \ {w} : task'[v] = task[v] /\ job[v] = Idle
       /\ \A n \in Nodes : task'[w][n] = IF n \in ns THEN First(p.kind) ELSE Done
  BY <1>1, <1>8 DEF Launch, IInv, TaskOK, CalmParts, OneJob
<1>15. Undisturbed'
  BY <1>1, <1>2, <1>8, <1>13 DEF Launch, Mark, Undisturbed
<1>16. RowsSound' /\ Enabled' = Enabled /\ \A i \in Ids : Present(i)' = Present(i)
  BY <1>1, <1>2 DEF RowsSound, Present, Enabled
<1>17. \A n \in Nodes : Syncing(w, n)'
  <2> SUFFICES ASSUME NEW n \in Nodes PROVE Syncing(w, n)'
    OBVIOUS
  <2>1. CASE n \in ns /\ p.kind = "full"
    BY <1>13, <1>14, <2>1 DEF Syncing, At
  <2>2. CASE n \in ns /\ p.kind = "check"
    BY <1>1, <1>2, <1>6, <1>13, <1>14, <1>16, <2>2 DEF Syncing, At, Reading, AtRest
  <2>3. CASE n \notin ns
    BY <1>1, <1>2, <1>7, <1>14, <1>16, <2>3 DEF Syncing, Reading
  <2> QED
    BY <1>6, <2>1, <2>2, <2>3
<1>18. Waiting(w)'
  BY <1>2, <1>6, <1>11, <1>12, <1>16, <1>17 DEF Waiting, Items, Reading
<1>19. AsRead(w)'
  BY <1>1, <1>2, <1>11, <1>12, <1>16 DEF AsRead
<1>20. Doing(w)' /\ j # Idle
  BY <1>11, <1>12, <1>18, <1>19 DEF Doing, Idle
<1> QED
  BY <1>2, <1>10, <1>11, <1>14, <1>15, <1>16, <1>20, Settles

\* All tasks are done, so the push has led every node where it should.
LEMMA ReturnCalm ==
  ASSUME IInv, CalmParts, NEW w \in Workers, Return(w)
  PROVE  CalmParts'
<1>1. /\ job[w].op = "wait" /\ job[w].op # "idle" /\ \A n \in Nodes : task[w][n] = Done
      /\ UNCHANGED <<db, status, task, nvars, table>>
  BY DEF Return, nvars
<1>2. PICK ps, rows : ps = job[w].pushes /\ rows = job[w].rows
  OBVIOUS
<1>3. PICK j : j = Pushing(ps, rows)
  OBVIOUS
<1>4. SetJob(w, j) /\ j.op # "wait"
  BY <1>2, <1>3 DEF Return, Pushing, Idle
<1>5. /\ Doing(w) /\ RowsSound /\ job'[w] = j
      /\ RowsSound' /\ (j # Idle => Doing(w)') /\ (j = Idle => AtRest') => CalmParts'
  BY <1>1, <1>4, StepSettles
<1>6. RowsSound' /\ Enabled' = Enabled /\ \A i \in Ids : Present(i)' = Present(i)
  BY <1>1, <1>5 DEF RowsSound, Present, Enabled
<1>7. Waiting(w) /\ AsRead(w) /\ DOMAIN rows \subseteq Ids
  BY <1>1, <1>2, <1>5, JobHolds DEF Doing
<1>8. AllCalls(ps) /\ \A n \in Nodes : Due(table[n], ps)
  <2>1. Done.pc = "done"
    BY DEF Done
  <2>2. CASE job[w].now.kind = "push"
    BY <1>1, <1>2, <1>7, <2>1, <2>2 DEF Waiting, Calling, At
  <2>3. CASE job[w].now.kind # "push"
    <3>1. ps = <<>> /\ \A n \in Nodes : table[n] = Enabled
      BY <1>1, <1>2, <1>7, <2>1, <2>3 DEF Waiting, Syncing, At
    <3> QED
      BY <3>1, CallsOnly DEF Due
  <2> QED
    BY <2>2, <2>3
<1>9. \A n \in Nodes : Due(table[n], ps)'
  BY <1>1, <1>6, <1>8 DEF Due
<1>10. \A i \in DOMAIN rows : rows[i] = db'[i] /\ Present(i)'
  BY <1>1, <1>2, <1>6, <1>7 DEF AsRead
<1>11. (j # Idle => Doing(w)') /\ (j = Idle => AtRest')
  BY <1>3, <1>5, <1>8, <1>9, <1>10, PushingDoes
<1> QED
  BY <1>5, <1>6, <1>11

-----------------------------------------------------------------------------
(* Tasks and pings *)

\* A call is answered, and so is a read.
LEMMA CalmCall ==
  ASSUME IInv, Calm, Calm', NEW n \in Nodes
  PROVE  /\ agent[n] = "up"
         /\ \A c : \A ok \in BOOLEAN : Calls(n, c, ok) =>
              \E e \in Effects(c, table[n]) :
                ok = e.ok /\ table' = [table EXCEPT ![n] = e.table] /\ UNCHANGED <<late, faults>>
         /\ \A ok \in BOOLEAN : Reads(n, ok) => ok /\ UNCHANGED nvars
<1>1. agent[n] = "up" /\ faults' # faults + 1
  BY DEF Calm, IInv, AgentOK
<1> QED
  BY <1>1 DEF Calls, Reads

\* A task that goes on in order leaves the push in order.
LEMMA TaskSettles ==
  ASSUME IInv, CalmParts, NEW w \in Workers, NEW n \in Nodes, NEW k, NEW T, Goes(w, n, k),
         job[w].op = "wait", k.pc # "bad", table' = [table EXCEPT ![n] = T], UNCHANGED late,
         IF job[w].now.kind = "push" THEN Calling(w, n)' ELSE Syncing(w, n)'
  PROVE  CalmParts'
<1>1. /\ UNCHANGED <<db, job>> /\ job[w] # Idle /\ Undisturbed /\ RowsSound /\ OneJob /\ TasksDone
      /\ Doing(w)
  BY DEF Goes, dvars, Idle, CalmParts
<1>2. /\ Enabled' = Enabled /\ \A i \in Ids : Present(i)' = Present(i)
      /\ Items(w)' = Items(w) /\ DOMAIN job[w].rows \subseteq Ids
  BY <1>1, JobHolds DEF Enabled, Present, Items
<1>3. RowsSound' /\ OneJob' /\ ~Quiet'
  BY <1>1, <1>2 DEF RowsSound, OneJob, Quiet
<1>4. Undisturbed'
  <2>1. Mark(n, k.pc) # "offline"
    BY <1>1 DEF Mark, Undisturbed
  <2> QED
    BY <1>1, <2>1 DEF Undisturbed, Goes, IInv, StatusOK
<1>5. /\ \A v \in Workers \ {w} : task'[v] = task[v] /\ job[v] = Idle
      /\ \A m \in Nodes \ {n} : task'[w][m] = task[w][m] /\ table'[m] = table[m]
  BY <1>1 DEF Goes, IInv, TaskOK, NodeOK, OneJob
<1>6. TasksDone'
  BY <1>1, <1>5 DEF TasksDone
<1>7. Waiting(w)'
  <2>1. Waiting(w)
    BY <1>1 DEF Doing
  <2>2. CASE job[w].now.kind = "push"
    <3>1. \A m \in Nodes \ {n} : Calling(w, m)'
      <4>1. \A m \in Nodes \ {n} : Calling(w, m)
        BY <2>1, <2>2 DEF Waiting
      <4> QED
        BY <1>1, <1>2, <1>5, <4>1 DEF Calling, At, Due
    <3> QED
      BY <1>1, <2>1, <2>2, <3>1 DEF Waiting
  <2>3. CASE job[w].now.kind # "push"
    <3>1. \A m \in Nodes \ {n} : Syncing(w, m)'
      <4>1. \A m \in Nodes \ {n} : Syncing(w, m)
        BY <2>1, <2>3 DEF Waiting
      <4> QED
        BY <1>1, <1>2, <1>5, <4>1 DEF Syncing, At
    <3> QED
      BY <1>1, <1>2, <2>1, <2>3, <3>1 DEF Waiting
  <2> QED
    BY <2>2, <2>3
<1>8. AsRead(w)'
  BY <1>1, <1>2 DEF Doing, AsRead
<1>9. \A v \in Workers : job'[v] # Idle => Doing(v)'
  <2>1. Doing(w)'
    BY <1>1, <1>7, <1>8 DEF Doing
  <2> QED
    BY <1>1, <1>5, <2>1
<1> QED
  BY <1>3, <1>4, <1>6, <1>9 DEF CalmParts

\* Only a call, a count and the two steps of a full sync are ever made.
LEMMA TaskCalm ==
  ASSUME IInv, CalmParts, Calm, Calm', NEW w \in Workers, NEW n \in Nodes, Task(w, n)
  PROVE  CalmParts'
<1>1. task[w][n] # Done
  BY DEF Task, TryCall, Count, DiffWhitelist, FullWhitelist, AtomicSync, Get, DeleteListed,
         AddMissing, ListResidue, DeleteResidue, Restore, At, Done
<1>2. job[w].op = "wait" /\ Waiting(w) /\ RowsSound
  <2>1. job[w].op = "wait"
    BY <1>1 DEF CalmParts, TasksDone
  <2>2. job[w] # Idle
    BY <2>1 DEF Idle
  <2> QED
    BY <2>1, <2>2 DEF CalmParts, Doing
<1>3. PICK T, c, I, ps : T = table[n] /\ c = job[w].now.call /\ I = Enabled /\ ps = job[w].pushes
  OBVIOUS
<1>4. /\ T \in Tables /\ I \in Tables /\ DistinctKeys(Has(I)) /\ c.items \in Tables
      /\ task[w][n] \in Tasks(Allowed)
  BY <1>2, <1>3, EnabledTypes, TaskHolds DEF Safe, Call
<1>5. \A pc : To(w, n, pc).pc = pc
  BY <1>4 DEF To, Tasks
<1>6. /\ UNCHANGED <<db, job>> /\ Enabled' = I /\ table \in [Nodes -> Known(Allowed)]
      /\ task \in [Workers -> [Nodes -> Tasks(Allowed)]]
  BY <1>3 DEF Task, TryCall, Count, DiffWhitelist, FullWhitelist, AtomicSync, Get, DeleteListed,
         AddMissing, ListResidue, DeleteResidue, Restore, Goes, dvars, Enabled, IInv, TaskOK, NodeOK
<1>7. CASE job[w].now.kind = "push"
  <2>1. At(w, n, "call") /\ Takes(c, T) /\ Due(After(c, T), ps)
    BY <1>1, <1>2, <1>3, <1>7 DEF Waiting, Calling
  <2>2. TryCall(w, n)
    BY <2>1 DEF Task, TryCall, Count, DiffWhitelist, FullWhitelist, AtomicSync, Get, DeleteListed,
         AddMissing, ListResidue, DeleteResidue, Restore, At
  <2>3. PICK ok \in BOOLEAN :
          /\ Calls(n, c, ok)
          /\ Goes(w, n, IF ok \/ task[w][n].att = RetryCount THEN To(w, n, "done")
                        ELSE [task[w][n] EXCEPT !.att = @ + 1])
    BY <1>3, <2>2 DEF TryCall
  <2>4. PICK e \in Effects(c, T) :
          ok = e.ok /\ table' = [table EXCEPT ![n] = e.table] /\ UNCHANGED <<late, faults>>
    BY <1>3, <2>3, CalmCall
  <2>5. PICK U : U = After(c, T)
    OBVIOUS
  <2>6. /\ e.table = U /\ (ok \/ c.kind = "del")
        /\ c.kind = "del" => Takes(c, U) /\ After(c, U) = U
    BY <1>4, <2>1, <2>4, <2>5, CallDue
  <2>7. table'[n] = U /\ table' = [table EXCEPT ![n] = U] /\ UNCHANGED late
    BY <1>6, <2>4, <2>6
  <2>8. Due(U, ps)'
    BY <1>3, <1>6, <2>1, <2>5 DEF Due
  <2>9. CASE ok \/ task[w][n].att = RetryCount
    <3>1. PICK k : k = To(w, n, "done")
      OBVIOUS
    <3>2. k.pc = "done" /\ Goes(w, n, k)
      BY <1>5, <2>3, <2>9, <3>1
    <3>3. task'[w][n] = Done
      BY <1>6, <3>2 DEF Goes
    <3>4. Calling(w, n)'
      BY <1>3, <1>6, <2>7, <2>8, <3>3 DEF Calling
    <3> QED
      BY <1>2, <1>7, <2>7, <3>2, <3>4, TaskSettles
  <2>10. CASE ~(ok \/ task[w][n].att = RetryCount)
    <3>1. PICK k : k = [task[w][n] EXCEPT !.att = @ + 1]
      OBVIOUS
    <3>2. k.pc = "call" /\ Goes(w, n, k)
      BY <1>4, <2>1, <2>3, <2>10, <3>1 DEF At, Tasks
    <3>3. task'[w][n] = k
      BY <1>6, <3>2 DEF Goes
    <3>4. Calling(w, n)'
      BY <1>3, <1>6, <2>6, <2>7, <2>8, <2>10, <3>2, <3>3 DEF Calling, At
    <3> QED
      BY <1>2, <1>7, <2>7, <3>2, <3>4, TaskSettles
  <2> QED
    BY <2>9, <2>10
<1>8. CASE job[w].now.kind # "push"
  <2>1. Items(w) = I /\ Syncing(w, n)
    BY <1>2, <1>3, <1>8 DEF Waiting
  <2>2. CASE At(w, n, "count") /\ T = I
    <3>1. Count(w, n)
      BY <2>2 DEF Task, TryCall, Count, DiffWhitelist, FullWhitelist, AtomicSync, Get, DeleteListed,
         AddMissing, ListResidue, DeleteResidue, Restore, At
    <3>2. PICK ok \in BOOLEAN :
            /\ Reads(n, ok)
            /\ Goes(w, n, To(w, n, IF ok /\ ~SameCounts(table[n], Items(w)) THEN "diffwl" ELSE "done"))
      BY <3>1 DEF Count
    <3>3. UNCHANGED nvars /\ SameCounts(table[n], Items(w))
      BY <1>3, <2>1, <2>2, <3>2, CalmCall DEF SameCounts
    <3>4. PICK k : k = To(w, n, "done")
      OBVIOUS
    <3>5. k.pc = "done" /\ Goes(w, n, k)
      BY <1>5, <3>2, <3>3, <3>4
    <3>6. task'[w][n] = Done /\ UNCHANGED <<table, late>>
      BY <1>6, <3>3, <3>5 DEF Goes, nvars
    <3>7. Syncing(w, n)'
      BY <1>3, <1>6, <2>2, <3>6 DEF Syncing
    <3>8. table' = [table EXCEPT ![n] = T]
      BY <1>3, <1>6, <3>6
    <3> QED
      BY <1>2, <1>8, <3>5, <3>6, <3>7, <3>8, TaskSettles
  <2>3. CASE At(w, n, "fullwl")
    <3>1. FullWhitelist(w, n)
      BY <2>3 DEF Task, TryCall, Count, DiffWhitelist, FullWhitelist, AtomicSync, Get, DeleteListed,
         AddMissing, ListResidue, DeleteResidue, Restore, At
    <3>2. PICK ok \in BOOLEAN : /\ Calls(n, Replace(I, WlIds), ok)
                                /\ Goes(w, n, To(w, n, IF ok THEN "atomic" ELSE "bad"))
      BY <2>1, <3>1 DEF FullWhitelist
    <3>3. PICK e \in Effects(Replace(I, WlIds), T) :
            ok = e.ok /\ table' = [table EXCEPT ![n] = e.table] /\ UNCHANGED <<late, faults>>
      BY <1>3, <3>2, CalmCall
    <3>4. PICK U : U = Over(Only(I, WlIds), Only(T, Ids \ WlIds))
      OBVIOUS
    <3>5. ok /\ table' = [table EXCEPT ![n] = U] /\ table'[n] = U /\ UNCHANGED late
      BY <1>4, <1>6, <3>3, <3>4, ReplaceDue
    <3>6. Only(U, WlIds) = Only(I, WlIds)
      BY <1>4, <3>4, ScopesSplit
    <3>7. PICK k : k = To(w, n, "atomic")
      OBVIOUS
    <3>8. k.pc = "atomic" /\ Goes(w, n, k)
      BY <1>5, <3>2, <3>5, <3>7
    <3>9. task'[w][n] = k
      BY <1>6, <3>8 DEF Goes
    <3>10. Syncing(w, n)'
      BY <1>6, <3>5, <3>6, <3>8, <3>9 DEF Syncing, At, Only
    <3> QED
      BY <1>2, <1>8, <3>5, <3>8, <3>10, TaskSettles
  <2>4. CASE At(w, n, "atomic") /\ Only(T, WlIds) = Only(I, WlIds)
    <3>1. AtomicSync(w, n)
      BY <2>4 DEF Task, TryCall, Count, DiffWhitelist, FullWhitelist, AtomicSync, Get, DeleteListed,
         AddMissing, ListResidue, DeleteResidue, Restore, At
    <3>2. PICK ok \in BOOLEAN :
            /\ Calls(n, Replace(I, RuleIds), ok)
            /\ ok => Goes(w, n, To(w, n, "good"))
      BY <2>1, <3>1 DEF AtomicSync
    <3>3. PICK e \in Effects(Replace(I, RuleIds), T) :
            ok = e.ok /\ table' = [table EXCEPT ![n] = e.table] /\ UNCHANGED <<late, faults>>
      BY <1>3, <3>2, CalmCall
    <3>4. PICK U : U = Over(Only(I, RuleIds), Only(T, Ids \ RuleIds))
      OBVIOUS
    <3>5. ok /\ table' = [table EXCEPT ![n] = U] /\ table'[n] = U /\ UNCHANGED late
      BY <1>4, <1>6, <3>3, <3>4, ReplaceDue
    <3>6. U = I
      BY <1>4, <2>4, <3>4, ScopesSplit
    <3>7. PICK k : k = To(w, n, "good")
      OBVIOUS
    <3>8. k.pc = "good" /\ Goes(w, n, k)
      BY <1>5, <3>2, <3>5, <3>7
    <3>9. task'[w][n] = Done
      BY <1>6, <3>8 DEF Goes
    <3>10. Syncing(w, n)'
      BY <1>6, <3>5, <3>6, <3>9 DEF Syncing
    <3> QED
      BY <1>2, <1>8, <3>5, <3>8, <3>10, TaskSettles
  <2> QED
    BY <1>1, <1>3, <2>1, <2>2, <2>3, <2>4 DEF Syncing
<1> QED
  BY <1>7, <1>8

\* Nothing but a status changes.
LEMMA StillCalm ==
  ASSUME IInv, CalmParts, UNCHANGED <<db, job, task, table>>, Undisturbed'
  PROVE  CalmParts'
<1>1. Enabled' = Enabled /\ \A i : Present(i)' = Present(i)
  BY DEF Enabled, Present
<1>2. RowsSound' /\ OneJob' /\ TasksDone' /\ AtRest' = AtRest /\ Quiet' = Quiet
  BY <1>1 DEF CalmParts, RowsSound, OneJob, TasksDone, AtRest, Quiet
<1>3. ASSUME NEW w \in Workers, Doing(w)
      PROVE  Doing(w)'
  <2>1. Items(w)' = Items(w) /\ \A n \in Nodes : \A pc : At(w, n, pc)' = At(w, n, pc)
    BY DEF Items, At
  <2>2. \A T, ps : Due(T, ps)' = Due(T, ps)
    BY <1>1 DEF Due
  <2>3. Changes(w) => Changes(w)'
    BY <1>1, <1>2 DEF Changes
  <2>4. Listing(w) => Listing(w)'
    BY <1>1, <1>2 DEF Listing, Due
  <2>5. Reading(w) => Reading(w)'
    BY <1>1, <1>2, <2>1 DEF Reading
  <2>6. Waiting(w) => Waiting(w)'
    <3>1. \A n \in Nodes : Calling(w, n) => Calling(w, n)'
      BY <1>1, <2>1 DEF Calling, Due
    <3>2. \A n \in Nodes : Syncing(w, n) => Syncing(w, n)'
      BY <1>1, <2>1 DEF Syncing
    <3> QED
      BY <1>1, <2>1, <3>1, <3>2 DEF Waiting
  <2>7. AsRead(w) => AsRead(w)'
    BY <1>1 DEF AsRead
  <2> QED
    BY <1>2, <1>3, <2>3, <2>4, <2>5, <2>6, <2>7 DEF Doing
<1> QED
  BY <1>2, <1>3 DEF CalmParts

\* A ping that is answered puts no node offline.
LEMMA HealthCalm ==
  ASSUME IInv, CalmParts, Calm, Calm', NEW n \in Nodes, HealthList(n) \/ Ping(n)
  PROVE  CalmParts'
<1>1. UNCHANGED <<db, job, task, table, late>>
  <2>1. CASE HealthList(n)
    BY <2>1 DEF HealthList, dvars, nvars
  <2>2. CASE Ping(n)
    <3>1. PICK ok \in BOOLEAN : Reads(n, ok)
      BY <2>2 DEF Ping
    <3> QED
      BY <2>2, <3>1, CalmCall DEF Ping, dvars, nvars
  <2> QED
    BY <2>1, <2>2
<1>2. Undisturbed'
  <2>1. CASE HealthList(n)
    BY <1>1, <2>1 DEF HealthList, Undisturbed, CalmParts
  <2>2. CASE Ping(n)
    <3>1. PICK ok \in BOOLEAN :
            /\ Reads(n, ok)
            /\ ok => status' = [status EXCEPT ![n] = IF seen[n] # "online" THEN "online" ELSE @]
      BY <2>2 DEF Ping
    <3>2. ok
      BY <3>1, CalmCall
    <3> QED
      BY <1>1, <3>1, <3>2 DEF Undisturbed, CalmParts, IInv, StatusOK
  <2> QED
    BY <2>1, <2>2
<1> QED
  BY <1>1, <1>2, StillCalm

-----------------------------------------------------------------------------
(* The theorem *)

\* A behaviour that is no longer calm is never calm again.
LEMMA CalmBefore ==
  ASSUME IInv, faults \in Nat, Next
  PROVE  faults' \in Nat /\ (Calm' => Calm)
<1>1. restarts \in Nat
  BY ControllerSyncAssumption DEF IInv, AgentOK
<1> SUFFICES /\ faults' = faults \/ faults' = faults + 1
             /\ restarts' = restarts \/ restarts' = restarts + 1
             /\ alone' => alone
  BY <1>1 DEF Calm
<1>0. \A w, j : Begin(w, j) => (alone' => alone)
  BY DEF Begin
<1>2. ASSUME NEW r \in Requests, Api(r)
      PROVE  faults' = faults /\ restarts' = restarts /\ (alone' => alone)
  <2>1. CASE Insert(r) \/ Write(r) \/ Erase(r)
    <3>1. UNCHANGED <<nvars, avars, alone>>
      BY <2>1 DEF Insert, Write, Erase
    <3> QED
      BY <3>1 DEF nvars, avars
  <2>2. CASE Create(r) \/ Update(r) \/ Delete(r)
    <3>1. \E j : Begin(r, j)
      BY <2>2 DEF Create, Update, Delete, Request
    <3> QED
      BY <1>0, <2>2, <3>1 DEF Create, Update, Delete, nvars, avars
  <2>3. CASE DeleteWl(r) \/ BatchDelete(r) \/ ForceSync(r)
    <3>1. \E j : Begin(r, j)
      BY <2>3 DEF DeleteWl, BatchDelete, ForceSync, Request
    <3> QED
      BY <1>0, <2>3, <3>1 DEF DeleteWl, BatchDelete, ForceSync, nvars, avars
  <2> QED
    BY <1>2, <2>1, <2>2, <2>3 DEF Api
<1>3. ASSUME NEW w \in Workers, Pusher(w)
      PROVE  faults' = faults /\ restarts' = restarts /\ alone' = alone
  BY <1>3 DEF Pusher, ListNodes, ReadRules, ReadWhitelist, Return, nvars, avars
<1>4. ASSUME NEW w \in Workers, NEW n \in Nodes, Task(w, n)
      PROVE  (faults' = faults \/ faults' = faults + 1) /\ restarts' = restarts /\ alone' = alone
  <2>1. \A c, ok : Calls(n, c, ok) => faults' = faults \/ faults' = faults + 1
    BY DEF Calls, nvars
  <2>2. \A ok : Reads(n, ok) => faults' = faults \/ faults' = faults + 1
    BY DEF Reads, nvars
  <2>3. \A k : Goes(w, n, k) => restarts' = restarts /\ alone' = alone
    BY DEF Goes, avars
  <2> QED
    BY <1>4, <2>1, <2>2, <2>3 DEF Task, TryCall, Count, DiffWhitelist, FullWhitelist, AtomicSync,
       Get, DeleteListed, AddMissing, ListResidue, DeleteResidue, Restore
<1>5. CheckRound \/ CleanRound \/ CleanOne => faults' = faults /\ restarts' = restarts /\ (alone' => alone)
  <2>1. CASE CheckRound
    BY <1>0, <2>1 DEF CheckRound, nvars, avars
  <2>2. CASE CleanRound
    BY <1>0, <2>2 DEF CleanRound, nvars, avars
  <2>3. CASE CleanOne
    BY <2>3 DEF CleanOne, nvars, avars
  <2> QED
    BY <2>1, <2>2, <2>3
<1>6. ASSUME NEW n \in Nodes, Node(n)
      PROVE  /\ faults' = faults \/ faults' = faults + 1
             /\ restarts' = restarts \/ restarts' = restarts + 1
             /\ alone' = alone
  BY <1>6 DEF Node, HealthList, Ping, Reads, Crash, Fetch, Boot, nvars, avars
<1>7. ASSUME NEW l \in late, Deliver(l)
      PROVE  faults' = faults /\ restarts' = restarts /\ alone' = alone
  BY <1>7 DEF Deliver, avars
<1> QED
  BY <1>2, <1>3, <1>4, <1>5, <1>6, <1>7 DEF Next

\* No agent is starting and no call is late.
LEMMA CalmAgents ==
  ASSUME IInv, CalmParts, Calm, Calm'
  PROVE  /\ \A n \in Nodes : ~Crash(n) /\ ~Fetch(n) /\ ~Boot(n)
         /\ \A l \in late : ~Deliver(l)
<1>1. late = {} /\ \A n \in Nodes : agent[n] = "up"
  BY DEF Calm, CalmParts, Undisturbed, IInv, AgentOK
<1>2. restarts' # restarts + 1
  BY DEF Calm
<1> QED
  BY <1>1, <1>2 DEF Crash, Fetch, Boot

\* While nothing has gone wrong and no two jobs have overlapped, the controller and the
\* nodes are where the one job says, and at rest the nodes have the enabled rows.
LEMMA CalmInvariance == Spec => []CalmInv
<1>1. Init => CalmInv
  <2> SUFFICES ASSUME Init PROVE CalmInv
    OBVIOUS
  <2>1. \A w \in Workers : job[w] = Idle
    BY DEF Init
  <2>2. Undisturbed /\ OneJob /\ TasksDone
    BY <2>1 DEF Init, Undisturbed, OneJob, TasksDone
  <2>3. \A i \in Ids : ~Present(i) /\ Enabled[i] = None
    BY DEF Init, Present, Enabled, Fresh
  <2>4. RowsSound
    BY <2>3 DEF RowsSound, DistinctKeys
  <2>5. AtRest
    BY <2>3 DEF AtRest, Init, Enabled, Empty
  <2> QED
    BY <2>1, <2>2, <2>4, <2>5 DEF CalmInv, CalmParts, Init
<1>2. IInv /\ CalmInv /\ [Next]_vars => CalmInv'
  <2> SUFFICES ASSUME IInv, CalmInv, [Next]_vars PROVE CalmInv'
    OBVIOUS
  <2>1. CASE UNCHANGED vars
    <3>1. UNCHANGED <<db, job, task, table, faults>> /\ Calm' = Calm /\ Undisturbed' = Undisturbed
      BY <2>1 DEF vars, Calm, Undisturbed
    <3>2. CalmParts => CalmParts'
      BY <3>1, StillCalm DEF CalmParts
    <3> QED
      BY <3>1, <3>2 DEF CalmInv
  <2>2. CASE Next
    <3>1. faults' \in Nat /\ (Calm' => Calm)
      BY <2>2, CalmBefore DEF CalmInv
    <3> SUFFICES ASSUME Calm' PROVE CalmParts'
      BY <3>1 DEF CalmInv
    <3>2. Calm /\ CalmParts
      BY <3>1 DEF CalmInv
    <3>3. ASSUME NEW r \in Requests, Api(r) PROVE CalmParts'
      BY <3>2, <3>3, CreateCalm, InsertCalm, UpdateCalm, WriteCalm, EraseCalm, DeleteWlCalm,
         BatchDeleteCalm, ForceSyncCalm DEF Api
    <3>4. ASSUME NEW w \in Workers, Pusher(w) PROVE CalmParts'
      BY <3>2, <3>4, ListNodesCalm, ReadRulesCalm, ReadWhitelistCalm, ReturnCalm DEF Pusher
    <3>5. ASSUME NEW n \in Nodes, Node(n) PROVE CalmParts'
      BY <3>2, <3>5, HealthCalm, CalmAgents DEF Node
    <3> QED
      BY <2>2, <3>2, <3>3, <3>4, <3>5, TaskCalm, CheckRoundCalm, CleanRoundCalm, CleanOneCalm,
         CalmAgents DEF Next
  <2> QED
    BY <2>1, <2>2
<1> QED
  BY <1>1, <1>2, Invariance, PTL DEF Spec

\* When no call has failed, no agent has restarted and no two jobs have overlapped, the
\* nodes hold exactly the enabled rows once the controller is at rest, for any number of
\* nodes and requests: the pushes of Create, Update, Delete, BatchDelete, the whitelist
\* requests and the expire cleaner are complete (rule_service.go, sync_service.go).
THEOREM CalmPushesExact == Spec => []CalmExact
<1>1. CalmInv => CalmExact
  BY DEF CalmInv, Calm, CalmParts, AtRest, CalmExact
<1> QED
  BY <1>1, CalmInvariance, PTL
===========================================================================
