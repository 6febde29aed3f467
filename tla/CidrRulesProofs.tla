-------------------------- MODULE CidrRulesProofs --------------------------
(***************************************************************************)
(* For any networks, rules, handlers and failed operations: every          *)
(* reference to a network id has exactly one holder, the manager's table   *)
(* and the kernel's trie agree, and no id goes away under a rule keyed by  *)
(* it.  The argument is an account: the count of a network is the number   *)
(* of those that hold a reference for it, so that a release that finds the *)
(* count at one is the release of the only holder.                         *)
(*                                                                         *)
(* On that rest two more invariants: MapsInv, what the lock holder has     *)
(* done so far to memory, maps and config, and, with one handler at a      *)
(* time, FlatInv: no network in use contains another.                      *)
(***************************************************************************)
EXTENDS CidrRules, FiniteSetTheorems, TLAPS

-----------------------------------------------------------------------------
(* The inductive invariant *)

\* The step handler p is at, or goes on at once its releases are done.
At(p) == IF pc[p] = "drop" THEN after[p] ELSE pc[p]

AddSteps  == {"checkSrc", "checkDst", "allocSrc", "allocDst", "lock", "insert", "delold",
              "abort", "commit", "publish", "rollback", "restore", "unlock", "return"}
DelSteps  == {"lock", "delete", "publish", "unlock"}
Building  == {"item", "allocSrc", "allocDst", "write"}
SyncSteps == {"lock", "clear", "release", "retire", "cleanup", "unlock"} \cup Building
Steps     == AddSteps \cup DelSteps \cup SyncSteps \cup {"idle"}
\* Steps of a handler that holds the lock whatever its kind.
Locked    == {"insert", "delold", "abort", "commit", "publish", "rollback", "restore", "unlock",
              "delete", "clear", "item", "write", "release", "retire", "cleanup"}
\* Where an add has a replaced rule at hand.
Replacing == {"delold", "abort", "commit", "publish", "rollback", "restore"}

Counts   == [Sides -> [Nets -> Nat]]
Tables   == [Ids -> Stored \cup {None}]

ManagerType ==
  /\ cidrs \in Counts /\ refs \in Counts /\ trie \in Counts /\ leaked \in Counts
  /\ nextID \in Nat \ {0}
TablesType ==
  /\ cidrRules \in Tables /\ build.rules \in Tables /\ retired \in Tables
  /\ old \in Stored \cup {None}
ProcsType ==
  /\ lock \in Procs \cup {None}
  /\ pc \in [Procs -> Steps \cup {"drop"}] /\ after \in [Procs -> Steps]
  /\ kind \in [Procs -> {"none", "add", "del", "sync"}]
  /\ DOMAIN todo = Procs /\ DOMAIN req = Procs
  /\ got \in [Procs -> [Sides -> Nat]] /\ drop \in [Procs -> Net]

TypeOK == ManagerType /\ TablesType /\ ProcsType

\* The handler is in a step that takes place under the lock.
Holding(p) == \/ At(p) \in Locked
              \/ kind[p] = "sync" /\ At(p) \in {"allocSrc", "allocDst"}

\* A handler's step fits its request, it drops networks only in "drop", and it has
\* the lock exactly in the steps that need it.
StepOK(p) ==
  /\ pc[p] = "drop" <=> drop[p] # NoNet
  /\ pc[p] = "drop" => after[p] \in {"return", "unlock", "restore", "delete", "item",
                                     "release", "retire"}
  /\ kind[p] = "none" => At(p) = "idle"
  /\ kind[p] = "add"  => At(p) \in AddSteps
  /\ kind[p] = "del"  => At(p) \in DelSteps
  /\ kind[p] = "sync" => At(p) \in SyncSteps
  /\ lock = p <=> Holding(p)

\* The handler has a rule at hand.
HasRule(p) == \/ kind[p] = "add"
              \/ kind[p] = "sync" /\ pc[p] \in {"allocSrc", "allocDst", "write"}

\* Between the allocation of the destination and the end of an add or a sync item.
Keying(p) == \/ pc[p] \in {"insert", "delold", "abort", "commit", "write"}
             \/ pc[p] = "lock" /\ kind[p] = "add"

\* The request at hand, and the ids taken for it so far: none, or one for each
\* network the steps have come to.
RequestOK(p) ==
  /\ HasRule(p) => req[p] \in Rule
  /\ kind[p] = "del"  => todo[p] \in Seq(Ids)
  /\ kind[p] = "sync" => todo[p] \in Seq(Rule)
  /\ got[p]["src"] # 0 <=>
       (Keying(p) \/ pc[p] = "allocDst") /\ req[p].net["src"] # None
  /\ got[p]["dst"] # 0 <=> Keying(p) /\ req[p].net["dst"] # None

\* What the lock holder's step says of the rule at hand and the rule it replaces.
ReplaceOK(p) ==
  /\ pc[p] \in {"delold", "abort", "commit"} => old = cidrRules[req[p].id]
  /\ pc[p] \in {"delold", "abort"} => old # None
  /\ kind[p] = "add" /\ pc[p] \in {"publish", "rollback"} => cidrRules[req[p].id] # None
  /\ At(p) = "restore" => old # None /\ cidrRules[req[p].id] = None

\* A full sync builds each id once.
BuildOK(p) ==
  kind[p] = "sync" =>
    /\ \A m, k \in DOMAIN todo[p] : todo[p][m].id = todo[p][k].id => m = k
    /\ At(p) \in Building => \A m \in DOMAIN todo[p] : build.rules[todo[p][m].id] = None
    /\ pc[p] \in {"allocSrc", "allocDst", "write"} =>
         /\ build.rules[req[p].id] = None
         /\ \A m \in DOMAIN todo[p] : todo[p][m].id # req[p].id

ProcOK(p) == StepOK(p) /\ RequestOK(p) /\ ReplaceOK(p) /\ BuildOK(p)

\* The tables of the lock holder are empty outside the steps that use them.
HolderOK ==
  /\ old # None => lock # None /\ kind[lock] = "add" /\ At(lock) \in Replacing
  /\ build.rules # EmptyTable => lock # None /\ kind[lock] = "sync" /\ At(lock) \in Building
  /\ retired # EmptyTable => lock # None /\ At(lock) \in {"release", "retire"}

\* A network has a count exactly when it has an id, and ids are given out once.
ManagerOK ==
  \A s \in Sides, n \in Nets :
    /\ cidrs[s][n] = 0 <=> refs[s][n] = 0
    /\ cidrs[s][n] < nextID

\* The rules that are or may come into force keep their ids.
KeysOK ==
  /\ \A i \in Ids : cidrRules[i] # None => Keyed(cidrRules[i])
  /\ \A i \in Ids : build.rules[i] # None => Keyed(build.rules[i])
  /\ old # None => Keyed(old)
  /\ \A p \in Procs, s \in Sides : got[p][s] # 0 => got[p][s] = trie[s][req[p].net[s]]

IInv ==
  /\ TypeOK /\ (\A p \in Procs : ProcOK(p)) /\ HolderOK
  /\ RefsExact /\ ManagerOK /\ TrieMatches /\ KeysOK

-----------------------------------------------------------------------------
(* Who holds a reference *)

Uses(r, s, n) == r # None /\ r.net[s] = n
Use(r, s, n)  == One(Uses(r, s, n))

InForce(s, n)  == Cardinality(Using(cidrRules, s, n))
InBuild(s, n)  == Cardinality(Using(build.rules, s, n))
Retiring(s, n) == Cardinality(Using(retired, s, n))
Waiting(s, n)  == One(OldWaits /\ old.net[s] = n)
Taken(s, n)    == Cardinality({p \in Procs : Held(p)[s] = n})
Dropping(s, n) == Cardinality({p \in Procs : drop[p][s] = n})

\* Adding or removing one element moves the cardinality by one at most.
LEMMA SetChange ==
  ASSUME NEW S, NEW T, NEW i, IsFiniteSet(S), S \ {i} = T \ {i}
  PROVE  Cardinality(T) = Cardinality(S) + One(i \in T) - One(i \in S)
<1>1. IsFiniteSet(S \ {i}) /\ Cardinality(S \ {i}) \in Nat
  BY FS_RemoveElement, FS_CardinalityType
<1>2. ASSUME NEW U, U \ {i} = S \ {i}
      PROVE  Cardinality(U) = Cardinality(S \ {i}) + One(i \in U)
  <2>1. CASE i \in U
    <3>1. U = (S \ {i}) \cup {i} /\ i \notin S \ {i}
      BY <1>2, <2>1
    <3>2. Cardinality((S \ {i}) \cup {i}) = Cardinality(S \ {i}) + 1
      BY <1>1, <3>1, FS_AddElement
    <3> QED
      BY <2>1, <3>1, <3>2 DEF One
  <2>2. CASE i \notin U
    <3>1. U = S \ {i}
      BY <1>2, <2>2
    <3> QED
      BY <1>1, <2>2, <3>1 DEF One
  <2> QED
    BY <2>1, <2>2
<1>3. Cardinality(T) = Cardinality(S \ {i}) + One(i \in T)
  BY <1>2
<1>4. Cardinality(S) = Cardinality(S \ {i}) + One(i \in S)
  BY <1>2
<1> QED
  BY <1>1, <1>3, <1>4 DEF One

\* The six kinds of holders are counted by natural numbers.
LEMMA Parts ==
  ASSUME NEW s \in Sides, NEW n \in Nets
  PROVE  /\ Users(s, n) = InForce(s, n) + InBuild(s, n) + Retiring(s, n)
                          + Waiting(s, n) + Taken(s, n) + Dropping(s, n)
         /\ InForce(s, n) \in Nat /\ InBuild(s, n) \in Nat /\ Retiring(s, n) \in Nat
         /\ Waiting(s, n) \in {0, 1} /\ Taken(s, n) \in Nat /\ Dropping(s, n) \in Nat
<1>1. IsFiniteSet(Ids) /\ IsFiniteSet(Procs)
  BY CidrAssumption
<1>2. \A t : Using(t, s, n) \subseteq Ids
  BY DEF Using
<1>3. \A t : Cardinality(Using(t, s, n)) \in Nat
  BY <1>1, <1>2, FS_Subset, FS_CardinalityType
<1>4. \A P \in SUBSET Procs : Cardinality(P) \in Nat
  BY <1>1, FS_Subset, FS_CardinalityType
<1>5. Taken(s, n) \in Nat /\ Dropping(s, n) \in Nat
  BY <1>4 DEF Taken, Dropping
<1> QED
  BY <1>3, <1>5 DEF Users, InForce, InBuild, Retiring, Waiting, Taken, Dropping, One

LEMMA PartsNext ==
  ASSUME NEW s \in Sides, NEW n \in Nets
  PROVE  /\ Users(s, n)' = InForce(s, n)' + InBuild(s, n)' + Retiring(s, n)'
                           + Waiting(s, n)' + Taken(s, n)' + Dropping(s, n)'
         /\ InForce(s, n)' \in Nat /\ InBuild(s, n)' \in Nat /\ Retiring(s, n)' \in Nat
         /\ Waiting(s, n)' \in {0, 1} /\ Taken(s, n)' \in Nat /\ Dropping(s, n)' \in Nat
<1>1. IsFiniteSet(Ids) /\ IsFiniteSet(Procs)
  BY CidrAssumption
<1>2. \A t : Using(t, s, n) \subseteq Ids
  BY DEF Using
<1>3. \A t : Cardinality(Using(t, s, n)) \in Nat
  BY <1>1, <1>2, FS_Subset, FS_CardinalityType
<1>4. \A P \in SUBSET Procs : Cardinality(P) \in Nat
  BY <1>1, FS_Subset, FS_CardinalityType
<1>5. Taken(s, n)' \in Nat /\ Dropping(s, n)' \in Nat
  BY <1>4 DEF Taken, Dropping
<1> QED
  BY <1>3, <1>5 DEF Users, InForce, InBuild, Retiring, Waiting, Taken, Dropping, One

\* One entry of a table changes: so does the number of its rules that use a network.
LEMMA TableChange ==
  ASSUME NEW t, NEW u, NEW i \in Ids, \A j \in Ids \ {i} : u[j] = t[j],
         NEW s \in Sides, NEW n \in Nets
  PROVE  Cardinality(Using(u, s, n))
           = Cardinality(Using(t, s, n)) + Use(u[i], s, n) - Use(t[i], s, n)
<1>1. IsFiniteSet(Using(t, s, n))
  BY CidrAssumption, FS_Subset DEF Using
<1>2. /\ Using(t, s, n) \ {i} = Using(u, s, n) \ {i}
      /\ i \in Using(t, s, n) <=> Uses(t[i], s, n)
      /\ i \in Using(u, s, n) <=> Uses(u[i], s, n)
  BY DEF Using, Uses
<1>3. Cardinality(Using(u, s, n))
        = Cardinality(Using(t, s, n)) + One(i \in Using(u, s, n)) - One(i \in Using(t, s, n))
  BY <1>1, <1>2, SetChange
<1> QED
  BY <1>2, <1>3 DEF One, Use

\* Handlers other than p keep their locals.
OthersKeep(p) ==
  \A q \in Procs \ {p} :
    /\ pc'[q] = pc[q] /\ after'[q] = after[q] /\ kind'[q] = kind[q]
    /\ todo'[q] = todo[q] /\ req'[q] = req[q] /\ got'[q] = got[q] /\ drop'[q] = drop[q]

\* The lock stays, is free and taken by p, or is let go by p.
Locks(p) ==
  lock' = lock \/ (lock = None /\ lock' = p) \/ (lock = p /\ lock' = None)

\* A step of handler p changes what handlers hold by what p holds.
LEMMA LocalChange ==
  ASSUME NEW p \in Procs, OthersKeep(p), NEW s \in Sides, NEW n \in Nets
  PROVE  /\ Taken(s, n)' = Taken(s, n) + One((Held(p)[s] = n)') - One(Held(p)[s] = n)
         /\ Dropping(s, n)' = Dropping(s, n) + One(drop'[p][s] = n) - One(drop[p][s] = n)
<1> DEFINE T == {q \in Procs : Held(q)[s] = n}
           D == {q \in Procs : drop[q][s] = n}
<1>1. IsFiniteSet(T) /\ IsFiniteSet(D)
  BY CidrAssumption, FS_Subset
<1>2. /\ T \ {p} = T' \ {p}
      /\ p \in T <=> Held(p)[s] = n
      /\ p \in T' <=> (Held(p)[s] = n)'
  BY DEF OthersKeep, Held
<1>3. /\ D \ {p} = D' \ {p}
      /\ p \in D <=> drop[p][s] = n
      /\ p \in D' <=> drop'[p][s] = n
  BY DEF OthersKeep
<1>4. /\ Cardinality(T') = Cardinality(T) + One(p \in T') - One(p \in T)
      /\ Cardinality(D') = Cardinality(D) + One(p \in D') - One(p \in D)
  <2> HIDE DEF T, D
  <2> QED
    BY <1>1, <1>2, <1>3, SetChange
<1> QED
  BY <1>2, <1>3, <1>4 DEF Taken, Dropping, One

\* The tables stay: the users of a network change with the replaced rule and with
\* what the handler holds.
LEMMA Ledger ==
  ASSUME NEW p \in Procs, OthersKeep(p),
         cidrRules' = cidrRules, build'.rules = build.rules, retired' = retired,
         NEW s \in Sides, NEW n \in Nets
  PROVE  Users(s, n)' = Users(s, n) + Waiting(s, n)' - Waiting(s, n)
                        + One((Held(p)[s] = n)') - One(Held(p)[s] = n)
                        + One(drop'[p][s] = n) - One(drop[p][s] = n)
<1>1. /\ InForce(s, n)' = InForce(s, n) /\ InBuild(s, n)' = InBuild(s, n)
      /\ Retiring(s, n)' = Retiring(s, n)
  BY DEF InForce, InBuild, Retiring, Using
<1> QED
  BY <1>1, Parts, PartsNext, LocalChange DEF One

\* A set that holds something counts.
LEMMA NotEmpty ==
  ASSUME NEW S, IsFiniteSet(S), NEW x \in S
  PROVE  Cardinality(S) \in Nat /\ Cardinality(S) >= 1
BY FS_EmptySet, FS_CardinalityType

\* What a network's holders come to.
LEMMA Holders ==
  ASSUME NEW s \in Sides, NEW n \in Nets
  PROVE  /\ \A i \in Ids : Uses(cidrRules[i], s, n)   => InForce(s, n) >= 1
         /\ \A i \in Ids : Uses(build.rules[i], s, n) => InBuild(s, n) >= 1
         /\ \A p \in Procs : Held(p)[s] = n => Taken(s, n) >= 1
         /\ \A p \in Procs : drop[p][s] = n => Dropping(s, n) >= 1
<1>1. \A t : IsFiniteSet(Using(t, s, n))
  BY CidrAssumption, FS_Subset DEF Using
<1>2. /\ \A i \in Ids : Uses(cidrRules[i], s, n)   => InForce(s, n) >= 1
      /\ \A i \in Ids : Uses(build.rules[i], s, n) => InBuild(s, n) >= 1
  BY <1>1, NotEmpty DEF Uses, Using, InForce, InBuild
<1>3. IsFiniteSet({p \in Procs : Held(p)[s] = n}) /\ IsFiniteSet({p \in Procs : drop[p][s] = n})
  BY CidrAssumption, FS_Subset
<1> QED
  BY <1>2, <1>3, NotEmpty DEF Taken, Dropping

-----------------------------------------------------------------------------
(* What every step of a handler shares *)

\* Nobody else's invariant is touched by a step that changes the lock holder's
\* tables only as the lock holder, and the lock only for itself.
LEMMA OthersOK ==
  ASSUME IInv, NEW p \in Procs, OthersKeep(p),
         Locks(p),
         lock # p => cidrRules' = cidrRules /\ build'.rules = build.rules /\ old' = old
  PROVE  \A q \in Procs \ {p} : ProcOK(q)'
<1> SUFFICES ASSUME NEW q \in Procs \ {p} PROVE ProcOK(q)'
  OBVIOUS
<1>1. StepOK(q) /\ RequestOK(q) /\ ReplaceOK(q) /\ BuildOK(q) /\ None \notin Procs
  BY CidrAssumption DEF IInv, ProcOK
<1>2. /\ pc'[q] = pc[q] /\ after'[q] = after[q] /\ kind'[q] = kind[q]
      /\ todo'[q] = todo[q] /\ req'[q] = req[q] /\ got'[q] = got[q] /\ drop'[q] = drop[q]
  BY DEF OthersKeep
<1>3. /\ At(q)' = At(q) /\ Holding(q)' = Holding(q) /\ HasRule(q)' = HasRule(q)
      /\ Keying(q)' = Keying(q)
  BY <1>2 DEF At, Holding, HasRule, Keying
<1>4. StepOK(q)'
  BY <1>1, <1>2, <1>3 DEF StepOK, Locks
<1>5. RequestOK(q)'
  BY <1>1, <1>2, <1>3 DEF RequestOK
<1>6. ReplaceOK(q)'
  <2>1. CASE Holding(q)
    BY <1>1, <1>2, <1>3, <2>1 DEF StepOK, ReplaceOK, Locks
  <2>2. CASE ~Holding(q)
    BY <1>1, <1>2, <1>3, <2>2 DEF ReplaceOK, Holding, At, Locked
  <2> QED
    BY <2>1, <2>2
<1>7. BuildOK(q)'
  <2>1. CASE Holding(q)
    BY <1>1, <1>2, <1>3, <2>1 DEF StepOK, BuildOK, Locks
  <2>2. CASE ~Holding(q)
    BY <1>1, <1>2, <1>3, <2>2 DEF BuildOK, Holding, At, Locked, Building
  <2> QED
    BY <2>1, <2>2
<1> QED
  BY <1>4, <1>5, <1>6, <1>7 DEF ProcOK

\* A step without the lock leaves the lock holder's tables as they are.
LEMMA HolderKeeps ==
  ASSUME IInv, NEW p \in Procs, OthersKeep(p), lock # p, lock' = lock,
         old' = old, build'.rules = build.rules, retired' = retired
  PROVE  HolderOK' /\ (\A s, n : Waiting(s, n)' = Waiting(s, n))
<1>1. lock \in Procs \cup {None} /\ None \notin Procs /\ HolderOK
  BY CidrAssumption DEF IInv, TypeOK, ProcsType
<1>2. lock # None => /\ pc'[lock] = pc[lock] /\ after'[lock] = after[lock]
                     /\ kind'[lock] = kind[lock]
  BY <1>1 DEF OthersKeep
<1>3. HolderOK'
  BY <1>1, <1>2 DEF HolderOK, At
<1> QED
  BY <1>2, <1>3 DEF Waiting, OldWaits

\* A step that gives out no id and releases none, and hands no reference on.
LEMMA WalkEnd ==
  ASSUME IInv, NEW p \in Procs, OthersKeep(p),
         Locks(p),
         lock # p => old' = old,
         UNCHANGED <<cidrs, refs, trie, nextID, leaked, cidrRules, build, retired, got, drop>>,
         req'[p] = req[p] \/ got[p] = NoId,
         \A s, n : Waiting(s, n)' = Waiting(s, n),
         old' # None => Keyed(old'),
         ProcsType', old' \in Stored \cup {None}, ProcOK(p)', HolderOK'
  PROVE  IInv'
<1>1. TypeOK'
  BY DEF IInv, TypeOK, ManagerType, TablesType
<1>2. \A q \in Procs : ProcOK(q)'
  BY OthersOK
<1>3. \A s \in Sides : (Held(p)[s])' = Held(p)[s]
  BY DEF Held, NoId
<1>4. RefsExact'
  <2> SUFFICES ASSUME NEW s \in Sides, NEW n \in Nets
               PROVE  refs[s][n] = Users(s, n)' + leaked[s][n]
    BY DEF RefsExact
  <2>1. Users(s, n)' = Users(s, n)
    BY <1>3, Ledger, Parts DEF One
  <2> QED
    BY <2>1 DEF IInv, RefsExact
<1>5. ManagerOK' /\ TrieMatches'
  BY DEF IInv, ManagerOK, TrieMatches
<1>6. KeysOK'
  <2>1. \A i \in Ids : /\ cidrRules[i] # None => Keyed(cidrRules[i])'
                       /\ build.rules[i] # None => Keyed(build.rules[i])'
    BY DEF IInv, KeysOK, Keyed
  <2>2. old' # None => Keyed(old)'
    BY DEF Keyed
  <2>3. \A q \in Procs, s \in Sides : got[q][s] # 0 => got[q][s] = trie[s][req'[q].net[s]]
    BY DEF IInv, KeysOK, OthersKeep, NoId
  <2> QED
    BY <2>1, <2>2, <2>3 DEF KeysOK
<1> QED
  BY <1>1, <1>2, <1>4, <1>5, <1>6 DEF IInv

\* The elements of a sequence, and of its tail.
LEMMA Elements ==
  ASSUME NEW S, NEW q \in Seq(S)
  PROVE  /\ \A m \in DOMAIN q : q[m] \in S
         /\ q # <<>> => /\ Head(q) = q[1] /\ 1 \in DOMAIN q
                        /\ Tail(q) \in Seq(S)
                        /\ \A m \in DOMAIN Tail(q) :
                             Tail(q)[m] = q[m + 1] /\ m + 1 \in DOMAIN q /\ m + 1 # 1 /\ m \in Nat
<1>1. DOMAIN q = 1 .. Len(q) /\ Len(q) \in Nat /\ q \in [1 .. Len(q) -> S]
  OBVIOUS
<1>2. CASE q # <<>>
  <2>1. Len(q) >= 1 /\ Head(q) = q[1] /\ Tail(q) \in Seq(S) /\ Len(Tail(q)) = Len(q) - 1
    BY <1>2
  <2>2. DOMAIN Tail(q) = 1 .. Len(q) - 1 /\ \A m \in 1 .. Len(q) - 1 : Tail(q)[m] = q[m + 1]
    BY <1>2, <2>1
  <2> QED
    BY <1>1, <2>1, <2>2
<1> QED
  BY <1>1, <1>2

\* What is known of the handler that takes a step.
LEMMA ProcFacts ==
  ASSUME IInv, NEW p \in Procs
  PROVE  /\ StepOK(p) /\ RequestOK(p) /\ ReplaceOK(p) /\ BuildOK(p) /\ HolderOK
         /\ p # None
         /\ pc[p] # "drop" => At(p) = pc[p] /\ drop[p] = NoNet
         /\ ProcsType /\ TablesType /\ KeysOK
BY CidrAssumption DEF IInv, ProcOK, TypeOK, StepOK, At

\* The steps of a handler keep the types of its locals and the others' locals.
LEMMA MoveTypes ==
  ASSUME IInv, NEW p \in Procs, NEW l \in Steps, Goto(p, l),
         UNCHANGED <<kind, todo, req, got, drop, after>>, lock' \in {lock, p, None}
  PROVE  OthersKeep(p) /\ ProcsType' /\ pc'[p] = l /\ (l # "drop" => At(p)' = l)
BY ProcFacts DEF Goto, OthersKeep, ProcsType, At

-----------------------------------------------------------------------------
(* One lemma per action: those that walk on *)

LEMMA CheckInv ==
  ASSUME IInv, NEW p \in Procs, CheckSrc(p) \/ CheckDst(p)
  PROVE  IInv'
<1>1. PICK l \in {"checkDst", "allocSrc", "return"} :
        /\ pc[p] \in {"checkSrc", "checkDst"} /\ Goto(p, l)
        /\ UNCHANGED <<manager, table, maps, lock, ticket, dropping, holder, fvars>>
  BY DEF CheckSrc, CheckDst, Check
<1> USE DEF manager, history, ticket, dropping, holder, table
<1>2. OthersKeep(p) /\ ProcsType' /\ pc'[p] = l /\ At(p)' = l
  BY <1>1, MoveTypes DEF Steps, AddSteps
<1>3. kind[p] = "add" /\ lock # p /\ got[p]["src"] = 0 /\ got[p]["dst"] = 0
  BY <1>1, ProcFacts DEF StepOK, RequestOK, Keying, Holding, DelSteps, SyncSteps, Building, Locked,
     ProcsType
<1>4. ProcOK(p)'
  <2>1. StepOK(p)'
    BY <1>1, <1>2, <1>3, ProcFacts DEF StepOK, Holding, AddSteps, Locked
  <2>2. RequestOK(p)'
    BY <1>1, <1>2, <1>3, ProcFacts DEF RequestOK, Keying, HasRule
  <2>3. ReplaceOK(p)' /\ BuildOK(p)'
    BY <1>1, <1>2, <1>3 DEF ReplaceOK, BuildOK
  <2> QED
    BY <2>1, <2>2, <2>3 DEF ProcOK
<1>5. HolderOK' /\ (\A s, n : Waiting(s, n)' = Waiting(s, n))
  BY <1>1, <1>2, <1>3, HolderKeeps
<1>6. old' = old /\ old \in Stored \cup {None} /\ (old' # None => Keyed(old'))
  BY <1>1, ProcFacts DEF KeysOK, TablesType
<1> QED
  BY <1>1, <1>2, <1>4, <1>5, <1>6, WalkEnd DEF Locks

LEMMA BeginInv ==
  ASSUME IInv, NEW p \in Procs, Request(p)
  PROVE  IInv'
<1>1. PICK k, l, b, r :
        /\ k \in {"add", "del", "sync"} /\ l \in {"checkSrc", "lock"}
        /\ Begin(p, k, l, b, r)
        /\ k = "add" => l = "checkSrc" /\ r \in Rule
        /\ k = "del" => l = "lock" /\ b \in Seq(Ids)
        /\ k = "sync" => l = "lock" /\ b \in Seq(Rule)
                         /\ \A m, n \in DOMAIN b : b[m].id = b[n].id => m = n
  <2>1. CASE \E r \in Adds : BeginAdd(p, r)
    BY <2>1, CidrAssumption DEF BeginAdd
  <2>2. CASE \E b \in Dels : BeginDelete(p, b)
    BY <2>2, CidrAssumption DEF BeginDelete
  <2>3. CASE \E b \in Syncs : BeginSync(p, b)
    BY <2>3, CidrAssumption DEF BeginSync
  <2> QED
    BY <2>1, <2>2, <2>3 DEF Request
<1> USE DEF manager, history, ticket, dropping, holder, table
<1>2. /\ pc[p] = "idle" /\ pc' = [pc EXCEPT ![p] = l]
      /\ kind' = [kind EXCEPT ![p] = k]
      /\ todo' = [todo EXCEPT ![p] = b] /\ req' = [req EXCEPT ![p] = r]
      /\ UNCHANGED <<manager, table, maps, lock, got, dropping, holder, fvars>>
  BY <1>1 DEF Begin, Goto
<1>3. /\ OthersKeep(p) /\ ProcsType' /\ pc'[p] = l /\ At(p)' = l
      /\ kind'[p] = k /\ todo'[p] = b /\ req'[p] = r
  BY <1>1, <1>2, ProcFacts DEF OthersKeep, ProcsType, At, Steps, AddSteps
<1>4. kind[p] = "none" /\ lock # p /\ got[p]["src"] = 0 /\ got[p]["dst"] = 0
  BY <1>2, ProcFacts DEF StepOK, RequestOK, Keying, Holding, AddSteps, DelSteps, SyncSteps,
     Building, Locked, ProcsType
<1>5. got[p] = NoId
  BY <1>4, ProcFacts DEF ProcsType, NoId, Sides
<1>6. ProcOK(p)'
  <2>1. StepOK(p)'
    BY <1>1, <1>2, <1>3, <1>4, ProcFacts
       DEF StepOK, Holding, AddSteps, DelSteps, SyncSteps, Locked
  <2>2. RequestOK(p)'
    BY <1>1, <1>2, <1>3, <1>4 DEF RequestOK, Keying, HasRule
  <2>3. ReplaceOK(p)' /\ BuildOK(p)'
    BY <1>1, <1>2, <1>3 DEF ReplaceOK, BuildOK, Building
  <2> QED
    BY <2>1, <2>2, <2>3 DEF ProcOK
<1>7. HolderOK' /\ (\A s, n : Waiting(s, n)' = Waiting(s, n))
  BY <1>2, <1>3, <1>4, HolderKeeps
<1>8. old' = old /\ old \in Stored \cup {None} /\ (old' # None => Keyed(old'))
  BY <1>2, ProcFacts DEF KeysOK, TablesType
<1> QED
  BY <1>2, <1>3, <1>5, <1>6, <1>7, <1>8, WalkEnd DEF Locks

\* Handlers return, wait for the lock, take it, and let it go.
LEMMA ReturnInv ==
  ASSUME IInv, NEW p \in Procs, Return(p) \/ Unlock(p)
  PROVE  IInv'
<1> USE DEF manager, history, table, holder
<1>1. /\ pc[p] \in {"return", "unlock"} /\ Forget(p)
      /\ UNCHANGED <<manager, table, build, retired>>
      /\ pc[p] = "return" => lock' = lock /\ old' = old
      /\ pc[p] = "unlock" => lock' = None /\ old' = None
  BY DEF Return, Unlock
<1>2. /\ OthersKeep(p) /\ pc'[p] = "idle" /\ At(p)' = "idle" /\ kind'[p] = "none"
      /\ UNCHANGED <<got, drop>>
  BY <1>1, ProcFacts DEF Forget, Goto, OthersKeep, ProcsType, At
<1>3. ProcsType'
  BY <1>1, ProcFacts DEF Forget, Goto, ProcsType, Steps
<1>4. /\ got[p]["src"] = 0 /\ got[p]["dst"] = 0 /\ got[p] = NoId
      /\ pc[p] = "unlock" <=> lock = p
  BY <1>1, ProcFacts DEF StepOK, RequestOK, Keying, Holding, Locked, ProcsType, NoId, Sides
<1>5. ProcOK(p)'
  <2>1. StepOK(p)'
    BY <1>1, <1>2, <1>4, ProcFacts DEF StepOK, Holding, Locked
  <2>2. RequestOK(p)'
    BY <1>1, <1>2, <1>4 DEF RequestOK, Keying, HasRule
  <2>3. ReplaceOK(p)' /\ BuildOK(p)'
    BY <1>2 DEF ReplaceOK, BuildOK
  <2> QED
    BY <2>1, <2>2, <2>3 DEF ProcOK
<1>6. Locks(p) /\ (lock # p => old' = old) /\ old' \in Stored \cup {None}
      /\ (old' # None => Keyed(old'))
  BY <1>1, <1>4, ProcFacts DEF Locks, KeysOK, TablesType
<1>7. HolderOK' /\ (\A s, n : Waiting(s, n)' = Waiting(s, n))
  <2>1. CASE pc[p] = "return"
    BY <1>1, <1>2, <1>4, <2>1, HolderKeeps
  <2>2. CASE pc[p] = "unlock"
    <3>1. build.rules = EmptyTable /\ retired = EmptyTable /\ ~OldWaits /\ ~OldWaits'
      BY <1>1, <1>4, <2>2, ProcFacts DEF HolderOK, OldWaits, Building, At
    <3> QED
      BY <1>1, <2>2, <3>1 DEF HolderOK, Waiting
  <2> QED
    BY <1>1, <2>1, <2>2
<1> QED
  BY <1>1, <1>2, <1>3, <1>4, <1>5, <1>6, <1>7, WalkEnd

LEMMA AcquireInv ==
  ASSUME IInv, NEW p \in Procs, Acquire(p)
  PROVE  IInv'
<1> USE DEF manager, history, ticket, dropping, holder, table
<1>1. PICK l \in {"insert", "delete", "clear"} :
        /\ pc[p] = "lock" /\ lock = None /\ lock' = p /\ Goto(p, l)
        /\ kind[p] = "add" => l = "insert"
        /\ kind[p] = "del" => l = "delete"
        /\ kind[p] = "sync" => l = "clear"
        /\ UNCHANGED <<manager, table, maps, ticket, dropping, holder, fvars>>
  BY DEF Acquire
<1>2. OthersKeep(p) /\ ProcsType' /\ pc'[p] = l /\ At(p)' = l
  BY <1>1, MoveTypes DEF Steps, AddSteps, DelSteps, SyncSteps
<1>3. kind[p] \in {"add", "del", "sync"}
  BY <1>1, ProcFacts DEF StepOK, ProcsType
<1>4. ProcOK(p)'
  <2>1. StepOK(p)'
    BY <1>1, <1>2, <1>3, ProcFacts DEF StepOK, Holding, AddSteps, DelSteps, SyncSteps, Locked
  <2>2. RequestOK(p)'
    BY <1>1, <1>2, <1>3, ProcFacts DEF RequestOK, Keying, HasRule
  <2>3. ReplaceOK(p)' /\ BuildOK(p)'
    BY <1>1, <1>2, <1>3, ProcFacts DEF ReplaceOK, BuildOK, Building
  <2> QED
    BY <2>1, <2>2, <2>3 DEF ProcOK
<1>5. old = None /\ build.rules = EmptyTable /\ retired = EmptyTable
  BY <1>1, ProcFacts DEF HolderOK
<1>6. HolderOK' /\ (\A s, n : Waiting(s, n)' = Waiting(s, n))
  BY <1>1, <1>5 DEF HolderOK, Waiting, OldWaits
<1>7. old' = old /\ old \in Stored \cup {None} /\ (old' # None => Keyed(old')) /\ Locks(p)
  BY <1>1, <1>5, ProcFacts DEF TablesType, Locks
<1> QED
  BY <1>1, <1>2, <1>4, <1>6, <1>7, WalkEnd

\* Steps of the lock holder that change neither its tables nor the references.
LEMMA LockedWalk ==
  ASSUME IInv, NEW p \in Procs,
         \/ DeleteOldKey(p) \/ OldKeyStays(p) \/ DeleteDone(p) \/ PublishDelete(p)
         \/ PublishFails(p) \/ SyncClear(p) \/ SyncReleased(p) \/ SyncCleanup(p)
  PROVE  IInv'
<1> USE DEF manager, history, ticket, dropping, holder, table
<1>1. PICK l \in {"commit", "abort", "unlock", "publish", "rollback", "item", "cleanup"} :
        /\ Goto(p, l)
        /\ UNCHANGED <<manager, table, lock, ticket, dropping, holder>>
        /\ \/ pc[p] = "delold" /\ l \in {"commit", "abort"}
           \/ pc[p] = "delete" /\ l \in {"unlock", "publish"}
           \/ pc[p] = "publish" /\ kind[p] = "del" /\ l = "unlock"
           \/ pc[p] = "publish" /\ kind[p] = "add" /\ l = "rollback"
           \/ pc[p] = "clear" /\ l = "item"
           \/ pc[p] = "release" /\ retired = EmptyTable /\ l = "unlock"
           \/ pc[p] = "retire" /\ retired = EmptyTable /\ l = "cleanup"
           \/ pc[p] = "cleanup" /\ l = "unlock"
  <2>1. CASE DeleteOldKey(p) \/ OldKeyStays(p)
    BY <2>1 DEF DeleteOldKey, OldKeyStays
  <2>2. CASE DeleteDone(p) \/ PublishDelete(p)
    BY <2>2 DEF DeleteDone, PublishDelete
  <2>3. CASE PublishFails(p)
    <3>1. kind[p] \in {"add", "del"}
      BY <2>3, ProcFacts DEF PublishFails, StepOK, ProcsType
    <3> QED
      BY <2>3, <3>1 DEF PublishFails
  <2>4. CASE SyncClear(p) \/ SyncCleanup(p)
    BY <2>4 DEF SyncClear, SyncCleanup, ClearMap
  <2>5. CASE SyncReleased(p)
    BY <2>5 DEF SyncReleased
  <2> QED
    BY <2>1, <2>2, <2>3, <2>4, <2>5
<1>2. OthersKeep(p) /\ ProcsType' /\ pc'[p] = l /\ At(p)' = l
  BY <1>1, MoveTypes DEF Steps, AddSteps, DelSteps, SyncSteps, Building
<1>3. lock = p /\ At(p) = pc[p]
  BY <1>1, ProcFacts DEF StepOK, Holding, Locked
<1>4. /\ pc[p] = "delold" => kind[p] = "add"
      /\ pc[p] = "delete" => kind[p] = "del"
      /\ pc[p] \in {"clear", "release", "retire", "cleanup"} => kind[p] = "sync"
  BY <1>3, ProcFacts DEF StepOK, AddSteps, DelSteps, SyncSteps, Building, ProcsType
<1>5. ProcOK(p)'
  <2>1. StepOK(p)'
    BY <1>1, <1>2, <1>3, <1>4, ProcFacts
       DEF StepOK, Holding, AddSteps, DelSteps, SyncSteps, Building, Locked
  <2>2. RequestOK(p)'
    BY <1>1, <1>2, <1>4, ProcFacts DEF RequestOK, Keying, HasRule
  <2>3. ReplaceOK(p)'
    BY <1>1, <1>2, <1>4, ProcFacts DEF ReplaceOK
  <2>4. BuildOK(p)'
    <3>1. CASE pc[p] = "clear"
      <4>1. build.rules = EmptyTable /\ kind[p] = "sync" /\ l = "item"
        BY <1>1, <1>3, <1>4, <3>1, ProcFacts DEF HolderOK, Building
      <4>2. \A m \in DOMAIN todo[p] : todo[p][m].id \in Ids
        <5>1. todo[p] \in Seq(Rule)
          BY <4>1, ProcFacts DEF RequestOK
        <5>2. \A m \in DOMAIN todo[p] : todo[p][m] \in Rule
          BY <5>1, Elements
        <5> QED
          BY <5>2 DEF Rule
      <4> QED
        BY <1>1, <1>2, <4>1, <4>2, ProcFacts DEF BuildOK, EmptyTable
    <3>2. CASE pc[p] # "clear"
      BY <1>1, <1>2, <3>2, ProcFacts DEF BuildOK, Building
    <3> QED
      BY <3>1, <3>2
  <2> QED
    BY <2>1, <2>2, <2>3, <2>4 DEF ProcOK
<1>6. HolderOK' /\ (\A s, n : Waiting(s, n)' = Waiting(s, n))
  <2>1. HolderOK'
    BY <1>1, <1>2, <1>3, <1>4, ProcFacts DEF HolderOK, Replacing, Building
  <2>2. OldWaits' <=> OldWaits
    BY <1>1, <1>2, <1>3, <1>4, ProcFacts DEF HolderOK, OldWaits, Replacing
  <2> QED
    BY <1>1, <2>1, <2>2 DEF Waiting
<1>7. old' = old /\ old \in Stored \cup {None} /\ (old' # None => Keyed(old')) /\ Locks(p)
  BY <1>1, ProcFacts DEF KeysOK, TablesType, Locks
<1> QED
  BY <1>1, <1>2, <1>5, <1>6, <1>7, WalkEnd

\* Moving on with the next rule of a request: nothing, or an id that has no count.
LEMMA AllocNothingInv ==
  ASSUME IInv, NEW p \in Procs,
         \/ AllocNothing(p, "src", "allocSrc", "allocDst")
         \/ AllocNothing(p, "dst", "allocDst", Allocated(p))
  PROVE  IInv'
<1> USE DEF manager, history, ticket, dropping, holder, table
<1>1. PICK s \in Sides, l \in {"allocDst", "lock", "write"} :
        /\ pc[p] \in {"allocSrc", "allocDst"} /\ req[p].net[s] = None /\ Goto(p, l)
        /\ pc[p] = "allocSrc" => s = "src" /\ l = "allocDst"
        /\ pc[p] = "allocDst" => s = "dst" /\ l = Allocated(p)
        /\ UNCHANGED <<manager, table, maps, lock, ticket, dropping, holder, fvars>>
  BY DEF AllocNothing, Allocated, Sides
<1>2. OthersKeep(p) /\ ProcsType' /\ pc'[p] = l /\ At(p)' = l
  BY <1>1, MoveTypes DEF Steps, AddSteps, SyncSteps, Building
<1>3. /\ kind[p] \in {"add", "sync"} /\ At(p) = pc[p] /\ (lock = p <=> kind[p] = "sync")
      /\ l = "lock" => kind[p] = "add"
      /\ l = "write" => kind[p] = "sync"
  BY <1>1, ProcFacts DEF StepOK, Holding, DelSteps, Locked, ProcsType, Allocated
<1>4. ProcOK(p)'
  <2>1. StepOK(p)'
    BY <1>1, <1>2, <1>3, ProcFacts DEF StepOK, Holding, AddSteps, SyncSteps, Building, Locked
  <2>2. RequestOK(p)'
    BY <1>1, <1>2, <1>3, ProcFacts DEF RequestOK, Keying, HasRule
  <2>3. ReplaceOK(p)' /\ BuildOK(p)'
    BY <1>1, <1>2, <1>3, ProcFacts DEF ReplaceOK, BuildOK, Building
  <2> QED
    BY <2>1, <2>2, <2>3 DEF ProcOK
<1>5. HolderOK' /\ (\A t, n : Waiting(t, n)' = Waiting(t, n))
  <2>1. CASE lock # p
    BY <1>1, <1>2, <2>1, HolderKeeps
  <2>2. CASE lock = p
    BY <1>1, <1>2, <1>3, <2>2, ProcFacts DEF HolderOK, Waiting, OldWaits, Replacing, Building
  <2> QED
    BY <2>1, <2>2
<1>6. old' = old /\ old \in Stored \cup {None} /\ (old' # None => Keyed(old')) /\ Locks(p)
  BY <1>1, ProcFacts DEF KeysOK, TablesType, Locks
<1> QED
  BY <1>1, <1>2, <1>4, <1>5, <1>6, WalkEnd

\* The lock holder takes the next item of its request.
LEMMA DeleteFailsInv ==
  ASSUME IInv, NEW p \in Procs, DeleteFails(p)
  PROVE  IInv'
<1> USE DEF manager, history, ticket, dropping, holder, table
<1>1. /\ pc[p] = "delete" /\ todo[p] # <<>> /\ todo' = [todo EXCEPT ![p] = Tail(todo[p])]
      /\ UNCHANGED <<manager, table, maps, lock, pc, kind, req, got, dropping, holder>>
  BY DEF DeleteFails
<1>2. /\ OthersKeep(p) /\ ProcsType' /\ At(p)' = At(p) /\ todo'[p] = Tail(todo[p])
  BY <1>1, ProcFacts DEF OthersKeep, ProcsType, At
<1>3. lock = p /\ kind[p] = "del"
  BY <1>1, ProcFacts DEF StepOK, Holding, Locked, AddSteps, SyncSteps, Building, ProcsType
<1>4. ProcOK(p)'
  <2>1. StepOK(p)'
    BY <1>1, <1>2, ProcFacts DEF StepOK, Holding
  <2>2. RequestOK(p)'
    BY <1>1, <1>2, <1>3, ProcFacts DEF RequestOK, Keying, HasRule
  <2>3. ReplaceOK(p)' /\ BuildOK(p)'
    BY <1>1, <1>2, <1>3, ProcFacts DEF ReplaceOK, BuildOK
  <2> QED
    BY <2>1, <2>2, <2>3 DEF ProcOK
<1>5. HolderOK' /\ (\A s, n : Waiting(s, n)' = Waiting(s, n))
  BY <1>1, <1>2, <1>3, ProcFacts DEF HolderOK, Waiting, OldWaits
<1>6. old' = old /\ old \in Stored \cup {None} /\ (old' # None => Keyed(old')) /\ Locks(p)
  BY <1>1, ProcFacts DEF KeysOK, TablesType, Locks
<1> QED
  BY <1>1, <1>2, <1>4, <1>5, <1>6, WalkEnd

LEMMA SyncItemInv ==
  ASSUME IInv, NEW p \in Procs, SyncItem(p)
  PROVE  IInv'
<1> USE DEF manager, history, ticket, dropping, holder, table
<1>1. PICK l \in {"allocSrc", "item"} :
        /\ pc[p] = "item" /\ todo[p] # <<>> /\ Goto(p, l)
        /\ todo' = [todo EXCEPT ![p] = Tail(todo[p])] /\ req' = [req EXCEPT ![p] = Head(todo[p])]
        /\ UNCHANGED <<manager, table, lock, kind, got, dropping, old, build, retired>>
  BY DEF SyncItem
<1>2. /\ OthersKeep(p) /\ pc'[p] = l /\ At(p)' = l
      /\ todo'[p] = Tail(todo[p]) /\ req'[p] = Head(todo[p])
  BY <1>1, ProcFacts DEF Goto, OthersKeep, ProcsType, At
<1>3. ProcsType'
  BY <1>1, ProcFacts DEF Goto, ProcsType, Steps, SyncSteps, Building
<1>4. /\ lock = p /\ kind[p] = "sync" /\ At(p) = "item"
      /\ got[p]["src"] = 0 /\ got[p]["dst"] = 0 /\ got[p] = NoId
  BY <1>1, ProcFacts DEF StepOK, Holding, Locked, AddSteps, DelSteps, ProcsType, RequestOK,
     Keying, NoId, Sides
<1>5. /\ Tail(todo[p]) \in Seq(Rule) /\ Head(todo[p]) = todo[p][1] /\ 1 \in DOMAIN todo[p]
      /\ Head(todo[p]) \in Rule
      /\ \A m \in DOMAIN Tail(todo[p]) : /\ Tail(todo[p])[m] = todo[p][m + 1] /\ m \in Nat
                                         /\ m + 1 \in DOMAIN todo[p] /\ m + 1 # 1
  BY <1>1, <1>4, ProcFacts, Elements DEF RequestOK
<1>6. ProcOK(p)'
  <2>1. StepOK(p)'
    BY <1>1, <1>2, <1>4, ProcFacts DEF StepOK, Holding, SyncSteps, Building, Locked
  <2>2. RequestOK(p)'
    BY <1>1, <1>2, <1>4, <1>5 DEF RequestOK, Keying, HasRule
  <2>3. ReplaceOK(p)'
    BY <1>1, <1>2, <1>4 DEF ReplaceOK
  <2>4. /\ \A m, k \in DOMAIN todo[p] : todo[p][m].id = todo[p][k].id => m = k
        /\ \A m \in DOMAIN todo[p] : build.rules[todo[p][m].id] = None
    BY <1>4, ProcFacts DEF BuildOK, Building
  <2>5. /\ \A m, k \in DOMAIN todo'[p] : todo'[p][m].id = todo'[p][k].id => m = k
        /\ \A m \in DOMAIN todo'[p] : build.rules[todo'[p][m].id] = None
        /\ build.rules[req'[p].id] = None
        /\ \A m \in DOMAIN todo'[p] : todo'[p][m].id # req'[p].id
    BY <1>2, <1>5, <2>4
  <2>6. BuildOK(p)'
    BY <1>1, <2>5 DEF BuildOK
  <2> QED
    BY <2>1, <2>2, <2>3, <2>6 DEF ProcOK
<1>7. HolderOK' /\ (\A s, n : Waiting(s, n)' = Waiting(s, n))
  BY <1>1, <1>2, <1>4, ProcFacts DEF HolderOK, Waiting, OldWaits, Building, Replacing
<1>8. old' = old /\ old \in Stored \cup {None} /\ (old' # None => Keyed(old')) /\ Locks(p)
  BY <1>1, ProcFacts DEF KeysOK, TablesType, Locks
<1> QED
  BY <1>1, <1>2, <1>3, <1>4, <1>6, <1>7, <1>8, WalkEnd

\* The lock holder remembers the rule its id had.
LEMMA InsertKeyInv ==
  ASSUME IInv, NEW p \in Procs, InsertKey(p)
  PROVE  IInv'
<1> USE DEF manager, history, ticket, dropping, table
<1>1. PICK l \in {"delold", "commit"} :
        /\ pc[p] = "insert" /\ Goto(p, l) /\ old' = cidrRules[req[p].id]
        /\ l = "delold" => cidrRules[req[p].id] # None
        /\ UNCHANGED <<manager, table, lock, ticket, dropping, build, retired>>
  BY DEF InsertKey
<1>2. OthersKeep(p) /\ ProcsType' /\ pc'[p] = l /\ At(p)' = l
  BY <1>1, MoveTypes DEF Steps, AddSteps
<1>3. lock = p /\ kind[p] = "add" /\ At(p) = "insert"
  BY <1>1, ProcFacts DEF StepOK, Holding, Locked, DelSteps, SyncSteps, Building, ProcsType
<1>4. req[p].id \in Ids
  BY <1>3, ProcFacts DEF RequestOK, HasRule, Rule
<1>5. ProcOK(p)'
  <2>1. StepOK(p)'
    BY <1>1, <1>2, <1>3, ProcFacts DEF StepOK, Holding, AddSteps, Locked
  <2>2. RequestOK(p)'
    BY <1>1, <1>2, <1>3, ProcFacts DEF RequestOK, Keying, HasRule
  <2>3. ReplaceOK(p)' /\ BuildOK(p)'
    BY <1>1, <1>2, <1>3, ProcFacts DEF ReplaceOK, BuildOK
  <2> QED
    BY <2>1, <2>2, <2>3 DEF ProcOK
<1>6. HolderOK' /\ (\A s, n : Waiting(s, n)' = Waiting(s, n))
  <2>1. old = None
    BY <1>3, ProcFacts DEF HolderOK, Replacing
  <2>2. ~OldWaits /\ ~OldWaits'
    BY <1>1, <1>2, <1>3, <2>1 DEF OldWaits
  <2>3. HolderOK'
    BY <1>1, <1>2, <1>3, ProcFacts DEF HolderOK, Replacing, Building
  <2> QED
    BY <2>2, <2>3 DEF Waiting
<1>7. old' \in Stored \cup {None} /\ (old' # None => Keyed(old')) /\ Locks(p)
  BY <1>1, <1>4, ProcFacts DEF KeysOK, TablesType, Tables, Locks
<1> QED
  BY <1>1, <1>2, <1>3, <1>5, <1>6, <1>7, WalkEnd

-----------------------------------------------------------------------------
(* Steps that hand references on *)

\* A step without effect on the manager keeps the account if the users of every
\* network stay as many.
LEMMA HandEnd ==
  ASSUME IInv, NEW p \in Procs, OthersKeep(p), Locks(p),
         lock # p => cidrRules' = cidrRules /\ build'.rules = build.rules /\ old' = old,
         UNCHANGED <<cidrs, refs, trie, nextID, leaked>>,
         \A s \in Sides, n \in Nets : Users(s, n)' = Users(s, n),
         TablesType', ProcsType', ProcOK(p)', HolderOK', KeysOK'
  PROVE  IInv'
<1>1. TypeOK'
  BY DEF IInv, TypeOK, ManagerType
<1>2. \A q \in Procs : ProcOK(q)'
  BY OthersOK
<1>3. RefsExact'
  BY DEF IInv, RefsExact
<1>4. ManagerOK' /\ TrieMatches'
  BY DEF IInv, ManagerOK, TrieMatches
<1> QED
  BY <1>1, <1>2, <1>3, <1>4 DEF IInv

\* Rules keep their ids while the trie does.
LEMMA KeysKeep ==
  ASSUME IInv, NEW p \in Procs, OthersKeep(p), trie' = trie,
         got'[p] = NoId \/ (got'[p] = got[p] /\ req'[p] = req[p]),
         \A i \in Ids : cidrRules'[i] # None => Keyed(cidrRules'[i]),
         \A i \in Ids : build'.rules[i] # None => Keyed(build'.rules[i]),
         old' # None => Keyed(old')
  PROVE  KeysOK'
<1>1. \A i \in Ids : /\ cidrRules'[i] # None => Keyed(cidrRules[i])'
                     /\ build'.rules[i] # None => Keyed(build.rules[i])'
  BY DEF Keyed
<1>2. old' # None => Keyed(old)'
  BY DEF Keyed
<1>3. \A q \in Procs, s \in Sides : got'[q][s] # 0 => got'[q][s] = trie'[s][req'[q].net[s]]
  BY DEF IInv, KeysOK, OthersKeep, NoId
<1> QED
  BY <1>1, <1>2, <1>3 DEF KeysOK

\* With both ids at hand the handler holds a reference for each network of the rule,
\* and the key it would write is keyed by them.
LEMMA KeyingFacts ==
  ASSUME IInv, NEW p \in Procs, Keying(p)
  PROVE  /\ req[p] \in Rule /\ req[p].net \in Net \ {NoNet} /\ req[p].id \in Ids
         /\ \A s \in Sides : Held(p)[s] = req[p].net[s]
         /\ [key |-> KeyOf(p), net |-> req[p].net] \in Stored
         /\ Keyed([key |-> KeyOf(p), net |-> req[p].net])
<1>1. req[p] \in Rule
  BY ProcFacts DEF RequestOK, HasRule, Keying, StepOK, AddSteps, DelSteps, SyncSteps, Building,
     ProcsType
<1>2. req[p].net \in Net \ {NoNet} /\ req[p].id \in Ids /\ req[p].port \in Ports
  BY <1>1 DEF Rule
<1>3. got[p] \in [Sides -> Nat]
  BY ProcFacts DEF ProcsType
<1>4. \A s \in Sides : got[p][s] # 0 <=> req[p].net[s] # None
  BY ProcFacts DEF RequestOK, Sides
<1>5. \A s \in Sides : Held(p)[s] = req[p].net[s]
  BY <1>4 DEF Held
<1>6. [key |-> KeyOf(p), net |-> req[p].net] \in Stored
  BY <1>2, <1>3 DEF Stored, Key, KeyOf
<1>7. Keyed([key |-> KeyOf(p), net |-> req[p].net])
  BY <1>4, ProcFacts DEF Keyed, KeysOK, KeyOf
<1> QED
  BY <1>1, <1>2, <1>5, <1>6, <1>7

\* A handler that has handed its references over holds none.
LEMMA HandedOver ==
  ASSUME IInv, NEW p \in Procs, HandOver(p)
  PROVE  /\ got' \in [Procs -> [Sides -> Nat]] /\ got'[p] = NoId
         /\ got'[p]["src"] = 0 /\ got'[p]["dst"] = 0
         /\ \A s \in Sides : (Held(p)[s])' = None
         /\ \A q \in Procs \ {p} : got'[q] = got[q]
BY ProcFacts DEF HandOver, ProcsType, NoId, Held, Sides

\* Where a handler goes on to once its networks are released.
LEMMA ReleaseFacts ==
  ASSUME IInv, NEW p \in Procs, NEW net \in Net, NEW l \in Steps, ReleaseThen(p, net, l)
  PROVE  /\ pc' \in [Procs -> Steps \cup {"drop"}] /\ after' \in [Procs -> Steps]
         /\ drop' \in [Procs -> Net]
         /\ drop'[p] = net /\ pc'[p] \in {l, "drop"} /\ At(p)' = l /\ after'[p] = l
         /\ pc'[p] = "drop" <=> drop'[p] # NoNet
         /\ \A q \in Procs \ {p} : pc'[q] = pc[q] /\ after'[q] = after[q] /\ drop'[q] = drop[q]
<1>1. l # "drop"
  BY DEF Steps, AddSteps, DelSteps, SyncSteps, Building
<1>2. /\ pc' = [pc EXCEPT ![p] = IF net = NoNet THEN l ELSE "drop"]
      /\ drop' = [drop EXCEPT ![p] = net] /\ after' = [after EXCEPT ![p] = l]
  BY DEF ReleaseThen, Goto
<1> QED
  BY <1>1, <1>2, ProcFacts DEF ProcsType, At

\* Nets are not None.
LEMMA NetsFacts ==
  /\ None \notin Nets /\ NoNet \in Net
  /\ \A s \in Sides, n \in Nets : NoNet[s] # n /\ NoNet[s] = None
  /\ \A net \in Net, s \in Sides : net[s] \in Nets \cup {None}
BY CidrAssumption DEF NoNet, Net

\* A refused, aborted or failed rule gives back what it holds.
LEMMA GiveBackInv ==
  ASSUME IInv, NEW p \in Procs, RefuseAdd(p) \/ AbortAdd(p) \/ SyncWriteFails(p)
  PROVE  IInv'
<1> USE DEF manager, history, table
<1>1. PICK l \in {"return", "item"} :
        /\ pc[p] \in {"insert", "abort", "write"} /\ HandOver(p) /\ ReleaseThen(p, req[p].net, l)
        /\ UNCHANGED <<manager, table, kind, todo, req, build, retired>>
        /\ pc[p] \in {"insert", "abort"} => l = "return" /\ lock' = None
        /\ pc[p] = "write" => l = "item" /\ lock' = lock
        /\ old' = old \/ old' = None
        /\ pc[p] = "abort" => old' = None
  <2>1. CASE RefuseAdd(p)
    BY <2>1 DEF RefuseAdd, holder
  <2>2. CASE AbortAdd(p)
    BY <2>2 DEF AbortAdd
  <2>3. CASE SyncWriteFails(p)
    BY <2>3 DEF SyncWriteFails, holder
  <2> QED
    BY <2>1, <2>2, <2>3
<1>2. Keying(p) /\ At(p) = pc[p] /\ lock = p /\ drop[p] = NoNet
  BY <1>1, ProcFacts DEF Keying, StepOK, Holding, Locked
<1>3. /\ req[p].net \in Net /\ req[p] \in Rule
      /\ \A s \in Sides : Held(p)[s] = req[p].net[s]
  BY <1>2, KeyingFacts
<1>4. l \in Steps
  BY DEF Steps, AddSteps, SyncSteps, Building
<1>5. /\ drop'[p] = req[p].net /\ pc'[p] \in {l, "drop"} /\ At(p)' = l /\ after'[p] = l
      /\ pc'[p] = "drop" <=> drop'[p] # NoNet
      /\ got'[p] = NoId /\ got'[p]["src"] = 0 /\ got'[p]["dst"] = 0
      /\ \A s \in Sides : (Held(p)[s])' = None
  BY <1>1, <1>3, <1>4, ReleaseFacts, HandedOver
<1>6. OthersKeep(p) /\ ProcsType' /\ Locks(p)
  BY <1>1, <1>2, <1>3, <1>4, ReleaseFacts, HandedOver, ProcFacts DEF OthersKeep, ProcsType, Locks
<1>7. /\ pc[p] \in {"insert", "abort"} => kind[p] = "add"
      /\ pc[p] = "write" => kind[p] = "sync"
  BY <1>1, <1>2, ProcFacts DEF StepOK, AddSteps, DelSteps, SyncSteps, Building, ProcsType
<1>8. ProcOK(p)'
  <2>1. StepOK(p)'
    BY <1>1, <1>2, <1>5, <1>7, ProcFacts
       DEF StepOK, Holding, AddSteps, SyncSteps, Building, Locked
  <2>2. RequestOK(p)'
    BY <1>1, <1>3, <1>5, <1>7, ProcFacts DEF RequestOK, Keying, HasRule
  <2>3. ReplaceOK(p)'
    BY <1>1, <1>5 DEF ReplaceOK
  <2>4. BuildOK(p)'
    BY <1>1, <1>2, <1>5, <1>7, ProcFacts DEF BuildOK, Building
  <2> QED
    BY <2>1, <2>2, <2>3, <2>4 DEF ProcOK
<1>9. HolderOK' /\ ~OldWaits /\ ~OldWaits'
  BY <1>1, <1>2, <1>5, <1>7, ProcFacts DEF HolderOK, OldWaits, Replacing, Building
<1>10. \A s \in Sides, n \in Nets : Users(s, n)' = Users(s, n)
  <2> SUFFICES ASSUME NEW s \in Sides, NEW n \in Nets PROVE Users(s, n)' = Users(s, n)
    OBVIOUS
  <2>1. Waiting(s, n)' = Waiting(s, n)
    BY <1>9 DEF Waiting
  <2>2. /\ (Held(p)[s] = n)' <=> FALSE
        /\ Held(p)[s] = n <=> drop'[p][s] = n
        /\ drop[p][s] = n <=> FALSE
    BY <1>2, <1>3, <1>5, NetsFacts
  <2> QED
    BY <1>1, <1>6, <2>1, <2>2, Ledger, Parts, PartsNext DEF One
<1>11. TablesType' /\ KeysOK'
  BY <1>1, <1>5, <1>6, ProcFacts, KeysKeep DEF TablesType, KeysOK
<1> QED
  BY <1>1, <1>2, <1>6, <1>8, <1>9, <1>10, <1>11, HandEnd

\* One rule in force changes: what that does to the users of a network.
LEMMA RuleLedger ==
  ASSUME NEW p \in Procs, OthersKeep(p), NEW i \in Ids,
         \A j \in Ids \ {i} : cidrRules'[j] = cidrRules[j],
         build'.rules = build.rules, retired' = retired,
         NEW s \in Sides, NEW n \in Nets
  PROVE  Users(s, n)' = Users(s, n) + Use(cidrRules'[i], s, n) - Use(cidrRules[i], s, n)
                        + Waiting(s, n)' - Waiting(s, n)
                        + One((Held(p)[s] = n)') - One(Held(p)[s] = n)
                        + One(drop'[p][s] = n) - One(drop[p][s] = n)
<1>1. /\ InBuild(s, n)' = InBuild(s, n) /\ Retiring(s, n)' = Retiring(s, n)
  BY DEF InBuild, Retiring, Using
<1>2. InForce(s, n)' = InForce(s, n) + Use(cidrRules'[i], s, n) - Use(cidrRules[i], s, n)
  <2>1. Cardinality(Using(cidrRules', s, n))
          = Cardinality(Using(cidrRules, s, n))
            + Use(cidrRules'[i], s, n) - Use(cidrRules[i], s, n)
    BY TableChange
  <2> QED
    BY <2>1 DEF InForce, Using
<1>3. Use(cidrRules'[i], s, n) \in {0, 1} /\ Use(cidrRules[i], s, n) \in {0, 1}
  BY DEF Use, One
<1> QED
  BY <1>1, <1>2, <1>3, Parts, PartsNext, LocalChange DEF One

\* The new rule takes the references of the handler; the replaced one keeps its own.
LEMMA CommitAddInv ==
  ASSUME IInv, NEW p \in Procs, CommitAdd(p)
  PROVE  IInv'
<1> USE DEF manager, history, dropping
<1> DEFINE new == [key |-> KeyOf(p), net |-> req[p].net]
           id  == req[p].id
<1>1. /\ pc[p] = "commit" /\ HandOver(p) /\ Goto(p, "publish")
      /\ cidrRules' = [cidrRules EXCEPT ![id] = new]
      /\ UNCHANGED <<manager, lock, kind, todo, req, dropping, old, build, retired>>
  BY DEF CommitAdd
<1>2. /\ Keying(p) /\ At(p) = "commit" /\ lock = p /\ drop[p] = NoNet /\ kind[p] = "add"
      /\ old = cidrRules[id]
  BY <1>1, ProcFacts
     DEF Keying, StepOK, Holding, Locked, ReplaceOK, DelSteps, SyncSteps, Building, ProcsType
<1>3. /\ req[p] \in Rule /\ id \in Ids /\ new \in Stored /\ Keyed(new) /\ new # None
      /\ \A s \in Sides : Held(p)[s] = new.net[s]
  BY <1>2, KeyingFacts, CidrAssumption
<1> HIDE DEF new, id
<1>4. /\ OthersKeep(p) /\ ProcsType' /\ Locks(p) /\ pc'[p] = "publish" /\ At(p)' = "publish"
      /\ got'[p] = NoId /\ got'[p]["src"] = 0 /\ got'[p]["dst"] = 0
      /\ \A s \in Sides : (Held(p)[s])' = None
  BY <1>1, <1>2, HandedOver, ProcFacts
     DEF OthersKeep, ProcsType, Locks, Goto, Steps, AddSteps, At
<1>5. /\ TablesType' /\ cidrRules'[id] = new
      /\ \A j \in Ids \ {id} : cidrRules'[j] = cidrRules[j]
      /\ build'.rules = build.rules /\ retired' = retired
  BY <1>1, <1>3, ProcFacts DEF TablesType, Tables
<1>6. ProcOK(p)'
  <2>1. StepOK(p)'
    BY <1>1, <1>2, <1>4, ProcFacts DEF StepOK, Holding, AddSteps, Locked
  <2>2. RequestOK(p)'
    BY <1>1, <1>2, <1>3, <1>4, ProcFacts DEF RequestOK, Keying, HasRule
  <2>3. ReplaceOK(p)' /\ BuildOK(p)'
    BY <1>1, <1>2, <1>3, <1>4, <1>5 DEF ReplaceOK, BuildOK, id
  <2> QED
    BY <2>1, <2>2, <2>3 DEF ProcOK
<1>7. HolderOK' /\ ~OldWaits /\ (OldWaits' <=> old # None)
  BY <1>1, <1>2, <1>4, ProcFacts DEF HolderOK, OldWaits, Replacing, Building
<1>8. \A s \in Sides, n \in Nets : Users(s, n)' = Users(s, n)
  <2> SUFFICES ASSUME NEW s \in Sides, NEW n \in Nets PROVE Users(s, n)' = Users(s, n)
    OBVIOUS
  <2>1. Waiting(s, n)' = Use(cidrRules[id], s, n) /\ Waiting(s, n) = 0
    BY <1>1, <1>2, <1>7 DEF Waiting, Use, Uses, One
  <2>2. /\ (Held(p)[s] = n)' <=> FALSE
        /\ Held(p)[s] = n <=> Uses(new, s, n)
    BY <1>3, <1>4, NetsFacts DEF Uses
  <2>3. Users(s, n)' = Users(s, n) + Use(cidrRules'[id], s, n) - Use(cidrRules[id], s, n)
                       + Waiting(s, n)' - Waiting(s, n)
                       + One((Held(p)[s] = n)') - One(Held(p)[s] = n)
                       + One(drop'[p][s] = n) - One(drop[p][s] = n)
    BY <1>3, <1>4, <1>5, RuleLedger
  <2> QED
    BY <1>1, <1>5, <2>1, <2>2, <2>3, Parts DEF One, Use
<1>9. KeysOK'
  <2>1. \A i \in Ids : cidrRules'[i] # None => Keyed(cidrRules'[i])
    BY <1>1, <1>3, ProcFacts DEF KeysOK, TablesType, Tables
  <2> QED
    BY <1>1, <1>4, <2>1, ProcFacts, KeysKeep DEF KeysOK
<1> QED
  BY <1>1, <1>2, <1>4, <1>5, <1>6, <1>7, <1>8, <1>9, HandEnd

\* The replaced rule's references pass to the handler, which drops them.
LEMMA PublishAddInv ==
  ASSUME IInv, NEW p \in Procs, PublishAdd(p)
  PROVE  IInv'
<1> USE DEF manager, history, table, ticket
<1> DEFINE net == IF old = None THEN NoNet ELSE old.net
<1>1. /\ pc[p] = "publish" /\ kind[p] = "add" /\ ReleaseThen(p, net, "unlock") /\ old' = None
      /\ UNCHANGED <<manager, table, lock, ticket, build, retired>>
  BY DEF PublishAdd
<1>2. At(p) = "publish" /\ lock = p /\ drop[p] = NoNet
  BY <1>1, ProcFacts DEF StepOK, Holding, Locked
<1>3. net \in Net
  BY ProcFacts, NetsFacts DEF TablesType, Stored
<1>4. \A s \in Sides, n \in Nets : net[s] = n <=> (old # None /\ old.net[s] = n)
  BY NetsFacts
<1> HIDE DEF net
<1>5. /\ drop'[p] = net /\ pc'[p] \in {"unlock", "drop"} /\ At(p)' = "unlock"
      /\ after'[p] = "unlock"
      /\ pc'[p] = "drop" <=> drop'[p] # NoNet
  BY <1>1, <1>3, ReleaseFacts DEF Steps, AddSteps
<1>6. OthersKeep(p) /\ ProcsType' /\ Locks(p)
  BY <1>1, <1>2, <1>3, ReleaseFacts, ProcFacts
     DEF OthersKeep, ProcsType, Locks, Steps, AddSteps
<1>7. ProcOK(p)'
  <2>1. StepOK(p)'
    BY <1>1, <1>2, <1>5, ProcFacts DEF StepOK, Holding, AddSteps, Locked
  <2>2. RequestOK(p)'
    BY <1>1, <1>5, ProcFacts DEF RequestOK, Keying, HasRule
  <2>3. ReplaceOK(p)' /\ BuildOK(p)'
    BY <1>1, <1>5 DEF ReplaceOK, BuildOK
  <2> QED
    BY <2>1, <2>2, <2>3 DEF ProcOK
<1>8. HolderOK' /\ (OldWaits <=> old # None) /\ ~OldWaits'
  BY <1>1, <1>2, <1>5, ProcFacts DEF HolderOK, OldWaits, Replacing, Building
<1>9. \A s \in Sides, n \in Nets : Users(s, n)' = Users(s, n)
  <2> SUFFICES ASSUME NEW s \in Sides, NEW n \in Nets PROVE Users(s, n)' = Users(s, n)
    OBVIOUS
  <2>1. Waiting(s, n) = One(net[s] = n) /\ Waiting(s, n)' = 0
    BY <1>4, <1>8 DEF Waiting, One
  <2>2. /\ (Held(p)[s] = n)' <=> Held(p)[s] = n
        /\ drop[p][s] = n <=> FALSE
    BY <1>1, <1>2, NetsFacts DEF Held
  <2> QED
    BY <1>1, <1>5, <1>6, <2>1, <2>2, Ledger, Parts DEF One
<1>10. TablesType' /\ KeysOK'
  BY <1>1, <1>6, ProcFacts, KeysKeep DEF TablesType, KeysOK
<1> QED
  BY <1>1, <1>2, <1>6, <1>7, <1>8, <1>9, <1>10, HandEnd

\* A rollback, and a deletion: the rule's references pass to the handler.
LEMMA TakeOutInv ==
  ASSUME IInv, NEW p \in Procs, RollbackAdd(p) \/ DeleteItem(p)
  PROVE  IInv'
<1> USE DEF manager, history
<1>1. PICK i, l :
        /\ cidrRules[i] # None /\ i \in Ids
        /\ ReleaseThen(p, cidrRules[i].net, l) /\ cidrRules' = [cidrRules EXCEPT ![i] = None]
        /\ UNCHANGED <<manager, lock, kind, req, got, old, build, retired>>
        /\ \/ /\ pc[p] = "rollback" /\ l = (IF old = None THEN "unlock" ELSE "restore")
              /\ i = req[p].id /\ todo' = todo
           \/ /\ pc[p] = "delete" /\ l = "delete"
              /\ todo[p] # <<>> /\ todo' = [todo EXCEPT ![p] = Tail(todo[p])]
  <2>1. CASE RollbackAdd(p)
    <3>1. pc[p] = "rollback" /\ kind[p] = "add"
      BY <2>1, ProcFacts
         DEF RollbackAdd, StepOK, DelSteps, SyncSteps, Building, ProcsType
    <3>2. req[p].id \in Ids /\ cidrRules[req[p].id] # None
      BY <3>1, ProcFacts DEF ReplaceOK, RequestOK, HasRule, Rule
    <3> QED
      BY <2>1, <3>2 DEF RollbackAdd, ticket, holder
  <2>2. CASE DeleteItem(p)
    <3>1. pc[p] = "delete" /\ todo[p] # <<>> /\ kind[p] = "del"
      BY <2>2, ProcFacts DEF DeleteItem, StepOK, AddSteps, SyncSteps, Building, ProcsType
    <3>2. Head(todo[p]) \in Ids
      BY <3>1, ProcFacts, Elements DEF RequestOK
    <3> QED
      BY <2>2, <3>2 DEF DeleteItem, Deletable
  <2> QED
    BY <2>1, <2>2
<1> DEFINE net == cidrRules[i].net
<1>2. /\ At(p) = pc[p] /\ lock = p /\ drop[p] = NoNet
      /\ pc[p] = "rollback" => kind[p] = "add"
      /\ pc[p] = "delete" => kind[p] = "del"
  BY <1>1, ProcFacts
     DEF StepOK, Holding, Locked, AddSteps, DelSteps, SyncSteps, Building, ProcsType
<1>3. net \in Net /\ net # NoNet /\ l \in {"unlock", "restore", "delete"} /\ l \in Steps
  BY <1>1, ProcFacts DEF TablesType, Tables, Stored, Steps, AddSteps, DelSteps
<1>4. \A s \in Sides, n \in Nets : Uses(cidrRules[i], s, n) <=> net[s] = n
  BY <1>1 DEF Uses
<1>5. ReleaseThen(p, net, l)
  BY <1>1
<1> HIDE DEF net
<1>6. /\ drop'[p] = net /\ pc'[p] = "drop" /\ At(p)' = l /\ after'[p] = l
  BY <1>3, <1>5, ReleaseFacts
<1>7. OthersKeep(p) /\ ProcsType' /\ Locks(p)
  BY <1>1, <1>2, <1>3, <1>5, ReleaseFacts, ProcFacts DEF OthersKeep, ProcsType, Locks
<1>8. /\ TablesType' /\ cidrRules'[i] = None
      /\ \A j \in Ids \ {i} : cidrRules'[j] = cidrRules[j]
      /\ build'.rules = build.rules /\ retired' = retired /\ i \in Ids
  BY <1>1, ProcFacts DEF TablesType, Tables
<1>9. ProcOK(p)'
  <2>1. StepOK(p)'
    BY <1>1, <1>2, <1>3, <1>6, ProcFacts DEF StepOK, Holding, AddSteps, DelSteps, Locked
  <2>2. RequestOK(p)'
    <3>1. CASE pc[p] = "rollback"
      BY <1>1, <1>2, <1>6, <3>1, ProcFacts DEF RequestOK, Keying, HasRule
    <3>2. CASE pc[p] = "delete"
      <4>1. todo[p] \in Seq(Ids) /\ todo[p] # <<>> /\ todo'[p] = Tail(todo[p])
        BY <1>1, <1>2, <3>2, ProcFacts DEF RequestOK, ProcsType
      <4>2. Tail(todo[p]) \in Seq(Ids)
        BY <4>1, Elements
      <4> QED
        BY <1>1, <1>2, <1>6, <3>2, <4>1, <4>2, ProcFacts DEF RequestOK, Keying, HasRule
    <3> QED
      BY <1>1, <3>1, <3>2
  <2>3. ReplaceOK(p)' /\ BuildOK(p)'
    BY <1>1, <1>2, <1>6, <1>8, ProcFacts DEF ReplaceOK, BuildOK
  <2> QED
    BY <2>1, <2>2, <2>3 DEF ProcOK
<1>10. HolderOK' /\ (OldWaits' <=> OldWaits)
  BY <1>1, <1>2, <1>6, ProcFacts DEF HolderOK, OldWaits, Replacing, Building
<1>11. \A s \in Sides, n \in Nets : Users(s, n)' = Users(s, n)
  <2> SUFFICES ASSUME NEW s \in Sides, NEW n \in Nets PROVE Users(s, n)' = Users(s, n)
    OBVIOUS
  <2>1. Waiting(s, n)' = Waiting(s, n)
    BY <1>1, <1>10 DEF Waiting
  <2>2. /\ (Held(p)[s] = n)' <=> Held(p)[s] = n
        /\ drop[p][s] = n <=> FALSE
        /\ Uses(None, s, n) <=> FALSE
    BY <1>1, <1>2, NetsFacts DEF Held, Uses
  <2>3. Users(s, n)' = Users(s, n) + Use(cidrRules'[i], s, n) - Use(cidrRules[i], s, n)
                       + Waiting(s, n)' - Waiting(s, n)
                       + One((Held(p)[s] = n)') - One(Held(p)[s] = n)
                       + One(drop'[p][s] = n) - One(drop[p][s] = n)
    BY <1>7, <1>8, RuleLedger
  <2> QED
    BY <1>4, <1>8, <1>6, <2>1, <2>2, <2>3, Parts DEF One, Use
<1>12. KeysOK'
  <2>1. \A j \in Ids : cidrRules'[j] # None => Keyed(cidrRules'[j])
    BY <1>1, ProcFacts DEF KeysOK, TablesType, Tables
  <2> QED
    BY <1>1, <1>7, <2>1, ProcFacts, KeysKeep DEF KeysOK
<1> QED
  BY <1>1, <1>2, <1>7, <1>8, <1>9, <1>10, <1>11, <1>12, HandEnd

\* The replaced rule takes its references back.
LEMMA RestoreOldInv ==
  ASSUME IInv, NEW p \in Procs, RestoreOld(p)
  PROVE  IInv'
<1> USE DEF ticket, dropping
<1> DEFINE id == req[p].id
<1>1. /\ pc[p] = "restore" /\ Goto(p, "unlock") /\ old' = None
      /\ cidrRules' = [cidrRules EXCEPT ![id] = old]
      /\ UNCHANGED <<cidrs, refs, trie, nextID, leaked, lock, ticket, dropping, build, retired>>
  BY DEF RestoreOld
<1>2. /\ At(p) = "restore" /\ lock = p /\ kind[p] = "add" /\ old # None /\ cidrRules[id] = None
      /\ id \in Ids
  BY <1>1, ProcFacts
     DEF StepOK, Holding, Locked, ReplaceOK, DelSteps, SyncSteps, Building, ProcsType, RequestOK,
         HasRule, Rule
<1>3. OthersKeep(p) /\ ProcsType' /\ pc'[p] = "unlock" /\ At(p)' = "unlock" /\ Locks(p)
  BY <1>1, MoveTypes DEF Steps, AddSteps, Locks
<1>4. /\ TablesType' /\ cidrRules'[id] = old
      /\ \A j \in Ids \ {id} : cidrRules'[j] = cidrRules[j]
      /\ build'.rules = build.rules /\ retired' = retired
  BY <1>1, <1>2, ProcFacts DEF TablesType, Tables
<1>5. ProcOK(p)'
  <2>1. StepOK(p)'
    BY <1>1, <1>2, <1>3, ProcFacts DEF StepOK, Holding, AddSteps, Locked
  <2>2. RequestOK(p)'
    BY <1>1, <1>2, <1>3, ProcFacts DEF RequestOK, Keying, HasRule
  <2>3. ReplaceOK(p)' /\ BuildOK(p)'
    BY <1>1, <1>2, <1>3 DEF ReplaceOK, BuildOK
  <2> QED
    BY <2>1, <2>2, <2>3 DEF ProcOK
<1> HIDE DEF id
<1>6. HolderOK' /\ OldWaits /\ ~OldWaits'
  BY <1>1, <1>2, <1>3, ProcFacts DEF HolderOK, OldWaits, Replacing, Building
<1>7. \A s \in Sides, n \in Nets : Users(s, n)' = Users(s, n)
  <2> SUFFICES ASSUME NEW s \in Sides, NEW n \in Nets PROVE Users(s, n)' = Users(s, n)
    OBVIOUS
  <2>1. Waiting(s, n) = Use(old, s, n) /\ Waiting(s, n)' = 0
    BY <1>2, <1>6 DEF Waiting, Use, Uses, One
  <2>2. /\ (Held(p)[s] = n)' <=> Held(p)[s] = n
        /\ Uses(cidrRules[id], s, n) <=> FALSE
    BY <1>1, <1>2 DEF Held, Uses
  <2>3. Users(s, n)' = Users(s, n) + Use(cidrRules'[id], s, n) - Use(cidrRules[id], s, n)
                       + Waiting(s, n)' - Waiting(s, n)
                       + One((Held(p)[s] = n)') - One(Held(p)[s] = n)
                       + One(drop'[p][s] = n) - One(drop[p][s] = n)
    BY <1>2, <1>3, <1>4, RuleLedger
  <2> QED
    BY <1>1, <1>4, <2>1, <2>2, <2>3, Parts DEF One, Use
<1>8. KeysOK'
  <2>1. \A j \in Ids : cidrRules'[j] # None => Keyed(cidrRules'[j])
    BY <1>1, <1>2, ProcFacts DEF KeysOK, TablesType, Tables
  <2> QED
    BY <1>1, <1>3, <2>1, ProcFacts, KeysKeep DEF KeysOK
<1> QED
  BY <1>1, <1>2, <1>3, <1>4, <1>5, <1>6, <1>7, <1>8, HandEnd

\* One rule of the tables of a full sync changes.
LEMMA BuildLedger ==
  ASSUME NEW p \in Procs, OthersKeep(p), NEW i \in Ids,
         \A j \in Ids \ {i} : build'.rules[j] = build.rules[j],
         cidrRules' = cidrRules, retired' = retired,
         NEW s \in Sides, NEW n \in Nets
  PROVE  Users(s, n)' = Users(s, n) + Use(build'.rules[i], s, n) - Use(build.rules[i], s, n)
                        + Waiting(s, n)' - Waiting(s, n)
                        + One((Held(p)[s] = n)') - One(Held(p)[s] = n)
                        + One(drop'[p][s] = n) - One(drop[p][s] = n)
<1>1. /\ InForce(s, n)' = InForce(s, n) /\ Retiring(s, n)' = Retiring(s, n)
  BY DEF InForce, Retiring, Using
<1>2. InBuild(s, n)' = InBuild(s, n) + Use(build'.rules[i], s, n) - Use(build.rules[i], s, n)
  <2> DEFINE t == build.rules
             u == build'.rules
  <2>1. \A j \in Ids \ {i} : u[j] = t[j]
    OBVIOUS
  <2> HIDE DEF t, u
  <2>2. Cardinality(Using(u, s, n))
          = Cardinality(Using(t, s, n)) + Use(u[i], s, n) - Use(t[i], s, n)
    BY <2>1, TableChange
  <2> QED
    BY <2>2 DEF InBuild, Using, t, u
<1>3. Use(build'.rules[i], s, n) \in {0, 1} /\ Use(build.rules[i], s, n) \in {0, 1}
  BY DEF Use, One
<1> QED
  BY <1>1, <1>2, <1>3, Parts, PartsNext, LocalChange DEF One

LEMMA RetireLedger ==
  ASSUME NEW p \in Procs, OthersKeep(p), NEW i \in Ids,
         \A j \in Ids \ {i} : retired'[j] = retired[j],
         cidrRules' = cidrRules, build'.rules = build.rules,
         NEW s \in Sides, NEW n \in Nets
  PROVE  Users(s, n)' = Users(s, n) + Use(retired'[i], s, n) - Use(retired[i], s, n)
                        + Waiting(s, n)' - Waiting(s, n)
                        + One((Held(p)[s] = n)') - One(Held(p)[s] = n)
                        + One(drop'[p][s] = n) - One(drop[p][s] = n)
<1>1. /\ InForce(s, n)' = InForce(s, n) /\ InBuild(s, n)' = InBuild(s, n)
  BY DEF InForce, InBuild, Using
<1>2. Retiring(s, n)' = Retiring(s, n) + Use(retired'[i], s, n) - Use(retired[i], s, n)
  <2>1. Cardinality(Using(retired', s, n))
          = Cardinality(Using(retired, s, n)) + Use(retired'[i], s, n) - Use(retired[i], s, n)
    BY TableChange
  <2> QED
    BY <2>1 DEF Retiring, Using
<1>3. Use(retired'[i], s, n) \in {0, 1} /\ Use(retired[i], s, n) \in {0, 1}
  BY DEF Use, One
<1> QED
  BY <1>1, <1>2, <1>3, Parts, PartsNext, LocalChange DEF One

\* The rule a full sync builds takes the references of the handler.
LEMMA SyncWriteInv ==
  ASSUME IInv, NEW p \in Procs, SyncWrite(p)
  PROVE  IInv'
<1> USE DEF manager, history, dropping, table
<1> DEFINE new == [key |-> KeyOf(p), net |-> req[p].net]
           id  == req[p].id
<1>1. /\ pc[p] = "write" /\ HandOver(p) /\ Goto(p, "item")
      /\ build'.rules = [build.rules EXCEPT ![id] = new]
      /\ UNCHANGED <<manager, table, lock, kind, todo, req, dropping, old, retired>>
  BY DEF SyncWrite
<1>2. Keying(p) /\ At(p) = "write" /\ lock = p /\ drop[p] = NoNet /\ kind[p] = "sync"
  BY <1>1, ProcFacts
     DEF Keying, StepOK, Holding, Locked, AddSteps, DelSteps, ProcsType
<1>3. /\ req[p] \in Rule /\ id \in Ids /\ new \in Stored /\ Keyed(new) /\ new # None
      /\ \A s \in Sides : Held(p)[s] = new.net[s]
  BY <1>2, KeyingFacts, CidrAssumption
<1>4. /\ \A m, k \in DOMAIN todo[p] : todo[p][m].id = todo[p][k].id => m = k
      /\ \A m \in DOMAIN todo[p] : build.rules[todo[p][m].id] = None /\ todo[p][m].id # id
      /\ build.rules[id] = None
  BY <1>1, <1>2, ProcFacts DEF BuildOK, Building
<1>5. \A m \in DOMAIN todo[p] : todo[p][m].id \in Ids
  <2>1. todo[p] \in Seq(Rule)
    BY <1>2, ProcFacts DEF RequestOK
  <2>2. \A m \in DOMAIN todo[p] : todo[p][m] \in Rule
    BY <2>1, Elements
  <2> QED
    BY <2>2 DEF Rule
<1> HIDE DEF new, id
<1>6. /\ OthersKeep(p) /\ ProcsType' /\ Locks(p) /\ pc'[p] = "item" /\ At(p)' = "item"
      /\ got'[p] = NoId /\ got'[p]["src"] = 0 /\ got'[p]["dst"] = 0
      /\ \A s \in Sides : (Held(p)[s])' = None
  BY <1>1, <1>2, HandedOver, ProcFacts
     DEF OthersKeep, ProcsType, Locks, Goto, Steps, SyncSteps, Building, At
<1>7. /\ TablesType' /\ build'.rules[id] = new
      /\ \A j \in Ids \ {id} : build'.rules[j] = build.rules[j]
      /\ cidrRules' = cidrRules /\ retired' = retired
  BY <1>1, <1>3, ProcFacts DEF TablesType, Tables
<1>8. ProcOK(p)'
  <2>1. StepOK(p)'
    BY <1>1, <1>2, <1>6, ProcFacts DEF StepOK, Holding, SyncSteps, Building, Locked
  <2>2. RequestOK(p)'
    BY <1>1, <1>2, <1>3, <1>6, ProcFacts DEF RequestOK, Keying, HasRule
  <2>3. ReplaceOK(p)'
    BY <1>6 DEF ReplaceOK
  <2>4. BuildOK(p)'
    BY <1>1, <1>4, <1>5, <1>6, <1>7 DEF BuildOK
  <2> QED
    BY <2>1, <2>2, <2>3, <2>4 DEF ProcOK
<1>9. HolderOK' /\ ~OldWaits /\ ~OldWaits'
  BY <1>1, <1>2, <1>6, ProcFacts DEF HolderOK, OldWaits, Replacing, Building
<1>10. \A s \in Sides, n \in Nets : Users(s, n)' = Users(s, n)
  <2> SUFFICES ASSUME NEW s \in Sides, NEW n \in Nets PROVE Users(s, n)' = Users(s, n)
    OBVIOUS
  <2>1. Waiting(s, n)' = Waiting(s, n)
    BY <1>9 DEF Waiting
  <2>2. /\ (Held(p)[s] = n)' <=> FALSE
        /\ Held(p)[s] = n <=> Uses(new, s, n)
        /\ Uses(build.rules[id], s, n) <=> FALSE
    BY <1>3, <1>4, <1>6, NetsFacts DEF Uses
  <2>3. Users(s, n)' = Users(s, n) + Use(build'.rules[id], s, n) - Use(build.rules[id], s, n)
                       + Waiting(s, n)' - Waiting(s, n)
                       + One((Held(p)[s] = n)') - One(Held(p)[s] = n)
                       + One(drop'[p][s] = n) - One(drop[p][s] = n)
    BY <1>3, <1>6, <1>7, BuildLedger
  <2> QED
    BY <1>1, <1>7, <2>1, <2>2, <2>3, Parts DEF One, Use
<1>11. KeysOK'
  <2>1. \A i \in Ids : build'.rules[i] # None => Keyed(build'.rules[i])
    BY <1>3, <1>7, ProcFacts DEF KeysOK
  <2> QED
    BY <1>1, <1>6, <2>1, ProcFacts, KeysKeep DEF KeysOK
<1> QED
  BY <1>1, <1>2, <1>6, <1>7, <1>8, <1>9, <1>10, <1>11, HandEnd

\* Nothing in an empty table uses a network.
LEMMA EmptyUses ==
  ASSUME NEW s \in Sides, NEW n \in Nets
  PROVE  Cardinality(Using(EmptyTable, s, n)) = 0
<1>1. Using(EmptyTable, s, n) = {}
  BY DEF Using, EmptyTable
<1> QED
  BY <1>1, FS_EmptySet

\* A full sync ends: what it built, or what it replaced, is retired.
LEMMA SyncEndInv ==
  ASSUME IInv, NEW p \in Procs, SyncAbort(p) \/ SyncFlip(p)
  PROVE  IInv'
<1> USE DEF manager, history, dropping, ticket
<1>1. PICK l \in {"release", "retire"} :
        /\ pc[p] = "item" /\ Goto(p, l) /\ build'.rules = EmptyTable
        /\ UNCHANGED <<manager, lock, ticket, dropping, old>>
        /\ \/ retired' = build.rules /\ cidrRules' = cidrRules
           \/ retired' = cidrRules /\ cidrRules' = build.rules
  BY DEF SyncAbort, SyncFlip, EmptyBuild, table
<1>2. /\ At(p) = "item" /\ lock = p /\ drop[p] = NoNet /\ kind[p] = "sync"
      /\ retired = EmptyTable /\ old = None
  BY <1>1, ProcFacts
     DEF StepOK, Holding, Locked, AddSteps, DelSteps, ProcsType, HolderOK
<1>3. OthersKeep(p) /\ ProcsType' /\ pc'[p] = l /\ At(p)' = l /\ Locks(p)
  BY <1>1, MoveTypes DEF Steps, SyncSteps, Locks
<1>4. TablesType'
  BY <1>1, ProcFacts DEF TablesType, Tables, EmptyTable
<1>5. ProcOK(p)'
  <2>1. StepOK(p)'
    BY <1>1, <1>2, <1>3, ProcFacts DEF StepOK, Holding, SyncSteps, Locked
  <2>2. RequestOK(p)'
    BY <1>1, <1>2, <1>3, ProcFacts DEF RequestOK, Keying, HasRule
  <2>3. ReplaceOK(p)' /\ BuildOK(p)'
    BY <1>1, <1>2, <1>3, ProcFacts DEF ReplaceOK, BuildOK, Building
  <2> QED
    BY <2>1, <2>2, <2>3 DEF ProcOK
<1>6. HolderOK' /\ ~OldWaits /\ ~OldWaits'
  BY <1>1, <1>2, <1>3, ProcFacts DEF HolderOK, OldWaits
<1>7. \A s \in Sides, n \in Nets : Users(s, n)' = Users(s, n)
  <2> SUFFICES ASSUME NEW s \in Sides, NEW n \in Nets PROVE Users(s, n)' = Users(s, n)
    OBVIOUS
  <2>1. Waiting(s, n)' = Waiting(s, n)
    BY <1>6 DEF Waiting
  <2>2. Taken(s, n)' = Taken(s, n) /\ Dropping(s, n)' = Dropping(s, n)
    BY <1>1 DEF Taken, Dropping, Held
  <2>3. InBuild(s, n)' = 0 /\ Retiring(s, n) = 0
    BY <1>1, <1>2, EmptyUses DEF InBuild, Retiring, Using
  <2>4. \/ Retiring(s, n)' = InBuild(s, n) /\ InForce(s, n)' = InForce(s, n)
        \/ Retiring(s, n)' = InForce(s, n) /\ InForce(s, n)' = InBuild(s, n)
    BY <1>1 DEF InBuild, Retiring, InForce, Using
  <2> QED
    BY <2>1, <2>2, <2>3, <2>4, Parts, PartsNext
<1>8. KeysOK'
  <2>1. \A i \in Ids : /\ cidrRules'[i] # None => Keyed(cidrRules'[i])
                       /\ build'.rules[i] # None => Keyed(build'.rules[i])
    BY <1>1, ProcFacts DEF KeysOK, EmptyTable
  <2> QED
    BY <1>1, <1>2, <1>3, <2>1, KeysKeep
<1> QED
  BY <1>1, <1>2, <1>3, <1>4, <1>5, <1>6, <1>7, <1>8, HandEnd

\* A retired rule's references pass to the handler.
LEMMA SyncReleaseInv ==
  ASSUME IInv, NEW p \in Procs, SyncRelease(p)
  PROVE  IInv'
<1> USE DEF manager, history, table, ticket
<1>1. PICK i \in Ids :
        /\ pc[p] \in {"release", "retire"} /\ retired[i] # None
        /\ retired' = [retired EXCEPT ![i] = None] /\ ReleaseThen(p, retired[i].net, pc[p])
        /\ UNCHANGED <<manager, table, lock, ticket, old, build>>
  BY DEF SyncRelease
<1> DEFINE net == retired[i].net
<1>2. At(p) = pc[p] /\ lock = p /\ drop[p] = NoNet /\ kind[p] = "sync"
  BY <1>1, ProcFacts DEF StepOK, Holding, Locked, AddSteps, DelSteps, ProcsType
<1>3. net \in Net /\ net # NoNet /\ pc[p] \in Steps
  BY <1>1, ProcFacts DEF TablesType, Tables, Stored, Steps, SyncSteps
<1>4. ReleaseThen(p, net, pc[p]) /\ \A s \in Sides, n \in Nets : Uses(retired[i], s, n) <=> net[s] = n
  BY <1>1 DEF Uses
<1> HIDE DEF net
<1>5. drop'[p] = net /\ pc'[p] = "drop" /\ At(p)' = pc[p] /\ after'[p] = pc[p]
  BY <1>3, <1>4, ReleaseFacts
<1>6. OthersKeep(p) /\ ProcsType' /\ Locks(p)
  BY <1>1, <1>2, <1>3, <1>4, ReleaseFacts, ProcFacts DEF OthersKeep, ProcsType, Locks
<1>7. /\ TablesType' /\ retired'[i] = None
      /\ \A j \in Ids \ {i} : retired'[j] = retired[j]
      /\ cidrRules' = cidrRules /\ build'.rules = build.rules
  BY <1>1, ProcFacts DEF TablesType, Tables
<1>8. ProcOK(p)'
  <2>1. StepOK(p)'
    BY <1>1, <1>2, <1>3, <1>5, ProcFacts DEF StepOK, Holding, SyncSteps, Locked
  <2>2. RequestOK(p)'
    BY <1>1, <1>2, <1>5, ProcFacts DEF RequestOK, Keying, HasRule
  <2>3. ReplaceOK(p)' /\ BuildOK(p)'
    BY <1>1, <1>2, <1>5, ProcFacts DEF ReplaceOK, BuildOK, Building
  <2> QED
    BY <2>1, <2>2, <2>3 DEF ProcOK
<1>9. HolderOK' /\ ~OldWaits /\ ~OldWaits'
  BY <1>1, <1>2, <1>5, ProcFacts DEF HolderOK, OldWaits, Building
<1>10. \A s \in Sides, n \in Nets : Users(s, n)' = Users(s, n)
  <2> SUFFICES ASSUME NEW s \in Sides, NEW n \in Nets PROVE Users(s, n)' = Users(s, n)
    OBVIOUS
  <2>1. Waiting(s, n)' = Waiting(s, n)
    BY <1>9 DEF Waiting
  <2>2. /\ (Held(p)[s] = n)' <=> Held(p)[s] = n
        /\ drop[p][s] = n <=> FALSE
        /\ Uses(None, s, n) <=> FALSE
    BY <1>1, <1>2, NetsFacts DEF Held, Uses
  <2>3. Users(s, n)' = Users(s, n) + Use(retired'[i], s, n) - Use(retired[i], s, n)
                       + Waiting(s, n)' - Waiting(s, n)
                       + One((Held(p)[s] = n)') - One(Held(p)[s] = n)
                       + One(drop'[p][s] = n) - One(drop[p][s] = n)
    BY <1>6, <1>7, RetireLedger
  <2> QED
    BY <1>4, <1>5, <1>7, <2>1, <2>2, <2>3, Parts DEF One, Use
<1>11. KeysOK'
  BY <1>1, <1>6, ProcFacts, KeysKeep DEF KeysOK
<1> QED
  BY <1>1, <1>2, <1>6, <1>7, <1>8, <1>9, <1>10, <1>11, HandEnd

-----------------------------------------------------------------------------
(* Allocation and release: why no id goes away under a rule *)

\* The rule an add replaces is still in the table, or waits for the publish.
LEMMA OldCounted ==
  ASSUME IInv, old # None
  PROVE  OldWaits \/ \E i \in Ids : cidrRules[i] = old
<1>1. /\ lock \in Procs /\ kind[lock] = "add" /\ At(lock) \in Replacing
      /\ ReplaceOK(lock) /\ RequestOK(lock)
  BY DEF IInv, TypeOK, ProcsType, HolderOK, ProcOK
<1>2. CASE pc[lock] \in {"delold", "abort", "commit"}
  <2>1. req[lock].id \in Ids /\ old = cidrRules[req[lock].id]
    BY <1>1, <1>2 DEF ReplaceOK, RequestOK, HasRule, Rule
  <2> QED
    BY <2>1
<1>3. CASE pc[lock] \in {"publish", "rollback", "restore", "drop"}
  BY <1>1, <1>3, CidrAssumption DEF OldWaits
<1> QED
  BY <1>1, <1>2, <1>3 DEF At, Replacing

\* Nobody who counts uses the network: no rule and no add has its id.
NotUsed(s, n) ==
  /\ \A i \in Ids : ~Uses(cidrRules[i], s, n) /\ ~Uses(build.rules[i], s, n)
  /\ ~Uses(old, s, n)
  /\ \A p \in Procs : Held(p)[s] # n

LEMMA Unused ==
  ASSUME IInv, NEW s \in Sides, NEW n \in Nets,
         InForce(s, n) = 0, InBuild(s, n) = 0, Waiting(s, n) = 0, Taken(s, n) = 0
  PROVE  NotUsed(s, n)
<1>1. /\ \A i \in Ids : ~Uses(cidrRules[i], s, n) /\ ~Uses(build.rules[i], s, n)
      /\ \A p \in Procs : Held(p)[s] # n
  BY Holders
<1>2. ~Uses(old, s, n)
  <2> SUFFICES ASSUME old # None, old.net[s] = n PROVE FALSE
    BY DEF Uses
  <2>1. ~OldWaits
    BY DEF Waiting, One
  <2>2. PICK i \in Ids : cidrRules[i] = old
    BY <2>1, OldCounted
  <2> QED
    BY <1>1, <2>2 DEF Uses
<1> QED
  BY <1>1, <1>2 DEF NotUsed

\* A network without a count has no user; the last reference is the one the handler
\* releases, so that after it no rule and no add has the id.
LEMMA NoCount ==
  ASSUME IInv, NEW s \in Sides, NEW n \in Nets
  PROVE  refs[s][n] = 0 => NotUsed(s, n)
<1>1. /\ refs[s][n] = Users(s, n) + leaked[s][n] /\ leaked[s][n] \in Nat
      /\ refs[s][n] \in Nat
  BY DEF IInv, RefsExact, TypeOK, ManagerType, Counts
<1>2. refs[s][n] < 1 =>
        InForce(s, n) < 1 /\ InBuild(s, n) < 1 /\ Waiting(s, n) < 1 /\ Taken(s, n) < 1
  BY <1>1, Parts
<1>3. refs[s][n] = 0 =>
        InForce(s, n) = 0 /\ InBuild(s, n) = 0 /\ Waiting(s, n) = 0 /\ Taken(s, n) = 0
  BY <1>2, Parts
<1> QED
  BY <1>3, Unused

LEMMA LastUser ==
  ASSUME IInv, NEW p \in Procs, NEW s \in Sides, NEW n \in Nets, drop[p][s] = n
  PROVE  /\ refs[s][n] \in Nat /\ refs[s][n] >= 1
         /\ refs[s][n] = 1 => NotUsed(s, n)
<1>1. /\ refs[s][n] = Users(s, n) + leaked[s][n] /\ leaked[s][n] \in Nat
      /\ refs[s][n] \in Nat
  BY DEF IInv, RefsExact, TypeOK, ManagerType, Counts
<1>2. Dropping(s, n) >= 1
  BY Holders
<1>3. refs[s][n] >= 1
  BY <1>1, <1>2, Parts
<1>4. refs[s][n] = 1 =>
        InForce(s, n) = 0 /\ InBuild(s, n) = 0 /\ Waiting(s, n) = 0 /\ Taken(s, n) = 0
  BY <1>1, <1>2, Parts
<1> QED
  BY <1>1, <1>3, <1>4, Unused

\* A handler's id is that of a network of its rule.
LEMMA GotFacts ==
  ASSUME IInv, NEW q \in Procs, NEW t \in Sides, got[q][t] # 0
  PROVE  req[q] \in Rule /\ req[q].net[t] \in Nets /\ Held(q)[t] = req[q].net[t]
<1>1. Keying(q) \/ pc[q] = "allocDst"
  BY ProcFacts DEF RequestOK, Sides
<1>2. req[q] \in Rule
  BY <1>1, ProcFacts DEF RequestOK, HasRule, Keying, StepOK, AddSteps, DelSteps, SyncSteps,
     Building, ProcsType
<1>3. req[q].net[t] # None
  BY ProcFacts DEF RequestOK, Sides
<1>4. req[q].net \in Net
  BY <1>2 DEF Rule
<1>5. req[q].net[t] \in Nets
  BY <1>3, <1>4 DEF Net
<1> QED
  BY <1>2, <1>5 DEF Held

\* The ids of all others stay when the id of an unused network changes.
LEMMA KeysStay ==
  ASSUME IInv, NEW s \in Sides, NEW n \in Nets, NotUsed(s, n),
         \A t \in Sides, m \in Nets : t # s \/ m # n => trie'[t][m] = trie[t][m],
         UNCHANGED <<cidrRules, build, old>>
  PROVE  /\ \A i \in Ids : cidrRules'[i] # None => Keyed(cidrRules[i])'
         /\ \A i \in Ids : build'.rules[i] # None => Keyed(build.rules[i])'
         /\ old' # None => Keyed(old)'
         /\ \A q \in Procs, t \in Sides : got[q][t] # 0 => got[q][t] = trie'[t][req[q].net[t]]
<1>1. ASSUME NEW r \in Stored, Keyed(r), ~Uses(r, s, n), NEW t \in Sides
      PROVE  IF r.net[t] = None THEN r.key.id[t] = 0
             ELSE r.key.id[t] = trie'[t][r.net[t]] /\ r.key.id[t] # 0
  <2>1. r # None /\ r.net[t] \in Nets \cup {None}
    BY CidrAssumption, NetsFacts DEF Stored
  <2>2. r.net[t] # None => trie'[t][r.net[t]] = trie[t][r.net[t]]
    BY <1>1, <2>1 DEF Uses
  <2> QED
    BY <1>1, <2>2 DEF Keyed
<1>2. \A i \in Ids : cidrRules[i] \in Stored \cup {None} /\ build.rules[i] \in Stored \cup {None}
  BY ProcFacts DEF IInv, TypeOK, TablesType, Tables
<1>3. old \in Stored \cup {None} /\ KeysOK
  BY DEF IInv, TypeOK, TablesType
<1>4. \A i \in Ids : cidrRules'[i] # None => Keyed(cidrRules[i])'
  BY <1>1, <1>2, <1>3 DEF KeysOK, NotUsed, Keyed
<1>5. \A i \in Ids : build'.rules[i] # None => Keyed(build.rules[i])'
  BY <1>1, <1>2, <1>3 DEF KeysOK, NotUsed, Keyed
<1>6. old' # None => Keyed(old)'
  BY <1>1, <1>3 DEF KeysOK, NotUsed, Keyed
<1>7. \A q \in Procs, t \in Sides : got[q][t] # 0 => got[q][t] = trie'[t][req[q].net[t]]
  BY <1>3, GotFacts DEF KeysOK, NotUsed
<1> QED
  BY <1>4, <1>5, <1>6, <1>7

\* Two tables of counts are equal on a side when they agree on every network.
LEMMA SameSide ==
  ASSUME NEW c \in Counts, NEW d \in Counts, NEW s \in Sides,
         \A n \in Nets : c[s][n] = d[s][n]
  PROVE  c[s] = d[s]
BY DEF Counts

\* A handler takes a reference for a network, of an id that is known or new.
LEMMA AllocGotInv ==
  ASSUME IInv, NEW p \in Procs, NEW s \in Sides, NEW l, NEW next,
         AllocKnown(p, s, l, next) \/ AllocNew(p, s, l, next),
         \/ s = "src" /\ l = "allocSrc" /\ next = "allocDst"
         \/ s = "dst" /\ l = "allocDst" /\ next = Allocated(p)
  PROVE  IInv'
<1> USE DEF history, table, dropping, holder
<1> DEFINE n == req[p].net[s]
           id == IF cidrs[s][n] = 0 THEN nextID ELSE cidrs[s][n]
<1>1. pc[p] = l /\ l \in {"allocSrc", "allocDst"} /\ n # None
  BY DEF AllocKnown, AllocNew
<1>2. kind[p] \in {"add", "sync"} /\ At(p) = l /\ (lock = p <=> kind[p] = "sync") /\ drop[p] = NoNet
  BY <1>1, ProcFacts DEF StepOK, Holding, DelSteps, Locked, ProcsType
<1>3. req[p] \in Rule /\ n \in Nets
  <2>1. req[p] \in Rule
    BY <1>1, <1>2, ProcFacts DEF RequestOK, HasRule
  <2> QED
    BY <1>1, <2>1, NetsFacts DEF Rule
<1>4. /\ cidrs[s][n] \in Nat /\ refs[s][n] \in Nat /\ trie[s][n] = cidrs[s][n]
      /\ cidrs[s][n] = 0 <=> refs[s][n] = 0
      /\ nextID \in Nat \ {0}
      /\ cidrs \in Counts /\ refs \in Counts /\ trie \in Counts
  BY <1>3 DEF IInv, TypeOK, ManagerType, Counts, ManagerOK, TrieMatches
<1>5. /\ got' = [got EXCEPT ![p][s] = id] /\ Goto(p, next) /\ id \in Nat \ {0}
      /\ UNCHANGED <<leaked, table, lock, kind, todo, req, dropping, holder>>
  BY <1>4 DEF AllocKnown, AllocNew
<1>6. /\ cidrs' \in Counts /\ refs' \in Counts /\ trie' \in Counts /\ nextID' \in Nat \ {0}
      /\ cidrs'[s][n] = id /\ trie'[s][n] = id /\ refs'[s][n] = refs[s][n] + 1
      /\ \A t \in Sides, m \in Nets : t # s \/ m # n =>
           /\ cidrs'[t][m] = cidrs[t][m] /\ trie'[t][m] = trie[t][m] /\ refs'[t][m] = refs[t][m]
      /\ nextID' >= nextID /\ id < nextID'
      /\ cidrs[s][n] = 0 => id = nextID
      /\ cidrs[s][n] # 0 => trie' = trie
  <2>1. CASE cidrs[s][n] # 0
    <3>1. /\ refs' = [refs EXCEPT ![s][n] = refs[s][n] + 1]
          /\ UNCHANGED <<cidrs, trie, nextID>> /\ id = cidrs[s][n]
      BY <2>1 DEF AllocKnown, AllocNew
    <3>2. cidrs[s][n] < nextID
      BY <1>3 DEF IInv, ManagerOK
    <3> HIDE DEF n, id
    <3>3. /\ refs' \in Counts /\ refs'[s][n] = refs[s][n] + 1
          /\ \A t \in Sides, m \in Nets : t # s \/ m # n => refs'[t][m] = refs[t][m]
      BY <1>3, <1>4, <3>1 DEF Counts
    <3> QED
      BY <1>3, <1>4, <2>1, <3>1, <3>2, <3>3
  <2>2. CASE cidrs[s][n] = 0
    <3>1. /\ nextID' = nextID + 1 /\ id = nextID
          /\ trie' = [trie EXCEPT ![s][n] = nextID] /\ cidrs' = [cidrs EXCEPT ![s][n] = nextID]
          /\ refs' = [refs EXCEPT ![s][n] = 1]
      BY <2>2 DEF AllocKnown, AllocNew
    <3>2. refs[s][n] + 1 = 1
      BY <1>4, <2>2
    <3> HIDE DEF n, id
    <3>3. /\ refs' \in Counts /\ refs'[s][n] = 1
          /\ \A t \in Sides, m \in Nets : t # s \/ m # n => refs'[t][m] = refs[t][m]
      BY <1>3, <1>4, <3>1 DEF Counts
    <3>4. /\ cidrs' \in Counts /\ cidrs'[s][n] = nextID
          /\ \A t \in Sides, m \in Nets : t # s \/ m # n => cidrs'[t][m] = cidrs[t][m]
      BY <1>3, <1>4, <3>1 DEF Counts
    <3>5. /\ trie' \in Counts /\ trie'[s][n] = nextID
          /\ \A t \in Sides, m \in Nets : t # s \/ m # n => trie'[t][m] = trie[t][m]
      BY <1>3, <1>4, <3>1 DEF Counts
    <3> QED
      BY <1>4, <2>2, <3>1, <3>2, <3>3, <3>4, <3>5
  <2> QED
    BY <2>1, <2>2
<1> HIDE DEF id
<1>7. next \in {"allocDst", "lock", "write"} /\ (l = "allocDst" => next = Allocated(p))
      /\ (l = "allocSrc" => s = "src" /\ next = "allocDst")
      /\ (l = "allocDst" => s = "dst")
  BY DEF Allocated
<1>8. /\ OthersKeep(p) /\ ProcsType' /\ pc'[p] = next /\ At(p)' = next
      /\ got'[p][s] = id /\ \A t \in Sides \ {s} : got'[p][t] = got[p][t]
  BY <1>5, <1>7, ProcFacts
     DEF Goto, OthersKeep, ProcsType, At, Steps, AddSteps, SyncSteps, Building
<1>9. got[p][s] = 0
  BY <1>1, <1>7, ProcFacts DEF RequestOK, Keying
<1>10. ProcOK(p)'
  <2>1. StepOK(p)'
    BY <1>1, <1>2, <1>5, <1>7, <1>8, ProcFacts
       DEF StepOK, Holding, AddSteps, SyncSteps, Building, Locked, Allocated
  <2>2. RequestOK(p)'
    <3>1. CASE l = "allocSrc"
      BY <1>1, <1>2, <1>3, <1>5, <1>7, <1>8, <3>1, ProcFacts
         DEF RequestOK, Keying, HasRule, Sides
    <3>2. CASE l = "allocDst"
      BY <1>1, <1>2, <1>3, <1>5, <1>7, <1>8, <3>2, ProcFacts
         DEF RequestOK, Keying, HasRule, Sides, Allocated
    <3> QED
      BY <1>1, <3>1, <3>2
  <2>3. ReplaceOK(p)' /\ BuildOK(p)'
    BY <1>1, <1>2, <1>5, <1>7, <1>8, ProcFacts DEF ReplaceOK, BuildOK, Building
  <2> QED
    BY <2>1, <2>2, <2>3 DEF ProcOK
<1>11. \A q \in Procs : ProcOK(q)'
  BY <1>5, <1>8, <1>10, OthersOK DEF Locks
<1>12. HolderOK' /\ (\A t, m : Waiting(t, m)' = Waiting(t, m))
  <2>1. CASE lock # p
    BY <1>5, <1>8, <2>1, HolderKeeps
  <2>2. CASE lock = p
    BY <1>1, <1>2, <1>5, <1>7, <1>8, <2>2, ProcFacts
       DEF HolderOK, Waiting, OldWaits, Replacing, Building, Allocated
  <2> QED
    BY <2>1, <2>2
<1>13. TypeOK'
  BY <1>5, <1>6, <1>8 DEF IInv, TypeOK, ManagerType, TablesType
<1>14. RefsExact'
  <2> SUFFICES ASSUME NEW t \in Sides, NEW m \in Nets
               PROVE  refs'[t][m] = Users(t, m)' + leaked'[t][m]
    BY DEF RefsExact
  <2>1. Users(t, m)' = Users(t, m) + One((Held(p)[t] = m)') - One(Held(p)[t] = m)
    BY <1>5, <1>8, <1>12, Ledger, Parts DEF One
  <2>2. refs[t][m] = Users(t, m) + leaked[t][m] /\ leaked[t][m] \in Nat
    BY DEF IInv, RefsExact, TypeOK, ManagerType, Counts
  <2>3. CASE t = s /\ m = n
    <3>1. ~(Held(p)[t] = m) /\ (Held(p)[t] = m)'
      BY <1>1, <1>5, <1>8, <1>9, <2>3 DEF Held
    <3> QED
      BY <1>5, <1>6, <2>1, <2>2, <2>3, <3>1, Parts DEF One
  <2>4. CASE t # s \/ m # n
    <3>1. (Held(p)[t] = m)' <=> Held(p)[t] = m
      BY <1>1, <1>3, <1>5, <1>8, <1>9, <2>4, NetsFacts DEF Held
    <3> QED
      BY <1>5, <1>6, <2>1, <2>2, <2>4, <3>1, Parts DEF One
  <2> QED
    BY <2>3, <2>4
<1>15. /\ \A t \in Sides, m \in Nets :
            /\ cidrs[t][m] \in Nat /\ cidrs[t][m] < nextID /\ cidrs[t][m] = trie[t][m]
            /\ cidrs[t][m] = 0 <=> refs[t][m] = 0
       /\ \A t \in Sides, m, k \in Nets : cidrs[t][m] = cidrs[t][k] /\ m # k => cidrs[t][m] = 0
  BY DEF IInv, ManagerOK, TrieMatches, TypeOK, ManagerType, Counts
<1>16. ManagerOK'
  BY <1>4, <1>5, <1>6, <1>15 DEF ManagerOK
<1>17. TrieMatches'
  <2>1. \A t \in Sides, m \in Nets : cidrs'[t][m] = trie'[t][m]
    BY <1>6, <1>15
  <2>2. \A t \in Sides : cidrs'[t] = trie'[t]
    BY <1>6, <2>1, SameSide
  <2>3. ASSUME NEW t \in Sides, NEW m \in Nets, NEW k \in Nets,
               cidrs'[t][m] = cidrs'[t][k], m # k
        PROVE  cidrs'[t][m] = 0
    BY <1>3, <1>5, <1>6, <1>15, <2>3
  <2> QED
    BY <2>2, <2>3 DEF TrieMatches
<1>18. KeysOK'
  <2>1. CASE cidrs[s][n] # 0
    <3>1. /\ \A i \in Ids : cidrRules'[i] # None => Keyed(cidrRules[i])'
          /\ \A i \in Ids : build'.rules[i] # None => Keyed(build.rules[i])'
          /\ old' # None => Keyed(old)'
      BY <1>5, <1>6, <2>1, ProcFacts DEF KeysOK, Keyed
    <3>2. \A q \in Procs, t \in Sides :
            got'[q][t] # 0 => got'[q][t] = trie'[t][req'[q].net[t]]
      BY <1>5, <1>6, <1>8, <2>1, ProcFacts DEF KeysOK, OthersKeep
    <3> QED
      BY <3>1, <3>2 DEF KeysOK
  <2>2. CASE cidrs[s][n] = 0
    <3>1. NotUsed(s, n)
      BY <1>3, <1>4, <2>2, NoCount
    <3>2. /\ \A i \in Ids : cidrRules'[i] # None => Keyed(cidrRules[i])'
          /\ \A i \in Ids : build'.rules[i] # None => Keyed(build.rules[i])'
          /\ old' # None => Keyed(old)'
          /\ \A q \in Procs, t \in Sides :
               got[q][t] # 0 => got[q][t] = trie'[t][req[q].net[t]]
      BY <1>3, <1>5, <1>6, <3>1, KeysStay
    <3>3. \A q \in Procs, t \in Sides :
            got'[q][t] # 0 => got'[q][t] = trie'[t][req'[q].net[t]]
      BY <1>5, <1>6, <1>8, <3>2 DEF OthersKeep
    <3> QED
      BY <3>2, <3>3 DEF KeysOK
  <2> QED
    BY <2>1, <2>2
<1> QED
  BY <1>11, <1>12, <1>13, <1>14, <1>15, <1>16, <1>17, <1>18 DEF IInv

\* The trie refuses a new network: what the other side got passes to the release.
LEMMA AllocFailsInv ==
  ASSUME IInv, NEW p \in Procs, NEW s \in Sides, NEW l, AllocFails(p, s, l),
         l \in {"allocSrc", "allocDst"}
  PROVE  IInv'
<1> USE DEF history, table
<1> DEFINE to  == IF kind[p] = "sync" THEN "item" ELSE "return"
           net == Held(p)
<1>1. /\ pc[p] = l /\ HandOver(p) /\ ReleaseThen(p, net, to) /\ nextID' = nextID + 1
      /\ UNCHANGED <<cidrs, refs, trie, leaked, table, lock, kind, todo, req, old, build, retired>>
  BY DEF AllocFails
<1>2. kind[p] \in {"add", "sync"} /\ At(p) = l /\ (lock = p <=> kind[p] = "sync") /\ drop[p] = NoNet
  BY <1>1, ProcFacts DEF StepOK, Holding, DelSteps, Locked, ProcsType
<1>3. to \in Steps /\ net \in Net
  <2>1. \A t \in Sides : got[p][t] # 0 => req[p].net[t] \in Nets
    BY GotFacts
  <2> QED
    BY <2>1 DEF Held, Net, Steps, AddSteps, SyncSteps, Building
<1>4. \A t \in Sides : net[t] = Held(p)[t]
  OBVIOUS
<1> HIDE DEF net
<1>5. /\ drop'[p] = net /\ pc'[p] \in {to, "drop"} /\ At(p)' = to /\ after'[p] = to
      /\ pc'[p] = "drop" <=> drop'[p] # NoNet
      /\ got'[p] = NoId /\ got'[p]["src"] = 0 /\ got'[p]["dst"] = 0
      /\ \A t \in Sides : (Held(p)[t])' = None
  BY <1>1, <1>3, ReleaseFacts, HandedOver
<1>6. OthersKeep(p) /\ ProcsType' /\ Locks(p)
  BY <1>1, <1>3, ReleaseFacts, HandedOver, ProcFacts DEF OthersKeep, ProcsType, Locks
<1>7. ProcOK(p)'
  <2>1. StepOK(p)'
    BY <1>1, <1>2, <1>5, ProcFacts
       DEF StepOK, Holding, AddSteps, SyncSteps, Building, Locked
  <2>2. RequestOK(p)'
    BY <1>1, <1>2, <1>5, ProcFacts DEF RequestOK, Keying, HasRule
  <2>3. ReplaceOK(p)' /\ BuildOK(p)'
    BY <1>1, <1>2, <1>5, ProcFacts DEF ReplaceOK, BuildOK, Building
  <2> QED
    BY <2>1, <2>2, <2>3 DEF ProcOK
<1>8. \A q \in Procs : ProcOK(q)'
  BY <1>1, <1>6, <1>7, OthersOK
<1>9. HolderOK' /\ (\A t, m : Waiting(t, m)' = Waiting(t, m))
  <2>1. CASE lock # p
    BY <1>1, <1>6, <2>1, HolderKeeps
  <2>2. CASE lock = p
    BY <1>1, <1>2, <1>5, <2>2, ProcFacts DEF HolderOK, Waiting, OldWaits, Replacing, Building
  <2> QED
    BY <2>1, <2>2
<1>10. TypeOK'
  BY <1>1, <1>6 DEF IInv, TypeOK, ManagerType, TablesType
<1>11. RefsExact'
  <2> SUFFICES ASSUME NEW t \in Sides, NEW m \in Nets
               PROVE  refs'[t][m] = Users(t, m)' + leaked'[t][m]
    BY DEF RefsExact
  <2>1. /\ (Held(p)[t] = m)' <=> FALSE
        /\ Held(p)[t] = m <=> drop'[p][t] = m
        /\ drop[p][t] = m <=> FALSE
    BY <1>2, <1>4, <1>5, NetsFacts
  <2>2. Users(t, m)' = Users(t, m)
    BY <1>1, <1>6, <1>9, <2>1, Ledger, Parts DEF One
  <2> QED
    BY <1>1, <2>2 DEF IInv, RefsExact
<1>12. ManagerOK' /\ TrieMatches'
  BY <1>1 DEF IInv, ManagerOK, TrieMatches, TypeOK, ManagerType, Counts
<1>13. KeysOK'
  BY <1>1, <1>5, <1>6, ProcFacts, KeysKeep DEF KeysOK
<1> QED
  BY <1>8, <1>9, <1>10, <1>11, <1>12, <1>13 DEF IInv

\* Releasing one network of those to drop.
LEMMA ReleasedFacts ==
  ASSUME IInv, NEW p \in Procs, pc[p] = "drop", Released(p)
  PROVE  LET s == NextSide(p) IN
         /\ s \in Sides /\ drop[p][s] \in Nets
         /\ OthersKeep(p) /\ ProcsType' /\ ProcOK(p)' /\ HolderOK'
         /\ \A t, m : Waiting(t, m)' = Waiting(t, m)
         /\ (\A t \in Sides : (Held(p)[t])' = Held(p)[t])
         /\ drop'[p][s] = None /\ \A t \in Sides \ {s} : drop'[p][t] = drop[p][t]
         /\ UNCHANGED <<cidrRules, lock, kind, todo, req, got, old, build, retired, nextID>>
<1> USE DEF table, ticket, holder
<1> DEFINE s    == NextSide(p)
           rest == [drop[p] EXCEPT ![s] = None]
<1>1. drop[p] \in Net /\ drop[p] # NoNet /\ s \in Sides
  BY ProcFacts DEF ProcsType, StepOK, NextSide, Sides
<1>2. drop[p][s] \in Nets
  <2>1. drop[p]["src"] # None \/ drop[p]["dst"] # None
    BY <1>1 DEF Net, NoNet, Sides
  <2>2. drop[p][s] # None
    BY <2>1 DEF NextSide
  <2> QED
    BY <1>1, <2>2, NetsFacts
<1>3. /\ drop' = [drop EXCEPT ![p] = rest]
      /\ Goto(p, IF rest = NoNet THEN after[p] ELSE "drop")
      /\ UNCHANGED <<cidrRules, lock, kind, todo, req, got, after, old, build, retired, nextID>>
  BY DEF Released
<1>4. rest \in Net /\ rest[s] = None /\ \A t \in Sides \ {s} : rest[t] = drop[p][t]
  BY <1>1 DEF Net
<1> HIDE DEF rest, s
<1>5. /\ At(p) = after[p] /\ after[p] \in Steps /\ after[p] # "drop"
      /\ after[p] \in {"return", "unlock", "restore", "delete", "item", "release", "retire"}
  BY ProcFacts DEF At, StepOK, ProcsType
<1>6. /\ pc' = [pc EXCEPT ![p] = IF rest = NoNet THEN after[p] ELSE "drop"]
      /\ pc'[p] = (IF rest = NoNet THEN after[p] ELSE "drop") /\ drop'[p] = rest
  BY <1>3, ProcFacts DEF Goto, ProcsType
<1>7. OthersKeep(p) /\ ProcsType' /\ At(p)' = At(p)
  BY <1>3, <1>4, <1>5, <1>6, ProcFacts DEF OthersKeep, ProcsType, At
<1>8. ProcOK(p)'
  <2>1. StepOK(p)'
    BY <1>3, <1>5, <1>6, <1>7, ProcFacts DEF StepOK, Holding
  <2>2. RequestOK(p)'
    BY <1>3, <1>5, <1>6, ProcFacts DEF RequestOK, Keying, HasRule
  <2>3. ReplaceOK(p)'
    BY <1>3, <1>5, <1>6, <1>7, ProcFacts DEF ReplaceOK
  <2>4. BuildOK(p)'
    BY <1>3, <1>5, <1>6, <1>7, ProcFacts DEF BuildOK
  <2> QED
    BY <2>1, <2>2, <2>3, <2>4 DEF ProcOK
<1>9. HolderOK' /\ (\A t, m : Waiting(t, m)' = Waiting(t, m))
  <2>1. CASE lock # p
    BY <1>3, <1>7, <2>1, HolderKeeps
  <2>2. CASE lock = p
    <3>1. HolderOK'
      BY <1>3, <1>7, <2>2, ProcFacts DEF HolderOK
    <3>2. OldWaits' <=> OldWaits
      BY <1>3, <1>5, <1>6, <2>2, ProcFacts DEF OldWaits, HolderOK, Replacing
    <3> QED
      BY <1>3, <3>1, <3>2 DEF Waiting
  <2> QED
    BY <2>1, <2>2
<1>10. \A t \in Sides : (Held(p)[t])' = Held(p)[t]
  BY <1>3 DEF Held
<1> QED
  BY <1>1, <1>2, <1>3, <1>4, <1>6, <1>7, <1>8, <1>9, <1>10 DEF s

LEMMA ReleaseInv ==
  ASSUME IInv, NEW p \in Procs, ReleaseID(p)
  PROVE  IInv'
<1> USE DEF history
<1> DEFINE s == NextSide(p)
           n == drop[p][s]
<1>1. pc[p] = "drop" /\ Released(p)
  BY DEF ReleaseID, ReleaseShared, ReleaseLast, ReleaseFails
<1>2. /\ s \in Sides /\ n \in Nets
      /\ OthersKeep(p) /\ ProcsType' /\ ProcOK(p)' /\ HolderOK'
      /\ \A t, m : Waiting(t, m)' = Waiting(t, m)
      /\ \A t \in Sides : (Held(p)[t])' = Held(p)[t]
      /\ drop'[p][s] = None
      /\ \A t \in Sides \ {s} : drop'[p][t] = drop[p][t]
      /\ UNCHANGED <<cidrRules, lock, kind, todo, req, got, old, build, retired, nextID>>
  BY <1>1, ReleasedFacts
<1>3. /\ refs[s][n] \in Nat /\ refs[s][n] >= 1 /\ (refs[s][n] = 1 => NotUsed(s, n))
      /\ cidrs \in Counts /\ refs \in Counts /\ trie \in Counts /\ leaked \in Counts
      /\ nextID \in Nat \ {0} /\ leaked[s][n] \in Nat
  BY <1>2, LastUser DEF IInv, TypeOK, ManagerType, Counts
<1>4. \A q \in Procs : ProcOK(q)'
  BY <1>2, OthersOK DEF Locks
\* The count of the network or its leaks change by one, no other entry does.
<1>5. /\ cidrs' \in Counts /\ refs' \in Counts /\ trie' \in Counts /\ leaked' \in Counts
      /\ refs'[s][n] - leaked'[s][n] = refs[s][n] - leaked[s][n] - 1
      /\ \A t \in Sides, m \in Nets : t # s \/ m # n =>
           /\ cidrs'[t][m] = cidrs[t][m] /\ trie'[t][m] = trie[t][m]
           /\ refs'[t][m] = refs[t][m] /\ leaked'[t][m] = leaked[t][m]
      /\ \/ trie' = trie /\ cidrs' = cidrs /\ refs'[s][n] >= 1
         \/ refs[s][n] = 1 /\ refs'[s][n] = 0 /\ trie'[s][n] = 0 /\ cidrs'[s][n] = 0
  <2>1. CASE ReleaseShared(p)
    <3>0. /\ refs' = [refs EXCEPT ![s][n] = IF refs[s][n] = 0 THEN 0 ELSE refs[s][n] - 1]
          /\ refs[s][n] # 1 /\ UNCHANGED <<cidrs, trie, leaked>>
      BY <2>1 DEF ReleaseShared
    <3> HIDE DEF s, n
    <3>1. refs[s][n] # 0 /\ refs[s][n] - 1 \in Nat /\ refs[s][n] - 1 >= 1
      BY <1>3, <3>0
    <3>2. refs'[s][n] = (IF refs[s][n] = 0 THEN 0 ELSE refs[s][n] - 1)
      BY <1>2, <1>3, <3>0 DEF Counts
    <3>3. refs'[s][n] = refs[s][n] - 1
      BY <3>1, <3>2
    <3>4. refs' \in Counts
      BY <1>2, <1>3, <3>0, <3>1 DEF Counts
    <3>5. \A t \in Sides, m \in Nets : t # s \/ m # n => refs'[t][m] = refs[t][m]
      BY <1>2, <1>3, <3>0 DEF Counts
    <3> QED
      BY <1>3, <3>0, <3>1, <3>3, <3>4, <3>5
  <2>2. CASE ReleaseLast(p)
    <3>1. /\ refs' = [refs EXCEPT ![s][n] = 0] /\ refs[s][n] = 1
          /\ trie' = [trie EXCEPT ![s][n] = 0] /\ cidrs' = [cidrs EXCEPT ![s][n] = 0]
          /\ UNCHANGED leaked
      BY <2>2 DEF ReleaseLast
    <3> HIDE DEF s, n
    <3>2. /\ refs' \in Counts /\ refs'[s][n] = 0
          /\ \A t \in Sides, m \in Nets : t # s \/ m # n => refs'[t][m] = refs[t][m]
      BY <1>2, <1>3, <3>1 DEF Counts
    <3>3. /\ trie' \in Counts /\ trie'[s][n] = 0
          /\ \A t \in Sides, m \in Nets : t # s \/ m # n => trie'[t][m] = trie[t][m]
      BY <1>2, <1>3, <3>1 DEF Counts
    <3>4. /\ cidrs' \in Counts /\ cidrs'[s][n] = 0
          /\ \A t \in Sides, m \in Nets : t # s \/ m # n => cidrs'[t][m] = cidrs[t][m]
      BY <1>2, <1>3, <3>1 DEF Counts
    <3> QED
      BY <1>3, <3>1, <3>2, <3>3, <3>4
  <2>3. CASE ReleaseFails(p)
    <3>1. /\ leaked' = [leaked EXCEPT ![s][n] = leaked[s][n] + 1] /\ refs[s][n] = 1
          /\ UNCHANGED <<cidrs, refs, trie>>
      BY <2>3 DEF ReleaseFails
    <3> HIDE DEF s, n
    <3>2. /\ leaked' \in Counts /\ leaked'[s][n] = leaked[s][n] + 1
          /\ \A t \in Sides, m \in Nets : t # s \/ m # n => leaked'[t][m] = leaked[t][m]
      BY <1>2, <1>3, <3>1 DEF Counts
    <3> QED
      BY <1>3, <3>1, <3>2
  <2> QED
    BY <2>1, <2>2, <2>3 DEF ReleaseID
<1>6. drop[p][s] = n
  OBVIOUS
<1> HIDE DEF s, n
<1>7. TypeOK'
  BY <1>2, <1>3, <1>5 DEF IInv, TypeOK, ManagerType, TablesType
<1>8. RefsExact'
  <2> SUFFICES ASSUME NEW t \in Sides, NEW m \in Nets
               PROVE  refs'[t][m] = Users(t, m)' + leaked'[t][m]
    BY DEF RefsExact
  <2>1. Users(t, m)' = Users(t, m) + One(drop'[p][t] = m) - One(drop[p][t] = m)
    BY <1>2, Ledger, Parts DEF One
  <2>2. refs[t][m] = Users(t, m) + leaked[t][m] /\ leaked[t][m] \in Nat
    BY DEF IInv, RefsExact, TypeOK, ManagerType, Counts
  <2>3. leaked'[t][m] \in Nat /\ refs'[t][m] \in Nat
    BY <1>5 DEF Counts
  <2>4. CASE t = s /\ m = n
    <3>1. drop[p][t] = m /\ drop'[p][t] # m
      BY <1>2, <1>6, <2>4, NetsFacts
    <3> QED
      BY <1>3, <1>5, <2>1, <2>2, <2>3, <2>4, <3>1, Parts DEF One
  <2>5. CASE t # s \/ m # n
    <3>1. drop[p][t] = m <=> drop'[p][t] = m
      BY <1>2, <1>6, <2>5, NetsFacts
    <3> QED
      BY <1>5, <2>1, <2>2, <2>5, <3>1, Parts DEF One
  <2> QED
    BY <2>4, <2>5
<1>9. /\ \A t \in Sides, m \in Nets :
           /\ cidrs[t][m] \in Nat /\ cidrs[t][m] < nextID /\ cidrs[t][m] = trie[t][m]
           /\ cidrs[t][m] = 0 <=> refs[t][m] = 0
      /\ \A t \in Sides, m, k \in Nets : cidrs[t][m] = cidrs[t][k] /\ m # k => cidrs[t][m] = 0
  BY DEF IInv, ManagerOK, TrieMatches, TypeOK, ManagerType, Counts
<1>10. ManagerOK'
  <2> SUFFICES ASSUME NEW t \in Sides, NEW m \in Nets
               PROVE  (cidrs'[t][m] = 0 <=> refs'[t][m] = 0) /\ cidrs'[t][m] < nextID'
    BY DEF ManagerOK
  <2>1. CASE t = s /\ m = n
    BY <1>2, <1>3, <1>5, <1>9, <2>1
  <2>2. CASE t # s \/ m # n
    BY <1>2, <1>5, <1>9, <2>2
  <2> QED
    BY <2>1, <2>2
<1>11. TrieMatches'
  <2>1. \A t \in Sides, m \in Nets : cidrs'[t][m] = trie'[t][m]
    BY <1>5, <1>9
  <2>2. \A t \in Sides : cidrs'[t] = trie'[t]
    BY <1>5, <2>1, SameSide
  <2>3. ASSUME NEW t \in Sides, NEW m \in Nets, NEW k \in Nets,
               cidrs'[t][m] = cidrs'[t][k], m # k
        PROVE  cidrs'[t][m] = 0
    BY <1>5, <1>9, <2>3
  <2> QED
    BY <2>2, <2>3 DEF TrieMatches
<1>12. KeysOK'
  <2>1. CASE trie' = trie
    BY <1>2, <2>1, ProcFacts, KeysKeep DEF KeysOK
  <2>2. CASE trie' # trie
    <3>1. NotUsed(s, n)
      BY <1>3, <1>5, <2>2
    <3>2. /\ \A i \in Ids : cidrRules'[i] # None => Keyed(cidrRules[i])'
          /\ \A i \in Ids : build'.rules[i] # None => Keyed(build.rules[i])'
          /\ old' # None => Keyed(old)'
          /\ \A q \in Procs, t \in Sides :
               got[q][t] # 0 => got[q][t] = trie'[t][req[q].net[t]]
      BY <1>2, <1>5, <3>1, KeysStay
    <3> QED
      BY <1>2, <3>2 DEF KeysOK
  <2> QED
    BY <2>1, <2>2
<1> QED
  BY <1>2, <1>4, <1>7, <1>8, <1>10, <1>11, <1>12 DEF IInv
-----------------------------------------------------------------------------
(* The invariant holds throughout *)

LEMMA InitInv ==
  ASSUME Init
  PROVE  IInv
<1>1. TypeOK
  <2>1. ManagerType
    BY DEF Init, ManagerType, Counts, Zero
  <2>2. TablesType
    BY DEF Init, TablesType, Tables, EmptyTable, EmptyBuild
  <2>3. ProcsType
    BY DEF Init, ProcsType, Steps, Net, NoNet, NoId
  <2> QED
    BY <2>1, <2>2, <2>3 DEF TypeOK
<1>2. ASSUME NEW p \in Procs PROVE ProcOK(p)
  <2>1. pc[p] = "idle" /\ At(p) = "idle" /\ kind[p] = "none" /\ lock # p
    BY CidrAssumption DEF Init, At
  <2>2. got[p]["src"] = 0 /\ got[p]["dst"] = 0 /\ drop[p] = NoNet
    BY DEF Init, NoId, Sides
  <2> QED
    BY <2>1, <2>2 DEF ProcOK, StepOK, RequestOK, ReplaceOK, BuildOK, Holding, HasRule, Keying,
       Locked
<1>3. HolderOK
  BY DEF Init, HolderOK, EmptyBuild
<1>4. RefsExact
  <2> SUFFICES ASSUME NEW s \in Sides, NEW n \in Nets
               PROVE  refs[s][n] = Users(s, n) + leaked[s][n]
    BY DEF RefsExact
  <2>1. refs[s][n] = 0 /\ leaked[s][n] = 0
    BY DEF Init, Zero
  <2>2. n # None
    BY CidrAssumption
  <2>3. /\ Using(cidrRules, s, n) = {} /\ Using(build.rules, s, n) = {}
        /\ Using(retired, s, n) = {}
    BY DEF Init, Using, EmptyTable, EmptyBuild
  <2>4. {p \in Procs : Held(p)[s] = n} = {} /\ {p \in Procs : drop[p][s] = n} = {}
    BY <2>2 DEF Init, Held, NoId, NoNet
  <2>5. ~OldWaits
    BY DEF Init, OldWaits
  <2>6. Cardinality({}) = 0
    BY FS_EmptySet
  <2> QED
    BY <2>1, <2>3, <2>4, <2>5, <2>6 DEF Users, One
<1>5. ManagerOK /\ TrieMatches
  BY DEF Init, ManagerOK, TrieMatches, Zero
<1>6. KeysOK
  BY DEF Init, KeysOK, EmptyTable, EmptyBuild, NoId
<1> QED
  BY <1>1, <1>2, <1>3, <1>4, <1>5, <1>6 DEF IInv

LEMMA StutterInv ==
  ASSUME IInv, UNCHANGED vars
  PROVE  IInv'
<1> USE DEF vars, manager, history, table, maps, ticket, dropping, holder, fvars
<1>1. TypeOK'
  BY DEF IInv, TypeOK, ManagerType, TablesType, ProcsType
<1>2. ASSUME NEW p \in Procs PROVE ProcOK(p)'
  <2>1. /\ At(p)' = At(p) /\ Holding(p)' = Holding(p) /\ HasRule(p)' = HasRule(p)
        /\ Keying(p)' = Keying(p)
    BY DEF At, Holding, HasRule, Keying
  <2> QED
    BY <2>1 DEF IInv, ProcOK, StepOK, RequestOK, ReplaceOK, BuildOK
<1>3. HolderOK'
  BY DEF IInv, HolderOK, At
<1>4. RefsExact'
  BY DEF IInv, RefsExact, Users, Using, OldWaits, Held
<1>5. ManagerOK' /\ TrieMatches'
  BY DEF IInv, ManagerOK, TrieMatches
<1>6. KeysOK'
  BY DEF IInv, KeysOK, Keyed
<1> QED
  BY <1>1, <1>2, <1>3, <1>4, <1>5, <1>6 DEF IInv

LEMMA NextInv ==
  ASSUME IInv, Next
  PROVE  IInv'
<1>1. PICK p \in Procs : Request(p) \/ Run(p)
  BY DEF Next
<1>2. CASE Request(p)
  BY <1>2, BeginInv
<1>3. CASE AddStep(p)
  BY <1>3, CheckInv, GiveBackInv, InsertKeyInv, LockedWalk, CommitAddInv, PublishAddInv,
     TakeOutInv, RestoreOldInv DEF AddStep
<1>4. CASE DeleteStep(p)
  BY <1>4, DeleteFailsInv, TakeOutInv, LockedWalk DEF DeleteStep
<1>5. CASE SyncStep(p)
  BY <1>5, LockedWalk, SyncItemInv, GiveBackInv, SyncWriteInv, SyncEndInv, SyncReleaseInv
     DEF SyncStep
<1>6. CASE AllocSrcID(p)
  BY <1>6, AllocNothingInv, AllocGotInv, AllocFailsInv DEF AllocSrcID, Sides
<1>7. CASE AllocDstID(p)
  BY <1>7, AllocNothingInv, AllocGotInv, AllocFailsInv DEF AllocDstID, Sides
<1>8. CASE PublishFails(p) \/ ReleaseID(p) \/ Acquire(p) \/ Unlock(p) \/ Return(p)
  BY <1>8, LockedWalk, ReleaseInv, AcquireInv, ReturnInv
<1> QED
  BY <1>1, <1>2, <1>3, <1>4, <1>5, <1>6, <1>7, <1>8 DEF Run

\* In every behaviour, for any networks, rules, handlers and failures, the inductive
\* invariant holds: each reference is somebody's, and every handler is where its request
\* and the lock allow (manager.go, rules.go and sync.go).
THEOREM Invariance == Spec => []IInv
<1>1. Init => IInv
  BY InitInv
<1>2. IInv /\ [Next]_vars => IInv'
  BY NextInv, StutterInv
<1> QED
  BY <1>1, <1>2, PTL DEF Spec

\* The count of a network is the number of its holders and of the releases that failed:
\* no early return, rollback or abort of a full sync forgets a reference or gives one back
\* twice (AllocSrcID, ReleaseSrcID and their callers).
THEOREM CountsExact == Spec => []RefsExact
<1>1. IInv => RefsExact
  BY DEF IInv
<1> QED
  BY <1>1, Invariance, PTL

\* The manager's table and the kernel's trie agree whatever fails, and no id is given to
\* two networks (AllocSrcID: the trie first, then the tables).
THEOREM TablesAgree == Spec => []TrieMatches
<1>1. IInv => TrieMatches
  BY DEF IInv
<1> QED
  BY <1>1, Invariance, PTL

\* No release takes an id away under a rule in force, under the rule an add may have to
\* restore, or under an add that waits for the lock (the mutation order of manager.go and
\* the releases after the flip in sync.go).
THEOREM NoIdLost == Spec => []IdsStay
<1>1. IInv => IdsStay
  BY DEF IInv, KeysOK, IdsStay, OldWaits
<1> QED
  BY <1>1, Invariance, PTL

-----------------------------------------------------------------------------
(* The maps and the config: the invariant behind Enforced *)

\* A table and its index by key are inverse to one another.
Indexed(t, index) ==
  /\ \A i \in Ids : t[i] # None => t[i].key \in DOMAIN index /\ index[t[i].key] = i
  /\ \A k \in DOMAIN index : index[k] \in Ids /\ t[index[k]] # None /\ t[index[k]].key = k

\* The rules of table t, and those of them that have combo c.
Rules(t)     == {i \in Ids : t[i] # None}
OfCombo(t, c) == {i \in Ids : t[i] # None /\ ComboOf(t[i].key) = c}
Combined(t)  == [c \in Combos |-> Cardinality(OfCombo(t, c))]

Adding(steps) == lock # None /\ kind[lock] = "add" /\ pc[lock] \in steps

\* The old entry of the rule an add moves is out of the map, the new rule not yet in memory.
Moving(i) == Adding({"commit"}) /\ req[lock].id = i

\* In memory, but in no config yet.
Unpublished(i) == Adding({"publish", "rollback"}) /\ req[lock].id = i

\* What the next publish adds to the rule count, or the handler to the table without one.
Pending ==
  CASE Adding({"publish", "rollback"}) -> delta
    [] lock # None /\ At(lock) = "restore" -> -1
    [] lock # None /\ kind[lock] = "del" /\ At(lock) \in {"delete", "publish"} -> delta
    [] OTHER -> 0

\* Memory is consistent, and so is what a full sync builds.
MemoryOK ==
  /\ Indexed(cidrRules, cidrRuleKeyIndex) /\ Indexed(build.rules, build.index)
  /\ cidrComboRefCount = Combined(cidrRules) /\ build.combo = Combined(build.rules)

\* The entries are in the maps.
EntriesOK ==
  /\ slot \in Slots /\ DOMAIN cbl = Slots
  /\ \A i \in Ids : cidrRules[i] # None /\ ~Moving(i) =>
       cidrRules[i].key \in cbl[slot] \cup lost
  /\ \A i \in Ids : build.rules[i] # None => build.rules[i].key \in cbl[Shadow]

\* The config in force hides no published rule.
ConfigOK ==
  /\ \A i \in Ids : cidrRules[i] # None /\ ~Unpublished(i) =>
       ComboOf(cidrRules[i].key) \in conf.bitmap
  /\ OldWaits => ComboOf(old.key) \in conf.bitmap
  /\ conf.count \in Nat /\ conf.count >= Cardinality(Rules(cidrRules)) - Pending

\* The key an add has put into the map belongs to nobody else, and nor does the key
\* of the rule it replaces.
AddOK ==
  /\ OldWaits /\ old.key \in DOMAIN cidrRuleKeyIndex =>
       cidrRuleKeyIndex[old.key] = req[lock].id
  /\ Adding({"delold", "abort", "commit"}) /\ KeyOf(lock) \in DOMAIN cidrRuleKeyIndex =>
       cidrRuleKeyIndex[KeyOf(lock)] = req[lock].id
  /\ Adding({"delold", "abort"}) => old.key # KeyOf(lock)
  /\ Adding({"delold", "commit"}) => KeyOf(lock) \in cbl[slot]

\* The change of the rule count is that of the table.
DeltaOK ==
  /\ delta \in Int
  /\ lock = None \/ Adding({"insert", "delold", "abort", "commit"}) => delta = 0
  /\ Adding({"publish", "rollback"}) => delta = One(old = None)
  /\ lock # None /\ kind[lock] = "del" => delta <= 0

MapsInv == MemoryOK /\ EntriesOK /\ ConfigOK /\ AddOK /\ DeltaOK

-----------------------------------------------------------------------------
(* Tables, their indexes and their counts *)

\* One rule of a table changes: so do the number of its rules and of those of a combo.
LEMMA CountChange ==
  ASSUME NEW t, NEW u, NEW i \in Ids, \A j \in Ids \ {i} : u[j] = t[j]
  PROVE  /\ Cardinality(Rules(u)) = Cardinality(Rules(t)) + One(u[i] # None) - One(t[i] # None)
         /\ Cardinality(Rules(t)) \in Nat /\ Cardinality(Rules(u)) \in Nat
         /\ t[i] # None => Cardinality(Rules(t)) >= 1
<1>1. IsFiniteSet(Rules(t)) /\ IsFiniteSet(Rules(u))
  BY CidrAssumption, FS_Subset DEF Rules
<1>2. /\ Rules(t) \ {i} = Rules(u) \ {i}
      /\ i \in Rules(t) <=> t[i] # None
      /\ i \in Rules(u) <=> u[i] # None
  BY DEF Rules
<1>3. Cardinality(Rules(u)) = Cardinality(Rules(t)) + One(i \in Rules(u)) - One(i \in Rules(t))
  BY <1>1, <1>2, SetChange
<1>4. t[i] # None => Cardinality(Rules(t)) >= 1
  BY <1>1, <1>2, NotEmpty
<1> QED
  BY <1>1, <1>2, <1>3, <1>4, FS_CardinalityType DEF One

LEMMA ComboChange ==
  ASSUME NEW t, NEW u, NEW i \in Ids, \A j \in Ids \ {i} : u[j] = t[j], NEW c
  PROVE  /\ Cardinality(OfCombo(u, c)) = Cardinality(OfCombo(t, c))
                                         + One(u[i] # None /\ ComboOf(u[i].key) = c)
                                         - One(t[i] # None /\ ComboOf(t[i].key) = c)
         /\ Cardinality(OfCombo(t, c)) \in Nat
<1>1. IsFiniteSet(OfCombo(t, c)) /\ IsFiniteSet(OfCombo(u, c))
  BY CidrAssumption, FS_Subset DEF OfCombo
<1>2. /\ OfCombo(t, c) \ {i} = OfCombo(u, c) \ {i}
      /\ i \in OfCombo(t, c) <=> t[i] # None /\ ComboOf(t[i].key) = c
      /\ i \in OfCombo(u, c) <=> u[i] # None /\ ComboOf(u[i].key) = c
  BY DEF OfCombo
<1>3. Cardinality(OfCombo(u, c))
        = Cardinality(OfCombo(t, c)) + One(i \in OfCombo(u, c)) - One(i \in OfCombo(t, c))
  BY <1>1, <1>2, SetChange
<1> QED
  BY <1>1, <1>2, <1>3, FS_CardinalityType DEF One

\* A rule that enters a table counts for its combo, and for no other.
LEMMA ComboEnters ==
  ASSUME NEW t, NEW u, NEW i \in Ids, \A j \in Ids \ {i} : u[j] = t[j],
         t[i] = None, u[i] # None, NEW c
  PROVE  /\ Cardinality(OfCombo(u, c)) = Cardinality(OfCombo(t, c)) + One(ComboOf(u[i].key) = c)
         /\ Cardinality(OfCombo(t, c)) \in Nat
<1>1. IsFiniteSet(OfCombo(t, c)) /\ IsFiniteSet(OfCombo(u, c))
  BY CidrAssumption, FS_Subset DEF OfCombo
<1>2. /\ OfCombo(t, c) \ {i} = OfCombo(u, c) \ {i}
      /\ i \notin OfCombo(t, c)
      /\ i \in OfCombo(u, c) <=> ComboOf(u[i].key) = c
  BY DEF OfCombo
<1>3. Cardinality(OfCombo(u, c))
        = Cardinality(OfCombo(t, c)) + One(i \in OfCombo(u, c)) - One(i \in OfCombo(t, c))
  BY <1>1, <1>2, SetChange
<1> QED
  BY <1>1, <1>2, <1>3, FS_CardinalityType DEF One

\* A rule counts for its combo.
LEMMA ComboCounted ==
  ASSUME NEW t, NEW i \in Ids, t[i] # None
  PROVE  /\ Cardinality(OfCombo(t, ComboOf(t[i].key))) >= 1
         /\ Cardinality(Rules(t)) >= 1
<1>1. IsFiniteSet(OfCombo(t, ComboOf(t[i].key))) /\ i \in OfCombo(t, ComboOf(t[i].key))
  BY CidrAssumption, FS_Subset DEF OfCombo
<1>2. IsFiniteSet(Rules(t)) /\ i \in Rules(t)
  BY CidrAssumption, FS_Subset DEF Rules
<1> QED
  BY <1>1, <1>2, NotEmpty

\* Recount keeps the counts of the combos true.
LEMMA RecountIs ==
  ASSUME NEW i \in Ids, \A j \in Ids \ {i} : cidrRules'[j] = cidrRules[j],
         cidrComboRefCount = Combined(cidrRules),
         cidrComboRefCount' = Recount(cidrRules'[i], cidrRules[i])
  PROVE  cidrComboRefCount' = Combined(cidrRules')
<1>1. \A c \in Combos : Cardinality(OfCombo(cidrRules', c))
        = cidrComboRefCount[c] + One(cidrRules'[i] # None /\ ComboOf(cidrRules'[i].key) = c)
                               - One(cidrRules[i] # None /\ ComboOf(cidrRules[i].key) = c)
  BY ComboChange DEF Combined
<1> QED
  BY <1>1 DEF Recount, Combined

\* A rule enters a table under a key that is free or its own; a rule leaves.
LEMMA IndexedWith ==
  ASSUME NEW t, NEW u, NEW index, NEW i \in Ids, NEW r, r # None, Indexed(t, index),
         u[i] = r, \A j \in Ids \ {i} : u[j] = t[j],
         r.key \in DOMAIN index => index[r.key] = i
  PROVE  Indexed(u, With(IF t[i] = None THEN index ELSE Without(index, t[i].key), r.key, i))
<1> DEFINE idx == IF t[i] = None THEN index ELSE Without(index, t[i].key)
           new == With(idx, r.key, i)
<1>1. /\ \A k \in DOMAIN idx : k \in DOMAIN index /\ idx[k] = index[k] /\ idx[k] # i
      /\ \A k \in DOMAIN index : index[k] # i => k \in DOMAIN idx
  BY DEF Indexed, Without
<1> HIDE DEF idx
<1>2. /\ DOMAIN new = DOMAIN idx \cup {r.key} /\ new[r.key] = i
      /\ \A k \in DOMAIN idx : k # r.key => new[k] = idx[k]
  BY DEF With
<1> HIDE DEF new
<1>3. \A j \in Ids : u[j] # None => u[j].key \in DOMAIN new /\ new[u[j].key] = j
  BY <1>1, <1>2 DEF Indexed
<1>4. \A k \in DOMAIN new : new[k] \in Ids /\ u[new[k]] # None /\ u[new[k]].key = k
  BY <1>1, <1>2 DEF Indexed
<1> QED
  BY <1>3, <1>4 DEF Indexed, new, idx

LEMMA IndexedWithout ==
  ASSUME NEW t, NEW u, NEW index, NEW i \in Ids, t[i] # None, Indexed(t, index),
         u[i] = None, \A j \in Ids \ {i} : u[j] = t[j]
  PROVE  Indexed(u, Without(index, t[i].key))
BY DEF Indexed, Without

-----------------------------------------------------------------------------
(* Steps that change neither the tables nor the maps *)

\* The tables and the maps, apart from the entries.
Settled  == <<table, slot, conf, build>>
Contents == <<Settled, cbl, lost>>

LEMMA EntriesChange ==
  ASSUME MapsInv, UNCHANGED Settled, EntriesOK',
         \A i \in Ids : Unpublished(i) => Unpublished(i)',
         Pending \in Int, Pending' \in Int, Pending' >= Pending,
         OldWaits' => OldWaits /\ old' = old,
         AddOK', DeltaOK'
  PROVE  MapsInv'
<1> USE DEF Settled, table
<1>1. MemoryOK'
  BY DEF MapsInv, MemoryOK, Indexed, Combined, OfCombo
<1>2. ConfigOK'
  <2>1. Cardinality(Rules(cidrRules)) \in Nat
    BY CidrAssumption, FS_Subset, FS_CardinalityType DEF Rules
  <2>2. conf'.count \in Nat /\ conf'.count >= Cardinality(Rules(cidrRules')) - Pending'
    BY <2>1 DEF MapsInv, ConfigOK
  <2> QED
    BY <2>2 DEF MapsInv, ConfigOK
<1> QED
  BY <1>1, <1>2 DEF MapsInv

LEMMA StillOK ==
  ASSUME MapsInv, UNCHANGED Contents,
         \A i \in Ids : Moving(i) => Moving(i)',
         \A i \in Ids : Unpublished(i) => Unpublished(i)',
         Pending \in Int, Pending' \in Int, Pending' >= Pending,
         OldWaits' => OldWaits /\ old' = old,
         AddOK', DeltaOK'
  PROVE  MapsInv'
<1>1. EntriesOK'
  BY DEF MapsInv, EntriesOK, Shadow, Contents, Settled, table
<1> QED
  BY <1>1, EntriesChange DEF Contents

LEMMA PendingType ==
  /\ delta \in Int => Pending \in Int
  /\ delta' \in Int => Pending' \in Int
BY DEF Pending

\* Whoever holds the lock stays where he is: nothing changes for him.
LEMMA BystanderMaps ==
  ASSUME IInv, MapsInv, NEW p \in Procs, OthersKeep(p), lock # p, lock' = lock,
         UNCHANGED Contents, old' = old, delta' = delta
  PROVE  MapsInv'
<1>1. lock \in Procs \cup {None}
  BY DEF IInv, TypeOK, ProcsType
<1>2. lock # None => /\ pc'[lock] = pc[lock] /\ after'[lock] = after[lock]
                     /\ kind'[lock] = kind[lock] /\ req'[lock] = req[lock]
                     /\ got'[lock] = got[lock] /\ At(lock)' = At(lock)
  BY <1>1 DEF OthersKeep, At
<1>3. \A S : Adding(S)' = Adding(S)
  BY <1>2 DEF Adding
<1>4. /\ \A i \in Ids : Moving(i) => Moving(i)'
      /\ \A i \in Ids : Unpublished(i) => Unpublished(i)'
  BY <1>2, <1>3 DEF Moving, Unpublished, Adding
<1>5. Pending' = Pending /\ Pending \in Int
  BY <1>2, <1>3, PendingType DEF Pending, MapsInv, DeltaOK
<1>6. OldWaits' => OldWaits /\ lock # None
  BY <1>2 DEF OldWaits
<1>7. AddOK'
  <2>1. lock # None => KeyOf(lock)' = KeyOf(lock)
    BY <1>2 DEF KeyOf
  <2> QED
    BY <1>2, <1>3, <1>6, <2>1 DEF MapsInv, AddOK, Adding, Contents, Settled, table
<1>8. DeltaOK'
  BY <1>2, <1>3 DEF MapsInv, DeltaOK
<1> QED
  BY <1>4, <1>5, <1>6, <1>7, <1>8, StillOK

\* The handler of a full sync moves on without touching tables or maps.
LEMMA SyncMaps ==
  ASSUME IInv, IInv', MapsInv, NEW p \in Procs, lock = p, lock' = p,
         kind[p] = "sync", kind'[p] = "sync", UNCHANGED Contents, delta' = delta
  PROVE  MapsInv'
<1>0. p # None /\ StepOK(p) /\ StepOK(p)' /\ HolderOK /\ HolderOK'
  BY CidrAssumption DEF IInv, ProcOK
<1>1. At(p) # "restore" /\ At(p)' # "restore"
  BY <1>0 DEF StepOK, SyncSteps, Building
<1>2. /\ \A S : ~Adding(S) /\ ~Adding(S)'
      /\ ~OldWaits'
  BY <1>0 DEF Adding, OldWaits, HolderOK
<1>3. Pending = 0 /\ Pending' = 0
  BY <1>1, <1>2 DEF Pending
<1>4. \A i \in Ids : ~Moving(i) /\ ~Unpublished(i)
  BY <1>2 DEF Moving, Unpublished
<1>5. AddOK'
  BY <1>2 DEF AddOK
<1>6. DeltaOK'
  BY <1>0, <1>2 DEF DeltaOK, MapsInv
<1> QED
  BY <1>2, <1>3, <1>4, <1>5, <1>6, StillOK

\* The lock is taken, or let go where the table is the committed one.
LEMMA LockMaps ==
  ASSUME IInv, IInv', MapsInv, NEW p \in Procs, UNCHANGED Contents,
         \/ Acquire(p)
         \/ Unlock(p)
         \/ lock = p /\ lock' = None /\ kind[p] = "add" /\ pc[p] = "insert" /\ delta' = delta
  PROVE  MapsInv'
<1>0. p # None /\ StepOK(p) /\ StepOK(p)' /\ HolderOK /\ HolderOK'
  BY CidrAssumption DEF IInv, ProcOK
<1>1. CASE Acquire(p)
  <2>1. /\ pc[p] = "lock" /\ lock = None /\ lock' = p /\ kind' = kind /\ UNCHANGED <<old, delta>>
        /\ pc'[p] \in {"insert", "delete", "clear"} /\ (pc'[p] = "insert" => kind[p] = "add")
    BY <1>1, ProcFacts DEF Acquire, Goto, ticket, holder, ProcsType
  <2>2. At(p)' = pc'[p]
    BY <2>1 DEF At
  <2>3. \A S : ~Adding(S) /\ (Adding(S)' => pc'[p] = "insert" /\ "insert" \in S)
    BY <1>0, <2>1, <2>2 DEF Adding, StepOK, AddSteps
  <2>4. \A i \in Ids : ~Moving(i) /\ ~Unpublished(i)
    BY <2>3 DEF Moving, Unpublished
  <2>5. delta = 0 /\ Pending = 0 /\ Pending' = 0
    BY <2>1, <2>2, <2>3, <1>0 DEF Pending, MapsInv, DeltaOK
  <2>6. ~OldWaits'
    BY <2>1 DEF OldWaits
  <2>7. AddOK' /\ DeltaOK'
    BY <2>1, <2>3, <2>5, <2>6 DEF AddOK, DeltaOK
  <2> QED
    BY <2>4, <2>5, <2>6, <2>7, StillOK
<1>2. CASE ~Acquire(p)
  <2>1. /\ lock = p /\ lock' = None /\ delta' = 0
        /\ pc[p] \in {"unlock", "insert"}
    <3>1. CASE Unlock(p)
      BY <3>1, ProcFacts DEF Unlock, StepOK, Holding, Locked
    <3>2. CASE ~Unlock(p)
      BY <1>0, <1>2, <3>2 DEF MapsInv, DeltaOK, Adding
    <3> QED
      BY <3>1, <3>2
  <2>2. At(p) = pc[p]
    BY <2>1 DEF At
  <2>3. \A i \in Ids : ~Moving(i) /\ ~Unpublished(i)
    BY <2>1, <2>2 DEF Moving, Unpublished, Adding
  <2>4. Pending = 0 /\ Pending' = 0
    BY <2>1, <2>2 DEF Pending, Adding
  <2>5. ~OldWaits' /\ (\A S : ~Adding(S)')
    BY <2>1 DEF OldWaits, Adding
  <2>6. AddOK' /\ DeltaOK'
    BY <2>1, <2>5 DEF AddOK, DeltaOK
  <2> QED
    BY <2>3, <2>4, <2>5, <2>6, StillOK
<1> QED
  BY <1>1, <1>2

\* The steps under the lock that only decide where to go on.
LEMMA DecideMaps ==
  ASSUME IInv, IInv', MapsInv, NEW p \in Procs,
         OldKeyStays(p) \/ DeleteFails(p) \/ DeleteDone(p) \/ PublishFails(p)
  PROVE  MapsInv'
<1>0. p # None /\ StepOK(p) /\ HolderOK
  BY CidrAssumption DEF IInv, ProcOK
<1>1. /\ UNCHANGED Contents /\ lock' = lock /\ kind' = kind /\ req' = req /\ got' = got
      /\ old' = old /\ delta' = delta
      /\ \/ pc[p] = "delold" /\ pc'[p] = "abort"
         \/ pc[p] = "delete" /\ pc'[p] = "delete"
         \/ pc[p] = "delete" /\ pc'[p] = IF delta = 0 THEN "unlock" ELSE "publish"
         \/ /\ pc[p] = "publish" /\ kind[p] # "sync"
            /\ pc'[p] = IF kind[p] = "add" THEN "rollback" ELSE "unlock"
  <2> USE ProcFacts DEF Goto, manager, history, ticket, holder, Contents, Settled, maps, table, ProcsType
  <2>1. CASE OldKeyStays(p)
    BY <2>1 DEF OldKeyStays
  <2>2. CASE DeleteFails(p)
    BY <2>2 DEF DeleteFails
  <2>3. CASE DeleteDone(p)
    BY <2>3 DEF DeleteDone
  <2>4. CASE PublishFails(p)
    BY <2>4 DEF PublishFails
  <2> QED
    BY <2>1, <2>2, <2>3, <2>4
<1>2. /\ lock = p /\ At(p) = pc[p] /\ At(p)' = pc'[p]
      /\ pc[p] = "delold" => kind[p] = "add"
      /\ pc[p] = "delete" => kind[p] = "del"
      /\ pc[p] = "publish" => kind[p] \in {"add", "del"}
  BY <1>0, <1>1, ProcFacts
     DEF At, StepOK, Holding, Locked, AddSteps, DelSteps, SyncSteps, Building, ProcsType
<1>3. /\ \A i \in Ids : Moving(i) => Moving(i)'
      /\ \A i \in Ids : Unpublished(i) => Unpublished(i)'
  BY <1>0, <1>1, <1>2 DEF Moving, Unpublished, Adding
<1>4. DeltaOK'
  BY <1>0, <1>1, <1>2 DEF MapsInv, DeltaOK, Adding
<1>5. Pending \in Int /\ Pending' \in Int
  BY <1>4, PendingType DEF MapsInv, DeltaOK
<1>6. Pending' >= Pending
  BY <1>0, <1>1, <1>2, <1>5 DEF MapsInv, DeltaOK, Pending, Adding
<1>7. OldWaits' => OldWaits
  BY <1>0, <1>1, <1>2, ProcFacts DEF OldWaits, HolderOK, Replacing
<1>8. AddOK'
  <2>1. KeyOf(lock)' = KeyOf(lock)
    BY <1>1 DEF KeyOf
  <2> QED
    BY <1>0, <1>1, <1>2, <1>7, <2>1 DEF MapsInv, AddOK, Adding, Contents, Settled, table
<1> QED
  BY <1>1, <1>3, <1>4, <1>5, <1>6, <1>7, <1>8, StillOK

\* Steps that happen beside the lock, and the allocations of a full sync.
LEMMA AsideMaps ==
  ASSUME IInv, IInv', MapsInv, NEW p \in Procs,
         \/ Request(p) \/ Return(p) \/ CheckSrc(p) \/ CheckDst(p)
         \/ AllocSrcID(p) \/ AllocDstID(p)
  PROVE  MapsInv'
<1> USE DEF Contents, Settled, manager, history, ticket, dropping, holder, table, maps
<1>1. CASE \/ Request(p) \/ Return(p) \/ CheckSrc(p) \/ CheckDst(p)
  <2>1. /\ UNCHANGED <<Contents, lock, old, delta>> /\ lock # p
    <3>1. /\ UNCHANGED <<Contents, lock, old, delta>>
          /\ pc[p] \in {"idle", "return", "checkSrc", "checkDst"}
      BY <1>1 DEF Request, BeginAdd, BeginDelete, BeginSync, Begin, Return, CheckSrc, CheckDst, Check
    <3> QED
      BY <3>1, ProcFacts DEF StepOK, Holding, Locked
  <2>2. OthersKeep(p)
    BY <1>1, ProcFacts DEF Request, BeginAdd, BeginDelete, BeginSync, Begin, Return, CheckSrc,
       CheckDst, Check, Forget, Goto, OthersKeep, ProcsType
  <2> QED
    BY <2>1, <2>2, BystanderMaps
<1>2. CASE AllocSrcID(p) \/ AllocDstID(p)
  <2>1. PICK s \in Sides, l \in {"allocSrc", "allocDst"}, next \in {"allocDst", Allocated(p)} :
          \/ AllocNothing(p, s, l, next) \/ AllocKnown(p, s, l, next)
          \/ AllocNew(p, s, l, next) \/ AllocFails(p, s, l)
    BY <1>2 DEF AllocSrcID, AllocDstID, Sides
  <2>2. /\ pc[p] = l /\ UNCHANGED <<Contents, lock, old, delta, kind>>
    BY <2>1 DEF AllocNothing, AllocKnown, AllocNew, AllocFails
  <2>3. OthersKeep(p)
    <3>1. CASE AllocNothing(p, s, l, next)
      BY <3>1, ProcFacts DEF AllocNothing, Goto, OthersKeep, ProcsType
    <3>2. CASE AllocKnown(p, s, l, next)
      BY <3>2, ProcFacts DEF AllocKnown, Goto, OthersKeep, ProcsType
    <3>3. CASE AllocNew(p, s, l, next)
      BY <3>3, ProcFacts DEF AllocNew, Goto, OthersKeep, ProcsType
    <3>4. CASE AllocFails(p, s, l)
      BY <3>4, ProcFacts DEF AllocFails, HandOver, ReleaseThen, Goto, OthersKeep, ProcsType
    <3> QED
      BY <2>1, <3>1, <3>2, <3>3, <3>4
  <2>4. CASE lock = p
    <3>1. kind[p] = "sync"
      BY <2>2, <2>4, ProcFacts DEF StepOK, Holding, Locked
    <3> QED
      BY <2>2, <2>4, <3>1, SyncMaps
  <2>5. CASE lock # p
    BY <2>2, <2>3, <2>5, BystanderMaps
  <2> QED
    BY <2>4, <2>5
<1> QED
  BY <1>1, <1>2

\* Releases: of a handler without the lock, and of the lock holder.
LEMMA ReleaseMaps ==
  ASSUME IInv, IInv', MapsInv, NEW p \in Procs, ReleaseID(p)
  PROVE  MapsInv'
<1> USE DEF Contents, Settled, history, ticket, holder
<1>1. pc[p] = "drop" /\ Released(p) /\ UNCHANGED <<Contents, lock, ticket, after, old, delta>>
  BY DEF ReleaseID, ReleaseShared, ReleaseLast, ReleaseFails, Released, maps
<1>2. OthersKeep(p)
  BY <1>1, ReleasedFacts
<1>3. CASE lock # p
  BY <1>1, <1>2, <1>3, BystanderMaps
<1>4. CASE lock = p
  <2>0. /\ p # None
        /\ after[p] \in {"return", "unlock", "restore", "delete", "item", "release", "retire"}
    BY <1>1, ProcFacts DEF StepOK
  <2>1. pc'[p] \in {after[p], "drop"}
    BY <1>1, ProcFacts DEF Released, Goto, ProcsType
  <2>2. At(p)' = At(p) /\ lock' = p
    BY <1>1, <1>4, <2>0, <2>1 DEF At
  <2>3. \A S : ~("drop" \in S) /\ ~(after[p] \in S) => ~Adding(S) /\ ~Adding(S)'
    BY <1>1, <1>4, <2>1, <2>2 DEF Adding
  <2>4. /\ ~Adding({"publish", "rollback"}) /\ ~Adding({"publish", "rollback"})'
        /\ ~Adding({"commit"}) /\ ~Adding({"delold", "abort", "commit"})'
        /\ ~Adding({"delold", "abort"})' /\ ~Adding({"delold", "commit"})'
        /\ ~Adding({"insert", "delold", "abort", "commit"})'
    BY <2>0, <2>3
  <2>5. \A i \in Ids : ~Moving(i) /\ ~Unpublished(i)
    BY <2>4 DEF Moving, Unpublished
  <2>6. DeltaOK'
    BY <1>1, <1>4, <2>0, <2>2, <2>4 DEF MapsInv, DeltaOK
  <2>7. Pending' = Pending /\ Pending \in Int
    BY <1>1, <1>4, <2>2, <2>4, PendingType DEF Pending, MapsInv, DeltaOK
  <2>8. OldWaits' => OldWaits
    BY <1>1, <1>4, <2>0, <2>2 DEF OldWaits
  <2>9. AddOK'
    BY <1>1, <1>4, <2>2, <2>4, <2>8 DEF MapsInv, AddOK, table
  <2> QED
    BY <1>1, <2>5, <2>6, <2>7, <2>8, <2>9, StillOK
<1> QED
  BY <1>3, <1>4

\* A full sync moves on.
LEMMA SyncWalkMaps ==
  ASSUME IInv, IInv', MapsInv, NEW p \in Procs,
         SyncItem(p) \/ SyncWriteFails(p) \/ SyncRelease(p) \/ SyncReleased(p)
  PROVE  MapsInv'
<1> USE DEF Contents, Settled, manager, history, table, maps, ticket, holder
<1>1. /\ pc[p] \in {"item", "write", "release", "retire"}
      /\ UNCHANGED <<Contents, lock, kind, delta>>
  BY DEF SyncItem, SyncWriteFails, SyncRelease, SyncReleased
<1>2. lock = p /\ kind[p] = "sync"
  BY <1>1, ProcFacts
     DEF StepOK, Holding, Locked, AddSteps, DelSteps, ProcsType
<1> QED
  BY <1>1, <1>2, SyncMaps

-----------------------------------------------------------------------------
(* Steps that change the entries of the maps *)

\* What is known of an add that holds the lock.
LEMMA AddFacts ==
  ASSUME IInv, MapsInv, NEW p \in Procs, pc[p] \in {"insert", "delold", "abort", "commit"}
  PROVE  /\ lock = p /\ kind[p] = "add" /\ p # None /\ At(p) = pc[p]
         /\ delta = 0 /\ Pending = 0 /\ ~OldWaits
         /\ \A S : Adding(S) <=> pc[p] \in S
         /\ slot \in Slots /\ DOMAIN cbl = Slots /\ Shadow \in Slots /\ Shadow # slot
         /\ req[p].id \in Ids
<1>1. lock = p /\ kind[p] = "add" /\ p # None /\ At(p) = pc[p]
  BY ProcFacts DEF StepOK, Holding, Locked, DelSteps, SyncSteps, Building, ProcsType
<1>2. \A S : Adding(S) <=> pc[p] \in S
  BY <1>1 DEF Adding
<1>3. delta = 0
  BY <1>2 DEF MapsInv, DeltaOK
<1>4. Pending = 0 /\ ~OldWaits
  BY <1>1, <1>2 DEF Pending, OldWaits
<1>5. slot \in Slots /\ DOMAIN cbl = Slots /\ Shadow \in Slots /\ Shadow # slot
  BY DEF MapsInv, EntriesOK, Slots, Shadow
<1>6. req[p].id \in Ids
  BY <1>1, ProcFacts DEF RequestOK, HasRule, Rule
<1> QED
  BY <1>1, <1>2, <1>3, <1>4, <1>5, <1>6

\* A key belongs to one rule.
LEMMA OneOwner ==
  ASSUME NEW t, NEW index, Indexed(t, index), NEW i \in Ids, NEW j \in Ids,
         t[i] # None, t[j] # None, t[i].key = t[j].key
  PROVE  i = j
BY DEF Indexed

LEMMA InsertKeyMaps ==
  ASSUME IInv, MapsInv, NEW p \in Procs, InsertKey(p)
  PROVE  MapsInv'
<1> DEFINE id == req[p].id
           o  == cidrRules[id]
           k  == KeyOf(p)
<1>1. /\ pc[p] = "insert" /\ ~Refused(p)
      /\ cbl' = [cbl EXCEPT ![slot] = cbl[slot] \cup {k}] /\ old' = o
      /\ pc' = [pc EXCEPT ![p] = IF o # None /\ o.key # k THEN "delold" ELSE "commit"]
      /\ UNCHANGED <<Settled, lost, lock, kind, req, got, after, delta>>
  BY DEF InsertKey, Goto, Settled, manager, history, ticket, dropping
<1>2. /\ lock = p /\ kind[p] = "add" /\ p # None /\ At(p) = pc[p]
      /\ delta = 0 /\ Pending = 0 /\ ~OldWaits
      /\ \A S : Adding(S) <=> pc[p] \in S
      /\ slot \in Slots /\ DOMAIN cbl = Slots /\ Shadow \in Slots /\ Shadow # slot
      /\ id \in Ids
  BY <1>1, AddFacts
<1>3. pc'[p] = IF o # None /\ o.key # k THEN "delold" ELSE "commit"
  BY <1>1, ProcFacts DEF ProcsType
<1>4. k \in DOMAIN cidrRuleKeyIndex => cidrRuleKeyIndex[k] = id
  BY <1>1 DEF Refused
<1>5. KeyOf(lock)' = k /\ lock' = p /\ req'[p].id = id
  BY <1>1, <1>2 DEF KeyOf
<1> HIDE DEF id, o, k
<1>6. \A S : Adding(S)' <=> pc'[p] \in S
  BY <1>1, <1>2 DEF Adding
<1>7. ~OldWaits' /\ Pending' = 0
  BY <1>1, <1>2, <1>3, <1>6 DEF OldWaits, Pending, At
<1>8. DeltaOK'
  BY <1>1, <1>2, <1>3, <1>6 DEF DeltaOK
<1>9. /\ cbl'[slot] = cbl[slot] \cup {k} /\ cbl'[Shadow] = cbl[Shadow] /\ DOMAIN cbl' = Slots
      /\ slot' = slot /\ Shadow' = Shadow
  BY <1>1, <1>2 DEF Settled, Shadow
<1>10. AddOK'
  BY <1>1, <1>3, <1>4, <1>5, <1>6, <1>7, <1>9 DEF AddOK, Settled, table
<1>11. EntriesOK'
  <2>1. \A i \in Ids : ~Moving(i)
    BY <1>1, <1>2 DEF Moving
  <2> QED
    BY <1>1, <1>2, <1>9, <2>1 DEF MapsInv, EntriesOK, Settled, table
<1>12. \A i \in Ids : ~Unpublished(i)
  BY <1>1, <1>2 DEF Unpublished
<1> QED
  BY <1>1, <1>2, <1>7, <1>8, <1>10, <1>11, <1>12, EntriesChange

LEMMA DeleteOldKeyMaps ==
  ASSUME IInv, MapsInv, NEW p \in Procs, DeleteOldKey(p)
  PROVE  MapsInv'
<1> DEFINE id == req[p].id
           k  == KeyOf(p)
<1>1. /\ pc[p] = "delold" /\ cbl' = [cbl EXCEPT ![slot] = cbl[slot] \ {old.key}]
      /\ pc' = [pc EXCEPT ![p] = "commit"]
      /\ UNCHANGED <<Settled, lost, lock, kind, req, got, after, old, delta>>
  BY DEF DeleteOldKey, Goto, Settled, manager, history, ticket, dropping, holder
<1>2. /\ lock = p /\ kind[p] = "add" /\ p # None /\ At(p) = pc[p]
      /\ delta = 0 /\ Pending = 0 /\ ~OldWaits
      /\ \A S : Adding(S) <=> pc[p] \in S
      /\ slot \in Slots /\ DOMAIN cbl = Slots /\ Shadow \in Slots /\ Shadow # slot
      /\ id \in Ids
  BY <1>1, AddFacts
<1>3. pc'[p] = "commit" /\ old = cidrRules[id] /\ old # None
  BY <1>1, ProcFacts DEF ProcsType, ReplaceOK
<1>4. /\ k \in DOMAIN cidrRuleKeyIndex => cidrRuleKeyIndex[k] = id
      /\ old.key # k /\ k \in cbl[slot]
  BY <1>1, <1>2 DEF MapsInv, AddOK
<1>5. KeyOf(lock)' = k /\ lock' = p /\ req'[p].id = id
  BY <1>1, <1>2 DEF KeyOf
<1> HIDE DEF id, k
<1>6. \A S : Adding(S)' <=> pc'[p] \in S
  BY <1>1, <1>2 DEF Adding
<1>7. ~OldWaits' /\ Pending' = 0
  BY <1>1, <1>2, <1>3, <1>6 DEF OldWaits, Pending, At
<1>8. DeltaOK'
  BY <1>1, <1>2, <1>3, <1>6 DEF DeltaOK
<1>9. /\ cbl'[slot] = cbl[slot] \ {old.key} /\ cbl'[Shadow] = cbl[Shadow] /\ DOMAIN cbl' = Slots
      /\ slot' = slot /\ Shadow' = Shadow
  BY <1>1, <1>2 DEF Settled, Shadow
<1>10. AddOK'
  BY <1>1, <1>3, <1>4, <1>5, <1>6, <1>7, <1>9 DEF AddOK, Settled, table
<1>11. EntriesOK'
  <2>1. \A i \in Ids : ~Moving(i)
    BY <1>1, <1>2 DEF Moving
  <2>2. \A i \in Ids : cidrRules[i] # None /\ i # id => cidrRules[i].key # old.key
    BY <1>2, <1>3, OneOwner DEF MapsInv, MemoryOK
  <2>3. \A i \in Ids : i = id => Moving(i)'
    BY <1>3, <1>5, <1>6 DEF Moving
  <2> QED
    BY <1>1, <1>2, <1>9, <2>1, <2>2, <2>3 DEF MapsInv, EntriesOK, Settled, table
<1>12. \A i \in Ids : ~Unpublished(i)
  BY <1>1, <1>2 DEF Unpublished
<1> QED
  BY <1>1, <1>2, <1>7, <1>8, <1>10, <1>11, <1>12, EntriesChange

LEMMA AbortAddMaps ==
  ASSUME IInv, MapsInv, NEW p \in Procs, AbortAdd(p)
  PROVE  MapsInv'
<1> DEFINE id == req[p].id
           k  == KeyOf(p)
<1>1. /\ pc[p] = "abort" /\ lock' = None
      /\ cbl' = [cbl EXCEPT ![slot] = cbl[slot] \ {k}] \/ cbl' = cbl
      /\ UNCHANGED <<Settled, lost, delta>>
  BY DEF AbortAdd, Settled, manager, history
<1>2. /\ lock = p /\ kind[p] = "add" /\ p # None /\ At(p) = pc[p]
      /\ delta = 0 /\ Pending = 0 /\ ~OldWaits
      /\ \A S : Adding(S) <=> pc[p] \in S
      /\ slot \in Slots /\ DOMAIN cbl = Slots /\ Shadow \in Slots /\ Shadow # slot
      /\ id \in Ids
  BY <1>1, AddFacts
<1>3. old = cidrRules[id] /\ old # None
  BY <1>1, ProcFacts DEF ReplaceOK
<1>4. (k \in DOMAIN cidrRuleKeyIndex => cidrRuleKeyIndex[k] = id) /\ old.key # k
  BY <1>1, <1>2 DEF MapsInv, AddOK
<1> HIDE DEF id, k
<1>5. (\A S : ~Adding(S)') /\ ~OldWaits'
  BY <1>1 DEF Adding, OldWaits
<1>6. Pending' = 0 /\ AddOK' /\ DeltaOK'
  BY <1>1, <1>2, <1>5 DEF Pending, AddOK, DeltaOK
<1>7. /\ cbl'[slot] = cbl[slot] \ {k} \/ cbl'[slot] = cbl[slot]
      /\ cbl'[Shadow] = cbl[Shadow] /\ DOMAIN cbl' = Slots
      /\ slot' = slot /\ Shadow' = Shadow
  BY <1>1, <1>2 DEF Settled, Shadow
<1>8. EntriesOK'
  <2>1. \A i \in Ids : ~Moving(i)
    BY <1>1, <1>2 DEF Moving
  <2>2. \A i \in Ids : cidrRules[i] # None => cidrRules[i].key # k
    BY <1>3, <1>4 DEF MapsInv, MemoryOK, Indexed
  <2> QED
    BY <1>1, <1>2, <1>7, <2>1, <2>2 DEF MapsInv, EntriesOK, Settled, table
<1>9. \A i \in Ids : ~Unpublished(i)
  BY <1>1, <1>2 DEF Unpublished
<1> QED
  BY <1>1, <1>2, <1>5, <1>6, <1>8, <1>9, EntriesChange

\* What is known of a full sync that holds the lock, now and after its step.
LEMMA SyncFacts ==
  ASSUME IInv, MapsInv, NEW p \in Procs,
         pc[p] \in {"clear", "item", "write", "cleanup"}
  PROVE  /\ lock = p /\ kind[p] = "sync" /\ p # None /\ At(p) = pc[p]
         /\ Pending = 0 /\ old = None
         /\ \A S : ~Adding(S)
         /\ slot \in Slots /\ DOMAIN cbl = Slots /\ Shadow \in Slots /\ Shadow # slot
         /\ \A i \in Ids : ~Moving(i) /\ ~Unpublished(i)
         /\ (kind' = kind /\ lock' = lock /\ old' = old /\ delta' = delta
               /\ pc'[p] \in {"item", "release", "retire", "unlock"}) =>
              /\ Pending' = 0 /\ ~OldWaits' /\ AddOK' /\ DeltaOK'
              /\ \A i \in Ids : ~Moving(i)' /\ ~Unpublished(i)'
<1>1. lock = p /\ kind[p] = "sync" /\ p # None /\ At(p) = pc[p]
  BY ProcFacts DEF StepOK, Holding, Locked, AddSteps, DelSteps, ProcsType
<1>2. \A S : ~Adding(S)
  BY <1>1 DEF Adding
<1>3. Pending = 0 /\ old = None
  BY <1>1, <1>2, ProcFacts DEF Pending, HolderOK
<1>4. slot \in Slots /\ DOMAIN cbl = Slots /\ Shadow \in Slots /\ Shadow # slot
  BY DEF MapsInv, EntriesOK, Slots, Shadow
<1>5. \A i \in Ids : ~Moving(i) /\ ~Unpublished(i)
  BY <1>2 DEF Moving, Unpublished
<1>6. ASSUME kind' = kind, lock' = lock, old' = old, delta' = delta,
             pc'[p] \in {"item", "release", "retire", "unlock"}
      PROVE  /\ Pending' = 0 /\ ~OldWaits' /\ AddOK' /\ DeltaOK'
             /\ \A i \in Ids : ~Moving(i)' /\ ~Unpublished(i)'
  <2>1. \A S : ~Adding(S)'
    BY <1>1, <1>6 DEF Adding
  <2>2. Pending' = 0
    BY <1>1, <1>6, <2>1 DEF Pending, At
  <2>3. ~OldWaits'
    BY <1>3, <1>6 DEF OldWaits
  <2>4. AddOK'
    BY <2>1, <2>3 DEF AddOK
  <2>5. DeltaOK'
    BY <1>1, <1>6, <2>1 DEF MapsInv, DeltaOK
  <2> QED
    BY <2>1, <2>2, <2>3, <2>4, <2>5 DEF Moving, Unpublished
<1> QED
  BY <1>1, <1>2, <1>3, <1>4, <1>5, <1>6

\* Clearing the shadow map, before a full sync builds there and after it has flipped.
LEMMA ClearMaps ==
  ASSUME IInv, MapsInv, NEW p \in Procs, SyncClear(p) \/ SyncCleanup(p)
  PROVE  MapsInv'
<1>1. PICK l \in {"item", "unlock"} :
        pc[p] \in {"clear", "cleanup"} /\ ClearMap(p, Shadow, l)
  BY DEF SyncClear, SyncCleanup
<1>2. PICK left : cbl' = [cbl EXCEPT ![Shadow] = left]
  BY <1>1 DEF ClearMap
<1>3. /\ pc'[p] \in {"item", "unlock"} /\ UNCHANGED <<Settled, lost, lock, kind, old, delta>>
  BY <1>1, ProcFacts DEF ClearMap, Goto, ProcsType, Settled, manager, history, ticket, holder
<1>4. /\ lock = p /\ Pending = 0 /\ old = None /\ At(p) = pc[p]
      /\ slot \in Slots /\ DOMAIN cbl = Slots /\ Shadow \in Slots /\ Shadow # slot
      /\ \A i \in Ids : ~Moving(i) /\ ~Unpublished(i)
      /\ Pending' = 0 /\ ~OldWaits' /\ AddOK' /\ DeltaOK'
  BY <1>1, <1>3, SyncFacts
<1>5. \A i \in Ids : build.rules[i] = None
  BY <1>1, <1>4, ProcFacts DEF HolderOK, Building, EmptyTable
<1>6. cbl'[slot] = cbl[slot] /\ DOMAIN cbl' = Slots /\ slot' = slot
  BY <1>2, <1>3, <1>4 DEF Settled
<1>7. EntriesOK'
  BY <1>3, <1>4, <1>5, <1>6 DEF MapsInv, EntriesOK, Settled, table
<1> QED
  BY <1>3, <1>4, <1>7, EntriesChange

\* A full sync writes a rule: its key is free in the shadow map, so no rule built has it.
LEMMA SyncWriteMaps ==
  ASSUME IInv, MapsInv, NEW p \in Procs, SyncWrite(p)
  PROVE  MapsInv'
<1> DEFINE k   == KeyOf(p)
           id  == req[p].id
           new == [key |-> k, net |-> req[p].net]
<1>1. /\ pc[p] = "write" /\ Goto(p, "item") /\ k \notin cbl[Shadow]
      /\ cbl' = [cbl EXCEPT ![Shadow] = cbl[Shadow] \cup {k}]
      /\ build'.rules = [build.rules EXCEPT ![id] = new]
      /\ build'.index = With(build.index, k, id)
      /\ build'.combo = [build.combo EXCEPT ![ComboOf(k)] = build.combo[ComboOf(k)] + 1]
      /\ UNCHANGED <<table, slot, conf, lost, lock, kind, old, delta>>
  BY DEF SyncWrite, manager, history
<1>2. /\ lock = p /\ kind[p] = "sync" /\ Pending = 0 /\ At(p) = pc[p]
      /\ slot \in Slots /\ DOMAIN cbl = Slots /\ Shadow \in Slots /\ Shadow # slot
      /\ \A i \in Ids : ~Moving(i) /\ ~Unpublished(i)
      /\ Pending' = 0 /\ ~OldWaits' /\ AddOK' /\ DeltaOK'
      /\ \A i \in Ids : ~Moving(i)' /\ ~Unpublished(i)'
  <2>1. pc'[p] = "item"
    BY <1>1, ProcFacts DEF Goto, ProcsType
  <2> QED
    BY <1>1, <2>1, SyncFacts
<1>3. id \in Ids /\ new # None /\ new.key = k
  BY <1>1, KeyingFacts, CidrAssumption DEF Keying
<1>4. build.rules[id] = None
  BY <1>1, <1>2, ProcFacts DEF BuildOK
<1> HIDE DEF new, id, k
<1>5. /\ build'.rules[id] = new
      /\ \A j \in Ids \ {id} : build'.rules[j] = build.rules[j]
  BY <1>1, <1>3, ProcFacts DEF TablesType, Tables
<1>6. MemoryOK'
  <2>1. k \notin DOMAIN build.index
    BY <1>1 DEF MapsInv, MemoryOK, EntriesOK, Indexed
  <2>2. Indexed(build'.rules, build'.index)
    <3> DEFINE t == build.rules
               u == build'.rules
    <3>1. /\ Indexed(t, build.index) /\ t[id] = None /\ u[id] = new
          /\ \A j \in Ids \ {id} : u[j] = t[j]
      BY <1>4, <1>5 DEF MapsInv, MemoryOK
    <3> HIDE DEF t, u
    <3>2. Indexed(u, With(build.index, k, id))
      BY <1>3, <2>1, <3>1, IndexedWith
    <3> QED
      BY <1>1, <3>2 DEF u
  <2>3. build'.combo = Combined(build'.rules)
    <3> DEFINE t == build.rules
               u == build'.rules
    <3>1. t[id] = None /\ u[id] = new /\ \A j \in Ids \ {id} : u[j] = t[j]
      BY <1>4, <1>5
    <3>2. build.combo = [c \in Combos |-> Cardinality(OfCombo(t, c))]
      BY DEF MapsInv, MemoryOK, Combined
    <3> HIDE DEF t, u
    <3>3. /\ \A j \in Ids \ {id} : u[j] = t[j]
          /\ t[id] = None /\ u[id] # None /\ u[id].key = k /\ id \in Ids
      BY <1>3, <3>1
    <3>4. \A c : /\ Cardinality(OfCombo(u, c))
                      = Cardinality(OfCombo(t, c)) + One(ComboOf(u[id].key) = c)
                 /\ Cardinality(OfCombo(t, c)) \in Nat
      BY <3>3, ComboEnters
    <3>5. \A c \in Combos : build'.combo[c] = Cardinality(OfCombo(u, c))
      BY <1>1, <3>2, <3>3, <3>4 DEF One
    <3> QED
      BY <1>1, <3>2, <3>5 DEF Combined, u
  <2> QED
    BY <1>1, <2>2, <2>3 DEF MapsInv, MemoryOK, Indexed, Combined, OfCombo, table
<1>7. EntriesOK'
  <2>1. /\ cbl'[slot] = cbl[slot] /\ cbl'[Shadow] = cbl[Shadow] \cup {k} /\ DOMAIN cbl' = Slots
        /\ Shadow' = Shadow
    BY <1>1, <1>2 DEF Shadow
  <2>2. \A i \in Ids : build'.rules[i] # None => build'.rules[i].key \in cbl'[Shadow]
    BY <1>3, <1>5, <2>1 DEF MapsInv, EntriesOK
  <2> QED
    BY <1>1, <1>2, <2>1, <2>2 DEF MapsInv, EntriesOK, table
<1>8. ConfigOK'
  BY <1>1, <1>2 DEF MapsInv, ConfigOK, table, Rules
<1> QED
  BY <1>2, <1>6, <1>7, <1>8 DEF MapsInv

\* Every rule's combo is one of those counted.
LEMMA ComboIn ==
  ASSUME IInv, NEW i \in Ids
  PROVE  /\ cidrRules[i] # None => ComboOf(cidrRules[i].key) \in Combos
         /\ build.rules[i] # None => ComboOf(build.rules[i].key) \in Combos
<1>1. ASSUME NEW r \in Stored, Keyed(r) PROVE ComboOf(r.key) \in Combos
  <2>1. r.net \in Net /\ r.net # NoNet
    BY DEF Stored
  <2>2. PICK s \in Sides : r.net[s] # None
    BY <2>1 DEF Net, NoNet
  <2>3. s \in ComboOf(r.key)
    BY <1>1, <2>2 DEF Keyed, ComboOf
  <2> QED
    BY <2>3 DEF ComboOf, Combos
<1> QED
  BY <1>1, ProcFacts, CidrAssumption DEF IInv, TypeOK, TablesType, Tables, KeysOK

\* The tables of a full sync that are empty say nothing.
LEMMA EmptyBuildOK ==
  /\ \A i \in Ids : EmptyBuild.rules[i] = None
  /\ Indexed(EmptyBuild.rules, EmptyBuild.index)
  /\ EmptyBuild.combo = Combined(EmptyBuild.rules)
<1>1. /\ EmptyBuild.rules = EmptyTable /\ EmptyBuild.index = <<>>
      /\ EmptyBuild.combo = [c \in Combos |-> 0]
  BY DEF EmptyBuild
<1>2. \A i \in Ids : EmptyTable[i] = None
  BY DEF EmptyTable
<1>3. \A c : OfCombo(EmptyTable, c) = {}
  BY <1>2 DEF OfCombo
<1>4. Indexed(EmptyTable, <<>>)
  BY <1>2 DEF Indexed
<1>5. Combined(EmptyTable) = [c \in Combos |-> 0]
  BY <1>3, FS_EmptySet DEF Combined
<1> QED
  BY <1>1, <1>2, <1>4, <1>5

LEMMA SyncAbortMaps ==
  ASSUME IInv, MapsInv, NEW p \in Procs, SyncAbort(p)
  PROVE  MapsInv'
<1>1. /\ pc[p] = "item" /\ Goto(p, "release") /\ build' = EmptyBuild
      /\ UNCHANGED <<table, maps, lost, lock, kind, old, delta>>
  BY DEF SyncAbort, manager, history, ticket
<1>2. /\ Pending = 0 /\ \A i \in Ids : ~Moving(i) /\ ~Unpublished(i)
      /\ Pending' = 0 /\ ~OldWaits' /\ AddOK' /\ DeltaOK'
  <2>1. pc'[p] = "release"
    BY <1>1, ProcFacts DEF Goto, ProcsType
  <2> QED
    BY <1>1, <2>1, SyncFacts
<1>3. MemoryOK'
  BY <1>1, EmptyBuildOK DEF MapsInv, MemoryOK, Indexed, Combined, OfCombo, table
<1>4. EntriesOK'
  BY <1>1, <1>2, EmptyBuildOK DEF MapsInv, EntriesOK, table, maps
<1>5. ConfigOK'
  BY <1>1, <1>2 DEF MapsInv, ConfigOK, table, maps, Rules
<1> QED
  BY <1>2, <1>3, <1>4, <1>5 DEF MapsInv

\* The config a full sync writes is that of the tables it has built.
LEMMA SyncFlipMaps ==
  ASSUME IInv, MapsInv, NEW p \in Procs, SyncFlip(p)
  PROVE  MapsInv'
<1>1. /\ pc[p] = "item" /\ Goto(p, "retire") /\ slot' = Shadow /\ build' = EmptyBuild
      /\ cidrRules' = build.rules /\ cidrRuleKeyIndex' = build.index
      /\ cidrComboRefCount' = build.combo
      /\ UNCHANGED <<cbl, lost, lock, kind, old, delta>>
  BY DEF SyncFlip, manager, history, ticket
<1>2. /\ conf'.bitmap = {c \in Combos : build.combo[c] > 0}
      /\ conf'.count = Cardinality(Rules(build.rules))
  BY DEF SyncFlip, Rules
<1>3. /\ slot \in Slots /\ DOMAIN cbl = Slots /\ Shadow \in Slots
      /\ Pending' = 0 /\ ~OldWaits' /\ AddOK' /\ DeltaOK'
      /\ \A i \in Ids : ~Moving(i)' /\ ~Unpublished(i)'
  <2>1. pc'[p] = "retire"
    BY <1>1, ProcFacts DEF Goto, ProcsType
  <2> QED
    BY <1>1, <2>1, SyncFacts
<1>4. MemoryOK'
  BY <1>1, EmptyBuildOK DEF MapsInv, MemoryOK, Indexed, Combined, OfCombo
<1>5. EntriesOK'
  BY <1>1, <1>3, EmptyBuildOK DEF MapsInv, EntriesOK
<1>6. ConfigOK'
  <2>1. Cardinality(Rules(build.rules)) \in Nat
    BY CidrAssumption, FS_Subset, FS_CardinalityType DEF Rules
  <2>2. ASSUME NEW i \in Ids, build.rules[i] # None
        PROVE  ComboOf(build.rules[i].key) \in conf'.bitmap
    <3> DEFINE t == build.rules
               c == ComboOf(t[i].key)
    <3>1. c \in Combos
      BY <2>2, ComboIn
    <3>2. build.combo[c] = Cardinality(OfCombo(t, c))
      BY <3>1 DEF MapsInv, MemoryOK, Combined
    <3>3. Cardinality(OfCombo(t, c)) >= 1 /\ Cardinality(OfCombo(t, c)) \in Nat
      <4>1. t[i] # None
        BY <2>2
      <4>2. IsFiniteSet(OfCombo(t, c))
        BY CidrAssumption, FS_Subset DEF OfCombo
      <4> HIDE DEF t
      <4> QED
        BY <4>1, <4>2, ComboCounted, FS_CardinalityType
    <3> QED
      BY <1>2, <3>1, <3>2, <3>3
  <2>3. conf'.count \in Nat /\ conf'.count >= Cardinality(Rules(cidrRules')) - Pending'
    BY <1>1, <1>2, <1>3, <2>1
  <2> QED
    BY <1>1, <1>3, <2>2, <2>3 DEF ConfigOK
<1> QED
  BY <1>3, <1>4, <1>5, <1>6 DEF MapsInv

\* The config of a publish shows every rule in memory.
LEMMA PublishMaps ==
  ASSUME IInv, MapsInv, NEW p \in Procs, PublishAdd(p) \/ PublishDelete(p)
  PROVE  MapsInv'
<1>1. /\ pc[p] = "publish" /\ kind[p] \in {"add", "del"} /\ conf' = Published(delta)
      /\ UNCHANGED <<table, slot, cbl, build, lost, lock, kind, delta>>
      /\ kind[p] = "add" => old' = None
      /\ kind[p] = "del" => old' = old
      /\ pc' = [pc EXCEPT ![p] = pc'[p]] /\ pc'[p] \in {"drop", "unlock"}
      /\ pc'[p] = "drop" => after'[p] = "unlock"
  <2>1. CASE PublishAdd(p)
    BY <2>1, ProcFacts DEF PublishAdd, ReleaseThen, Goto, ProcsType, manager, history, ticket
  <2>2. CASE PublishDelete(p)
    BY <2>2, ProcFacts
       DEF PublishDelete, Goto, ProcsType, manager, history, ticket, holder
  <2> QED
    BY <2>1, <2>2
<1>2. lock = p /\ p # None /\ At(p) = "publish"
  BY <1>1, ProcFacts DEF StepOK, Holding, Locked
<1>3. old' = None
  BY <1>1, <1>2, ProcFacts DEF HolderOK
<1>4. (\A i \in Ids : ~Moving(i)) /\ Pending = delta /\ delta \in Int
  BY <1>1, <1>2 DEF Moving, Adding, Pending, MapsInv, DeltaOK
<1>5. /\ ~Adding({"publish", "rollback"})' /\ ~Adding({"delold", "abort", "commit"})'
      /\ ~Adding({"delold", "abort"})' /\ ~Adding({"delold", "commit"})' /\ ~OldWaits'
      /\ ~Adding({"insert", "delold", "abort", "commit"})'
  BY <1>1, <1>2, <1>3 DEF Adding, OldWaits
<1>6. Pending' = 0 /\ AddOK'
  BY <1>1, <1>2, <1>5 DEF Pending, At, AddOK
<1>7. DeltaOK'
  BY <1>1, <1>2, <1>5 DEF MapsInv, DeltaOK
<1>8. MemoryOK'
  BY <1>1 DEF MapsInv, MemoryOK, Indexed, Combined, OfCombo, table
<1>9. EntriesOK'
  BY <1>1, <1>4 DEF MapsInv, EntriesOK, Shadow, table
<1>10. ConfigOK'
  <2>1. /\ conf'.bitmap = {c \in Combos : cidrComboRefCount[c] > 0}
        /\ conf'.count = IF conf.count + delta < 0 THEN 0 ELSE conf.count + delta
    BY <1>1 DEF Published
  <2>2. ASSUME NEW i \in Ids, cidrRules[i] # None
        PROVE  ComboOf(cidrRules[i].key) \in conf'.bitmap
    <3> DEFINE c == ComboOf(cidrRules[i].key)
    <3>1. c \in Combos
      BY <2>2, ComboIn
    <3>2. cidrComboRefCount[c] = Cardinality(OfCombo(cidrRules, c))
      BY <3>1 DEF MapsInv, MemoryOK, Combined
    <3>3. Cardinality(OfCombo(cidrRules, c)) >= 1 /\ Cardinality(OfCombo(cidrRules, c)) \in Nat
      <4>1. IsFiniteSet(OfCombo(cidrRules, c))
        BY CidrAssumption, FS_Subset DEF OfCombo
      <4> QED
        BY <2>2, <4>1, ComboCounted, FS_CardinalityType
    <3> QED
      BY <2>1, <3>1, <3>2, <3>3
  <2>3. /\ conf.count \in Nat /\ conf.count >= Cardinality(Rules(cidrRules)) - delta
        /\ Cardinality(Rules(cidrRules)) \in Nat /\ cidrRules' = cidrRules
    BY <1>1, <1>4, CidrAssumption, FS_Subset, FS_CardinalityType
       DEF Rules, MapsInv, ConfigOK, table
  <2>4. conf'.count \in Nat /\ conf'.count >= Cardinality(Rules(cidrRules)) - 0
    BY <1>4, <2>1, <2>3
  <2> QED
    BY <1>5, <1>6, <2>2, <2>3, <2>4 DEF ConfigOK
<1> QED
  BY <1>6, <1>7, <1>8, <1>9, <1>10 DEF MapsInv

\* The new rule takes the key it has in the map; the count to publish is one more unless
\* it replaces a rule.
LEMMA CommitAddMaps ==
  ASSUME IInv, IInv', MapsInv, NEW p \in Procs, CommitAdd(p)
  PROVE  MapsInv'
<1> DEFINE id  == req[p].id
           k   == KeyOf(p)
           new == [key |-> k, net |-> req[p].net]
           idx == IF old = None THEN cidrRuleKeyIndex ELSE Without(cidrRuleKeyIndex, old.key)
<1>1. /\ pc[p] = "commit" /\ pc' = [pc EXCEPT ![p] = "publish"]
      /\ cidrComboRefCount' = Recount(new, old)
      /\ cidrRules' = [cidrRules EXCEPT ![id] = new]
      /\ cidrRuleKeyIndex' = With(idx, k, id)
      /\ delta' = One(old = None)
      /\ UNCHANGED <<maps, build, lost, lock, kind, req, old>>
  BY DEF CommitAdd, Goto, manager, history
<1>2. /\ lock = p /\ kind[p] = "add" /\ p # None /\ At(p) = pc[p]
      /\ delta = 0 /\ Pending = 0 /\ ~OldWaits
      /\ \A S : Adding(S) <=> pc[p] \in S
      /\ slot \in Slots /\ DOMAIN cbl = Slots /\ Shadow \in Slots /\ Shadow # slot
      /\ id \in Ids
  BY <1>1, AddFacts
<1>3. /\ pc'[p] = "publish" /\ old = cidrRules[id] /\ lock' = p /\ req'[p].id = id
      /\ new # None /\ new.key = k
  BY <1>1, <1>2, ProcFacts, KeyingFacts, CidrAssumption DEF ProcsType, ReplaceOK, Keying
<1>4. (k \in DOMAIN cidrRuleKeyIndex => cidrRuleKeyIndex[k] = id) /\ k \in cbl[slot]
  BY <1>1, <1>2 DEF MapsInv, AddOK
<1> HIDE DEF id, k, new
<1>5. cidrRules'[id] = new /\ \A j \in Ids \ {id} : cidrRules'[j] = cidrRules[j]
  BY <1>1, <1>2, ProcFacts DEF TablesType, Tables
<1>6. (\A S : Adding(S)' <=> "publish" \in S) /\ (OldWaits' <=> old # None)
  BY <1>1, <1>2, <1>3 DEF Adding, OldWaits
<1>7. /\ \A i \in Ids : ~Unpublished(i) /\ ~Moving(i)'
      /\ \A i \in Ids : Moving(i) <=> i = id
      /\ \A i \in Ids : Unpublished(i)' <=> i = id
  BY <1>1, <1>2, <1>3, <1>6 DEF Unpublished, Moving, id
<1>8. MemoryOK'
  <2>1. Indexed(cidrRules', cidrRuleKeyIndex')
    <3>1. Indexed(cidrRules, cidrRuleKeyIndex)
      BY DEF MapsInv, MemoryOK
    <3>2. Indexed(cidrRules', With(idx, new.key, id))
      BY <1>2, <1>3, <1>4, <1>5, <3>1, IndexedWith
    <3> QED
      BY <1>1, <1>3, <3>2
  <2>2. cidrComboRefCount' = Combined(cidrRules')
    BY <1>1, <1>2, <1>3, <1>5, RecountIs DEF MapsInv, MemoryOK
  <2> QED
    BY <1>1, <2>1, <2>2 DEF MapsInv, MemoryOK, Indexed, Combined, OfCombo
<1>9. EntriesOK'
  BY <1>1, <1>3, <1>4, <1>5, <1>7 DEF MapsInv, EntriesOK, Shadow, maps
<1>10. Pending' = One(old = None)
  <2>1. Adding({"publish", "rollback"})'
    BY <1>6
  <2> QED
    BY <1>1, <1>2, <1>3, <2>1 DEF Pending, At
<1>11. ConfigOK'
  <2>1. Cardinality(Rules(cidrRules')) = Cardinality(Rules(cidrRules)) + 1 - One(old # None)
        /\ Cardinality(Rules(cidrRules)) \in Nat
    <3>1. /\ Cardinality(Rules(cidrRules')) = Cardinality(Rules(cidrRules))
               + One(cidrRules'[id] # None) - One(cidrRules[id] # None)
          /\ Cardinality(Rules(cidrRules)) \in Nat
      BY <1>2, <1>5, CountChange
    <3> QED
      BY <1>3, <1>5, <3>1 DEF One
  <2>2. conf'.count \in Nat /\ conf'.count >= Cardinality(Rules(cidrRules')) - Pending'
    BY <1>1, <1>2, <1>10, <2>1 DEF MapsInv, ConfigOK, maps, One
  <2>3. OldWaits' => ComboOf(old'.key) \in conf'.bitmap
    BY <1>1, <1>2, <1>3, <1>6, <1>7 DEF MapsInv, ConfigOK, maps
  <2>4. \A i \in Ids : cidrRules'[i] # None /\ ~Unpublished(i)' =>
                         ComboOf(cidrRules'[i].key) \in conf'.bitmap
    BY <1>1, <1>5, <1>7 DEF MapsInv, ConfigOK, maps
  <2> QED
    BY <2>2, <2>3, <2>4 DEF ConfigOK
<1>12. AddOK'
  <2>1. OldWaits' /\ old'.key \in DOMAIN cidrRuleKeyIndex' => cidrRuleKeyIndex'[old'.key] = id
    BY <1>1, <1>6 DEF With, Without
  <2> QED
    BY <1>3, <1>6, <2>1 DEF AddOK
<1>13. DeltaOK'
  BY <1>1, <1>2, <1>3, <1>6 DEF DeltaOK, One
<1> QED
  BY <1>8, <1>9, <1>11, <1>12, <1>13 DEF MapsInv

\* A rule leaves memory and its entry the map: a failed publish takes the new rule out, a
\* delete its target.
LEMMA TakeOutMaps ==
  ASSUME IInv, IInv', MapsInv, NEW p \in Procs, RollbackAdd(p) \/ DeleteItem(p)
  PROVE  MapsInv'
<1>1. PICK i \in Ids, l \in {"unlock", "restore", "delete"} :
        /\ cidrRules[i] # None /\ cidrRules' = [cidrRules EXCEPT ![i] = None]
        /\ cidrRuleKeyIndex' = Without(cidrRuleKeyIndex, cidrRules[i].key)
        /\ cidrComboRefCount' = Recount(None, cidrRules[i])
        /\ cbl' = [cbl EXCEPT ![slot] = cbl[slot] \ {cidrRules[i].key}] \/ cbl' = cbl
        /\ ReleaseThen(p, cidrRules[i].net, l)
        /\ UNCHANGED <<slot, conf, build, lost, lock, kind, req, old>>
        /\ \/ /\ pc[p] = "rollback" /\ kind[p] = "add" /\ delta' = delta
              /\ l = (IF old = None THEN "unlock" ELSE "restore") /\ i = req[p].id
           \/ pc[p] = "delete" /\ kind[p] = "del" /\ delta' = delta - 1 /\ l = "delete"
  <2>1. CASE RollbackAdd(p)
    <3>1. pc[p] = "rollback" /\ kind[p] = "add"
      BY <2>1, ProcFacts
         DEF RollbackAdd, StepOK, DelSteps, SyncSteps, Building, ProcsType
    <3>2. req[p].id \in Ids /\ cidrRules[req[p].id] # None
      BY <3>1, ProcFacts DEF ReplaceOK, RequestOK, HasRule, Rule
    <3> QED
      BY <2>1, <3>1, <3>2 DEF RollbackAdd, ticket, holder, manager, history
  <2>2. CASE DeleteItem(p)
    <3>1. pc[p] = "delete" /\ todo[p] # <<>> /\ kind[p] = "del"
      BY <2>2, ProcFacts DEF DeleteItem, StepOK, AddSteps, SyncSteps, Building, ProcsType
    <3>2. Head(todo[p]) \in Ids
      BY <3>1, ProcFacts, Elements DEF RequestOK
    <3> QED
      BY <2>2, <3>1, <3>2 DEF DeleteItem, Deletable, manager, history
  <2> QED
    BY <2>1, <2>2
<1>2. /\ lock = p /\ p # None /\ At(p) = pc[p] /\ ~("drop" = pc[p])
  BY <1>1, ProcFacts DEF StepOK, Holding, Locked
<1>3. pc'[p] \in {l, "drop"} /\ At(p)' = l
  <2>1. cidrRules[i].net \in Net /\ l \in Steps
    BY <1>1, ProcFacts DEF TablesType, Tables, Stored, Steps, AddSteps, DelSteps
  <2> QED
    BY <1>1, <2>1, ReleaseFacts
<1>4. cidrRules'[i] = None /\ \A j \in Ids \ {i} : cidrRules'[j] = cidrRules[j]
  BY <1>1, ProcFacts DEF TablesType, Tables
<1>5. /\ ~Adding({"publish", "rollback"})' /\ ~Adding({"delold", "abort", "commit"})'
      /\ ~Adding({"delold", "abort"})' /\ ~Adding({"delold", "commit"})' /\ ~Adding({"commit"})'
      /\ ~Adding({"insert", "delold", "abort", "commit"})'
      /\ Adding({"publish", "rollback"}) <=> kind[p] = "add"
  BY <1>1, <1>2, <1>3 DEF Adding
<1>6. /\ \A j \in Ids : ~Moving(j) /\ ~Moving(j)'
      /\ \A j \in Ids : Unpublished(j) => j = i
      /\ OldWaits' => OldWaits /\ kind[p] = "add"
  <2>1. \A j \in Ids : ~Moving(j) /\ ~Moving(j)'
    BY <1>1, <1>2, <1>5 DEF Moving, Adding
  <2>2. \A j \in Ids : Unpublished(j) => j = i
    BY <1>1, <1>2, <1>5 DEF Unpublished
  <2>3. OldWaits' => OldWaits /\ kind[p] = "add"
    BY <1>1, <1>2, ProcFacts DEF OldWaits, HolderOK
  <2> QED
    BY <2>1, <2>2, <2>3
<1>7. MemoryOK'
  <2>1. Indexed(cidrRules', cidrRuleKeyIndex')
    BY <1>1, <1>4, IndexedWithout DEF MapsInv, MemoryOK
  <2>2. cidrComboRefCount' = Combined(cidrRules')
    BY <1>1, <1>4, RecountIs DEF MapsInv, MemoryOK
  <2> QED
    BY <1>1, <2>1, <2>2 DEF MapsInv, MemoryOK, Indexed, Combined, OfCombo
<1>8. EntriesOK'
  <2>1. slot \in Slots /\ DOMAIN cbl = Slots /\ Shadow \in Slots /\ Shadow # slot
    BY DEF MapsInv, EntriesOK, Slots, Shadow
  <2>2. /\ cbl'[slot] = cbl[slot] \ {cidrRules[i].key} \/ cbl'[slot] = cbl[slot]
        /\ cbl'[Shadow] = cbl[Shadow] /\ DOMAIN cbl' = Slots /\ slot' = slot /\ Shadow' = Shadow
    BY <1>1, <2>1 DEF Shadow
  <2>3. \A j \in Ids \ {i} : cidrRules[j] # None => cidrRules[j].key # cidrRules[i].key
    BY <1>1, OneOwner DEF MapsInv, MemoryOK
  <2>4. \A j \in Ids : cidrRules'[j] # None => cidrRules'[j].key \in cbl'[slot] \cup lost
    BY <1>4, <1>6, <2>2, <2>3 DEF MapsInv, EntriesOK
  <2> QED
    BY <1>1, <2>1, <2>2, <2>4 DEF MapsInv, EntriesOK
<1>9. DeltaOK'
  BY <1>1, <1>2, <1>5 DEF MapsInv, DeltaOK
<1>10. ConfigOK'
  <2>1. /\ Cardinality(Rules(cidrRules')) = Cardinality(Rules(cidrRules)) - 1
        /\ Cardinality(Rules(cidrRules)) \in Nat /\ Cardinality(Rules(cidrRules')) \in Nat
    <3>1. /\ Cardinality(Rules(cidrRules')) = Cardinality(Rules(cidrRules))
               + One(cidrRules'[i] # None) - One(cidrRules[i] # None)
          /\ Cardinality(Rules(cidrRules)) \in Nat /\ Cardinality(Rules(cidrRules')) \in Nat
      BY <1>4, CountChange
    <3> QED
      BY <1>1, <1>4, <3>1 DEF One
  <2>2. conf.count \in Nat /\ conf.count >= Cardinality(Rules(cidrRules)) - Pending
    BY DEF MapsInv, ConfigOK
  <2>3. conf.count >= Cardinality(Rules(cidrRules')) - Pending'
    <3>1. CASE kind[p] = "add"
      <4>1. Pending = One(old = None)
        <5>1. Adding({"publish", "rollback"})
          BY <1>5, <3>1
        <5>2. delta = One(old = None)
          BY <5>1 DEF MapsInv, DeltaOK
        <5> QED
          BY <1>1, <1>2, <3>1, <5>1, <5>2 DEF Pending
      <4>2. Pending' = IF old = None THEN 0 ELSE -1
        BY <1>1, <1>2, <1>3, <1>5, <3>1 DEF Pending
      <4> QED
        BY <2>1, <2>2, <4>1, <4>2 DEF One
    <3>2. CASE kind[p] = "del"
      <4>1. Pending = delta /\ delta \in Int
        BY <1>1, <1>2, <1>5, <3>2 DEF Pending, MapsInv, DeltaOK
      <4>2. Pending' = delta - 1
        BY <1>1, <1>2, <1>3, <1>5, <3>2 DEF Pending
      <4> QED
        BY <2>1, <2>2, <4>1, <4>2
    <3> QED
      BY <1>1, <3>1, <3>2
  <2>4. \A j \in Ids : cidrRules'[j] # None => ComboOf(cidrRules'[j].key) \in conf.bitmap
    BY <1>4, <1>6 DEF MapsInv, ConfigOK
  <2> QED
    BY <1>1, <1>6, <2>2, <2>3, <2>4 DEF MapsInv, ConfigOK
<1>11. AddOK'
  <2>1. OldWaits' /\ old.key \in DOMAIN cidrRuleKeyIndex' =>
          cidrRuleKeyIndex'[old.key] = req[lock].id
    BY <1>1, <1>6 DEF MapsInv, AddOK, Without
  <2> QED
    BY <1>1, <1>5, <2>1 DEF AddOK
<1> QED
  BY <1>7, <1>8, <1>9, <1>10, <1>11 DEF MapsInv

\* The replaced rule comes back under the key that was kept for it.
LEMMA RestoreOldMaps ==
  ASSUME IInv, MapsInv, NEW p \in Procs, RestoreOld(p)
  PROVE  MapsInv'
<1> DEFINE id == req[p].id
<1>1. /\ pc[p] = "restore" /\ pc' = [pc EXCEPT ![p] = "unlock"] /\ old' = None
      /\ \/ cbl' = [cbl EXCEPT ![slot] = cbl[slot] \cup {old.key}] /\ lost' = lost
         \/ cbl' = cbl /\ lost' = lost \cup {old.key}
      /\ cidrComboRefCount' = Recount(old, None)
      /\ cidrRules' = [cidrRules EXCEPT ![id] = old]
      /\ cidrRuleKeyIndex' = With(cidrRuleKeyIndex, old.key, id)
      /\ UNCHANGED <<slot, conf, build, lock, kind, delta>>
  BY DEF RestoreOld, Goto, ticket
<1>2. /\ At(p) = "restore" /\ lock = p /\ p # None /\ kind[p] = "add" /\ old # None
      /\ cidrRules[id] = None /\ id \in Ids /\ pc'[p] = "unlock" /\ OldWaits
  BY <1>1, ProcFacts
     DEF StepOK, Holding, Locked, ReplaceOK, DelSteps, SyncSteps, Building, ProcsType, RequestOK,
         HasRule, Rule, OldWaits
<1>3. old.key \in DOMAIN cidrRuleKeyIndex => cidrRuleKeyIndex[old.key] = id
  BY <1>2 DEF MapsInv, AddOK
<1> HIDE DEF id
<1>4. cidrRules'[id] = old /\ \A j \in Ids \ {id} : cidrRules'[j] = cidrRules[j]
  BY <1>1, <1>2, ProcFacts DEF TablesType, Tables
<1>5. \A S : (Adding(S) => "restore" \in S) /\ (Adding(S)' => "unlock" \in S)
  BY <1>1, <1>2 DEF Adding
<1>6. /\ ~Adding({"publish", "rollback"}) /\ ~Adding({"publish", "rollback"})'
      /\ ~Adding({"commit"}) /\ ~Adding({"delold", "abort", "commit"})'
      /\ ~Adding({"delold", "abort"})' /\ ~Adding({"delold", "commit"})'
      /\ ~Adding({"insert", "delold", "abort", "commit"})' /\ ~OldWaits'
  BY <1>1, <1>5 DEF OldWaits
<1>7. \A i \in Ids : ~Moving(i) /\ ~Unpublished(i)
  BY <1>6 DEF Moving, Unpublished
<1>8. Pending = -1 /\ Pending' = 0
  BY <1>1, <1>2, <1>6 DEF Pending, At
<1>9. AddOK' /\ DeltaOK'
  BY <1>1, <1>2, <1>6 DEF MapsInv, AddOK, DeltaOK
<1>10. MemoryOK'
  <2>1. Indexed(cidrRules', With(cidrRuleKeyIndex, old.key, id))
    BY <1>2, <1>3, <1>4, IndexedWith DEF MapsInv, MemoryOK
  <2>2. cidrComboRefCount' = Combined(cidrRules')
    BY <1>1, <1>2, <1>4, RecountIs DEF MapsInv, MemoryOK
  <2> QED
    BY <1>1, <2>1, <2>2 DEF MapsInv, MemoryOK, Indexed, Combined, OfCombo
<1>11. EntriesOK'
  <2>1. slot \in Slots /\ DOMAIN cbl = Slots /\ Shadow \in Slots /\ Shadow # slot
    BY DEF MapsInv, EntriesOK, Slots, Shadow
  <2>2. /\ cbl[slot] \subseteq cbl'[slot] /\ lost \subseteq lost'
        /\ old.key \in cbl'[slot] \cup lost'
        /\ cbl'[Shadow] = cbl[Shadow] /\ DOMAIN cbl' = Slots /\ slot' = slot /\ Shadow' = Shadow
    BY <1>1, <2>1 DEF Shadow
  <2>3. \A j \in Ids : cidrRules'[j] # None => cidrRules'[j].key \in cbl'[slot] \cup lost'
    BY <1>4, <1>7, <2>2 DEF MapsInv, EntriesOK
  <2> QED
    BY <1>1, <2>1, <2>2, <2>3 DEF MapsInv, EntriesOK
<1>12. ConfigOK'
  <2>1. /\ Cardinality(Rules(cidrRules')) = Cardinality(Rules(cidrRules)) + 1
        /\ Cardinality(Rules(cidrRules)) \in Nat
    <3>1. /\ Cardinality(Rules(cidrRules')) = Cardinality(Rules(cidrRules))
               + One(cidrRules'[id] # None) - One(cidrRules[id] # None)
          /\ Cardinality(Rules(cidrRules)) \in Nat
      BY <1>2, <1>4, CountChange
    <3> QED
      BY <1>2, <1>4, <3>1 DEF One
  <2>2. conf'.count \in Nat /\ conf'.count >= Cardinality(Rules(cidrRules')) - Pending'
    BY <1>1, <1>8, <2>1 DEF MapsInv, ConfigOK
  <2>3. \A j \in Ids : cidrRules'[j] # None => ComboOf(cidrRules'[j].key) \in conf'.bitmap
    BY <1>1, <1>2, <1>4, <1>7 DEF MapsInv, ConfigOK
  <2> QED
    BY <1>6, <2>2, <2>3 DEF ConfigOK
<1> QED
  BY <1>9, <1>10, <1>11, <1>12 DEF MapsInv

-----------------------------------------------------------------------------
(* The maps and the config agree with memory throughout *)

LEMMA InitMaps ==
  ASSUME Init
  PROVE  MapsInv
<1>1. lock = None /\ delta = 0 /\ old = None /\ build = EmptyBuild
      /\ cidrRules = EmptyBuild.rules /\ cidrRuleKeyIndex = EmptyBuild.index
      /\ cidrComboRefCount = EmptyBuild.combo
  BY DEF Init, EmptyBuild
<1>2. \A i \in Ids : cidrRules[i] = None /\ build.rules[i] = None
  BY <1>1, EmptyBuildOK
<1>3. Rules(cidrRules) = {} /\ Cardinality({}) = 0
  BY <1>2, FS_EmptySet DEF Rules
<1>4. (\A S : ~Adding(S)) /\ ~OldWaits /\ Pending = 0
  BY <1>1 DEF Adding, OldWaits, Pending
<1>5. MemoryOK
  BY <1>1, EmptyBuildOK DEF MemoryOK
<1>6. EntriesOK
  BY <1>2 DEF Init, EntriesOK, Slots
<1>7. ConfigOK
  BY <1>2, <1>3, <1>4 DEF Init, ConfigOK
<1>8. AddOK /\ DeltaOK
  BY <1>1, <1>4 DEF AddOK, DeltaOK
<1> QED
  BY <1>5, <1>6, <1>7, <1>8 DEF MapsInv

LEMMA NextMaps ==
  ASSUME IInv, IInv', MapsInv, Next
  PROVE  MapsInv'
<1>1. PICK p \in Procs : Request(p) \/ Run(p)
  BY DEF Next
<1>2. CASE RefuseAdd(p)
  <2>1. /\ pc[p] = "insert" /\ lock' = None /\ delta' = delta /\ UNCHANGED Contents
    BY <1>2 DEF RefuseAdd, manager, history, holder, Contents, Settled, maps
  <2>2. lock = p /\ kind[p] = "add"
    BY <2>1, AddFacts
  <2> QED
    BY <2>1, <2>2, LockMaps
<1>3. CASE Acquire(p) \/ Unlock(p)
  <2>1. UNCHANGED Contents
    BY <1>3 DEF Acquire, Unlock, manager, history, holder, Contents, Settled, maps
  <2> QED
    BY <1>3, <2>1, LockMaps
<1>4. CASE \/ Request(p) \/ Return(p) \/ CheckSrc(p) \/ CheckDst(p)
           \/ AllocSrcID(p) \/ AllocDstID(p)
  BY <1>4, AsideMaps
<1>5. CASE AddStep(p) /\ ~RefuseAdd(p) /\ ~CheckSrc(p) /\ ~CheckDst(p)
  BY <1>5, InsertKeyMaps, DeleteOldKeyMaps, DecideMaps, AbortAddMaps, CommitAddMaps, PublishMaps,
     TakeOutMaps, RestoreOldMaps DEF AddStep
<1>6. CASE DeleteStep(p) \/ PublishFails(p)
  BY <1>6, DecideMaps, TakeOutMaps, PublishMaps DEF DeleteStep
<1>7. CASE SyncStep(p)
  BY <1>7, ClearMaps, SyncWalkMaps, SyncWriteMaps, SyncAbortMaps, SyncFlipMaps DEF SyncStep
<1>8. CASE ReleaseID(p)
  BY <1>8, ReleaseMaps
<1> QED
  BY <1>1, <1>2, <1>3, <1>4, <1>5, <1>6, <1>7, <1>8 DEF Run

LEMMA StutterMaps ==
  ASSUME MapsInv, UNCHANGED vars
  PROVE  MapsInv'
<1> USE DEF vars, manager, history, table, maps, ticket, dropping, holder, fvars
<1>1. (\A S : Adding(S)' = Adding(S)) /\ Pending' = Pending /\ OldWaits' = OldWaits
  BY DEF Adding, Pending, At, OldWaits
<1>2. \A i \in Ids : Moving(i)' = Moving(i) /\ Unpublished(i)' = Unpublished(i)
  BY <1>1 DEF Moving, Unpublished
<1>3. KeyOf(lock)' = KeyOf(lock)
  BY DEF KeyOf
<1>4. AddOK' /\ DeltaOK'
  BY <1>1, <1>3 DEF MapsInv, AddOK, DeltaOK
<1>5. Pending \in Int
  BY PendingType DEF MapsInv, DeltaOK
<1> QED
  BY <1>1, <1>2, <1>4, <1>5, StillOK DEF Contents, Settled

\* The maps, the config and memory agree as far as the handler that holds the lock has
\* come (addCIDRRule, DeleteRule and DoAtomicSync).
THEOREM MapsInvariance == Spec => []MapsInv
<1>1. Init => MapsInv
  BY InitMaps
<1>2. IInv /\ IInv' /\ MapsInv /\ [Next]_vars => MapsInv'
  BY NextMaps, StutterMaps
<1> QED
  BY <1>1, <1>2, Invariance, PTL DEF Spec

\* For any number of handlers and of failures: between requests every CIDR rule in memory
\* has its entry in the active map, and the config in force does not hide it, unless a
\* rollback could not put the entry back (addCIDRRule, DeleteRule and DoAtomicSync with
\* publishConfigUpdate).
THEOREM RulesInForce == Spec => []Enforced
<1>1. IInv /\ MapsInv => Enforced
  <2> SUFFICES ASSUME IInv, MapsInv, lock = None, NEW i \in Ids,
                      cidrRules[i] # None, cidrRules[i].key \notin lost
               PROVE  /\ cidrRules[i].key \in cbl[slot]
                      /\ ComboOf(cidrRules[i].key) \in conf.bitmap
                      /\ conf.count > 0
    BY DEF Enforced
  <2>1. ~Moving(i) /\ ~Unpublished(i) /\ Pending = 0
    BY DEF Moving, Unpublished, Adding, Pending
  <2>2. Cardinality(Rules(cidrRules)) >= 1 /\ Cardinality(Rules(cidrRules)) \in Nat
    BY ComboCounted, CidrAssumption, FS_Subset, FS_CardinalityType DEF Rules
  <2> QED
    BY <2>1, <2>2 DEF MapsInv, EntriesOK, ConfigOK
<1> QED
  BY <1>1, Invariance, MapsInvariance, PTL

-----------------------------------------------------------------------------
(* Networks that contain one another: the invariant behind LongestMatch *)

\* One handler at a time.
OneHandler == \A p, q \in Procs : p = q

\* The rules of a full sync do not contain one another.  The agent does not look; the
\* controller refuses an overlapping rule when it stores it (rule_service.go:88, :615).
FlatSyncs ==
  \A b \in Syncs, s \in Sides : \A j, k \in DOMAIN b : <<b[j].net[s], b[k].net[s]>> \notin Inside

\* Network n is in use on side s by a rule in force, by the rule an add replaces, or by
\* an add or a delete that holds or releases it.
PlainUse(s, n) ==
  \/ \E i \in Ids : Uses(cidrRules[i], s, n)
  \/ OldWaits /\ old.net[s] = n
  \/ \E p \in Procs : kind[p] # "sync" /\ (Held(p)[s] = n \/ drop[p][s] = n)

\* A running full sync builds or will build a rule with network n.
BatchUse(s, n) ==
  \E p \in Procs :
    /\ kind[p] = "sync"
    /\ \/ \E i \in Ids : Uses(build.rules[i], s, n)
       \/ \E j \in DOMAIN todo[p] : todo[p][j].net[s] = n
       \/ pc[p] \in {"allocSrc", "allocDst", "write"} /\ req[p].net[s] = n

PlainFlat ==
  \A s \in Sides, m, n \in Nets : PlainUse(s, m) /\ PlainUse(s, n) => <<m, n>> \notin Inside
BatchFlat ==
  \A s \in Sides, m, n \in Nets : BatchUse(s, m) /\ BatchUse(s, n) => <<m, n>> \notin Inside

\* What the checks of an add have found still holds when it takes its ids.
Checked ==
  \A p \in Procs : kind[p] = "add" =>
    /\ pc[p] \in {"checkDst", "allocSrc"} => Conflicts("src", req[p].net["src"]) = {}
    /\ pc[p] \in {"allocSrc", "allocDst"} => Conflicts("dst", req[p].net["dst"]) = {}

FlatInv == PlainFlat /\ BatchFlat /\ Checked

-----------------------------------------------------------------------------
(* What is in use, with one handler *)

LEMMA PlainOf ==
  ASSUME OneHandler, NEW p \in Procs, NEW s \in Sides, NEW n \in Nets
  PROVE  /\ PlainUse(s, n) <=> \/ \E i \in Ids : Uses(cidrRules[i], s, n)
                               \/ OldWaits /\ old.net[s] = n
                               \/ kind[p] # "sync" /\ (Held(p)[s] = n \/ drop[p][s] = n)
         /\ PlainUse(s, n)' <=> \/ \E i \in Ids : Uses(cidrRules'[i], s, n)
                                \/ OldWaits' /\ old'.net[s] = n
                                \/ kind'[p] # "sync" /\ ((Held(p)[s])' = n \/ drop'[p][s] = n)
<1>1. \A q \in Procs : q = p
  BY DEF OneHandler
<1> QED
  BY <1>1 DEF PlainUse, Uses

LEMMA BatchOf ==
  ASSUME OneHandler, NEW p \in Procs, NEW s \in Sides, NEW n \in Nets
  PROVE  /\ BatchUse(s, n) <=>
              /\ kind[p] = "sync"
              /\ \/ \E i \in Ids : Uses(build.rules[i], s, n)
                 \/ \E j \in DOMAIN todo[p] : todo[p][j].net[s] = n
                 \/ pc[p] \in {"allocSrc", "allocDst", "write"} /\ req[p].net[s] = n
         /\ BatchUse(s, n)' <=>
              /\ kind'[p] = "sync"
              /\ \/ \E i \in Ids : Uses(build'.rules[i], s, n)
                 \/ \E j \in DOMAIN todo'[p] : todo'[p][j].net[s] = n
                 \/ pc'[p] \in {"allocSrc", "allocDst", "write"} /\ req'[p].net[s] = n
<1>1. \A q \in Procs : q = p
  BY DEF OneHandler
<1> QED
  BY <1>1 DEF BatchUse, Uses

\* A step after which nothing is in use that was not in use before.
LEMMA FlatEnd ==
  ASSUME OneHandler, NEW p \in Procs, FlatInv,
         kind'[p] # "sync" => \A s \in Sides, n \in Nets :
           (Held(p)[s])' = n \/ drop'[p][s] = n => PlainUse(s, n),
         \A s \in Sides, n \in Nets : \A i \in Ids : Uses(cidrRules'[i], s, n) => PlainUse(s, n),
         OldWaits' => \A s \in Sides, n \in Nets : old'.net[s] = n => PlainUse(s, n),
         \A s \in Sides, n \in Nets : BatchUse(s, n)' => BatchUse(s, n),
         Checked'
  PROVE  FlatInv'
<1>1. \A s \in Sides, n \in Nets : PlainUse(s, n)' => PlainUse(s, n)
  BY PlainOf
<1>2. PlainFlat'
  BY <1>1 DEF FlatInv, PlainFlat
<1>3. BatchFlat'
  BY DEF FlatInv, BatchFlat
<1> QED
  BY <1>2, <1>3 DEF FlatInv

\* A step that moves no network.
LEMMA QuietFlat ==
  ASSUME OneHandler, NEW p \in Procs, FlatInv, UNCHANGED <<cidrRules, got, drop>>,
         req'[p] = req[p] \/ got[p] = NoId,
         OldWaits' => OldWaits /\ old' = old,
         kind'[p] = "sync" \/ kind[p] # "sync" \/ (got[p] = NoId /\ drop[p] = NoNet),
         \A s \in Sides, n \in Nets : BatchUse(s, n)' => BatchUse(s, n),
         Checked'
  PROVE  FlatInv'
<1>1. \A s \in Sides : (Held(p)[s])' = Held(p)[s]
  BY DEF Held, NoId
<1>2. ASSUME kind'[p] # "sync", NEW s \in Sides, NEW n \in Nets,
             (Held(p)[s])' = n \/ drop'[p][s] = n
      PROVE  PlainUse(s, n)
  <2>1. CASE kind[p] # "sync"
    BY <1>1, <1>2, <2>1, PlainOf
  <2>2. CASE got[p] = NoId /\ drop[p] = NoNet
    <3>1. Held(p)[s] = None /\ drop[p][s] = None /\ n # None
      BY <2>2, NetsFacts DEF Held, NoId
    <3> QED
      BY <1>1, <1>2, <3>1
  <2> QED
    BY <1>2, <2>1, <2>2
<1>3. \A s \in Sides, n \in Nets : \A i \in Ids : Uses(cidrRules'[i], s, n) => PlainUse(s, n)
  BY DEF PlainUse
<1>4. OldWaits' => \A s \in Sides, n \in Nets : old'.net[s] = n => PlainUse(s, n)
  BY DEF PlainUse
<1> QED
  BY <1>2, <1>3, <1>4, FlatEnd

\* A step that leaves a full sync what it builds.
LEMMA BatchKeeps ==
  ASSUME OneHandler, NEW p \in Procs,
         kind'[p] = "sync" =>
           /\ kind[p] = "sync" /\ build'.rules = build.rules /\ todo'[p] = todo[p]
           /\ pc'[p] \in {"allocSrc", "allocDst", "write"} =>
                pc[p] \in {"allocSrc", "allocDst", "write"} /\ req'[p] = req[p]
  PROVE  \A s \in Sides, n \in Nets : BatchUse(s, n)' => BatchUse(s, n)
BY BatchOf

LEMMA CheckedIf ==
  ASSUME OneHandler, NEW p \in Procs,
         kind'[p] = "add" => pc'[p] \notin {"checkDst", "allocSrc", "allocDst"}
  PROVE  Checked'
<1>1. \A q \in Procs : q = p
  BY DEF OneHandler
<1> QED
  BY <1>1 DEF Checked

\* Only an add that holds the lock has replaced a rule.
LEMMA OldNone ==
  ASSUME IInv, OneHandler, NEW p \in Procs, kind[p] # "add" \/ lock # p
  PROVE  old = None /\ ~OldWaits
<1>1. \A q \in Procs : q = p
  BY DEF OneHandler
<1>2. lock \in Procs \cup {None} /\ HolderOK
  BY DEF IInv, TypeOK, ProcsType
<1>3. old = None
  BY <1>1, <1>2 DEF HolderOK
<1> QED
  BY <1>3 DEF OldWaits

\* What is in use has an id.
LEMMA PlainCounted ==
  ASSUME IInv, NEW s \in Sides, NEW n \in Nets, PlainUse(s, n)
  PROVE  cidrs[s][n] # 0
<1>1. refs[s][n] = Users(s, n) + leaked[s][n] /\ refs[s][n] \in Nat /\ leaked[s][n] \in Nat
      /\ (cidrs[s][n] = 0 <=> refs[s][n] = 0)
  BY DEF IInv, RefsExact, TypeOK, ManagerType, Counts, ManagerOK
<1>2. InForce(s, n) >= 1 \/ Waiting(s, n) >= 1 \/ Taken(s, n) >= 1 \/ Dropping(s, n) >= 1
  BY Holders DEF PlainUse, Waiting, One
<1> QED
  BY <1>1, <1>2, Parts

LEMMA CheckedAt ==
  ASSUME OneHandler, NEW p \in Procs,
         kind'[p] = "add" =>
           /\ pc'[p] \in {"checkDst", "allocSrc"} => Conflicts("src", req[p].net["src"])' = {}
           /\ pc'[p] \in {"allocSrc", "allocDst"} => Conflicts("dst", req[p].net["dst"])' = {}
  PROVE  Checked'
<1>1. \A q \in Procs : q = p
  BY DEF OneHandler
<1> QED
  BY <1>1 DEF Checked

\* A step of an add or a delete has no full sync to look after.
LEMMA PlainStep ==
  ASSUME OneHandler, NEW p \in Procs, FlatInv, kind'[p] # "sync",
         \A s \in Sides, n \in Nets : (Held(p)[s])' = n \/ drop'[p][s] = n => PlainUse(s, n),
         \A s \in Sides, n \in Nets : \A i \in Ids : Uses(cidrRules'[i], s, n) => PlainUse(s, n),
         OldWaits' => \A s \in Sides, n \in Nets : old'.net[s] = n => PlainUse(s, n),
         Checked'
  PROVE  FlatInv'
<1>1. \A s \in Sides, n \in Nets : ~BatchUse(s, n)'
  BY BatchOf
<1> QED
  BY <1>1, FlatEnd

\* A step of a full sync, short of the flip, leaves the networks in force alone.
LEMMA SyncStepFlat ==
  ASSUME IInv, OneHandler, NEW p \in Procs, FlatInv,
         kind[p] = "sync", kind'[p] = "sync", cidrRules' = cidrRules, old' = old,
         \A s \in Sides, n \in Nets : BatchUse(s, n)' => BatchUse(s, n)
  PROVE  FlatInv'
<1>1. ~OldWaits'
  BY OldNone DEF OldWaits
<1>2. Checked'
  BY CheckedIf
<1>3. \A s \in Sides, n \in Nets : \A i \in Ids : Uses(cidrRules'[i], s, n) => PlainUse(s, n)
  BY DEF PlainUse
<1> QED
  BY <1>1, <1>2, <1>3, FlatEnd

-----------------------------------------------------------------------------
(* Nothing in use contains another: one lemma per action *)

LEMMA BeginFlat ==
  ASSUME IInv, FlatInv, OneHandler, FlatSyncs, NEW p \in Procs, Request(p)
  PROVE  FlatInv'
<1>1. PICK k, l, b, r :
        /\ k \in {"add", "del", "sync"} /\ l \in {"checkSrc", "lock"} /\ Begin(p, k, l, b, r)
        /\ k = "sync" => b \in Syncs
  BY DEF Request, BeginAdd, BeginDelete, BeginSync
<1> USE DEF manager, history, ticket, dropping, holder, table
<1>2. /\ pc[p] = "idle" /\ pc'[p] = l /\ kind'[p] = k /\ todo'[p] = b
      /\ UNCHANGED <<cidrRules, lock, got, drop, old, build>>
  BY <1>1, ProcFacts DEF Begin, Goto, ProcsType
<1>3. kind[p] = "none" /\ lock # p /\ got[p]["src"] = 0 /\ got[p]["dst"] = 0 /\ drop[p] = NoNet
  BY <1>2, ProcFacts DEF StepOK, RequestOK, Keying, Holding, AddSteps, DelSteps, SyncSteps,
     Building, Locked, ProcsType
<1>4. got[p] = NoId
  BY <1>3, ProcFacts DEF ProcsType, NoId, Sides
<1>5. ~OldWaits'
  BY <1>2, <1>3, OldNone DEF OldWaits
<1>6. /\ \A s \in Sides, n \in Nets : ~((Held(p)[s])' = n) /\ drop'[p][s] # n
      /\ \A s \in Sides, n \in Nets : \A i \in Ids : Uses(cidrRules'[i], s, n) => PlainUse(s, n)
  BY <1>2, <1>3, <1>4, NetsFacts DEF Held, NoId, PlainUse
<1>7. Checked'
  BY <1>1, <1>2, CheckedIf
<1>8. CASE k = "sync"
  <2>1. build.rules = EmptyTable
    BY <1>3, ProcFacts DEF HolderOK, OneHandler, ProcsType
  <2>2. \A s \in Sides, n \in Nets : BatchUse(s, n)' => \E j \in DOMAIN b : b[j].net[s] = n
    BY <1>1, <1>2, <2>1, BatchOf DEF Uses, EmptyTable
  <2>3. BatchFlat'
    BY <1>1, <1>8, <2>2 DEF FlatSyncs, BatchFlat
  <2>4. \A s \in Sides, n \in Nets : PlainUse(s, n)' => PlainUse(s, n)
    BY <1>5, <1>6, PlainOf
  <2>5. PlainFlat'
    BY <2>4 DEF FlatInv, PlainFlat
  <2> QED
    BY <1>7, <2>3, <2>5 DEF FlatInv
<1>9. CASE k # "sync"
  BY <1>2, <1>5, <1>6, <1>7, <1>9, PlainStep
<1> QED
  BY <1>8, <1>9

LEMMA CheckFlat ==
  ASSUME IInv, FlatInv, OneHandler, NEW p \in Procs, CheckSrc(p) \/ CheckDst(p)
  PROVE  FlatInv'
<1> USE DEF manager, history, ticket, dropping, holder, table
<1>1. /\ pc[p] \in {"checkSrc", "checkDst"}
      /\ UNCHANGED <<cidrs, cidrRules, lock, kind, req, got, drop, old>>
      /\ pc'[p] \in {"checkDst", "allocSrc", "return"}
      /\ pc'[p] = "checkDst" => Conflicts("src", req[p].net["src"]) = {}
      /\ pc'[p] = "allocSrc" => pc[p] = "checkDst" /\ Conflicts("dst", req[p].net["dst"]) = {}
  BY ProcFacts DEF CheckSrc, CheckDst, Check, Goto, ProcsType
<1>2. kind[p] = "add" /\ lock # p
  BY <1>1, ProcFacts DEF StepOK, RequestOK, Holding, DelSteps, SyncSteps, Building, Locked,
     ProcsType
<1>3. Checked'
  <2>1. pc[p] = "checkDst" => Conflicts("src", req[p].net["src"]) = {}
    BY <1>2 DEF FlatInv, Checked
  <2>2. \A s, n : Conflicts(s, n)' = Conflicts(s, n)
    BY <1>1 DEF Conflicts
  <2>3. /\ pc'[p] \in {"checkDst", "allocSrc"} => Conflicts("src", req[p].net["src"])' = {}
        /\ pc'[p] \in {"allocSrc", "allocDst"} => Conflicts("dst", req[p].net["dst"])' = {}
    BY <1>1, <2>1, <2>2 DEF Conflicts
  <2> QED
    BY <2>3, CheckedAt
<1>4. ~OldWaits'
  BY <1>1, <1>2, OldNone DEF OldWaits
<1>5. \A s \in Sides, n \in Nets : ~BatchUse(s, n)'
  BY <1>1, <1>2, BatchOf
<1> QED
  BY <1>1, <1>2, <1>3, <1>4, <1>5, QuietFlat

\* The lock is taken and let go by a handler that holds no reference but an add's own.
LEMMA ReturnFlat ==
  ASSUME IInv, FlatInv, OneHandler, NEW p \in Procs, Return(p) \/ Unlock(p)
  PROVE  FlatInv'
<1> USE DEF manager, history, table, holder
<1>1. /\ pc[p] \in {"return", "unlock"} /\ kind'[p] = "none"
      /\ UNCHANGED <<cidrRules, got, drop>>
      /\ pc[p] = "return" => lock' = lock /\ old' = old
      /\ pc[p] = "unlock" => lock' = None /\ old' = None
  BY ProcFacts DEF Return, Unlock, Forget, ProcsType
<1>2. /\ got[p]["src"] = 0 /\ got[p]["dst"] = 0 /\ got[p] = NoId /\ drop[p] = NoNet
      /\ pc[p] = "return" => lock # p
  BY <1>1, ProcFacts DEF StepOK, RequestOK, Keying, Holding, Locked, ProcsType, NoId, Sides
<1>3. ~OldWaits'
  BY <1>1, <1>2, OldNone DEF OldWaits
<1>4. Checked' /\ \A s \in Sides, n \in Nets : ~BatchUse(s, n)'
  BY <1>1, BatchOf, CheckedIf
<1> QED
  BY <1>1, <1>2, <1>3, <1>4, QuietFlat

LEMMA AcquireFlat ==
  ASSUME IInv, FlatInv, OneHandler, NEW p \in Procs, Acquire(p)
  PROVE  FlatInv'
<1> USE DEF manager, history, ticket, dropping, holder, table
<1>1. /\ pc[p] = "lock" /\ lock = None /\ pc'[p] \in {"insert", "delete", "clear"}
      /\ UNCHANGED <<cidrRules, build, kind, todo, req, got, drop, old>>
  BY ProcFacts DEF Acquire, Goto, ProcsType
<1>2. lock # p
  BY <1>1, ProcFacts
<1>3. ~OldWaits'
  BY <1>1, <1>2, OldNone DEF OldWaits
<1>4. \A s \in Sides, n \in Nets : BatchUse(s, n)' => BatchUse(s, n)
  BY <1>1, BatchKeeps
<1>5. Checked'
  BY <1>1, CheckedIf
<1> QED
  BY <1>1, <1>3, <1>4, <1>5, QuietFlat

\* Steps of the lock holder that move no network.
LEMMA LockedFlat ==
  ASSUME IInv, FlatInv, OneHandler, NEW p \in Procs,
         \/ DeleteOldKey(p) \/ OldKeyStays(p) \/ DeleteDone(p) \/ PublishDelete(p)
         \/ PublishFails(p) \/ SyncClear(p) \/ SyncReleased(p) \/ SyncCleanup(p)
         \/ InsertKey(p) \/ DeleteFails(p)
  PROVE  FlatInv'
<1> USE DEF manager, history, ticket, dropping, holder, table
<1>1. /\ UNCHANGED <<cidrRules, build, lock, kind, req, got, drop>>
      /\ pc[p] \in Locked
      /\ pc'[p] \in {"commit", "abort", "unlock", "publish", "rollback", "item", "cleanup",
                     "delold", "delete"}
      /\ \/ old' = old /\ (pc'[p] \in {"publish", "rollback"} /\ kind[p] = "add"
                             => pc[p] = "publish")
         \/ pc'[p] \in {"commit", "delold"}
      /\ todo' = todo \/ kind[p] # "sync"
  <2>1. CASE DeleteOldKey(p) \/ OldKeyStays(p)
    BY <2>1, ProcFacts DEF DeleteOldKey, OldKeyStays, Goto, ProcsType, Locked
  <2>2. CASE DeleteDone(p) \/ PublishDelete(p)
    BY <2>2, ProcFacts DEF DeleteDone, PublishDelete, Goto, ProcsType, Locked, StepOK, AddSteps
  <2>3. CASE PublishFails(p)
    BY <2>3, ProcFacts DEF PublishFails, Goto, ProcsType, Locked
  <2>4. CASE SyncClear(p) \/ SyncCleanup(p) \/ SyncReleased(p)
    BY <2>4, ProcFacts DEF SyncClear, SyncCleanup, SyncReleased, ClearMap, Goto, ProcsType,
       Locked
  <2>5. CASE InsertKey(p)
    BY <2>5, ProcFacts DEF InsertKey, Goto, ProcsType, Locked
  <2>6. CASE DeleteFails(p)
    BY <2>6, ProcFacts DEF DeleteFails, ProcsType, Locked, StepOK, SyncSteps, Building
  <2> QED
    BY <2>1, <2>2, <2>3, <2>4, <2>5, <2>6
<1>2. lock = p /\ p # None
  BY <1>1, ProcFacts DEF StepOK, Holding, Locked
<1>3. OldWaits' => OldWaits /\ old' = old
  <2>1. CASE kind[p] = "add"
    BY <1>1, <1>2, <2>1, ProcFacts DEF OldWaits
  <2>2. CASE kind[p] # "add"
    BY <1>1, <1>2, <2>2, OldNone, ProcFacts DEF OldWaits, StepOK, InsertKey
  <2> QED
    BY <2>1, <2>2
<1>4. \A s \in Sides, n \in Nets : BatchUse(s, n)' => BatchUse(s, n)
  BY <1>1, BatchKeeps
<1>5. Checked'
  BY <1>1, CheckedIf
<1> QED
  BY <1>1, <1>3, <1>4, <1>5, QuietFlat

\* What a handler gives back it has held.
LEMMA GiveBackFlat ==
  ASSUME IInv, FlatInv, OneHandler, NEW p \in Procs,
         RefuseAdd(p) \/ AbortAdd(p) \/ SyncWriteFails(p)
  PROVE  FlatInv'
<1> USE DEF manager, history, table
<1>1. PICK l \in {"return", "item"} :
        /\ pc[p] \in {"insert", "abort", "write"} /\ HandOver(p) /\ ReleaseThen(p, req[p].net, l)
        /\ UNCHANGED <<cidrRules, kind, todo, req, build>>
        /\ pc[p] \in {"insert", "abort"} => lock' = None
        /\ pc[p] = "write" => old' = old
  BY DEF RefuseAdd, AbortAdd, SyncWriteFails, holder
<1>2. Keying(p)
  BY <1>1 DEF Keying
<1>3. /\ req[p].net \in Net /\ \A s \in Sides : Held(p)[s] = req[p].net[s]
  BY <1>2, KeyingFacts
<1>4. l \in Steps
  BY DEF Steps, AddSteps, SyncSteps, Building
<1>5. /\ drop'[p] = req[p].net /\ pc'[p] \in {l, "drop"}
      /\ \A s \in Sides : (Held(p)[s])' = None
  BY <1>1, <1>3, <1>4, ReleaseFacts, HandedOver
<1>6. pc[p] = "write" <=> kind[p] = "sync"
  BY <1>1, ProcFacts DEF StepOK, AddSteps, DelSteps, SyncSteps, Building, ProcsType
<1>7. CASE kind[p] = "sync"
  <2>1. \A s \in Sides, n \in Nets : BatchUse(s, n)' => BatchUse(s, n)
    BY <1>1, <1>5, BatchKeeps
  <2> QED
    BY <1>1, <1>6, <1>7, <2>1, SyncStepFlat
<1>8. CASE kind[p] # "sync"
  <2>1. ~OldWaits'
    BY <1>1, <1>6, <1>8 DEF OldWaits
  <2>2. \A s \in Sides, n \in Nets : (Held(p)[s])' = n \/ drop'[p][s] = n => PlainUse(s, n)
    BY <1>3, <1>5, <1>8, NetsFacts, PlainOf
  <2>3. \A s \in Sides, n \in Nets : \A i \in Ids : Uses(cidrRules'[i], s, n) => PlainUse(s, n)
    BY <1>1 DEF PlainUse
  <2>4. Checked'
    BY <1>1, <1>5, CheckedIf
  <2> QED
    BY <1>1, <1>8, <2>1, <2>2, <2>3, <2>4, PlainStep
<1> QED
  BY <1>7, <1>8

LEMMA CommitAddFlat ==
  ASSUME IInv, FlatInv, OneHandler, NEW p \in Procs, CommitAdd(p)
  PROVE  FlatInv'
<1> DEFINE new == [key |-> KeyOf(p), net |-> req[p].net]
           id  == req[p].id
<1>1. /\ pc[p] = "commit" /\ HandOver(p) /\ Goto(p, "publish")
      /\ cidrRules' = [cidrRules EXCEPT ![id] = new]
      /\ UNCHANGED <<lock, kind, drop, old>>
  BY DEF CommitAdd, dropping
<1>2. Keying(p) /\ kind[p] = "add"
  BY <1>1, ProcFacts DEF Keying, StepOK, DelSteps, SyncSteps, Building, ProcsType
<1>3. id \in Ids /\ \A s \in Sides : Held(p)[s] = req[p].net[s]
  BY <1>2, KeyingFacts
<1>4. /\ \A s \in Sides : (Held(p)[s])' = None
      /\ drop'[p] = drop[p] /\ pc'[p] = "publish"
      /\ old = cidrRules[id]
  BY <1>1, HandedOver, ProcFacts DEF Goto, ProcsType, ReplaceOK
<1>5. \A s \in Sides, n \in Nets : (Held(p)[s])' = n \/ drop'[p][s] = n => PlainUse(s, n)
  BY <1>2, <1>4, NetsFacts, PlainOf
<1>6. ASSUME NEW s \in Sides, NEW n \in Nets, NEW i \in Ids, Uses(cidrRules'[i], s, n)
      PROVE  PlainUse(s, n)
  <2>1. CASE i = id
    <3>1. cidrRules'[i].net = req[p].net
      BY <1>1, <2>1, ProcFacts DEF TablesType, Tables
    <3> QED
      BY <1>2, <1>3, <1>6, <3>1, PlainOf DEF Uses
  <2>2. CASE i # id
    BY <1>1, <1>6, <2>2, ProcFacts DEF TablesType, Tables, PlainUse
  <2> QED
    BY <2>1, <2>2
<1>7. OldWaits' => \A s \in Sides, n \in Nets : old'.net[s] = n => PlainUse(s, n)
  BY <1>1, <1>3, <1>4 DEF OldWaits, PlainUse, Uses
<1>8. Checked'
  BY <1>4, CheckedIf
<1> QED
  BY <1>1, <1>2, <1>5, <1>6, <1>7, <1>8, PlainStep

LEMMA PublishAddFlat ==
  ASSUME IInv, FlatInv, OneHandler, NEW p \in Procs, PublishAdd(p)
  PROVE  FlatInv'
<1> DEFINE net == IF old = None THEN NoNet ELSE old.net
<1>1. /\ pc[p] = "publish" /\ kind[p] = "add" /\ old' = None
      /\ ReleaseThen(p, net, "unlock")
      /\ UNCHANGED <<cidrRules, kind, req, got>>
  BY DEF PublishAdd, table, ticket
<1>2. net \in Net
  BY NetsFacts, ProcFacts DEF TablesType, Stored
<1>3. drop'[p] = net /\ pc'[p] \in {"unlock", "drop"}
  BY <1>1, <1>2, ReleaseFacts DEF Steps, AddSteps
<1>4. lock = p /\ p # None
  BY <1>1, ProcFacts DEF StepOK, Holding, Locked
<1>5. ~OldWaits'
  BY <1>1 DEF OldWaits
<1>6. \A s \in Sides, n \in Nets : (Held(p)[s])' = n \/ drop'[p][s] = n => PlainUse(s, n)
  <2>1. \A s \in Sides : (Held(p)[s])' = Held(p)[s]
    BY <1>1 DEF Held
  <2>2. \A s \in Sides, n \in Nets : drop'[p][s] = n => OldWaits /\ old.net[s] = n
    BY <1>1, <1>3, <1>4, NetsFacts DEF OldWaits
  <2> QED
    BY <1>1, <2>1, <2>2, PlainOf
<1>7. \A s \in Sides, n \in Nets : \A i \in Ids : Uses(cidrRules'[i], s, n) => PlainUse(s, n)
  BY <1>1 DEF PlainUse
<1>8. Checked'
  BY <1>3, CheckedIf
<1> QED
  BY <1>1, <1>5, <1>6, <1>7, <1>8, PlainStep

\* The networks of a rule taken out of the table are released.
LEMMA TakeOutFlat ==
  ASSUME IInv, FlatInv, OneHandler, NEW p \in Procs, RollbackAdd(p) \/ DeleteItem(p)
  PROVE  FlatInv'
<1> DEFINE i == IF pc[p] = "rollback" THEN req[p].id ELSE Head(todo[p])
<1>1. PICK l \in {"unlock", "restore", "delete"} :
        /\ pc[p] \in {"rollback", "delete"} /\ cidrRules' = [cidrRules EXCEPT ![i] = None]
        /\ ReleaseThen(p, cidrRules[i].net, l)
        /\ UNCHANGED <<lock, kind, req, got, old>>
        /\ pc[p] = "delete" => cidrRules[i] # None /\ todo[p] # <<>>
  BY DEF RollbackAdd, DeleteItem, Deletable, ticket, holder
<1>2. lock = p /\ p # None /\ At(p) = pc[p]
  BY <1>1, ProcFacts DEF StepOK, Holding, Locked
<1>3. /\ pc[p] = "rollback" <=> kind[p] = "add"
      /\ kind[p] # "sync"
  BY <1>1, <1>2, ProcFacts DEF StepOK, AddSteps, DelSteps, SyncSteps, Building, ProcsType
<1>4. i \in Ids
  <2>1. CASE pc[p] = "rollback"
    BY <1>3, <2>1, ProcFacts DEF RequestOK, HasRule, Rule
  <2>2. CASE pc[p] = "delete"
    <3>1. kind[p] = "del"
      BY <1>2, <2>2, ProcFacts DEF StepOK, AddSteps, SyncSteps, Building, ProcsType
    <3> QED
      BY <1>1, <2>2, <3>1, ProcFacts, Elements DEF RequestOK
  <2> QED
    BY <1>1, <2>1, <2>2
<1>5. cidrRules[i] # None /\ cidrRules[i] \in Stored
  BY <1>1, <1>3, <1>4, ProcFacts DEF ReplaceOK, TablesType, Tables
<1>6. drop'[p] = cidrRules[i].net /\ pc'[p] \in {l, "drop"}
  BY <1>1, <1>5, ReleaseFacts DEF Stored, Steps, AddSteps, DelSteps
<1>7. OldWaits' => OldWaits
  BY <1>1, <1>2, <1>3, OldNone DEF OldWaits
<1>8. \A s \in Sides, n \in Nets : (Held(p)[s])' = n \/ drop'[p][s] = n => PlainUse(s, n)
  <2>1. \A s \in Sides : (Held(p)[s])' = Held(p)[s]
    BY <1>1 DEF Held
  <2> QED
    BY <1>3, <1>4, <1>5, <1>6, <2>1, PlainOf DEF Uses
<1>9. \A s \in Sides, n \in Nets : \A j \in Ids : Uses(cidrRules'[j], s, n) => PlainUse(s, n)
  BY <1>1, ProcFacts DEF PlainUse, Uses, TablesType, Tables
<1>10. OldWaits' => \A s \in Sides, n \in Nets : old'.net[s] = n => PlainUse(s, n)
  BY <1>1, <1>7 DEF PlainUse
<1>11. Checked'
  BY <1>1, <1>6, CheckedIf
<1> QED
  BY <1>1, <1>3, <1>8, <1>9, <1>10, <1>11, PlainStep

LEMMA RestoreOldFlat ==
  ASSUME IInv, FlatInv, OneHandler, NEW p \in Procs, RestoreOld(p)
  PROVE  FlatInv'
<1>1. /\ pc[p] = "restore" /\ Goto(p, "unlock") /\ old' = None
      /\ cidrRules' = [cidrRules EXCEPT ![req[p].id] = old]
      /\ UNCHANGED <<lock, kind, req, got, drop>>
  BY DEF RestoreOld, ticket, dropping
<1>2. lock = p /\ p # None /\ At(p) = "restore" /\ kind[p] = "add" /\ pc'[p] = "unlock"
  BY <1>1, ProcFacts DEF StepOK, Holding, Locked, DelSteps, SyncSteps, Building, ProcsType, Goto
<1>3. OldWaits
  BY <1>1, <1>2, ProcFacts DEF ReplaceOK, OldWaits
<1>4. ~OldWaits'
  BY <1>1 DEF OldWaits
<1>5. \A s \in Sides, n \in Nets : (Held(p)[s])' = n \/ drop'[p][s] = n => PlainUse(s, n)
  <2>1. \A s \in Sides : (Held(p)[s])' = Held(p)[s]
    BY <1>1 DEF Held
  <2> QED
    BY <1>1, <1>2, <2>1, PlainOf
<1>6. \A s \in Sides, n \in Nets : \A j \in Ids : Uses(cidrRules'[j], s, n) => PlainUse(s, n)
  BY <1>1, <1>3, ProcFacts DEF PlainUse, Uses, TablesType, Tables
<1>7. Checked'
  BY <1>2, CheckedIf
<1> QED
  BY <1>1, <1>2, <1>4, <1>5, <1>6, <1>7, PlainStep

LEMMA ReleaseFlat ==
  ASSUME IInv, FlatInv, OneHandler, NEW p \in Procs, ReleaseID(p)
  PROVE  FlatInv'
<1>1. pc[p] = "drop" /\ Released(p)
  BY DEF ReleaseID, ReleaseShared, ReleaseLast, ReleaseFails
<1>2. /\ drop'[p][NextSide(p)] = None
      /\ \A t \in Sides \ {NextSide(p)} : drop'[p][t] = drop[p][t]
      /\ \A t \in Sides : (Held(p)[t])' = Held(p)[t]
      /\ UNCHANGED <<cidrRules, lock, kind, todo, req, got, old, build>>
  BY <1>1, ReleasedFacts
<1>3. pc'[p] \in {"return", "unlock", "restore", "delete", "item", "release", "retire", "drop"}
  BY <1>1, ProcFacts DEF Released, Goto, StepOK, ProcsType
<1>4. \A s \in Sides, n \in Nets : BatchUse(s, n)' => BatchUse(s, n)
  BY <1>2, <1>3, BatchKeeps
<1>5. CASE kind[p] = "sync"
  BY <1>2, <1>4, <1>5, SyncStepFlat
<1>6. CASE kind[p] # "sync"
  <2>1. \A s \in Sides, n \in Nets : (Held(p)[s])' = n \/ drop'[p][s] = n => PlainUse(s, n)
    BY <1>2, <1>6, NetsFacts, PlainOf
  <2>2. \A s \in Sides, n \in Nets : \A i \in Ids : Uses(cidrRules'[i], s, n) => PlainUse(s, n)
    BY <1>2 DEF PlainUse
  <2>3. OldWaits' => OldWaits
    <3>1. OldWaits' => lock \in Procs /\ old # None
      BY <1>2, ProcFacts DEF OldWaits, ProcsType
    <3>2. OldWaits' => lock = p
      BY <3>1 DEF OneHandler
    <3> QED
      BY <1>1, <3>1, <3>2, ProcFacts DEF OldWaits
  <2>4. OldWaits' => \A s \in Sides, n \in Nets : old'.net[s] = n => PlainUse(s, n)
    BY <1>2, <2>3 DEF PlainUse
  <2>5. Checked'
    BY <1>3, CheckedIf
  <2> QED
    BY <1>2, <1>6, <2>1, <2>2, <2>4, <2>5, PlainStep
<1> QED
  BY <1>5, <1>6

\* What the steps that take an id share: an add has no lock, and its checks still hold.
LEMMA AllocFacts ==
  ASSUME IInv, FlatInv, OneHandler, NEW p \in Procs, pc[p] \in {"allocSrc", "allocDst"}
  PROVE  /\ kind[p] \in {"add", "sync"} /\ drop[p] = NoNet /\ req[p] \in Rule
         /\ \A s \in Sides : req[p].net[s] \in Nets \cup {None}
         /\ old = None /\ ~OldWaits
         /\ kind[p] = "add" =>
              /\ Conflicts("dst", req[p].net["dst"]) = {}
              /\ pc[p] = "allocSrc" => Conflicts("src", req[p].net["src"]) = {}
<1>1. kind[p] \in {"add", "sync"} /\ drop[p] = NoNet /\ (kind[p] = "add" => lock # p)
  BY ProcFacts DEF StepOK, Holding, DelSteps, Locked, ProcsType
<1>2. req[p] \in Rule
  BY <1>1, ProcFacts DEF RequestOK, HasRule
<1>3. \A s \in Sides : req[p].net[s] \in Nets \cup {None}
  BY <1>2, NetsFacts DEF Rule
<1>4. old = None /\ ~OldWaits
  BY <1>1, OldNone
<1> QED
  BY <1>1, <1>2, <1>3, <1>4 DEF FlatInv, Checked

LEMMA AllocNothingFlat ==
  ASSUME IInv, FlatInv, OneHandler, NEW p \in Procs,
         \/ AllocNothing(p, "src", "allocSrc", "allocDst")
         \/ AllocNothing(p, "dst", "allocDst", Allocated(p))
  PROVE  FlatInv'
<1> USE DEF manager, history, ticket, dropping, holder, table
<1>1. /\ pc[p] \in {"allocSrc", "allocDst"} /\ pc'[p] \in {"allocDst", "lock", "write"}
      /\ UNCHANGED <<cidrs, cidrRules, build, kind, todo, req, got, drop, old>>
  BY ProcFacts DEF AllocNothing, Allocated, Goto, ProcsType
<1>2. kind[p] = "add" => Conflicts("dst", req[p].net["dst"]) = {}
  BY <1>1, AllocFacts
<1>3. \A s, n : Conflicts(s, n)' = Conflicts(s, n)
  BY <1>1 DEF Conflicts
<1>4. kind'[p] = "add" =>
        /\ pc'[p] \in {"checkDst", "allocSrc"} => Conflicts("src", req[p].net["src"])' = {}
        /\ pc'[p] \in {"allocSrc", "allocDst"} => Conflicts("dst", req[p].net["dst"])' = {}
  BY <1>1, <1>2, <1>3 DEF Conflicts
<1>5. Checked'
  BY <1>4, CheckedAt
<1>6. \A s \in Sides, n \in Nets : BatchUse(s, n)' => BatchUse(s, n)
  BY <1>1, BatchKeeps
<1>7. ~OldWaits'
  BY <1>1, AllocFacts DEF OldWaits
<1> QED
  BY <1>1, <1>5, <1>6, <1>7, QuietFlat

\* An add takes a network that no network in use contains or lies in: a new id has
\* been checked, and with one handler no other network has come since.
LEMMA AllocGotFlat ==
  ASSUME IInv, FlatInv, OneHandler, NEW p \in Procs, NEW s \in Sides, NEW l, NEW next,
         AllocKnown(p, s, l, next) \/ AllocNew(p, s, l, next),
         \/ s = "src" /\ l = "allocSrc" /\ next = "allocDst"
         \/ s = "dst" /\ l = "allocDst" /\ next = Allocated(p)
  PROVE  FlatInv'
<1> USE DEF manager, history, table, dropping, holder
<1> DEFINE n == req[p].net[s]
<1>1. /\ pc[p] = l /\ l \in {"allocSrc", "allocDst"} /\ n # None
      /\ Goto(p, next) /\ got'[p] = [got[p] EXCEPT ![s] = got'[p][s]]
      /\ UNCHANGED <<cidrRules, lock, kind, todo, req, drop, old, build>>
  <2>1. CASE AllocKnown(p, s, l, next)
    BY <2>1, ProcFacts DEF AllocKnown, ProcsType
  <2>2. CASE AllocNew(p, s, l, next)
    BY <2>2, ProcFacts DEF AllocNew, ProcsType
  <2> QED
    BY <2>1, <2>2
<1>2. /\ kind[p] \in {"add", "sync"} /\ drop[p] = NoNet /\ n \in Nets
      /\ old = None /\ ~OldWaits /\ ~OldWaits'
  BY <1>1, AllocFacts DEF OldWaits
<1>3. pc'[p] = next /\ next \in {"allocDst", "lock", "write"}
  BY <1>1, ProcFacts DEF Goto, ProcsType, Allocated
<1>4. \A t \in Sides : (Held(p)[t])' = Held(p)[t] \/ (t = s /\ (Held(p)[t])' \in {n, None})
  <2>1. \A t \in Sides \ {s} : got'[p][t] = got[p][t]
    BY <1>1, ProcFacts DEF ProcsType
  <2> QED
    BY <1>1, <2>1 DEF Held
<1>5. \A t \in Sides, m \in Nets : BatchUse(t, m)' => BatchUse(t, m)
  BY <1>1, <1>3, BatchKeeps
<1>6. CASE kind[p] = "sync"
  BY <1>1, <1>5, <1>6, SyncStepFlat
<1>7. CASE kind[p] = "add"
  <2>1. \A t \in Sides, m \in Nets : PlainUse(t, m)' => PlainUse(t, m) \/ (t = s /\ m = n)
    <3> SUFFICES ASSUME NEW t \in Sides, NEW m \in Nets, PlainUse(t, m)'
                 PROVE  PlainUse(t, m) \/ (t = s /\ m = n)
      OBVIOUS
    <3>1. \/ \E i \in Ids : Uses(cidrRules'[i], t, m)
          \/ (Held(p)[t])' = m \/ drop'[p][t] = m
      BY <1>2, PlainOf
    <3>2. CASE (Held(p)[t])' = m
      BY <1>4, <1>7, <3>2, NetsFacts, PlainOf
    <3>3. CASE drop'[p][t] = m \/ \E i \in Ids : Uses(cidrRules'[i], t, m)
      BY <1>1, <1>7, <3>3, PlainOf
    <3> QED
      BY <3>1, <3>2, <3>3
  <2>2. \A m \in Nets : PlainUse(s, m) => <<m, n>> \notin Inside /\ <<n, m>> \notin Inside
    <3>1. Conflicts(s, n) = {}
      BY <1>1, <1>7, AllocFacts
    <3> QED
      BY <3>1, PlainCounted DEF Conflicts
  <2>3. <<n, n>> \notin Inside
    BY <1>2, CidrAssumption
  <2>4. PlainFlat'
    <3> HIDE DEF n
    <3> QED
      BY <2>1, <2>2, <2>3 DEF FlatInv, PlainFlat
  <2>5. BatchFlat'
    BY <1>5 DEF FlatInv, BatchFlat
  <2>6. Checked'
    <3>1. CASE s = "src"
      <4>1. cidrs'["dst"] = cidrs["dst"]
        BY <3>1 DEF AllocKnown, AllocNew, IInv, TypeOK, ManagerType, Counts, Sides
      <4>2. \A m : Conflicts("dst", m)' = Conflicts("dst", m)
        BY <4>1 DEF Conflicts
      <4>3. Conflicts("dst", req[p].net["dst"]) = {}
        BY <1>1, <1>7, AllocFacts
      <4>4. Conflicts("dst", req[p].net["dst"])' = {}
        BY <1>1, <4>2, <4>3 DEF Conflicts
      <4> QED
        BY <1>3, <3>1, <4>4, CheckedAt
    <3>2. CASE s = "dst"
      <4>1. next = "lock"
        BY <1>7, <3>2 DEF Allocated
      <4> QED
        BY <1>3, <4>1, CheckedIf
    <3> QED
      BY <3>1, <3>2 DEF Sides
  <2> QED
    BY <2>4, <2>5, <2>6 DEF FlatInv
<1> QED
  BY <1>2, <1>6, <1>7

LEMMA AllocFailsFlat ==
  ASSUME IInv, FlatInv, OneHandler, NEW p \in Procs,
         AllocFails(p, "src", "allocSrc") \/ AllocFails(p, "dst", "allocDst")
  PROVE  FlatInv'
<1> DEFINE l == IF kind[p] = "sync" THEN "item" ELSE "return"
<1>1. /\ pc[p] \in {"allocSrc", "allocDst"} /\ HandOver(p) /\ ReleaseThen(p, Held(p), l)
      /\ UNCHANGED <<cidrRules, lock, kind, todo, req, old, build>>
  BY DEF AllocFails, table
<1>2. Held(p) \in Net
  BY <1>1, AllocFacts DEF Held, Net
<1>3. l \in Steps /\ l \in {"item", "return"}
  BY DEF Steps, AddSteps, SyncSteps, Building
<1>4. /\ drop'[p] = Held(p) /\ pc'[p] \in {l, "drop"}
      /\ \A t \in Sides : (Held(p)[t])' = None
  BY <1>1, <1>2, <1>3, ReleaseFacts, HandedOver
<1>5. \A t \in Sides, m \in Nets : BatchUse(t, m)' => BatchUse(t, m)
  BY <1>1, <1>3, <1>4, BatchKeeps
<1>6. CASE kind[p] = "sync"
  BY <1>1, <1>5, <1>6, SyncStepFlat
<1>7. CASE kind[p] # "sync"
  <2>1. \A t \in Sides, m \in Nets : (Held(p)[t])' = m \/ drop'[p][t] = m => PlainUse(t, m)
    BY <1>4, <1>7, NetsFacts, PlainOf
  <2>2. \A t \in Sides, m \in Nets : \A i \in Ids : Uses(cidrRules'[i], t, m) => PlainUse(t, m)
    BY <1>1 DEF PlainUse
  <2>3. ~OldWaits'
    BY <1>1, AllocFacts DEF OldWaits
  <2>4. Checked'
    BY <1>3, <1>4, CheckedIf
  <2> QED
    BY <1>1, <1>7, <2>1, <2>2, <2>3, <2>4, PlainStep
<1> QED
  BY <1>6, <1>7

\* A full sync takes the next item, writes it, gives up, or releases a retired rule.
LEMMA SyncItemFlat ==
  ASSUME IInv, FlatInv, OneHandler, NEW p \in Procs, SyncItem(p)
  PROVE  FlatInv'
<1> USE DEF table, dropping
<1>1. /\ pc[p] = "item" /\ todo[p] # <<>> /\ todo'[p] = Tail(todo[p]) /\ req'[p] = Head(todo[p])
      /\ UNCHANGED <<cidrRules, kind, old, build>>
  BY ProcFacts DEF SyncItem, ProcsType
<1>2. kind[p] = "sync"
  BY <1>1, ProcFacts DEF StepOK, AddSteps, DelSteps, ProcsType
<1>3. /\ Head(todo[p]) = todo[p][1] /\ 1 \in DOMAIN todo[p]
      /\ \A j \in DOMAIN Tail(todo[p]) : Tail(todo[p])[j] = todo[p][j + 1] /\ j + 1 \in DOMAIN todo[p]
  BY <1>1, <1>2, ProcFacts, Elements DEF RequestOK
<1>4. ASSUME NEW s \in Sides, NEW n \in Nets, BatchUse(s, n)'
      PROVE  BatchUse(s, n)
  <2>1. \/ \E i \in Ids : Uses(build'.rules[i], s, n)
        \/ \E j \in DOMAIN todo'[p] : todo'[p][j].net[s] = n
        \/ req'[p].net[s] = n
    BY <1>4, BatchOf
  <2>2. CASE \E i \in Ids : Uses(build'.rules[i], s, n)
    BY <1>1, <1>2, <2>2, BatchOf
  <2>3. CASE (\E j \in DOMAIN todo'[p] : todo'[p][j].net[s] = n) \/ req'[p].net[s] = n
    <3>1. \E j \in DOMAIN todo[p] : todo[p][j].net[s] = n
      BY <1>1, <1>3, <2>3
    <3> QED
      BY <1>2, <3>1, BatchOf
  <2> QED
    BY <2>1, <2>2, <2>3
<1> QED
  BY <1>1, <1>2, <1>4, SyncStepFlat

LEMMA SyncWriteFlat ==
  ASSUME IInv, FlatInv, OneHandler, NEW p \in Procs, SyncWrite(p)
  PROVE  FlatInv'
<1> DEFINE new == [key |-> KeyOf(p), net |-> req[p].net]
<1>1. /\ pc[p] = "write" /\ pc'[p] = "item"
      /\ build'.rules = [build.rules EXCEPT ![req[p].id] = new]
      /\ UNCHANGED <<cidrRules, kind, todo, req, old>>
  BY ProcFacts DEF SyncWrite, Goto, ProcsType, table
<1>2. kind[p] = "sync"
  BY <1>1, ProcFacts DEF StepOK, AddSteps, DelSteps, ProcsType
<1>3. ASSUME NEW s \in Sides, NEW n \in Nets, BatchUse(s, n)'
      PROVE  BatchUse(s, n)
  <2>1. \/ \E i \in Ids : Uses(build'.rules[i], s, n)
        \/ \E j \in DOMAIN todo'[p] : todo'[p][j].net[s] = n
    BY <1>1, <1>3, BatchOf
  <2>2. CASE \E i \in Ids : Uses(build'.rules[i], s, n)
    <3>1. PICK i \in Ids : Uses(build'.rules[i], s, n)
      BY <2>2
    <3>2. build.rules \in Tables
      BY ProcFacts DEF TablesType
    <3>3. CASE i = req[p].id
      <4>1. build'.rules[i] = new
        BY <1>1, <3>2, <3>3 DEF Tables
      <4>2. req[p].net[s] = n
        BY <3>1, <4>1 DEF Uses
      <4> QED
        BY <1>1, <1>2, <4>2, BatchOf
    <3>4. CASE i # req[p].id
      <4>1. build'.rules[i] = build.rules[i]
        BY <1>1, <3>2, <3>4 DEF Tables
      <4> QED
        BY <1>2, <3>1, <4>1, BatchOf
    <3> QED
      BY <3>3, <3>4
  <2>3. CASE \E j \in DOMAIN todo'[p] : todo'[p][j].net[s] = n
    BY <1>1, <1>2, <2>3, BatchOf
  <2> QED
    BY <2>1, <2>2, <2>3
<1> QED
  BY <1>1, <1>2, <1>3, SyncStepFlat

LEMMA SyncWalkFlat ==
  ASSUME IInv, FlatInv, OneHandler, NEW p \in Procs, SyncAbort(p) \/ SyncRelease(p)
  PROVE  FlatInv'
<1> USE DEF table, ticket, dropping
<1>1. /\ pc[p] \in {"item", "release", "retire"}
      /\ build' = build \/ build'.rules = EmptyTable
      /\ UNCHANGED <<cidrRules, kind, todo, req, old>>
      /\ pc'[p] \in {"release", "retire", "drop"}
  <2>1. CASE SyncAbort(p)
    BY <2>1, ProcFacts DEF SyncAbort, EmptyBuild, Goto, ProcsType
  <2>2. CASE SyncRelease(p)
    BY <2>2, ProcFacts DEF SyncRelease, ReleaseThen, Goto, ProcsType
  <2> QED
    BY <2>1, <2>2
<1>2. kind[p] = "sync"
  BY <1>1, ProcFacts DEF StepOK, AddSteps, DelSteps, ProcsType
<1>3. \A i \in Ids, s \in Sides, n \in Nets :
        Uses(build'.rules[i], s, n) => Uses(build.rules[i], s, n)
  BY <1>1 DEF Uses, EmptyTable
<1>4. \A s \in Sides, n \in Nets : BatchUse(s, n)' => BatchUse(s, n)
  BY <1>1, <1>2, <1>3, BatchOf
<1> QED
  BY <1>1, <1>2, <1>4, SyncStepFlat

\* What comes into force was built from one request.
LEMMA SyncFlipFlat ==
  ASSUME IInv, FlatInv, OneHandler, NEW p \in Procs, SyncFlip(p)
  PROVE  FlatInv'
<1> USE DEF ticket, dropping
<1>1. /\ pc[p] = "item" /\ pc'[p] = "retire" /\ cidrRules' = build.rules
      /\ build'.rules = EmptyTable
      /\ UNCHANGED <<kind, todo, req, old>>
  BY ProcFacts DEF SyncFlip, EmptyBuild, Goto, ProcsType
<1>2. kind[p] = "sync"
  BY <1>1, ProcFacts DEF StepOK, AddSteps, DelSteps, ProcsType
<1>3. ~OldWaits'
  BY <1>1, <1>2, OldNone DEF OldWaits
<1>4. \A s \in Sides, n \in Nets : PlainUse(s, n)' => BatchUse(s, n)
  BY <1>1, <1>2, <1>3, PlainOf, BatchOf
<1>5. \A s \in Sides, n \in Nets : BatchUse(s, n)' => BatchUse(s, n)
  BY <1>1, <1>2, BatchOf DEF Uses, EmptyTable
<1>6. PlainFlat' /\ BatchFlat'
  BY <1>4, <1>5 DEF FlatInv, PlainFlat, BatchFlat
<1>7. Checked'
  BY <1>1, <1>2, CheckedIf
<1> QED
  BY <1>6, <1>7 DEF FlatInv

-----------------------------------------------------------------------------
(* The longest match of an address is the network of the rule in force *)

LEMMA InitFlat ==
  ASSUME Init
  PROVE  FlatInv
<1>1. \A s \in Sides, n \in Nets : ~PlainUse(s, n)
  BY NetsFacts DEF Init, PlainUse, Uses, EmptyTable, OldWaits, Held, NoId
<1>2. \A s \in Sides, n \in Nets : ~BatchUse(s, n)
  BY DEF Init, BatchUse
<1>3. Checked
  BY DEF Init, Checked
<1> QED
  BY <1>1, <1>2, <1>3 DEF FlatInv, PlainFlat, BatchFlat

LEMMA NextFlat ==
  ASSUME IInv, FlatInv, OneHandler, FlatSyncs, Next
  PROVE  FlatInv'
<1>1. PICK p \in Procs : Request(p) \/ Run(p)
  BY DEF Next
<1>2. CASE Request(p)
  BY <1>2, BeginFlat
<1>3. CASE AddStep(p)
  BY <1>3, CheckFlat, GiveBackFlat, LockedFlat, CommitAddFlat, PublishAddFlat, TakeOutFlat,
     RestoreOldFlat DEF AddStep
<1>4. CASE DeleteStep(p)
  BY <1>4, TakeOutFlat, LockedFlat DEF DeleteStep
<1>5. CASE SyncStep(p)
  BY <1>5, LockedFlat, SyncItemFlat, GiveBackFlat, SyncWriteFlat, SyncWalkFlat, SyncFlipFlat
     DEF SyncStep
<1>6. CASE AllocSrcID(p)
  BY <1>6, AllocNothingFlat, AllocGotFlat, AllocFailsFlat DEF AllocSrcID, Sides
<1>7. CASE AllocDstID(p)
  BY <1>7, AllocNothingFlat, AllocGotFlat, AllocFailsFlat DEF AllocDstID, Sides
<1>8. CASE PublishFails(p) \/ ReleaseID(p) \/ Acquire(p) \/ Unlock(p) \/ Return(p)
  BY <1>8, LockedFlat, ReleaseFlat, AcquireFlat, ReturnFlat
<1> QED
  BY <1>1, <1>2, <1>3, <1>4, <1>5, <1>6, <1>7, <1>8 DEF Run

LEMMA StutterFlat ==
  ASSUME FlatInv, UNCHANGED vars
  PROVE  FlatInv'
<1> USE DEF vars, manager, history, table, maps, ticket, dropping, holder, fvars
<1>1. \A s, n : PlainUse(s, n)' = PlainUse(s, n)
  BY DEF PlainUse, Uses, OldWaits, Held
<1>2. \A s, n : BatchUse(s, n)' = BatchUse(s, n)
  BY DEF BatchUse, Uses
<1>3. Checked'
  BY DEF FlatInv, Checked, Conflicts
<1> QED
  BY <1>1, <1>2, <1>3 DEF FlatInv, PlainFlat, BatchFlat

\* With one handler at a time and full syncs whose own rules do not contain one another, no
\* network in use by the rules in force or by the request under way contains another: the
\* overlap checks of an add still hold when it takes its ids (addCIDRRule), and what a full
\* sync brings into force comes from one request (DoAtomicSync).
THEOREM FlatInvariance == OneHandler /\ FlatSyncs /\ Spec => []FlatInv
<1>1. Init => FlatInv
  BY InitFlat
<1>2. OneHandler /\ FlatSyncs /\ IInv /\ FlatInv /\ [Next]_vars => FlatInv'
  BY NextFlat, StutterFlat
<1>3. SUFFICES ASSUME OneHandler, FlatSyncs
               PROVE  Spec => []FlatInv
  OBVIOUS
<1>4. IInv /\ FlatInv /\ [Next]_vars => FlatInv'
  BY <1>2, <1>3
<1> QED
  BY <1>1, <1>4, Invariance, PTL DEF Spec

\* Whoever holds a reference is a rule in force, an add or a delete, or a running full sync.
LEMMA InUse ==
  ASSUME IInv, NEW s \in Sides, NEW n \in Nets, Users(s, n) # 0
  PROVE  PlainUse(s, n) \/ n \in SyncNets(s)
<1>1. Cardinality({}) = 0 /\ lock \in Procs \cup {None}
  BY FS_EmptySet, ProcFacts DEF IInv, TypeOK, ProcsType
<1>2. HolderOK /\ n # None
  BY NetsFacts DEF IInv
<1>3. CASE InForce(s, n) # 0 \/ Waiting(s, n) # 0
  <2>1. InForce(s, n) # 0 => Using(cidrRules, s, n) # {}
    BY <1>1 DEF InForce
  <2> QED
    BY <1>3, <2>1 DEF PlainUse, Using, Uses, Waiting, One
<1>4. CASE InBuild(s, n) # 0
  <2>1. Using(build.rules, s, n) # {}
    BY <1>1, <1>4 DEF InBuild
  <2>2. build.rules # EmptyTable
    BY <2>1 DEF Using, EmptyTable
  <2> QED
    BY <1>2, <2>1, <2>2 DEF HolderOK, SyncNets
<1>5. CASE Retiring(s, n) # 0
  <2>1. Using(retired, s, n) # {}
    BY <1>1, <1>5 DEF Retiring
  <2>2. retired # EmptyTable
    BY <2>1 DEF Using, EmptyTable
  <2>3. lock \in Procs /\ At(lock) \in {"release", "retire"}
    BY <1>1, <1>2, <2>2 DEF HolderOK
  <2>4. kind[lock] = "sync"
    BY <2>3, ProcFacts DEF StepOK, AddSteps, DelSteps, ProcsType
  <2> QED
    BY <1>2, <2>1, <2>2, <2>4 DEF HolderOK, SyncNets
<1>6. CASE Taken(s, n) # 0 \/ Dropping(s, n) # 0
  <2>1. PICK p \in Procs : Held(p)[s] = n \/ drop[p][s] = n
    <3>1. \/ {p \in Procs : Held(p)[s] = n} # {}
          \/ {p \in Procs : drop[p][s] = n} # {}
      BY <1>1, <1>6 DEF Taken, Dropping
    <3> QED
      BY <3>1
  <2>2. CASE kind[p] = "sync"
    <3>1. lock = p /\ p # None
      <4>1. CASE Held(p)[s] = n
        <5>1. got[p][s] # 0
          BY <1>2, <4>1 DEF Held
        <5>2. Keying(p) \/ pc[p] = "allocDst"
          BY <5>1, ProcFacts DEF RequestOK, Sides
        <5> QED
          BY <2>2, <5>2, ProcFacts DEF Keying, StepOK, Holding, Locked
      <4>2. CASE drop[p][s] = n
        <5>1. pc[p] = "drop"
          BY <1>2, <4>2, ProcFacts, NetsFacts DEF StepOK
        <5> QED
          BY <2>2, <5>1, ProcFacts DEF StepOK, Holding, Locked, SyncSteps, Building, At
      <4> QED
        BY <2>1, <4>1, <4>2
    <3> QED
      BY <2>1, <2>2, <3>1 DEF SyncNets
  <2>3. CASE kind[p] # "sync"
    BY <2>1, <2>3 DEF PlainUse
  <2> QED
    BY <2>2, <2>3
<1> QED
  BY <1>3, <1>4, <1>5, <1>6, Parts

\* With one handler at a time and full syncs whose own rules do not contain one another, two
\* networks of one side that are in the trie do not contain one another, unless a release has
\* failed or one of them is a running full sync's: the longest match of an address is the
\* network of the rule in force (the overlap checks of addCIDRRule; sync.go:332 has none).
THEOREM MatchIsRule == OneHandler /\ FlatSyncs /\ Spec => []LongestMatch
<1>1. IInv /\ FlatInv => LongestMatch
  <2> SUFFICES ASSUME IInv, FlatInv, leaked = Zero, NEW s \in Sides, NEW m \in Nets,
                      NEW n \in Nets, trie[s][m] # 0, trie[s][n] # 0, <<m, n>> \in Inside,
                      {m, n} \cap SyncNets(s) = {}
               PROVE  FALSE
    BY DEF LongestMatch
  <2>1. ASSUME NEW k \in {m, n} PROVE PlainUse(s, k)
    <3>1. trie[s][k] # 0 /\ k \in Nets /\ k \notin SyncNets(s)
      BY <2>1
    <3>2. cidrs[s][k] # 0
      BY <3>1 DEF IInv, TrieMatches
    <3>3. refs[s][k] # 0 /\ refs[s][k] = Users(s, k) + leaked[s][k]
      BY <3>1, <3>2 DEF IInv, ManagerOK, RefsExact
    <3>4. leaked[s][k] = 0
      BY <3>1 DEF Zero
    <3>5. Users(s, k) # 0
      BY <3>1, <3>3, <3>4, Parts
    <3> QED
      BY <3>1, <3>5, InUse
  <2> QED
    BY <2>1 DEF FlatInv, PlainFlat
<1> QED
  BY <1>1, Invariance, FlatInvariance, PTL
=============================================================================
