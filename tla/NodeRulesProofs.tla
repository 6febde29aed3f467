-------------------------- MODULE NodeRulesProofs --------------------------
(***************************************************************************)
(* For every set of ids, keys, combos and requests and every sequence of   *)
(* failed map operations: IInv of NodeRules is an inductive invariant, and *)
(* with it TypeOK, NeverHidden and RollbackRestores hold.  The second half *)
(* strengthens it to EInv, under which the maps are exact.                 *)
(***************************************************************************)
EXTENDS NodeRules, FiniteSetTheorems, TLAPS

-----------------------------------------------------------------------------
(* Counting the rules of a table *)

\* Adding or removing one element moves the cardinality by one at most.
LEMMA SetChange ==
  ASSUME NEW S, IsFiniteSet(S), NEW T, NEW i, S \ {i} = T \ {i}
  PROVE  /\ IsFiniteSet(T)
         /\ Cardinality(T) = Cardinality(S) + One(i \in T) - One(i \in S)
<1> DEFINE R == S \ {i}
<1>1. IsFiniteSet(R) /\ Cardinality(R) \in Nat
  BY FS_RemoveElement, FS_CardinalityType
<1>2. i \notin R
  OBVIOUS
<1>3. IsFiniteSet(R \cup {i}) /\ Cardinality(R \cup {i}) = Cardinality(R) + 1
  BY <1>1, <1>2, FS_AddElement
<1>4. (i \in S => S = R \cup {i}) /\ (i \notin S => S = R)
  OBVIOUS
<1>5. (i \in T => T = R \cup {i}) /\ (i \notin T => T = R)
  OBVIOUS
<1> HIDE DEF R
<1>6. Cardinality(S) = Cardinality(R) + One(i \in S)
  BY <1>1, <1>3, <1>4 DEF One
<1>7. IsFiniteSet(T)
  BY <1>1, <1>3, <1>5
<1>8. Cardinality(T) = Cardinality(R) + One(i \in T)
  BY <1>1, <1>3, <1>5 DEF One
<1> QED
  BY <1>1, <1>6, <1>7, <1>8 DEF One

\* Tables hold finitely many rules, of every combo.
LEMMA CountType ==
  ASSUME NEW t
  PROVE  /\ IsFiniteSet(Present(t)) /\ Count(Present(t)) \in Nat
         /\ IsFiniteSet(Anomalies(t)) /\ Count(Anomalies(t)) \in Nat
         /\ \A c : IsFiniteSet(OfCombo(t, c)) /\ Count(OfCombo(t, c)) \in Nat
<1>1. IsFiniteSet(Ids)
  BY ConstantsAssumption
<1>2. Present(t) \subseteq Ids /\ Anomalies(t) \subseteq Ids
  BY DEF Present, Anomalies
<1>3. \A c : OfCombo(t, c) \subseteq Ids
  BY DEF OfCombo, Present
<1> QED
  BY <1>1, <1>2, <1>3, FS_Subset, FS_CardinalityType DEF Count

\* One entry of a table changes: its counts follow.
LEMMA EntryChange ==
  ASSUME NEW t, NEW i \in Ids, NEW u,
         \A j \in Ids \ {i} : u[j] = t[j]
  PROVE  /\ Count(Present(u)) = Count(Present(t)) + One(u[i] # None) - One(t[i] # None)
         /\ \A c : Count(OfCombo(u, c))
                     = Count(OfCombo(t, c)) + One(IsCombo(u[i], c)) - One(IsCombo(t[i], c))
<1>1. /\ Present(t) \ {i} = Present(u) \ {i}
      /\ i \in Present(u) <=> u[i] # None
      /\ i \in Present(t) <=> t[i] # None
  BY DEF Present
<1>2. ASSUME NEW c
      PROVE  /\ OfCombo(t, c) \ {i} = OfCombo(u, c) \ {i}
             /\ i \in OfCombo(u, c) <=> IsCombo(u[i], c)
             /\ i \in OfCombo(t, c) <=> IsCombo(t[i], c)
  BY DEF OfCombo, Present, IsCombo
<1>3. Count(Present(u)) = Count(Present(t)) + One(u[i] # None) - One(t[i] # None)
  <2>1. Cardinality(Present(u)) = Cardinality(Present(t))
          + One(i \in Present(u)) - One(i \in Present(t))
    BY <1>1, CountType, SetChange
  <2> QED
    BY <1>1, <2>1 DEF Count, One
<1>4. ASSUME NEW c
      PROVE  Count(OfCombo(u, c))
               = Count(OfCombo(t, c)) + One(IsCombo(u[i], c)) - One(IsCombo(t[i], c))
  <2>1. Cardinality(OfCombo(u, c)) = Cardinality(OfCombo(t, c))
          + One(i \in OfCombo(u, c)) - One(i \in OfCombo(t, c))
    BY <1>2, CountType, SetChange
  <2> QED
    BY <1>2, <2>1 DEF Count, One
<1> QED
  BY <1>3, <1>4

\* A table that holds a rule counts at least one.
LEMMA CountPositive ==
  ASSUME NEW t, NEW i \in Present(t)
  PROVE  /\ Count(Present(t)) > 0
         /\ Count(OfCombo(t, Combo[t[i].key])) > 0
         /\ t[i].val = Anomaly => Count(Anomalies(t)) > 0
<1>1. /\ i \in OfCombo(t, Combo[t[i].key])
      /\ t[i].val = Anomaly => i \in Anomalies(t)
  BY DEF OfCombo, Anomalies, Present
<1>2. ASSUME NEW S, IsFiniteSet(S), NEW j \in S
      PROVE  Cardinality(S) > 0
  BY <1>2, FS_EmptySet, FS_CardinalityType
<1> QED
  BY <1>1, <1>2, CountType DEF Count

-----------------------------------------------------------------------------
(* Type correctness *)

\* Operators keep the types.
LEMMA HelperTypes ==
  /\ \A b : One(b) \in {0, 1}
  /\ \A s \in Slots : Other(s) \in Slots /\ Other(s) # s
  /\ NoShadow \in [rules : [Ids -> Rule \cup {None}], index : [Keys -> Ids \cup {None}],
                    combo : [Combos -> Nat], count : Nat, failed : BOOLEAN]
  /\ EmptyTable \in [Ids -> Rule \cup {None}]
  /\ EmptyIndex \in [Keys -> Ids \cup {None}]
  /\ EmptyIndex \in [Keys -> Vals \cup {None}]
BY DEF One, Slots, Other, NoShadow, EmptyTable, EmptyIndex

\* KeepLast yields a sequence of items without repeated ids.
LEMMA KeepLastType ==
  ASSUME NEW s \in Seq(Item), NEW it \in Item, Distinct(s)
  PROVE  /\ KeepLast(s, it) \in Seq(Item)
         /\ Distinct(KeepLast(s, it))
         /\ \A n \in DOMAIN KeepLast(s, it) :
              KeepLast(s, it)[n] = it \/ \E m \in DOMAIN s : KeepLast(s, it)[n] = s[m]
<1>1. CASE \E n \in DOMAIN s : s[n].id = it.id
  <2> DEFINE t == [n \in DOMAIN s |-> IF s[n].id = it.id THEN it ELSE s[n]]
  <2>1. KeepLast(s, it) = t
    BY <1>1 DEF KeepLast
  <2>2. t \in Seq(Item) /\ DOMAIN t = DOMAIN s
    <3>1. DOMAIN s = 1 .. Len(s) /\ Len(s) \in Nat
      OBVIOUS
    <3>2. t \in [1 .. Len(s) -> Item]
      BY <3>1
    <3> QED
      BY <3>1, <3>2
  <2>3. \A n \in DOMAIN t : t[n].id = s[n].id /\ (t[n] = it \/ t[n] = s[n])
    OBVIOUS
  <2> QED
    BY <2>1, <2>2, <2>3 DEF Distinct
<1>2. CASE ~\E n \in DOMAIN s : s[n].id = it.id
  <2>1. KeepLast(s, it) = Append(s, it)
    BY <1>2 DEF KeepLast
  <2>2. /\ Append(s, it) \in Seq(Item)
        /\ DOMAIN Append(s, it) = 1 .. Len(s) + 1 /\ DOMAIN s = 1 .. Len(s)
        /\ \A n \in 1 .. Len(s) : Append(s, it)[n] = s[n]
        /\ Append(s, it)[Len(s) + 1] = it
    OBVIOUS
  <2> QED
    BY <1>2, <2>1, <2>2 DEF Distinct
<1> QED
  BY <1>1, <1>2

\* A handler that returns leaves well-typed locals behind.
LEMMA ReturnTypes ==
  ASSUME Return
  PROVE  LocalOK' /\ targets' \in SUBSET Ids
BY HelperTypes DEF Return, LocalOK

\* The faults of a step are counted in Nat.
LEMMA FaultTypes ==
  ASSUME GhostOK, NEW op, NoFault \/ Fault(op)
  PROVE  faults' \in Nat /\ opFaults' \in Nat
BY DEF GhostOK, NoFault, Fault, fvars

\* The memory update of one item is well-typed.
LEMMA CommitTypes ==
  ASSUME MemoryOK, LocalOK, prepared # <<>>, CommitItem(Head(prepared))
  PROVE  MemoryOK' /\ LocalOK' /\ UNCHANGED ghost
<1> DEFINE it == Head(prepared)
<1>0. it \in Item
  BY DEF LocalOK
<1>1. it.id \in Ids /\ it.key \in Keys /\ it.val \in Vals
  BY <1>0 DEF Item
<1>2. rules[it.id] \in Rule \cup {None}
  BY <1>1 DEF MemoryOK
<1>3. CommitItem(it)
  OBVIOUS
<1> HIDE DEF it
<1>4. rules' \in [Ids -> Rule \cup {None}]
  BY <1>1, <1>3 DEF CommitItem, MemoryOK, Rule
<1>5. ruleKeyIndex' \in [Keys -> Ids \cup {None}]
  BY <1>1, <1>3 DEF CommitItem, Reindex, MemoryOK
<1>6. comboRefCount' \in [Combos -> Int]
  BY <1>3 DEF CommitItem, Recount, MemoryOK, One
<1>7. [id |-> it.id, key |-> it.key, old |-> rules[it.id]] \in Done
  BY <1>1, <1>2 DEF Done
<1>8. done' \in Seq(Done)
  BY <1>3, <1>7 DEF CommitItem, LocalOK
<1>9. delta' \in Int /\ prepared' \in Seq(Item)
  BY <1>3, HelperTypes DEF CommitItem, LocalOK
<1> QED
  BY <1>3, <1>4, <1>5, <1>6, <1>8, <1>9 DEF CommitItem, MemoryOK, LocalOK, ghost

\* Writing, deleting or clearing map entries keeps the maps well-typed.
LEMMA MapTypes ==
  ASSUME MapsOK, UNCHANGED <<cfg, activeConfig>>, NEW s \in Slots,
         \/ UNCHANGED bl
         \/ \E k : bl' = [bl EXCEPT ![s][k] = None]
         \/ \E k, v \in Vals : bl' = [bl EXCEPT ![s][k] = v]
         \/ ClearMap(s)
  PROVE  MapsOK'
<1>1. CASE UNCHANGED bl
  BY <1>1 DEF MapsOK
<1>2. ASSUME NEW k, bl' = [bl EXCEPT ![s][k] = None] PROVE MapsOK'
  BY <1>2 DEF MapsOK
<1>3. ASSUME NEW k, NEW v \in Vals, bl' = [bl EXCEPT ![s][k] = v] PROVE MapsOK'
  BY <1>3 DEF MapsOK
<1>4. CASE bl' = [bl EXCEPT ![s] = EmptyIndex]
  BY <1>4, HelperTypes DEF MapsOK
<1>5. ASSUME NEW kept, bl' = [bl EXCEPT ![s] = [k \in Keys |-> IF k \in kept THEN bl[s][k] ELSE None]]
      PROVE  MapsOK'
  <2>1. [k \in Keys |-> IF k \in kept THEN bl[s][k] ELSE None] \in [Keys -> Vals \cup {None}]
    BY DEF MapsOK
  <2> QED
    BY <1>5, <2>1 DEF MapsOK
<1> QED
  BY <1>1, <1>2, <1>3, <1>4, <1>5 DEF ClearMap

\* Every step keeps the types.
LEMMA TypeStep ==
  ASSUME TypeOK, Control, AddUndoable, [Next]_vars
  PROVE  TypeOK'
<1> USE HelperTypes
<1>1. ASSUME NEW b \in AddBatches, BeginAdd(b) PROVE TypeOK'
  <2>1. b \in Seq(Item)
    BY ConstantsAssumption
  <2>2. \A n \in DOMAIN b : b[n].id \in Ids
    <3>1. \A n \in DOMAIN b : b[n] \in Item
      BY <2>1
    <3> QED
      BY <3>1 DEF Item
  <2>3. MemoryOK' /\ MapsOK'
    BY <1>1 DEF BeginAdd, TypeOK, MemoryOK, MapsOK, memory, maps
  <2>4. LocalOK'
    BY <1>1, <2>1 DEF BeginAdd, TypeOK, LocalOK
  <2>5. GhostOK'
    BY <1>1, <2>2 DEF BeginAdd, TypeOK, GhostOK
  <2> QED
    BY <2>3, <2>4, <2>5 DEF TypeOK
<1>2. CASE PrepareItem
  <2>1. Head(todo) \in Item /\ Tail(todo) \in Seq(Item)
    BY <1>2 DEF PrepareItem, TypeOK, LocalOK
  <2>2. Distinct(prepared) /\ prepared \in Seq(Item)
    BY <1>2 DEF PrepareItem, TypeOK, LocalOK, Control, AddUndoable
  <2>3. KeepLast(prepared, Head(todo)) \in Seq(Item)
    BY <2>1, <2>2, KeepLastType
  <2>4. MemoryOK' /\ MapsOK' /\ GhostOK'
    BY <1>2 DEF PrepareItem, TypeOK, MemoryOK, MapsOK, GhostOK, memory, maps, ghost, fvars
  <2>5. LocalOK'
    BY <1>2, <2>1, <2>3 DEF PrepareItem, TypeOK, LocalOK
  <2> QED
    BY <2>4, <2>5 DEF TypeOK
<1>3. CASE LockAdd
  BY <1>3 DEF LockAdd, TypeOK, MemoryOK, MapsOK, LocalOK, GhostOK, memory, maps, local, ghost, fvars
<1>4. CASE RefuseItem
  <2>1. Tail(prepared) \in Seq(Item)
    BY <1>4 DEF RefuseItem, TypeOK, LocalOK
  <2>2. MemoryOK' /\ MapsOK'
    BY <1>4 DEF RefuseItem, SkipItem, TypeOK, MemoryOK, MapsOK, memory, maps
  <2>3. LocalOK'
    BY <1>4, <2>1 DEF RefuseItem, SkipItem, TypeOK, LocalOK
  <2>4. GhostOK'
    BY <1>4, FaultTypes DEF RefuseItem, SkipItem, TypeOK, GhostOK, ghost
  <2> QED
    BY <2>2, <2>3, <2>4 DEF TypeOK
<1>5. CASE InsertItem
  <2> DEFINE it == Head(prepared)
  <2>1. it \in Item
    BY <1>5 DEF InsertItem, TypeOK, LocalOK
  <2>2. it.key \in Keys /\ it.val \in Vals
    BY <2>1 DEF Item
  <2>3. MapsOK'
    BY <1>5, <2>2 DEF InsertItem, TypeOK, MapsOK
  <2>4. MemoryOK' /\ LocalOK' /\ UNCHANGED ghost
    <3>1. CASE Moves(it)
      BY <1>5, <3>1 DEF InsertItem, TypeOK, MemoryOK, LocalOK, memory, local, ghost
    <3>2. CASE ~Moves(it)
      BY <1>5, <3>2, CommitTypes DEF InsertItem, TypeOK
    <3> QED
      BY <3>1, <3>2
  <2>5. GhostOK'
    BY <1>5, <2>4, FaultTypes DEF InsertItem, TypeOK, GhostOK, ghost
  <2> QED
    BY <2>3, <2>4, <2>5 DEF TypeOK
<1>6. CASE DeleteOld
  <2>1. MemoryOK' /\ LocalOK' /\ UNCHANGED ghost
    BY <1>6, CommitTypes DEF DeleteOld, TypeOK, Control
  <2>2. MapsOK'
    BY <1>6 DEF DeleteOld, TypeOK, MapsOK
  <2>3. GhostOK'
    BY <1>6, <2>1, FaultTypes DEF DeleteOld, TypeOK, GhostOK, ghost
  <2> QED
    BY <2>1, <2>2, <2>3 DEF TypeOK
<1>7. CASE DeleteOldFails
  <2>1. MemoryOK' /\ MapsOK' /\ LocalOK'
    BY <1>7 DEF DeleteOldFails, TypeOK, MemoryOK, MapsOK, LocalOK, memory, maps, local
  <2>2. GhostOK'
    BY <1>7, FaultTypes DEF DeleteOldFails, TypeOK, GhostOK, ghost
  <2> QED
    BY <2>1, <2>2 DEF TypeOK
<1>8. CASE AbortItem
  <2>1. Tail(prepared) \in Seq(Item)
    BY <1>8 DEF AbortItem, TypeOK, LocalOK, Control
  <2>2. MemoryOK' /\ MapsOK'
    <3>1. UNCHANGED bl \/ \E k : bl' = [bl EXCEPT ![activeRuleSlot][k] = None]
      BY <1>8 DEF AbortItem
    <3>2. MapsOK'
      BY <1>8, <3>1, MapTypes DEF AbortItem, TypeOK, MemoryOK
    <3> QED
      BY <1>8, <3>2 DEF AbortItem, SkipItem, TypeOK, MemoryOK, memory
  <2>3. LocalOK'
    BY <1>8, <2>1 DEF AbortItem, SkipItem, TypeOK, LocalOK
  <2>4. GhostOK'
    BY <1>8, FaultTypes DEF AbortItem, SkipItem, TypeOK, GhostOK, ghost
  <2> QED
    BY <2>2, <2>3, <2>4 DEF TypeOK
<1>9. CASE FinishItems
  <2>1. MemoryOK' /\ MapsOK'
    BY <1>9 DEF FinishItems, TypeOK, MemoryOK, MapsOK, memory, maps
  <2>2. LocalOK' /\ targets' \in SUBSET Ids
    <3>1. CASE Return
      BY <3>1, ReturnTypes
    <3>2. CASE ~Return
      BY <1>9, <3>2 DEF FinishItems, TypeOK, LocalOK, GhostOK, local
    <3> QED
      BY <3>1, <3>2
  <2>3. GhostOK'
    BY <1>9, <2>2 DEF FinishItems, TypeOK, GhostOK, fvars
  <2> QED
    BY <2>1, <2>2, <2>3 DEF TypeOK
<1>10. CASE RollbackItem
  <2> DEFINE d == Head(done)
  <2>1. d \in Done /\ Tail(done) \in Seq(Done)
    BY <1>10 DEF RollbackItem, TypeOK, LocalOK
  <2>2. d.id \in Ids /\ d.key \in Keys /\ d.old \in Rule \cup {None}
    BY <2>1 DEF Done
  <2>3. MapsOK'
    <3>1. UNCHANGED bl \/ \E k : bl' = [bl EXCEPT ![activeRuleSlot][k] = None]
      BY <1>10 DEF RollbackItem
    <3> QED
      BY <1>10, <3>1, MapTypes DEF RollbackItem, TypeOK, MemoryOK
  <2>4. MemoryOK'
    <3>1. rules' \in [Ids -> Rule \cup {None}]
      BY <1>10, <2>2 DEF RollbackItem, TypeOK, MemoryOK
    <3>2. ruleKeyIndex' \in [Keys -> Ids \cup {None}]
      BY <1>10, <2>2 DEF RollbackItem, TypeOK, MemoryOK
    <3>3. comboRefCount' \in [Combos -> Int]
      BY <1>10 DEF RollbackItem, TypeOK, MemoryOK, One
    <3> QED
      BY <1>10, <3>1, <3>2, <3>3 DEF RollbackItem, TypeOK, MemoryOK
  <2>5. LocalOK'
    BY <1>10, <2>1 DEF RollbackItem, TypeOK, LocalOK
  <2>6. GhostOK'
    BY <1>10, FaultTypes DEF RollbackItem, TypeOK, GhostOK, ghost
  <2> QED
    BY <2>3, <2>4, <2>5, <2>6 DEF TypeOK
<1>11. CASE Reinsert
  <2> DEFINE old == Head(done).old
  <2>1. Head(done) \in Done /\ Tail(done) \in Seq(Done) /\ old # None
    BY <1>11 DEF Reinsert, TypeOK, LocalOK, Control
  <2>2. old \in Rule
    BY <2>1 DEF Done
  <2>3. old.key \in Keys /\ old.val \in Vals
    BY <2>2 DEF Rule
  <2>4. MapsOK'
    BY <1>11, <2>3 DEF Reinsert, TypeOK, MapsOK
  <2>5. MemoryOK' /\ LocalOK'
    BY <1>11, <2>1 DEF Reinsert, TypeOK, MemoryOK, LocalOK, memory
  <2>6. GhostOK'
    BY <1>11, FaultTypes DEF Reinsert, TypeOK, GhostOK, ghost
  <2> QED
    BY <2>4, <2>5, <2>6 DEF TypeOK
<1>12. CASE FinishRollback
  BY <1>12, ReturnTypes DEF FinishRollback, TypeOK, MemoryOK, MapsOK, GhostOK, memory, maps, fvars
<1>13. ASSUME NEW b \in DelBatches, BeginDelete(b) PROVE TypeOK'
  <2>1. b \in Seq(Ids)
    BY ConstantsAssumption
  <2>2. \A n \in DOMAIN b : b[n] \in Ids
    BY <2>1
  <2>3. MemoryOK' /\ MapsOK'
    BY <1>13 DEF BeginDelete, TypeOK, MemoryOK, MapsOK, memory, maps
  <2>4. LocalOK' /\ GhostOK'
    BY <1>13, <2>1, <2>2 DEF BeginDelete, TypeOK, LocalOK, GhostOK
  <2> QED
    BY <2>3, <2>4 DEF TypeOK
<1>14. CASE DeleteFails
  <2>1. Tail(ids) \in Seq(Ids)
    BY <1>14 DEF DeleteFails, TypeOK, LocalOK
  <2>2. MemoryOK' /\ MapsOK' /\ LocalOK'
    BY <1>14, <2>1 DEF DeleteFails, TypeOK, MemoryOK, MapsOK, LocalOK, memory, maps
  <2>3. GhostOK'
    BY <1>14, FaultTypes DEF DeleteFails, TypeOK, GhostOK, ghost
  <2> QED
    BY <2>2, <2>3 DEF TypeOK
<1>15. CASE DeleteItem
  <2> DEFINE i == Head(ids)
  <2>1. i \in Ids /\ Tail(ids) \in Seq(Ids)
    BY <1>15 DEF DeleteItem, TypeOK, LocalOK
  <2>2. MapsOK'
    BY <1>15 DEF DeleteItem, TypeOK, MapsOK
  <2>3. MemoryOK'
    <3>1. comboRefCount' \in [Combos -> Int]
      BY <1>15 DEF DeleteItem, TypeOK, MemoryOK, One
    <3>2. rules' \in [Ids -> Rule \cup {None}] /\ ruleKeyIndex' \in [Keys -> Ids \cup {None}]
      BY <1>15, <2>1 DEF DeleteItem, TypeOK, MemoryOK
    <3> QED
      BY <1>15, <3>1, <3>2 DEF DeleteItem, TypeOK, MemoryOK
  <2>4. LocalOK'
    BY <1>15, <2>1 DEF DeleteItem, TypeOK, LocalOK
  <2>5. GhostOK'
    BY <1>15, FaultTypes DEF DeleteItem, TypeOK, GhostOK, ghost
  <2> QED
    BY <2>2, <2>3, <2>4, <2>5 DEF TypeOK
<1>16. CASE FinishDelete
  <2>1. MemoryOK' /\ MapsOK'
    BY <1>16 DEF FinishDelete, TypeOK, MemoryOK, MapsOK, memory, maps
  <2>2. LocalOK' /\ targets' \in SUBSET Ids
    <3>1. CASE Return
      BY <3>1, ReturnTypes
    <3>2. CASE ~Return
      BY <1>16, <3>2 DEF FinishDelete, TypeOK, LocalOK, GhostOK, local
    <3> QED
      BY <3>1, <3>2
  <2>3. GhostOK'
    BY <1>16, <2>2 DEF FinishDelete, TypeOK, GhostOK, fvars
  <2> QED
    BY <2>1, <2>2, <2>3 DEF TypeOK
<1>17. ASSUME NEW b \in SyncBatches, BeginSync(b) PROVE TypeOK'
  <2>1. b \in Seq(Item)
    BY ConstantsAssumption
  <2> QED
    BY <1>17, <2>1 DEF BeginSync, TypeOK, MemoryOK, MapsOK, LocalOK, GhostOK, memory, maps, ghost
<1>18. CASE SyncClear
  <2>1. MapsOK'
    BY <1>18, MapTypes DEF SyncClear, TypeOK, MemoryOK
  <2>2. MemoryOK' /\ LocalOK'
    BY <1>18 DEF SyncClear, TypeOK, MemoryOK, LocalOK, memory, local
  <2>3. GhostOK'
    BY <1>18, FaultTypes DEF SyncClear, ClearMap, TypeOK, GhostOK, ghost
  <2> QED
    BY <2>1, <2>2, <2>3 DEF TypeOK
<1>19. CASE SyncItem
  <2> DEFINE it == Head(todo)
  <2>1. it \in Item /\ Tail(todo) \in Seq(Item)
    BY <1>19 DEF SyncItem, TypeOK, LocalOK
  <2>2. it.id \in Ids /\ it.key \in Keys /\ it.val \in Vals
    BY <2>1 DEF Item
  <2>3. [key |-> it.key, val |-> it.val] \in Rule
    BY <2>2 DEF Rule
  <2>4. MapsOK'
    <3>1. UNCHANGED bl \/ bl' = [bl EXCEPT ![Other(activeRuleSlot)][it.key] = it.val]
      BY <1>19 DEF SyncItem
    <3>2. UNCHANGED <<cfg, activeConfig>> /\ Other(activeRuleSlot) \in Slots /\ MapsOK
      BY <1>19 DEF SyncItem, TypeOK, MemoryOK
    <3>3. CASE UNCHANGED bl
      BY <3>2, <3>3, MapTypes
    <3>4. CASE bl' = [bl EXCEPT ![Other(activeRuleSlot)][it.key] = it.val]
      BY <2>2, <3>2, <3>4 DEF MapsOK
    <3> QED
      BY <3>1, <3>3, <3>4
  <2>5. LocalOK'
    <3>1. CASE shadow' = [shadow EXCEPT !.failed = TRUE]
      BY <1>19, <2>1, <3>1 DEF SyncItem, TypeOK, LocalOK
    <3>2. CASE /\ Combo[it.key] \in Combos
               /\ shadow' = [shadow EXCEPT !.rules[it.id] = [key |-> it.key, val |-> it.val],
                                            !.index[it.key] = it.id,
                                            !.combo[Combo[it.key]] = @ + 1,
                                            !.count = @ + 1]
      <4>1. /\ shadow'.rules = [shadow.rules EXCEPT ![it.id] = [key |-> it.key, val |-> it.val]]
            /\ shadow'.index = [shadow.index EXCEPT ![it.key] = it.id]
            /\ shadow'.combo = [shadow.combo EXCEPT ![Combo[it.key]] = @ + 1]
            /\ shadow'.count = shadow.count + 1
            /\ shadow'.failed = shadow.failed
            /\ shadow' = [rules |-> shadow'.rules, index |-> shadow'.index,
                          combo |-> shadow'.combo, count |-> shadow'.count,
                          failed |-> shadow'.failed]
        BY <3>2 DEF TypeOK, LocalOK
      <4>2. /\ shadow'.rules \in [Ids -> Rule \cup {None}]
            /\ shadow'.index \in [Keys -> Ids \cup {None}]
        BY <2>2, <2>3, <4>1 DEF TypeOK, LocalOK
      <4>3. /\ shadow'.combo \in [Combos -> Nat] /\ shadow'.count \in Nat
            /\ shadow'.failed \in BOOLEAN
        BY <3>2, <4>1 DEF TypeOK, LocalOK
      <4>4. shadow' \in [rules : [Ids -> Rule \cup {None}], index : [Keys -> Ids \cup {None}],
                         combo : [Combos -> Nat], count : Nat, failed : BOOLEAN]
        BY <4>1, <4>2, <4>3
      <4> QED
        BY <1>19, <2>1, <4>4 DEF SyncItem, TypeOK, LocalOK
    <3> QED
      BY <1>19, <3>1, <3>2 DEF SyncItem, Valid
  <2>6. MemoryOK'
    BY <1>19 DEF SyncItem, TypeOK, MemoryOK, memory
  <2>7. GhostOK'
    BY <1>19, FaultTypes DEF SyncItem, TypeOK, GhostOK, ghost
  <2> QED
    BY <2>4, <2>5, <2>6, <2>7 DEF TypeOK
<1>20. CASE SyncAbort
  BY <1>20, ReturnTypes DEF SyncAbort, TypeOK, MemoryOK, MapsOK, GhostOK, memory, maps, fvars
<1>21. CASE SyncConfig
  <2>1. [bitmap  |-> {c \in Combos : shadow.combo[c] > 0}, blCount |-> shadow.count,
         ruleSel |-> Other(activeRuleSlot),
         anomaly |-> Count(Anomalies(shadow.rules))] \in Config
    BY CountType DEF TypeOK, MemoryOK, LocalOK, Config
  <2>2. MapsOK'
    BY <1>21, <2>1 DEF SyncConfig, TypeOK, MapsOK
  <2> QED
    BY <1>21, <2>2 DEF SyncConfig, NoFault, TypeOK, MemoryOK, LocalOK, GhostOK, memory, local, ghost, fvars
<1>22. CASE SyncFlip
  <2>1. MemoryOK' /\ MapsOK'
    BY <1>22 DEF SyncFlip, TypeOK, MemoryOK, MapsOK, LocalOK
  <2>2. LocalOK' /\ GhostOK'
    BY <1>22 DEF SyncFlip, NoFault, TypeOK, LocalOK, GhostOK, local, fvars
  <2> QED
    BY <2>1, <2>2 DEF TypeOK
<1>23. CASE SyncPublishFails
  <2>1. MemoryOK' /\ MapsOK' /\ LocalOK' /\ targets' \in SUBSET Ids
    BY <1>23, ReturnTypes DEF SyncPublishFails, TypeOK, MemoryOK, MapsOK, memory, maps
  <2>2. GhostOK'
    BY <1>23, <2>1, FaultTypes DEF SyncPublishFails, TypeOK, GhostOK
  <2> QED
    BY <2>1, <2>2 DEF TypeOK
<1>24. CASE SyncCleanup
  <2>1. MapsOK'
    BY <1>24, MapTypes DEF SyncCleanup, TypeOK, MemoryOK
  <2>2. MemoryOK' /\ LocalOK' /\ targets' \in SUBSET Ids
    BY <1>24, ReturnTypes DEF SyncCleanup, TypeOK, MemoryOK, memory
  <2>3. GhostOK'
    BY <1>24, <2>2, FaultTypes DEF SyncCleanup, ClearMap, TypeOK, GhostOK
  <2> QED
    BY <2>1, <2>2, <2>3 DEF TypeOK
<1>25. CASE PubCopy
  BY <1>25 DEF PubCopy, NoFault, TypeOK, MemoryOK, MapsOK, LocalOK, GhostOK, memory, local, ghost, fvars
<1>26. CASE PubWrite
  <2> DEFINE s == Other(activeConfig)
             n == cfg[s].blCount + delta
             w == [bitmap  |-> {c \in Combos : comboRefCount[c] > 0},
                   blCount |-> IF n < 0 THEN 0 ELSE n,
                   ruleSel |-> cfg[s].ruleSel,
                   anomaly |-> Count(Anomalies(rules))]
  <2>1. s \in Slots /\ cfg[s] \in Config
    BY DEF TypeOK, MapsOK
  <2>2. cfg[s].ruleSel \in Slots /\ n \in Int
    BY <2>1 DEF TypeOK, LocalOK, Config
  <2>3. w \in Config
    BY <2>2, CountType DEF Config
  <2>4. cfg' = [cfg EXCEPT ![s] = w]
    BY <1>26, <2>1 DEF PubWrite, TypeOK, MapsOK
  <2>5. MapsOK'
    BY <1>26, <2>1, <2>3, <2>4 DEF PubWrite, TypeOK, MapsOK
  <2> QED
    BY <1>26, <2>5 DEF PubWrite, NoFault, TypeOK, MemoryOK, LocalOK, GhostOK, memory, local, ghost, fvars
<1>27. CASE PubFlip
  <2>1. MemoryOK' /\ MapsOK' /\ LocalOK' /\ targets' \in SUBSET Ids
    BY <1>27, ReturnTypes DEF PubFlip, TypeOK, MemoryOK, MapsOK, memory
  <2>2. GhostOK'
    BY <1>27, <2>1 DEF PubFlip, NoFault, TypeOK, GhostOK, MemoryOK, fvars
  <2> QED
    BY <2>1, <2>2 DEF TypeOK
<1>28. CASE PubFail
  <2>1. MemoryOK' /\ MapsOK'
    BY <1>28 DEF PubFail, TypeOK, MemoryOK, MapsOK, memory, maps
  <2>2. LocalOK' /\ targets' \in SUBSET Ids /\ committed' \in {committed, rules}
    <3>1. CASE Return
      BY <1>28, <3>1, ReturnTypes DEF PubFail, ghost
    <3>2. CASE ~Return
      BY <1>28, <3>2 DEF PubFail, TypeOK, LocalOK, GhostOK, local, ghost
    <3> QED
      BY <3>1, <3>2
  <2>3. GhostOK'
    BY <1>28, <2>2, FaultTypes DEF PubFail, TypeOK, GhostOK, MemoryOK
  <2> QED
    BY <2>1, <2>2, <2>3 DEF TypeOK
<1>29. CASE UNCHANGED vars
  BY <1>29 DEF vars, TypeOK, MemoryOK, MapsOK, LocalOK, GhostOK, memory, maps, local, ghost, fvars
<1> QED
  BY <1>1, <1>2, <1>3, <1>4, <1>5, <1>6, <1>7, <1>8, <1>9, <1>10, <1>11, <1>12, <1>13,
     <1>14, <1>15, <1>16, <1>17, <1>18, <1>19, <1>20, <1>21, <1>22, <1>23, <1>24,
     <1>25, <1>26, <1>27, <1>28, <1>29 DEF Next, Add, Delete, Sync, Publish

\* An add none of whose changes is pending has changed nothing.
LEMMA NothingPending ==
  ASSUME IInv, kind = "add", done = <<>>, pc # "reinsert"
  PROVE  rules = committed
<1>1. IdsOf(Pending) = {}
  BY DEF IdsOf, Pending
<1>2. \A i \in Ids : rules[i] = committed[i]
  BY <1>1 DEF IInv, AddUndoable
<1> QED
  BY <1>2 DEF IInv, TypeOK, MemoryOK, GhostOK

\* Every step leaves the handler at a step of its own with the locals it needs.
LEMMA ControlStep ==
  ASSUME IInv, [Next]_vars
  PROVE  Control'
<1> USE DEF IInv, Control, memory, maps, local
<1>1. CASE \E b \in AddBatches : BeginAdd(b)
  BY <1>1 DEF BeginAdd
<1>2. CASE PrepareItem
  BY <1>2 DEF PrepareItem
<1>3. CASE LockAdd
  BY <1>3 DEF LockAdd
<1>4. CASE RefuseItem
  BY <1>4 DEF RefuseItem, SkipItem
<1>5. CASE InsertItem
  <2>1. CASE Moves(Head(prepared))
    BY <1>5, <2>1 DEF InsertItem, Moves
  <2>2. CASE ~Moves(Head(prepared))
    BY <1>5, <2>2 DEF InsertItem, CommitItem
  <2> QED
    BY <2>1, <2>2
<1>6. CASE DeleteOld
  BY <1>6 DEF DeleteOld, CommitItem
<1>7. CASE DeleteOldFails
  BY <1>7 DEF DeleteOldFails, Moves
<1>8. CASE AbortItem
  BY <1>8 DEF AbortItem, SkipItem
<1>9. CASE FinishItems
  BY <1>9 DEF FinishItems, Return
<1>10. CASE RollbackItem
  BY <1>10 DEF RollbackItem
<1>11. CASE Reinsert
  BY <1>11 DEF Reinsert
<1>12. CASE FinishRollback
  BY <1>12 DEF FinishRollback, Return
<1>13. CASE \E b \in DelBatches : BeginDelete(b)
  BY <1>13 DEF BeginDelete
<1>14. CASE DeleteFails
  BY <1>14 DEF DeleteFails
<1>15. CASE DeleteItem
  BY <1>15 DEF DeleteItem, Deletable
<1>16. CASE FinishDelete
  BY <1>16 DEF FinishDelete, Return
<1>17. CASE \E b \in SyncBatches : BeginSync(b)
  BY <1>17 DEF BeginSync
<1>18. CASE SyncClear
  BY <1>18 DEF SyncClear
<1>19. CASE SyncItem
  BY <1>19 DEF SyncItem
<1>20. CASE SyncAbort
  BY <1>20 DEF SyncAbort, Return
<1>21. CASE SyncConfig
  BY <1>21 DEF SyncConfig
<1>22. CASE SyncFlip
  BY <1>22 DEF SyncFlip
<1>23. CASE SyncPublishFails
  BY <1>23 DEF SyncPublishFails, Return
<1>24. CASE SyncCleanup
  BY <1>24 DEF SyncCleanup, Return
<1>25. CASE PubCopy
  BY <1>25 DEF PubCopy
<1>26. CASE PubWrite
  BY <1>26 DEF PubWrite
<1>27. CASE PubFlip
  BY <1>27 DEF PubFlip, Return
<1>28. CASE PubFail
  BY <1>28 DEF PubFail, Return
<1>29. CASE UNCHANGED vars
  BY <1>29 DEF vars, Moves
<1> QED
  BY <1>1, <1>2, <1>3, <1>4, <1>5, <1>6, <1>7, <1>8, <1>9, <1>10, <1>11, <1>12, <1>13,
     <1>14, <1>15, <1>16, <1>17, <1>18, <1>19, <1>20, <1>21, <1>22, <1>23, <1>24, <1>25, <1>26,
     <1>27, <1>28, <1>29 DEF Next, Add, Delete, Sync, Publish

\* Outside an add or a delete the rule table is the one in force.
LEMMA UntouchedStep ==
  ASSUME IInv, [Next]_vars
  PROVE  Untouched'
<1> USE DEF IInv, Untouched, Control, memory, local, ghost
<1>1. CASE \E b \in AddBatches : BeginAdd(b)
  BY <1>1 DEF BeginAdd
<1>2. CASE PrepareItem
  BY <1>2 DEF PrepareItem
<1>3. CASE LockAdd
  BY <1>3 DEF LockAdd
<1>4. CASE RefuseItem
  BY <1>4 DEF RefuseItem, SkipItem
<1>5. CASE InsertItem
  BY <1>5 DEF InsertItem, CommitItem
<1>6. CASE DeleteOld
  BY <1>6 DEF DeleteOld, CommitItem
<1>7. CASE DeleteOldFails
  BY <1>7 DEF DeleteOldFails
<1>8. CASE AbortItem
  BY <1>8 DEF AbortItem, SkipItem
<1>9. CASE FinishItems
  BY <1>9, NothingPending DEF FinishItems, Return
<1>10. CASE RollbackItem
  BY <1>10 DEF RollbackItem
<1>11. CASE Reinsert
  BY <1>11 DEF Reinsert
<1>12. CASE FinishRollback
  BY <1>12, NothingPending DEF FinishRollback, Return
<1>13. CASE \E b \in DelBatches : BeginDelete(b)
  BY <1>13 DEF BeginDelete
<1>14. CASE DeleteFails
  BY <1>14 DEF DeleteFails
<1>15. CASE DeleteItem
  BY <1>15 DEF DeleteItem, Deletable
<1>16. CASE FinishDelete
  BY <1>16 DEF FinishDelete, Return, DeleteShrinks
<1>17. CASE \E b \in SyncBatches : BeginSync(b)
  BY <1>17 DEF BeginSync
<1>18. CASE SyncClear
  BY <1>18 DEF SyncClear
<1>19. CASE SyncItem
  BY <1>19 DEF SyncItem
<1>20. CASE SyncAbort
  BY <1>20 DEF SyncAbort, Return
<1>21. CASE SyncConfig
  BY <1>21 DEF SyncConfig
<1>22. CASE SyncFlip
  BY <1>22 DEF SyncFlip
<1>23. CASE SyncPublishFails
  BY <1>23 DEF SyncPublishFails, Return
<1>24. CASE SyncCleanup
  BY <1>24 DEF SyncCleanup, Return
<1>25. CASE PubCopy
  BY <1>25 DEF PubCopy
<1>26. CASE PubWrite
  BY <1>26 DEF PubWrite
<1>27. CASE PubFlip
  BY <1>27 DEF PubFlip, Return
<1>28. CASE PubFail
  BY <1>28 DEF PubFail, Return
<1>29. CASE UNCHANGED vars
  BY <1>29 DEF vars
<1> QED
  BY <1>1, <1>2, <1>3, <1>4, <1>5, <1>6, <1>7, <1>8, <1>9, <1>10, <1>11, <1>12, <1>13,
     <1>14, <1>15, <1>16, <1>17, <1>18, <1>19, <1>20, <1>21, <1>22, <1>23, <1>24, <1>25, <1>26,
     <1>27, <1>28, <1>29 DEF Next, Add, Delete, Sync, Publish

\* A handler that returns leaves no prepared item and no shadow rule behind.
LEMMA ReturnLegal ==
  ASSUME Return
  PROVE  shadow'.rules \in LegalTable /\ prepared' = <<>>
BY DEF Return, NoShadow, EmptyTable, LegalTable, LegalRule

\* Dropping the first prepared item keeps the others valid.
LEMMA TailValid ==
  ASSUME IInv, prepared # <<>>
  PROVE  \A n \in DOMAIN Tail(prepared) : Valid(Tail(prepared)[n])
<1>1. prepared \in Seq(Item) /\ \A n \in DOMAIN prepared : Valid(prepared[n])
  BY DEF IInv, TypeOK, LocalOK, OnlyLegal
<1>2. \A n \in DOMAIN Tail(prepared) :
        n + 1 \in DOMAIN prepared /\ Tail(prepared)[n] = prepared[n + 1]
  BY <1>1
<1> QED
  BY <1>1, <1>2

\* A valid item makes a legal rule.
LEMMA ItemLegal ==
  ASSUME NEW it \in Item, Valid(it)
  PROVE  [key |-> it.key, val |-> it.val] \in LegalRule
BY DEF Item, Rule, Valid, LegalRule

\* The memory update of a valid item keeps the rule table legal.
LEMMA CommitLegal ==
  ASSUME IInv, prepared # <<>>, CommitItem(Head(prepared))
  PROVE  OnlyLegal'
<1> DEFINE it == Head(prepared)
<1>1. it \in Item /\ Valid(it)
  BY DEF IInv, TypeOK, LocalOK, OnlyLegal
<1>2. it.id \in Ids
  BY <1>1 DEF Item
<1>3. rules' = [rules EXCEPT ![it.id] = [key |-> it.key, val |-> it.val]]
  BY DEF CommitItem
<1>4. [key |-> it.key, val |-> it.val] \in LegalRule
  BY <1>1, ItemLegal
<1> HIDE DEF it
<1>5. rules' \in LegalTable
  BY <1>2, <1>3, <1>4 DEF IInv, OnlyLegal, LegalTable
<1>6. UNCHANGED <<committed, shadow>> /\ prepared' = Tail(prepared)
  BY DEF CommitItem, ghost, it
<1> QED
  BY <1>5, <1>6, TailValid DEF IInv, OnlyLegal, Valid

\* No step lets a rule of an unsupported combo into a table.
LEMMA LegalStep ==
  ASSUME IInv, [Next]_vars
  PROVE  OnlyLegal'
<1> USE DEF IInv, OnlyLegal, Control, memory, local, ghost
<1>1. CASE \E b \in AddBatches : BeginAdd(b)
  BY <1>1 DEF BeginAdd
<1>2. CASE PrepareItem
  <2> DEFINE it == Head(todo)
  <2>1. it \in Item /\ prepared \in Seq(Item) /\ Distinct(prepared)
    BY <1>2 DEF PrepareItem, TypeOK, LocalOK, AddUndoable
  <2>2. \A n \in DOMAIN KeepLast(prepared, it) :
          KeepLast(prepared, it)[n] = it \/ \E m \in DOMAIN prepared : KeepLast(prepared, it)[n] = prepared[m]
    BY <2>1, KeepLastType
  <2>3. \A n \in DOMAIN prepared' : Valid(prepared'[n])
    <3>1. CASE Valid(it)
      BY <1>2, <2>2, <3>1 DEF PrepareItem
    <3>2. CASE ~Valid(it)
      BY <1>2, <3>2 DEF PrepareItem
    <3> QED
      BY <3>1, <3>2
  <2> QED
    BY <1>2, <2>3 DEF PrepareItem, Valid
<1>3. CASE LockAdd
  BY <1>3 DEF LockAdd
<1>4. CASE RefuseItem
  BY <1>4, TailValid DEF RefuseItem, SkipItem, Valid
<1>5. CASE InsertItem
  <2>1. CASE Moves(Head(prepared))
    BY <1>5, <2>1 DEF InsertItem
  <2>2. CASE ~Moves(Head(prepared))
    BY <1>5, <2>2, CommitLegal DEF InsertItem
  <2> QED
    BY <2>1, <2>2
<1>6. CASE DeleteOld
  BY <1>6, CommitLegal DEF DeleteOld
<1>7. CASE DeleteOldFails
  BY <1>7 DEF DeleteOldFails
<1>8. CASE AbortItem
  BY <1>8, TailValid DEF AbortItem, SkipItem, Valid
<1>9. CASE FinishItems
  BY <1>9, ReturnLegal DEF FinishItems
<1>10. CASE RollbackItem
  <2>1. Pending = done /\ done \in Seq(Done) /\ done # <<>>
    BY <1>10 DEF RollbackItem, Pending, TypeOK, LocalOK
  <2>2. 1 \in DOMAIN done /\ Head(done) = done[1] /\ Head(done) \in Done
    BY <2>1
  <2>3. Head(done).id \in Ids /\ Head(done).old = committed[Head(done).id]
    BY <1>10, <2>1, <2>2 DEF RollbackItem, AddUndoable, Done
  <2>4. Head(done).old \in LegalRule
    BY <2>3 DEF LegalTable
  <2>5. rules' \in LegalTable
    BY <1>10, <2>3, <2>4 DEF RollbackItem, LegalTable
  <2> QED
    BY <1>10, <2>5 DEF RollbackItem
<1>11. CASE Reinsert
  BY <1>11 DEF Reinsert
<1>12. CASE FinishRollback
  BY <1>12, ReturnLegal DEF FinishRollback
<1>13. CASE \E b \in DelBatches : BeginDelete(b)
  BY <1>13 DEF BeginDelete
<1>14. CASE DeleteFails
  BY <1>14 DEF DeleteFails
<1>15. CASE DeleteItem
  <2>1. rules' \in LegalTable
    BY <1>15 DEF DeleteItem, LegalTable, LegalRule
  <2> QED
    BY <1>15, <2>1 DEF DeleteItem
<1>16. CASE FinishDelete
  BY <1>16, ReturnLegal DEF FinishDelete
<1>17. CASE \E b \in SyncBatches : BeginSync(b)
  BY <1>17 DEF BeginSync
<1>18. CASE SyncClear
  BY <1>18 DEF SyncClear
<1>19. CASE SyncItem
  <2> DEFINE it == Head(todo)
  <2>1. it \in Item
    BY <1>19 DEF SyncItem, TypeOK, LocalOK
  <2>2. CASE shadow'.rules = shadow.rules
    BY <1>19, <2>2 DEF SyncItem
  <2>3. CASE Valid(it) /\ shadow'.rules = [shadow.rules EXCEPT ![it.id] = [key |-> it.key, val |-> it.val]]
    <3>1. [key |-> it.key, val |-> it.val] \in LegalRule
      BY <2>1, <2>3, ItemLegal
    <3>2. shadow'.rules \in LegalTable
      BY <2>3, <3>1 DEF LegalTable
    <3> QED
      BY <1>19, <3>2 DEF SyncItem
  <2>4. \/ shadow'.rules = shadow.rules
        \/ Valid(it) /\ shadow'.rules = [shadow.rules EXCEPT ![it.id] = [key |-> it.key, val |-> it.val]]
    BY <1>19 DEF SyncItem, TypeOK, LocalOK
  <2> QED
    BY <2>2, <2>3, <2>4
<1>20. CASE SyncAbort
  BY <1>20, ReturnLegal DEF SyncAbort
<1>21. CASE SyncConfig
  BY <1>21 DEF SyncConfig
<1>22. CASE SyncFlip
  BY <1>22 DEF SyncFlip
<1>23. CASE SyncPublishFails
  BY <1>23, ReturnLegal DEF SyncPublishFails
<1>24. CASE SyncCleanup
  BY <1>24, ReturnLegal DEF SyncCleanup
<1>25. CASE PubCopy
  BY <1>25 DEF PubCopy
<1>26. CASE PubWrite
  BY <1>26 DEF PubWrite
<1>27. CASE PubFlip
  BY <1>27, ReturnLegal DEF PubFlip
<1>28. CASE PubFail
  BY <1>28, ReturnLegal DEF PubFail
<1>29. CASE UNCHANGED vars
  BY <1>29 DEF vars
<1> QED
  BY <1>1, <1>2, <1>3, <1>4, <1>5, <1>6, <1>7, <1>8, <1>9, <1>10, <1>11, <1>12, <1>13,
     <1>14, <1>15, <1>16, <1>17, <1>18, <1>19, <1>20, <1>21, <1>22, <1>23, <1>24, <1>25, <1>26,
     <1>27, <1>28, <1>29 DEF Next, Add, Delete, Sync, Publish

\* During a delete the table only loses rules.
LEMMA DeleteStep ==
  ASSUME IInv, [Next]_vars
  PROVE  DeleteShrinks'
<1> USE DEF IInv, DeleteShrinks, Control, memory, local, ghost
<1>1. CASE \E b \in AddBatches : BeginAdd(b)
  BY <1>1 DEF BeginAdd
<1>2. CASE PrepareItem
  BY <1>2 DEF PrepareItem
<1>3. CASE LockAdd
  BY <1>3 DEF LockAdd
<1>4. CASE RefuseItem
  BY <1>4 DEF RefuseItem, SkipItem
<1>5. CASE InsertItem
  BY <1>5 DEF InsertItem, CommitItem
<1>6. CASE DeleteOld
  BY <1>6 DEF DeleteOld, CommitItem
<1>7. CASE DeleteOldFails
  BY <1>7 DEF DeleteOldFails
<1>8. CASE AbortItem
  BY <1>8 DEF AbortItem, SkipItem
<1>9. CASE FinishItems
  BY <1>9 DEF FinishItems, Return
<1>10. CASE RollbackItem
  BY <1>10 DEF RollbackItem
<1>11. CASE Reinsert
  BY <1>11 DEF Reinsert
<1>12. CASE FinishRollback
  BY <1>12 DEF FinishRollback, Return
<1>13. CASE \E b \in DelBatches : BeginDelete(b)
  BY <1>13 DEF BeginDelete, Untouched
<1>14. CASE DeleteFails
  BY <1>14 DEF DeleteFails
<1>15. CASE DeleteItem
  BY <1>15 DEF DeleteItem, TypeOK, LocalOK, MemoryOK
<1>16. CASE FinishDelete
  BY <1>16 DEF FinishDelete, Return
<1>17. CASE \E b \in SyncBatches : BeginSync(b)
  BY <1>17 DEF BeginSync
<1>18. CASE SyncClear
  BY <1>18 DEF SyncClear
<1>19. CASE SyncItem
  BY <1>19 DEF SyncItem
<1>20. CASE SyncAbort
  BY <1>20 DEF SyncAbort, Return
<1>21. CASE SyncConfig
  BY <1>21 DEF SyncConfig
<1>22. CASE SyncFlip
  BY <1>22 DEF SyncFlip
<1>23. CASE SyncPublishFails
  BY <1>23 DEF SyncPublishFails, Return
<1>24. CASE SyncCleanup
  BY <1>24 DEF SyncCleanup, Return
<1>25. CASE PubCopy
  BY <1>25 DEF PubCopy
<1>26. CASE PubWrite
  BY <1>26 DEF PubWrite
<1>27. CASE PubFlip
  BY <1>27 DEF PubFlip, Return
<1>28. CASE PubFail
  BY <1>28 DEF PubFail, Return
<1>29. CASE UNCHANGED vars
  BY <1>29 DEF vars
<1> QED
  BY <1>1, <1>2, <1>3, <1>4, <1>5, <1>6, <1>7, <1>8, <1>9, <1>10, <1>11, <1>12, <1>13,
     <1>14, <1>15, <1>16, <1>17, <1>18, <1>19, <1>20, <1>21, <1>22, <1>23, <1>24, <1>25, <1>26,
     <1>27, <1>28, <1>29 DEF Next, Add, Delete, Sync, Publish

\* Dropping the first element of a sequence without repeated ids drops its id.
LEMMA TailIds ==
  ASSUME NEW S, NEW s \in Seq(S), s # <<>>, Distinct(s)
  PROVE  /\ Distinct(Tail(s))
         /\ IdsOf(Tail(s)) = IdsOf(s) \ {Head(s).id} /\ Head(s).id \in IdsOf(s)
         /\ \A n \in DOMAIN Tail(s) : n + 1 \in DOMAIN s /\ Tail(s)[n] = s[n + 1]
<1>1. /\ DOMAIN s = 1 .. Len(s) /\ Len(s) \in Nat /\ Len(s) > 0
      /\ DOMAIN Tail(s) = 1 .. Len(s) - 1
      /\ \A n \in 1 .. Len(s) - 1 : Tail(s)[n] = s[n + 1]
      /\ Head(s) = s[1]
  OBVIOUS
<1>2. \A n \in DOMAIN Tail(s) : n + 1 \in DOMAIN s /\ Tail(s)[n] = s[n + 1]
  BY <1>1
<1>3. \A m, n \in DOMAIN Tail(s) : Tail(s)[m].id = Tail(s)[n].id => m = n
  BY <1>1, <1>2 DEF Distinct
<1>4. \A n \in DOMAIN Tail(s) : Tail(s)[n].id # Head(s).id
  BY <1>1, <1>2 DEF Distinct
<1>5. \A n \in DOMAIN s : n = 1 \/ (n - 1 \in DOMAIN Tail(s) /\ s[n] = Tail(s)[n - 1])
  BY <1>1
<1>6. IdsOf(Tail(s)) \subseteq IdsOf(s) \ {Head(s).id}
  BY <1>2, <1>4 DEF IdsOf
<1>7. IdsOf(s) \ {Head(s).id} \subseteq IdsOf(Tail(s))
  <2>1. ASSUME NEW x \in IdsOf(s), x # Head(s).id PROVE x \in IdsOf(Tail(s))
    <3>1. PICK n \in DOMAIN s : x = s[n].id
      BY DEF IdsOf
    <3>2. n - 1 \in DOMAIN Tail(s) /\ s[n] = Tail(s)[n - 1]
      BY <1>1, <1>5, <2>1, <3>1
    <3> QED
      BY <3>1, <3>2 DEF IdsOf
  <2> QED
    BY <2>1
<1>8. Head(s).id \in IdsOf(s)
  BY <1>1 DEF IdsOf
<1>9. Distinct(Tail(s))
  BY <1>3 DEF Distinct
<1> QED
  BY <1>2, <1>6, <1>7, <1>8, <1>9

\* Appending an element with a new id adds that id.
LEMMA AppendIds ==
  ASSUME NEW S, NEW s \in Seq(S), Distinct(s), NEW e, e.id \notin IdsOf(s)
  PROVE  /\ Distinct(Append(s, e))
         /\ IdsOf(Append(s, e)) = IdsOf(s) \cup {e.id}
         /\ \A n \in DOMAIN Append(s, e) :
              (n \in DOMAIN s /\ Append(s, e)[n] = s[n]) \/ Append(s, e)[n] = e
<1>1. /\ DOMAIN s = 1 .. Len(s) /\ Len(s) \in Nat
      /\ DOMAIN Append(s, e) = 1 .. Len(s) + 1
      /\ \A n \in 1 .. Len(s) : Append(s, e)[n] = s[n]
      /\ Append(s, e)[Len(s) + 1] = e
  OBVIOUS
<1>2. \A n \in DOMAIN s : s[n].id # e.id
  BY DEF IdsOf
<1> QED
  BY <1>1, <1>2 DEF Distinct, IdsOf

\* The undo information of an add, of variables that may have changed.
LEMMA CommitUndoable ==
  ASSUME IInv, kind = "add", pc # "reinsert", prepared # <<>>, CommitItem(Head(prepared))
  PROVE  AddUndoable'
<1> DEFINE it == Head(prepared)
           e  == [id |-> it.id, key |-> it.key, old |-> rules[it.id]]
<1>1. prepared \in Seq(Item) /\ done \in Seq(Done) /\ it \in Item
  BY DEF IInv, TypeOK, LocalOK
<1>2. it.id \in Ids /\ it.key \in Keys /\ it.val \in Vals
  BY <1>1 DEF Item
<1>3. Pending = done
  BY DEF Pending
<1>4. AddUndoable /\ rules \in [Ids -> Rule \cup {None}]
  BY DEF IInv, TypeOK, MemoryOK
<1>5. /\ Distinct(Tail(prepared)) /\ IdsOf(Tail(prepared)) = IdsOf(prepared) \ {it.id}
      /\ it.id \in IdsOf(prepared)
  BY <1>1, <1>4, TailIds DEF AddUndoable
<1>6. it.id \notin IdsOf(done) /\ Distinct(done)
  BY <1>3, <1>4, <1>5 DEF AddUndoable
<1>7. /\ Distinct(Append(done, e)) /\ IdsOf(Append(done, e)) = IdsOf(done) \cup {it.id}
      /\ \A n \in DOMAIN Append(done, e) :
           (n \in DOMAIN done /\ Append(done, e)[n] = done[n]) \/ Append(done, e)[n] = e
  BY <1>1, <1>6, AppendIds
<1>8. /\ prepared' = Tail(prepared) /\ done' = Append(done, e) /\ pc' = "insert"
      /\ rules' = [rules EXCEPT ![it.id] = [key |-> it.key, val |-> it.val]]
      /\ committed' = committed
  BY DEF CommitItem, ghost
<1>9. Pending' = Append(done, e)
  BY <1>8 DEF Pending
<1>10. rules[it.id] = committed[it.id]
  BY <1>2, <1>3, <1>4, <1>6 DEF AddUndoable
<1>11. rules'[it.id] = [key |-> it.key, val |-> it.val] /\ \A i \in Ids \ {it.id} : rules'[i] = rules[i]
  BY <1>2, <1>4, <1>8
<1>12. rules'[it.id] # None
  <2>1. [key |-> it.key, val |-> it.val] \in Rule
    BY <1>2 DEF Rule
  <2> QED
    BY <1>11, <2>1, ConstantsAssumption
<1>13. ASSUME NEW n \in DOMAIN Append(done, e)
       PROVE  LET d == Append(done, e)[n] IN
              /\ d.old = committed[d.id]
              /\ rules'[d.id] # None /\ rules'[d.id].key = d.key
  <2>1. CASE n \in DOMAIN done /\ Append(done, e)[n] = done[n]
    <3>1. done[n] \in Done
      BY <1>1, <2>1
    <3>2. done[n].id \in Ids
      BY <3>1 DEF Done
    <3>3. done[n].id # it.id
      BY <1>6, <2>1 DEF IdsOf
    <3> QED
      BY <1>3, <1>4, <1>11, <2>1, <3>2, <3>3 DEF AddUndoable
  <2>2. CASE Append(done, e)[n] = e
    BY <1>10, <1>11, <1>12, <2>2
  <2> QED
    BY <1>7, <2>1, <2>2
<1>14. \A i \in Ids \ IdsOf(Append(done, e)) : rules'[i] = committed[i]
  BY <1>3, <1>4, <1>7, <1>11 DEF AddUndoable
<1>15. IdsOf(Tail(prepared)) \cap IdsOf(Append(done, e)) = {}
  BY <1>3, <1>4, <1>5, <1>7 DEF AddUndoable
<1> HIDE DEF e, it
<1> QED
  BY <1>5, <1>7, <1>8, <1>9, <1>13, <1>14, <1>15 DEF AddUndoable

\* Skipping a prepared item keeps the undo information.
LEMMA SkipUndoable ==
  ASSUME IInv, kind = "add", pc # "reinsert", prepared # <<>>, SkipItem
  PROVE  AddUndoable'
<1>1. prepared \in Seq(Item) /\ AddUndoable /\ Distinct(prepared)
  BY DEF IInv, TypeOK, LocalOK, AddUndoable
<1>2. Distinct(Tail(prepared)) /\ IdsOf(Tail(prepared)) \subseteq IdsOf(prepared)
  BY <1>1, TailIds
<1>3. /\ prepared' = Tail(prepared) /\ UNCHANGED <<done, rules, committed>>
      /\ Pending' = Pending
  BY DEF SkipItem, memory, ghost, Pending
<1> QED
  BY <1>1, <1>2, <1>3 DEF AddUndoable

\* Undoing one item takes it off the pending ones.
LEMMA RollbackUndoable ==
  ASSUME IInv, RollbackItem
  PROVE  AddUndoable'
<1> DEFINE d == Head(done)
<1>1. /\ kind = "add" /\ Pending = done /\ done \in Seq(Done) /\ done # <<>>
      /\ AddUndoable /\ Distinct(done)
  BY DEF RollbackItem, Pending, IInv, TypeOK, LocalOK, Control, AddUndoable
<1>2. d = done[1] /\ 1 \in DOMAIN done /\ d \in Done
  BY <1>1
<1>3. /\ Distinct(Tail(done)) /\ IdsOf(Tail(done)) = IdsOf(done) \ {d.id}
      /\ \A n \in DOMAIN Tail(done) : n + 1 \in DOMAIN done /\ Tail(done)[n] = done[n + 1]
  BY <1>1, TailIds
<1>4. /\ rules' = [rules EXCEPT ![d.id] = d.old] /\ UNCHANGED <<prepared, committed, kind>>
      /\ Pending' = Tail(done)
  BY <1>1 DEF RollbackItem, Pending, ghost
<1>5. d.id \in Ids /\ d.old = committed[d.id]
  BY <1>1, <1>2 DEF AddUndoable, Done
<1>6. rules'[d.id] = committed[d.id] /\ \A i \in Ids \ {d.id} : rules'[i] = rules[i]
  BY <1>4, <1>5 DEF IInv, TypeOK, MemoryOK
<1> HIDE DEF d
<1>7. ASSUME NEW n \in DOMAIN Tail(done)
      PROVE  LET x == Tail(done)[n] IN
             /\ x.old = committed[x.id]
             /\ rules'[x.id] # None /\ rules'[x.id].key = x.key
  <2>1. n + 1 \in DOMAIN done /\ Tail(done)[n] = done[n + 1]
    BY <1>3
  <2>2. Tail(done)[n].id \in IdsOf(Tail(done))
    BY DEF IdsOf
  <2>3. Tail(done)[n].id # d.id
    BY <1>3, <2>2
  <2>4. done[n + 1] \in Done
    BY <1>1, <2>1
  <2>5. Tail(done)[n].id \in Ids
    BY <2>1, <2>4 DEF Done
  <2> QED
    BY <1>1, <1>6, <2>1, <2>3, <2>5 DEF AddUndoable
<1>8. \A i \in Ids \ IdsOf(Tail(done)) : rules'[i] = committed[i]
  BY <1>1, <1>3, <1>6 DEF AddUndoable
<1>9. Distinct(prepared) /\ IdsOf(prepared) \cap IdsOf(Tail(done)) = {}
  BY <1>1, <1>3 DEF AddUndoable
<1> QED
  BY <1>3, <1>4, <1>7, <1>8, <1>9 DEF AddUndoable

\* No step of an add loses what it needs to undo the add.
LEMMA AddStep ==
  ASSUME IInv, [Next]_vars
  PROVE  AddUndoable'
<1> USE DEF IInv, AddUndoable, Control, memory, local, ghost
<1>1. CASE \E b \in AddBatches : BeginAdd(b)
  <2>1. /\ prepared' = <<>> /\ done' = <<>> /\ pc' = "prepare"
        /\ UNCHANGED <<rules, committed>> /\ rules = committed
    BY <1>1 DEF BeginAdd, Untouched
  <2>2. Pending' = <<>> /\ IdsOf(<<>>) = {} /\ Distinct(<<>>)
    BY <2>1 DEF Pending, IdsOf, Distinct
  <2> QED
    BY <2>1, <2>2
<1>2. CASE PrepareItem
  <2>1. Head(todo) \in Item /\ prepared \in Seq(Item) /\ Distinct(prepared)
    BY <1>2 DEF PrepareItem, TypeOK, LocalOK
  <2>2. Distinct(prepared')
    BY <1>2, <2>1, KeepLastType DEF PrepareItem
  <2>3. done = <<>> /\ Pending = done /\ Pending' = done
    BY <1>2 DEF PrepareItem, Pending
  <2>4. IdsOf(done) = {}
    BY <2>3 DEF IdsOf
  <2> QED
    BY <1>2, <2>2, <2>3, <2>4 DEF PrepareItem
<1>3. CASE LockAdd
  BY <1>3 DEF LockAdd, Pending
<1>4. CASE RefuseItem
  BY <1>4, SkipUndoable DEF RefuseItem
<1>5. CASE InsertItem
  <2>1. CASE Moves(Head(prepared))
    BY <1>5, <2>1 DEF InsertItem, Pending
  <2>2. CASE ~Moves(Head(prepared))
    BY <1>5, <2>2, CommitUndoable DEF InsertItem
  <2> QED
    BY <2>1, <2>2
<1>6. CASE DeleteOld
  BY <1>6, CommitUndoable DEF DeleteOld
<1>7. CASE DeleteOldFails
  BY <1>7 DEF DeleteOldFails, Pending
<1>8. CASE AbortItem
  BY <1>8, SkipUndoable DEF AbortItem
<1>9. CASE FinishItems
  BY <1>9 DEF FinishItems, Return, Pending
<1>10. CASE RollbackItem
  BY <1>10, RollbackUndoable
<1>11. CASE Reinsert
  BY <1>11 DEF Reinsert, Pending
<1>12. CASE FinishRollback
  BY <1>12 DEF FinishRollback, Return
<1>13. CASE \E b \in DelBatches : BeginDelete(b)
  BY <1>13 DEF BeginDelete
<1>14. CASE DeleteFails
  BY <1>14 DEF DeleteFails
<1>15. CASE DeleteItem
  BY <1>15 DEF DeleteItem, Deletable
<1>16. CASE FinishDelete
  BY <1>16 DEF FinishDelete, Return
<1>17. CASE \E b \in SyncBatches : BeginSync(b)
  BY <1>17 DEF BeginSync
<1>18. CASE SyncClear
  BY <1>18 DEF SyncClear
<1>19. CASE SyncItem
  BY <1>19 DEF SyncItem
<1>20. CASE SyncAbort
  BY <1>20 DEF SyncAbort, Return
<1>21. CASE SyncConfig
  BY <1>21 DEF SyncConfig
<1>22. CASE SyncFlip
  BY <1>22 DEF SyncFlip
<1>23. CASE SyncPublishFails
  BY <1>23 DEF SyncPublishFails, Return
<1>24. CASE SyncCleanup
  BY <1>24 DEF SyncCleanup, Return
<1>25. CASE PubCopy
  BY <1>25 DEF PubCopy, Pending
<1>26. CASE PubWrite
  BY <1>26 DEF PubWrite, Pending
<1>27. CASE PubFlip
  BY <1>27 DEF PubFlip, Return
<1>28. CASE PubFail
  BY <1>28 DEF PubFail, Return, Pending
<1>29. CASE UNCHANGED vars
  BY <1>29 DEF vars, Pending
<1> QED
  BY <1>1, <1>2, <1>3, <1>4, <1>5, <1>6, <1>7, <1>8, <1>9, <1>10, <1>11, <1>12, <1>13,
     <1>14, <1>15, <1>16, <1>17, <1>18, <1>19, <1>20, <1>21, <1>22, <1>23, <1>24, <1>25, <1>26,
     <1>27, <1>28, <1>29 DEF Next, Add, Delete, Sync, Publish

-----------------------------------------------------------------------------
(* The counters *)

\* The counts of a table without rules.
LEMMA EmptyCounts ==
  Count(Present(EmptyTable)) = 0 /\ \A c : Count(OfCombo(EmptyTable, c)) = 0
<1>1. Present(EmptyTable) = {} /\ \A c : OfCombo(EmptyTable, c) = {}
  BY DEF Present, OfCombo, EmptyTable
<1> QED
  BY <1>1, FS_EmptySet DEF Count

\* A handler that returns leaves an empty shadow behind.
LEMMA ReturnCounts ==
  ASSUME Return
  PROVE  /\ \A c \in Combos : shadow'.combo[c] >= Count(OfCombo(shadow'.rules, c))
         /\ shadow'.count >= Count(Present(shadow'.rules))
BY EmptyCounts DEF Return, NoShadow

\* The memory update of one item keeps the counters in step with the table.
LEMMA CommitCounts ==
  ASSUME IInv, prepared # <<>>, CommitItem(Head(prepared)),
         Count(Present(rules)) = Count(Present(committed)) + delta
  PROVE  /\ \A c \in Combos : comboRefCount'[c] >= Count(OfCombo(rules', c))
         /\ Count(Present(rules')) = Count(Present(committed')) + delta'
<1> DEFINE it  == Head(prepared)
           old == rules[it.id]
           new == [key |-> it.key, val |-> it.val]
<1>1. it \in Item /\ rules \in [Ids -> Rule \cup {None}] /\ comboRefCount \in [Combos -> Int]
      /\ delta \in Int
  BY DEF IInv, TypeOK, LocalOK, MemoryOK
<1>2. it.id \in Ids /\ it.key \in Keys /\ it.val \in Vals
  BY <1>1 DEF Item
<1>3. new \in Rule /\ new # None
  <2>1. new \in Rule
    BY <1>2 DEF Rule
  <2> QED
    BY <2>1, ConstantsAssumption
<1>4. /\ rules' = [rules EXCEPT ![it.id] = new]
      /\ \A c \in Combos : comboRefCount'[c] = comboRefCount[c] + One(c = Combo[it.key]) - One(IsCombo(old, c))
      /\ delta' = delta + One(old = None)
      /\ committed' = committed
  BY DEF CommitItem, Recount, ghost
<1>5. rules'[it.id] = new /\ \A j \in Ids \ {it.id} : rules'[j] = rules[j]
  BY <1>1, <1>2, <1>4
<1>6. /\ Count(Present(rules')) = Count(Present(rules)) + One(rules'[it.id] # None) - One(old # None)
      /\ \A c : Count(OfCombo(rules', c)) = Count(OfCombo(rules, c))
                   + One(IsCombo(rules'[it.id], c)) - One(IsCombo(old, c))
  BY <1>2, <1>5, EntryChange
<1>7. \A c : IsCombo(rules'[it.id], c) <=> c = Combo[it.key]
  BY <1>3, <1>5 DEF IsCombo
<1>8. Count(Present(rules)) \in Nat /\ Count(Present(committed)) \in Nat
      /\ \A c : Count(OfCombo(rules, c)) \in Nat
  BY CountType
<1> HIDE DEF it, new, old
<1>9. Count(Present(rules')) = Count(Present(committed')) + delta'
  BY <1>1, <1>3, <1>4, <1>5, <1>6, <1>8 DEF One
<1>10. ASSUME NEW c \in Combos
       PROVE  comboRefCount'[c] >= Count(OfCombo(rules', c))
  <2>1. comboRefCount[c] >= Count(OfCombo(rules, c)) /\ comboRefCount[c] \in Int
    BY <1>1 DEF IInv, CountsCover
  <2>2. One(c = Combo[it.key]) = One(IsCombo(rules'[it.id], c))
    BY <1>7 DEF One
  <2>3. One(c = Combo[it.key]) \in {0, 1} /\ One(IsCombo(old, c)) \in {0, 1}
    BY DEF One
  <2> DEFINE x == One(c = Combo[it.key])
             y == One(IsCombo(old, c))
             n == Count(OfCombo(rules, c))
  <2>4. comboRefCount'[c] = comboRefCount[c] + x - y
    BY <1>4
  <2>5. Count(OfCombo(rules', c)) = n + x - y
    BY <1>6, <2>2
  <2>6. x \in {0, 1} /\ y \in {0, 1} /\ n \in Nat /\ comboRefCount[c] >= n
    BY <1>8, <2>1, <2>3
  <2> HIDE DEF x, y, n
  <2> QED
    BY <2>1, <2>4, <2>5, <2>6
<1> QED
  BY <1>9, <1>10

\* Undoing one item keeps the reference counts in step with the table.
LEMMA RollbackCounts ==
  ASSUME IInv, RollbackItem
  PROVE  \A c \in Combos : comboRefCount'[c] >= Count(OfCombo(rules', c))
<1> DEFINE d == Head(done)
<1>1. /\ kind = "add" /\ Pending = done /\ done \in Seq(Done) /\ done # <<>>
      /\ comboRefCount \in [Combos -> Int] /\ rules \in [Ids -> Rule \cup {None}]
  BY DEF RollbackItem, Pending, IInv, TypeOK, LocalOK, MemoryOK, Control
<1>2. d = done[1] /\ 1 \in DOMAIN done /\ d \in Done
  BY <1>1
<1>3. d.id \in Ids /\ rules[d.id] # None /\ rules[d.id].key = d.key
  BY <1>1, <1>2 DEF IInv, AddUndoable, Done
<1>4. /\ rules' = [rules EXCEPT ![d.id] = d.old]
      /\ \A c \in Combos : comboRefCount'[c] = comboRefCount[c] - One(c = Combo[d.key]) + One(IsCombo(d.old, c))
  BY DEF RollbackItem
<1>5. rules'[d.id] = d.old /\ \A j \in Ids \ {d.id} : rules'[j] = rules[j]
  BY <1>1, <1>3, <1>4
<1>6. \A c : Count(OfCombo(rules', c)) = Count(OfCombo(rules, c))
                   + One(IsCombo(rules'[d.id], c)) - One(IsCombo(rules[d.id], c))
  BY <1>3, <1>5, EntryChange
<1> HIDE DEF d
<1>7. ASSUME NEW c \in Combos
      PROVE  comboRefCount'[c] >= Count(OfCombo(rules', c))
  <2>1. comboRefCount[c] >= Count(OfCombo(rules, c)) /\ comboRefCount[c] \in Int
    BY <1>1 DEF IInv, CountsCover
  <2>2. One(c = Combo[d.key]) = One(IsCombo(rules[d.id], c))
    BY <1>3 DEF One, IsCombo
  <2>3. /\ One(c = Combo[d.key]) \in {0, 1} /\ One(IsCombo(d.old, c)) \in {0, 1}
        /\ Count(OfCombo(rules, c)) \in Nat
    BY CountType DEF One
  <2>4. One(IsCombo(rules'[d.id], c)) = One(IsCombo(d.old, c))
    BY <1>5
  <2> DEFINE x == One(c = Combo[d.key])
             y == One(IsCombo(d.old, c))
             n == Count(OfCombo(rules, c))
  <2>5. comboRefCount'[c] = comboRefCount[c] - x + y
    BY <1>4
  <2>6. Count(OfCombo(rules', c)) = n + y - x
    BY <1>6, <2>2, <2>4
  <2>7. x \in {0, 1} /\ y \in {0, 1} /\ n \in Nat /\ comboRefCount[c] >= n
    BY <2>1, <2>3
  <2> HIDE DEF x, y, n
  <2> QED
    BY <2>1, <2>5, <2>6, <2>7
<1> QED
  BY <1>7

\* Deleting one rule keeps the counters in step with the table.
LEMMA DeleteCounts ==
  ASSUME IInv, DeleteItem
  PROVE  /\ \A c \in Combos : comboRefCount'[c] >= Count(OfCombo(rules', c))
         /\ Count(Present(rules')) = Count(Present(committed')) + delta'
<1> DEFINE i == Head(ids)
<1>1. /\ i \in Ids /\ rules[i] # None /\ rules \in [Ids -> Rule \cup {None}]
      /\ comboRefCount \in [Combos -> Int] /\ delta \in Int
  BY DEF DeleteItem, Deletable, IInv, TypeOK, LocalOK, MemoryOK
<1>2. /\ rules' = [rules EXCEPT ![i] = None]
      /\ \A c \in Combos : comboRefCount'[c] = comboRefCount[c] - One(IsCombo(rules[i], c))
      /\ delta' = delta - 1 /\ committed' = committed
  BY DEF DeleteItem, ghost
<1>3. rules'[i] = None /\ \A j \in Ids \ {i} : rules'[j] = rules[j]
  BY <1>1, <1>2
<1>4. /\ Count(Present(rules')) = Count(Present(rules)) + One(rules'[i] # None) - One(rules[i] # None)
      /\ \A c : Count(OfCombo(rules', c)) = Count(OfCombo(rules, c))
                   + One(IsCombo(rules'[i], c)) - One(IsCombo(rules[i], c))
  BY <1>1, <1>3, EntryChange
<1>5. /\ Count(Present(rules)) = Count(Present(committed)) + delta
      /\ Count(Present(rules)) \in Nat /\ Count(Present(committed)) \in Nat
  BY CountType DEF DeleteItem, IInv, CountsCover
<1>6. Count(Present(rules')) = Count(Present(committed')) + delta'
  BY <1>1, <1>2, <1>3, <1>4, <1>5 DEF One
<1> HIDE DEF i
<1>7. ASSUME NEW c \in Combos
      PROVE  comboRefCount'[c] >= Count(OfCombo(rules', c))
  <2>1. comboRefCount[c] >= Count(OfCombo(rules, c)) /\ comboRefCount[c] \in Int
    BY <1>1 DEF IInv, CountsCover
  <2>2. One(IsCombo(rules'[i], c)) = 0 /\ One(IsCombo(rules[i], c)) \in {0, 1}
        /\ Count(OfCombo(rules, c)) \in Nat
    BY <1>3, CountType DEF One, IsCombo
  <2> DEFINE y == One(IsCombo(rules[i], c))
             n == Count(OfCombo(rules, c))
  <2>3. comboRefCount'[c] = comboRefCount[c] - y
    BY <1>2
  <2>4. Count(OfCombo(rules', c)) = n + 0 - y
    BY <1>4, <2>2
  <2>5. y \in {0, 1} /\ n \in Nat /\ comboRefCount[c] >= n
    BY <2>1, <2>2
  <2> HIDE DEF y, n
  <2> QED
    BY <2>1, <2>3, <2>4, <2>5
<1> QED
  BY <1>6, <1>7

\* Filling the shadow keeps its counters in step with its table.
LEMMA SyncItemCounts ==
  ASSUME IInv, SyncItem
  PROVE  /\ \A c \in Combos : shadow'.combo[c] >= Count(OfCombo(shadow'.rules, c))
         /\ shadow'.count >= Count(Present(shadow'.rules))
<1> DEFINE it  == Head(todo)
           new == [key |-> it.key, val |-> it.val]
<1>1. /\ it \in Item /\ shadow.rules \in [Ids -> Rule \cup {None}]
      /\ shadow.combo \in [Combos -> Nat] /\ shadow.count \in Nat
  BY DEF SyncItem, IInv, TypeOK, LocalOK
<1>2. /\ \A c \in Combos : shadow.combo[c] >= Count(OfCombo(shadow.rules, c))
      /\ shadow.count >= Count(Present(shadow.rules))
  BY DEF IInv, CountsCover
<1>3. CASE /\ shadow'.rules = shadow.rules /\ shadow'.combo = shadow.combo
           /\ shadow'.count = shadow.count
  BY <1>2, <1>3
<1>4. CASE /\ shadow'.rules = [shadow.rules EXCEPT ![it.id] = new]
           /\ shadow'.combo = [shadow.combo EXCEPT ![Combo[it.key]] = @ + 1]
           /\ shadow'.count = shadow.count + 1
  <2>1. it.id \in Ids
    BY <1>1 DEF Item
  <2>2. shadow'.rules[it.id] = new /\ \A j \in Ids \ {it.id} : shadow'.rules[j] = shadow.rules[j]
    BY <1>1, <1>4, <2>1
  <2>3. /\ Count(Present(shadow'.rules)) = Count(Present(shadow.rules))
             + One(shadow'.rules[it.id] # None) - One(shadow.rules[it.id] # None)
        /\ \A c : Count(OfCombo(shadow'.rules, c)) = Count(OfCombo(shadow.rules, c))
             + One(IsCombo(shadow'.rules[it.id], c)) - One(IsCombo(shadow.rules[it.id], c))
    BY <2>1, <2>2, EntryChange
  <2>4. Count(Present(shadow.rules)) \in Nat
    BY CountType
  <2>5. shadow'.count >= Count(Present(shadow'.rules))
    BY <1>1, <1>2, <1>4, <2>3, <2>4 DEF One
  <2>6. ASSUME NEW c \in Combos
        PROVE  shadow'.combo[c] >= Count(OfCombo(shadow'.rules, c))
    <3> DEFINE x == One(IsCombo(shadow'.rules[it.id], c))
               y == One(IsCombo(shadow.rules[it.id], c))
               n == Count(OfCombo(shadow.rules, c))
    <3>1. x \in {0, 1} /\ y \in {0, 1}
      BY DEF One
    <3>2. n \in Nat /\ shadow.combo[c] >= n /\ shadow.combo[c] \in Nat
      BY <1>1, <1>2, CountType
    <3>3. Count(OfCombo(shadow'.rules, c)) = n + x - y
      BY <2>3
    <3>4. x = 1 => c = Combo[it.key]
      BY <2>2 DEF One, IsCombo
    <3>5. c = Combo[it.key] => shadow'.combo[c] = shadow.combo[c] + 1
      BY <1>1, <1>4
    <3>6. c # Combo[it.key] => shadow'.combo[c] = shadow.combo[c]
      BY <1>1, <1>4
    <3> HIDE DEF x, y, n
    <3> QED
      BY <3>1, <3>2, <3>3, <3>4, <3>5, <3>6
  <2> QED
    BY <2>5, <2>6
<1>5. \/ /\ shadow'.rules = shadow.rules /\ shadow'.combo = shadow.combo
         /\ shadow'.count = shadow.count
      \/ /\ shadow'.rules = [shadow.rules EXCEPT ![it.id] = new]
         /\ shadow'.combo = [shadow.combo EXCEPT ![Combo[it.key]] = @ + 1]
         /\ shadow'.count = shadow.count + 1
  BY DEF SyncItem, IInv, TypeOK, LocalOK
<1> QED
  BY <1>3, <1>4, <1>5

\* Every step keeps the counters in step with the tables.
LEMMA CountsStep ==
  ASSUME IInv, [Next]_vars
  PROVE  CountsCover'
<1> USE DEF IInv, CountsCover, Control, memory, local, ghost
<1>1. CASE \E b \in AddBatches : BeginAdd(b)
  <2>1. Count(Present(rules)) = Count(Present(committed)) + 0
    BY <1>1, CountType DEF BeginAdd, Untouched
  <2> QED
    BY <1>1, <2>1 DEF BeginAdd
<1>2. CASE PrepareItem
  BY <1>2 DEF PrepareItem
<1>3. CASE LockAdd
  BY <1>3 DEF LockAdd
<1>4. CASE RefuseItem
  BY <1>4 DEF RefuseItem, SkipItem
<1>5. CASE InsertItem
  <2>1. CASE Moves(Head(prepared))
    BY <1>5, <2>1 DEF InsertItem
  <2>2. CASE ~Moves(Head(prepared))
    BY <1>5, <2>2, CommitCounts DEF InsertItem, CommitItem
  <2> QED
    BY <2>1, <2>2
<1>6. CASE DeleteOld
  BY <1>6, CommitCounts DEF DeleteOld, CommitItem
<1>7. CASE DeleteOldFails
  BY <1>7 DEF DeleteOldFails
<1>8. CASE AbortItem
  BY <1>8 DEF AbortItem, SkipItem
<1>9. CASE FinishItems
  <2>1. CASE Return
    BY <1>9, <2>1, ReturnCounts DEF FinishItems, Return
  <2>2. CASE ~Return
    BY <1>9, <2>2 DEF FinishItems
  <2> QED
    BY <2>1, <2>2
<1>10. CASE RollbackItem
  BY <1>10, RollbackCounts DEF RollbackItem
<1>11. CASE Reinsert
  BY <1>11 DEF Reinsert
<1>12. CASE FinishRollback
  BY <1>12, ReturnCounts DEF FinishRollback, Return
<1>13. CASE \E b \in DelBatches : BeginDelete(b)
  <2>1. Count(Present(rules)) = Count(Present(committed)) + 0
    BY <1>13, CountType DEF BeginDelete, Untouched
  <2> QED
    BY <1>13, <2>1 DEF BeginDelete
<1>14. CASE DeleteFails
  BY <1>14 DEF DeleteFails
<1>15. CASE DeleteItem
  BY <1>15, DeleteCounts DEF DeleteItem
<1>16. CASE FinishDelete
  <2>1. CASE Return
    BY <1>16, <2>1, ReturnCounts DEF FinishDelete, Return
  <2>2. CASE ~Return
    BY <1>16, <2>2 DEF FinishDelete
  <2> QED
    BY <2>1, <2>2
<1>17. CASE \E b \in SyncBatches : BeginSync(b)
  BY <1>17 DEF BeginSync
<1>18. CASE SyncClear
  BY <1>18 DEF SyncClear
<1>19. CASE SyncItem
  BY <1>19, SyncItemCounts DEF SyncItem
<1>20. CASE SyncAbort
  BY <1>20, ReturnCounts DEF SyncAbort, Return
<1>21. CASE SyncConfig
  BY <1>21 DEF SyncConfig
<1>22. CASE SyncFlip
  BY <1>22 DEF SyncFlip
<1>23. CASE SyncPublishFails
  BY <1>23, ReturnCounts DEF SyncPublishFails, Return
<1>24. CASE SyncCleanup
  BY <1>24, ReturnCounts DEF SyncCleanup, Return
<1>25. CASE PubCopy
  BY <1>25 DEF PubCopy
<1>26. CASE PubWrite
  BY <1>26 DEF PubWrite
<1>27. CASE PubFlip
  BY <1>27, ReturnCounts DEF PubFlip, Return
<1>28. CASE PubFail
  <2>1. CASE Return
    BY <1>28, <2>1, ReturnCounts DEF PubFail, Return
  <2>2. CASE ~Return
    BY <1>28, <2>2 DEF PubFail
  <2> QED
    BY <2>1, <2>2
<1>29. CASE UNCHANGED vars
  BY <1>29 DEF vars
<1> QED
  BY <1>1, <1>2, <1>3, <1>4, <1>5, <1>6, <1>7, <1>8, <1>9, <1>10, <1>11, <1>12, <1>13,
     <1>14, <1>15, <1>16, <1>17, <1>18, <1>19, <1>20, <1>21, <1>22, <1>23, <1>24, <1>25, <1>26,
     <1>27, <1>28, <1>29 DEF Next, Add, Delete, Sync, Publish

-----------------------------------------------------------------------------
(* The configs *)

\* A config that covers a table covers what is left after deletions.
LEMMA CoversLess ==
  ASSUME NEW c \in Config, NEW t, NEW u, Covers(c, t), \A i \in Ids : u[i] \in {t[i], None}
  PROVE  Covers(c, u)
<1>1. Present(u) \subseteq Present(t) /\ \A i \in Present(u) : u[i] = t[i]
  BY DEF Present
<1>2. Count(Present(u)) <= Count(Present(t))
  BY <1>1, CountType, FS_Subset DEF Count
<1>3. Count(Present(u)) \in Nat /\ Count(Present(t)) \in Nat /\ c.blCount \in Nat
  BY CountType DEF Config
<1>4. c.blCount >= Count(Present(u))
  BY <1>2, <1>3 DEF Covers
<1> QED
  BY <1>1, <1>4 DEF Covers

\* A config rebuilt from reference counts that cover a table covers the table.
LEMMA RebuiltCovers ==
  ASSUME NEW t \in LegalTable, NEW f \in [Combos -> Int], NEW c \in Config,
         \A x \in Combos : f[x] >= Count(OfCombo(t, x)),
         c.bitmap = {x \in Combos : f[x] > 0},
         c.blCount >= Count(Present(t)), c.anomaly = Count(Anomalies(t))
  PROVE  Covers(c, t)
<1>1. ASSUME NEW i \in Present(t)
      PROVE  Combo[t[i].key] \in c.bitmap /\ (t[i].val = Anomaly => c.anomaly > 0)
  <2>1. Combo[t[i].key] \in Combos
    BY DEF Present, LegalTable, LegalRule
  <2>2. /\ Count(OfCombo(t, Combo[t[i].key])) > 0
        /\ t[i].val = Anomaly => Count(Anomalies(t)) > 0
    BY CountPositive
  <2>3. Count(OfCombo(t, Combo[t[i].key])) \in Nat
    BY CountType
  <2>4. f[Combo[t[i].key]] > 0
    BY <2>1, <2>2, <2>3
  <2> QED
    BY <2>1, <2>2, <2>4
<1> QED
  BY <1>1 DEF Covers

\* The two slots are distinct and hold configs.
LEMMA TwoSlots ==
  ASSUME IInv
  PROVE  /\ activeConfig \in Slots /\ Other(activeConfig) \in Slots
         /\ Other(activeConfig) # activeConfig /\ Other(Other(activeConfig)) = activeConfig
         /\ cfg[activeConfig] \in Config /\ cfg[Other(activeConfig)] \in Config
BY DEF IInv, TypeOK, MapsOK, Other, Slots

\* What publishConfigUpdate writes covers the rule table it publishes.
LEMMA WriteCovers ==
  ASSUME IInv, PubWrite
  PROVE  ConfigsCover'
<1> DEFINE s == Other(activeConfig)
           n == cfg[s].blCount + delta
           w == [bitmap  |-> {c \in Combos : comboRefCount[c] > 0},
                 blCount |-> IF n < 0 THEN 0 ELSE n,
                 ruleSel |-> cfg[s].ruleSel,
                 anomaly |-> Count(Anomalies(rules))]
<1>1. /\ s \in Slots /\ cfg[s] \in Config /\ s # activeConfig /\ delta \in Int
      /\ cfg[activeConfig] \in Config /\ cfg \in [Slots -> Config] /\ activeConfig \in Slots
  BY TwoSlots DEF IInv, TypeOK, LocalOK, MapsOK
<1>2. cfg' = [cfg EXCEPT ![s] = w]
  BY <1>1 DEF PubWrite
<1>3. cfg'[s] = w /\ cfg'[activeConfig] = cfg[activeConfig]
  BY <1>1, <1>2
<1>4. cfg[s].blCount \in Nat /\ cfg[s].ruleSel \in Slots /\ cfg[activeConfig].blCount \in Nat
  BY <1>1 DEF Config
<1>5. /\ cfg[s].blCount = cfg[activeConfig].blCount
      /\ cfg[activeConfig].blCount >= Count(Present(committed))
      /\ Count(Present(rules)) = Count(Present(committed)) + delta
      /\ Count(Present(rules)) \in Nat /\ Count(Present(committed)) \in Nat
  BY CountType DEF PubWrite, IInv, ConfigsCover, CountsCover, Covers
<1>6. w.blCount >= Count(Present(rules)) /\ w.blCount \in Nat
  BY <1>1, <1>4, <1>5
<1>7. w \in Config
  BY <1>4, <1>6, CountType DEF Config
<1>8. Covers(w, rules)
  <2>1. /\ rules \in LegalTable /\ comboRefCount \in [Combos -> Int]
        /\ \A c \in Combos : comboRefCount[c] >= Count(OfCombo(rules, c))
    BY DEF IInv, TypeOK, MemoryOK, OnlyLegal, CountsCover
  <2> HIDE DEF n
  <2>2. w.bitmap = {c \in Combos : comboRefCount[c] > 0} /\ w.anomaly = Count(Anomalies(rules))
    OBVIOUS
  <2> HIDE DEF w
  <2> QED
    BY <1>6, <1>7, <2>1, <2>2, RebuiltCovers
<1> HIDE DEF w, n
<1>9. /\ pc' = "flip" /\ UNCHANGED <<activeConfig, committed, rules>>
      /\ Covers(cfg[activeConfig], committed)
  BY DEF PubWrite, memory, ghost, IInv, ConfigsCover
<1> QED
  BY <1>3, <1>8, <1>9 DEF ConfigsCover

\* What DoAtomicSync writes covers the table it is about to install.
LEMMA SyncConfigCovers ==
  ASSUME IInv, SyncConfig
  PROVE  ConfigsCover'
<1> DEFINE s == Other(activeConfig)
           w == [bitmap  |-> {c \in Combos : shadow.combo[c] > 0},
                 blCount |-> shadow.count,
                 ruleSel |-> Other(activeRuleSlot),
                 anomaly |-> Count(Anomalies(shadow.rules))]
<1>1. /\ s \in Slots /\ s # activeConfig /\ activeConfig \in Slots
      /\ cfg \in [Slots -> Config] /\ Other(activeRuleSlot) \in Slots
  BY TwoSlots, HelperTypes DEF IInv, TypeOK, MapsOK, MemoryOK
<1>2. cfg'[s] = w /\ cfg'[activeConfig] = cfg[activeConfig]
  BY <1>1 DEF SyncConfig
<1>3. /\ shadow.combo \in [Combos -> Nat] /\ shadow.count \in Nat
      /\ shadow.rules \in LegalTable
      /\ \A c \in Combos : shadow.combo[c] >= Count(OfCombo(shadow.rules, c))
      /\ shadow.count >= Count(Present(shadow.rules))
  BY DEF IInv, TypeOK, LocalOK, OnlyLegal, CountsCover
<1>4. w \in Config
  BY <1>1, <1>3, CountType DEF Config
<1>5. shadow.combo \in [Combos -> Int]
  BY <1>3
<1>6. /\ w.bitmap = {c \in Combos : shadow.combo[c] > 0}
      /\ w.anomaly = Count(Anomalies(shadow.rules)) /\ w.blCount = shadow.count
  OBVIOUS
<1> HIDE DEF w
<1>7. Covers(w, shadow.rules)
  BY <1>3, <1>4, <1>5, <1>6, RebuiltCovers
<1>8. /\ pc' = "swap" /\ UNCHANGED <<activeConfig, committed, shadow>>
      /\ Covers(cfg[activeConfig], committed)
  BY DEF SyncConfig, local, ghost, IInv, ConfigsCover
<1> QED
  BY <1>2, <1>7, <1>8 DEF ConfigsCover

\* Every step keeps the configs ahead of the tables.
LEMMA ConfigsStep ==
  ASSUME IInv, [Next]_vars
  PROVE  ConfigsCover'
<1> USE DEF IInv, ConfigsCover, Control, memory, maps, local, ghost
<1>1. CASE \E b \in AddBatches : BeginAdd(b)
  BY <1>1 DEF BeginAdd
<1>2. CASE PrepareItem
  BY <1>2 DEF PrepareItem
<1>3. CASE LockAdd
  BY <1>3 DEF LockAdd
<1>4. CASE RefuseItem
  BY <1>4 DEF RefuseItem, SkipItem
<1>5. CASE InsertItem
  BY <1>5 DEF InsertItem, CommitItem
<1>6. CASE DeleteOld
  BY <1>6 DEF DeleteOld, CommitItem
<1>7. CASE DeleteOldFails
  BY <1>7 DEF DeleteOldFails
<1>8. CASE AbortItem
  BY <1>8 DEF AbortItem, SkipItem
<1>9. CASE FinishItems
  BY <1>9 DEF FinishItems, Return
<1>10. CASE RollbackItem
  BY <1>10 DEF RollbackItem
<1>11. CASE Reinsert
  BY <1>11 DEF Reinsert
<1>12. CASE FinishRollback
  BY <1>12 DEF FinishRollback, Return
<1>13. CASE \E b \in DelBatches : BeginDelete(b)
  BY <1>13 DEF BeginDelete
<1>14. CASE DeleteFails
  BY <1>14 DEF DeleteFails
<1>15. CASE DeleteItem
  BY <1>15 DEF DeleteItem, Deletable
<1>16. CASE FinishDelete
  BY <1>16 DEF FinishDelete, Return
<1>17. CASE \E b \in SyncBatches : BeginSync(b)
  BY <1>17 DEF BeginSync
<1>18. CASE SyncClear
  BY <1>18 DEF SyncClear
<1>19. CASE SyncItem
  BY <1>19 DEF SyncItem
<1>20. CASE SyncAbort
  BY <1>20 DEF SyncAbort, Return
<1>21. CASE SyncConfig
  BY <1>21, SyncConfigCovers
<1>22. CASE SyncFlip
  BY <1>22 DEF SyncFlip
<1>23. CASE SyncPublishFails
  BY <1>23 DEF SyncPublishFails, Return
<1>24. CASE SyncCleanup
  BY <1>24 DEF SyncCleanup, Return
<1>25. CASE PubCopy
  <2>1. /\ cfg'[Other(activeConfig)] = cfg[activeConfig]
        /\ cfg'[activeConfig] = cfg[activeConfig]
    BY <1>25, TwoSlots DEF PubCopy, TypeOK, MapsOK
  <2> QED
    BY <1>25, <2>1 DEF PubCopy
<1>26. CASE PubWrite
  BY <1>26, WriteCovers
<1>27. CASE PubFlip
  BY <1>27 DEF PubFlip, Return
<1>28. CASE PubFail
  <2>1. CASE committed' = committed
    BY <1>28, <2>1 DEF PubFail, Return
  <2>2. CASE kind = "del" /\ committed' = rules
    <3>1. Covers(cfg[activeConfig], rules)
      BY <2>2, TwoSlots, CoversLess DEF DeleteShrinks
    <3> QED
      BY <1>28, <2>2, <3>1 DEF PubFail, Return
  <2> QED
    BY <1>28, <2>1, <2>2 DEF PubFail
<1>29. CASE UNCHANGED vars
  BY <1>29 DEF vars
<1> QED
  BY <1>1, <1>2, <1>3, <1>4, <1>5, <1>6, <1>7, <1>8, <1>9, <1>10, <1>11, <1>12, <1>13,
     <1>14, <1>15, <1>16, <1>17, <1>18, <1>19, <1>20, <1>21, <1>22, <1>23, <1>24, <1>25, <1>26,
     <1>27, <1>28, <1>29 DEF Next, Add, Delete, Sync, Publish

-----------------------------------------------------------------------------
(* The theorems *)

\* The invariant holds initially.
LEMMA InitInv == Init => IInv
<1> SUFFICES ASSUME Init PROVE IInv
  OBVIOUS
<1>1. TypeOK
  BY HelperTypes DEF Init, TypeOK, MemoryOK, MapsOK, LocalOK, GhostOK, Config, Slots
<1>2. Control /\ AddUndoable /\ DeleteShrinks /\ Untouched
  BY DEF Init, Control, AddUndoable, DeleteShrinks, Untouched
<1>3. OnlyLegal
  BY DEF Init, OnlyLegal, EmptyTable, NoShadow, LegalTable, LegalRule
<1>4. CountsCover
  BY EmptyCounts DEF Init, CountsCover, NoShadow
<1>5. ConfigsCover
  <2>1. Present(EmptyTable) = {}
    BY DEF Present, EmptyTable
  <2> QED
    BY <2>1, EmptyCounts DEF Init, ConfigsCover, Covers, Slots
<1> QED
  BY <1>1, <1>2, <1>3, <1>4, <1>5 DEF IInv

\* Every step of every handler keeps IInv.
LEMMA NextInv ==
  ASSUME IInv, [Next]_vars
  PROVE  IInv'
<1>1. TypeOK'
  BY TypeStep DEF IInv
<1> QED
  BY <1>1, ControlStep, LegalStep, AddStep, DeleteStep, UntouchedStep, CountsStep,
     ConfigsStep DEF IInv

\* A config that covers the rules in force lets the lookup reach each of them.
LEMMA CoveredReached ==
  ASSUME IInv
  PROVE  NeverHidden
<1>1. Covers(cfg[activeConfig], committed) /\ cfg[activeConfig].blCount \in Nat
  BY TwoSlots DEF IInv, ConfigsCover, Config
<1>2. ASSUME NEW i \in Present(committed) PROVE Reachable(committed[i])
  <2>1. Count(Present(committed)) > 0 /\ Count(Present(committed)) \in Nat
    BY CountPositive, CountType
  <2>2. cfg[activeConfig].blCount > 0
    BY <1>1, <2>1 DEF Covers
  <2> QED
    BY <1>1, <2>2 DEF Covers, Reachable
<1> QED
  BY <1>1, <1>2 DEF Covers, NeverHidden

\* Every step of every handler keeps IInv: whatever batch is running and
\* whatever map operations have failed.
THEOREM Invariance == Spec => []IInv
<1>1. Init => IInv
  BY InitInv
<1>2. IInv /\ [Next]_vars => IInv'
  BY NextInv
<1> QED
  BY <1>1, <1>2, PTL DEF Spec

\* Every variable keeps the type the Go and BPF structures give it.
THEOREM TypeCorrect == Spec => []TypeOK
<1>1. IInv => TypeOK
  BY DEF IInv
<1> QED
  BY <1>1, Invariance, PTL

\* No step of any handler, whatever map operations fail, publishes a config
\* that hides a rule in force: publishConfigUpdate and DoAtomicSync count and
\* mark at least the rules they publish.
THEOREM RulesNeverHidden == Spec => []NeverHidden
<1>1. IInv => NeverHidden
  BY CoveredReached
<1> QED
  BY <1>1, Invariance, PTL

\* An add whose publish fails, for any batch and any further failures, leaves
\* the agent's rule table exactly as it was.
THEOREM FailedAddUndone == Spec => []RollbackRestores
<1>1. IInv => RollbackRestores
  BY DEF IInv, Control, Untouched, RollbackRestores
<1> QED
  BY <1>1, Invariance, PTL

-----------------------------------------------------------------------------
(* When the maps are exact.  The above holds whatever fails; here is what   *)
(* holds as long as nothing has failed, for requests of any length, and     *)
(* what holds all the time for adds of one rule that meet one failed map    *)
(* operation: index and maps are the exact image of the rule table, every   *)
(* rule in force that a request leaves alone is enforced, and the store     *)
(* implements RuleStore.                                                    *)

\* Adds of one rule (AddRule, AddRuleFromSync), of which one map call may fail;
\* deleting the entries of a map for a full sync does not.
Narrow ==
  /\ \A b \in AddBatches : Len(b) = 1
  /\ MaxOpFaults <= 1 /\ "clear" \notin Faulty

\* A full sync names no id twice: the controller sends the rows of a table.
DistinctSyncs == \A b \in SyncBatches : Distinct(b)

Clean == DistinctSyncs /\ (faults = 0 \/ Narrow)

-----------------------------------------------------------------------------
(* The inductive invariant *)

ItemsOf(s) == {s[n] : n \in DOMAIN s}

\* The configs name the rule map that belongs to them.
Selectors ==
  /\ cfg[activeConfig].ruleSel = activeRuleSlot
  /\ pc \in {"write", "flip"} => cfg[Other(activeConfig)].ruleSel = activeRuleSlot
  /\ pc = "swap" => cfg[Other(activeConfig)].ruleSel = Other(activeRuleSlot)

\* The running add is one of the requests: it looks at its items only, and the
\* table differs from the one in force only as they ask.
AddAsked(b) ==
  /\ targets = IdsOf(b)
  /\ ItemsOf(todo) \cup ItemsOf(prepared) \subseteq ItemsOf(b)
  /\ IdsOf(done) \subseteq targets
  /\ \A i \in Ids : rules[i] \in {committed[i]} \cup Store!Asked(b, i)

DelAsked(b) ==
  /\ targets = ItemsOf(b) /\ ItemsOf(ids) \subseteq targets
  /\ \A i \in Ids : rules[i] = committed[i] \/ (i \in targets /\ rules[i] = None)

\* The items of a full sync are in the new table, still to come, or one failed.
SyncAsked(b) ==
  /\ ItemsOf(todo) \subseteq ItemsOf(b)
  /\ \A i \in Ids : shadow.rules[i] \in {None} \cup Store!Asked(b, i)
  /\ shadow.failed \/ \A it \in ItemsOf(b) : it \in ItemsOf(todo) \/ shadow.rules[it.id] # None

AsAsked ==
  /\ kind = "add" => \E b \in AddBatches : AddAsked(b)
  /\ kind = "del" => \E b \in DelBatches : DelAsked(b)
  /\ pc = "clear" => todo \in SyncBatches
  /\ pc \in {"idle", "clear"} => shadow = NoShadow
  /\ pc \in {"fill", "swap"} => \E b \in SyncBatches : SyncAsked(b)
  /\ pc = "swap" => todo = <<>> /\ ~shadow.failed

\* Only failures lead to an undo, and leave no room for another one.
Failures ==
  /\ opFaults <= faults
  /\ pc \in {"rollback", "reinsert"} => opFaults >= 1

\* Index x is the inverse of table t, and map m holds the values of t.
Indexes(x, t) == \A k \in Keys, i \in Ids : x[k] = i <=> (t[i] # None /\ t[i].key = k)

Mirrors(m, x, t) ==
  /\ Indexes(x, t)
  /\ \A k \in Keys : /\ x[k] = None => m[k] = None
                     /\ x[k] # None => m[k] = t[x[k]].val

\* The active map and the index mirror the table; in the middle of a move the map
\* has the new entry beside the old one, in the middle of its undo neither.
ActiveMirrors ==
  /\ pc \notin {"delold", "abort", "reinsert"} => Mirrors(bl[activeRuleSlot], ruleKeyIndex, rules)
  /\ pc \in {"delold", "abort"} =>
       LET it == Head(prepared) IN
       /\ ruleKeyIndex[it.key] = None /\ bl[activeRuleSlot][it.key] = it.val
       /\ Mirrors([bl[activeRuleSlot] EXCEPT ![it.key] = None], ruleKeyIndex, rules)
  /\ pc = "reinsert" =>
       LET d == Head(done) IN
       /\ bl[activeRuleSlot][d.old.key] = None /\ rules[d.id] = d.old
       /\ Mirrors([bl[activeRuleSlot] EXCEPT ![d.old.key] = d.old.val], ruleKeyIndex, rules)

\* A full sync builds such a mirror of its own.
ShadowMirrors ==
  pc \in {"fill", "swap"} =>
    /\ Mirrors(bl[Other(activeRuleSlot)], shadow.index, shadow.rules)
    /\ Distinct(todo)
    /\ \A it \in ItemsOf(todo) : shadow.rules[it.id] = None

\* No two rules in force have one key; an item is taken for a new rule or a move,
\* never for the key its rule already has; only a failure aborts an item.
Undoable ==
  /\ Store!UniqueKeys(committed)
  /\ \A n \in DOMAIN done : done[n].old # None => done[n].old.key # done[n].key
  /\ pc = "abort" => opFaults >= 1

Exact == ActiveMirrors /\ ShadowMirrors /\ Undoable

EInv == IInv /\ Selectors /\ AsAsked /\ Failures /\ (Clean => Exact)

-----------------------------------------------------------------------------
(* Configs *)

\* Only a publish and a full sync touch configs and selectors.
LEMMA SelectorsStep ==
  ASSUME IInv, Selectors, [Next]_vars
  PROVE  Selectors'
<1>0. /\ activeConfig \in Slots /\ Other(activeConfig) \in Slots
      /\ Other(activeConfig) # activeConfig /\ Other(Other(activeConfig)) = activeConfig
      /\ DOMAIN cfg = Slots
      /\ pc = "swap" \/ pc \notin {"copy", "write", "flip"} \/ kind \in {"add", "del"}
  BY TwoSlots DEF IInv, TypeOK, MapsOK, Control
<1>1. CASE UNCHANGED <<cfg, activeConfig, activeRuleSlot>> /\ pc' \notin {"write", "flip", "swap"}
  BY <1>1 DEF Selectors
<1>2. CASE Add
  <2>1. UNCHANGED <<cfg, activeConfig, activeRuleSlot>> /\ pc' \notin {"write", "flip", "swap"}
    <3> USE DEF maps, memory
    <3>1. CASE (\E b \in AddBatches : BeginAdd(b)) \/ PrepareItem \/ LockAdd \/ RefuseItem
      BY <3>1, <1>0 DEF BeginAdd, PrepareItem, LockAdd, RefuseItem, SkipItem, local
    <3>2. CASE InsertItem \/ DeleteOld \/ DeleteOldFails \/ AbortItem
      BY <3>2 DEF InsertItem, DeleteOld, DeleteOldFails, AbortItem, SkipItem, CommitItem
    <3>3. CASE FinishItems \/ RollbackItem \/ Reinsert \/ FinishRollback
      BY <3>3 DEF FinishItems, RollbackItem, Reinsert, FinishRollback, Return
    <3> QED
      BY <1>2, <3>1, <3>2, <3>3 DEF Add
  <2> QED
    BY <1>1, <2>1
<1>3. CASE Delete
  <2>1. UNCHANGED <<cfg, activeConfig, activeRuleSlot>> /\ pc' \notin {"write", "flip", "swap"}
    BY <1>3 DEF Delete, BeginDelete, DeleteFails, DeleteItem, FinishDelete, Return, maps, memory
  <2> QED
    BY <1>1, <2>1
<1>4. CASE Sync
  <2>1. CASE SyncConfig
    BY <1>0, <2>1 DEF SyncConfig, Selectors, memory
  <2>2. CASE SyncFlip
    BY <1>0, <2>2 DEF SyncFlip, Selectors
  <2>3. CASE \/ \E b \in SyncBatches : BeginSync(b)
             \/ SyncClear \/ SyncItem \/ SyncAbort \/ SyncPublishFails \/ SyncCleanup
    <3>1. UNCHANGED <<cfg, activeConfig, activeRuleSlot>> /\ pc' \notin {"write", "flip", "swap"}
      BY <2>3 DEF BeginSync, SyncClear, SyncItem, SyncAbort, SyncPublishFails, SyncCleanup,
                  Return, maps, memory
    <3> QED
      BY <1>1, <3>1
  <2> QED
    BY <1>4, <2>1, <2>2, <2>3 DEF Sync
<1>5. CASE Publish
  <2>1. CASE PubCopy
    BY <1>0, <2>1 DEF PubCopy, Selectors, memory
  <2>2. CASE PubWrite
    BY <1>0, <2>2 DEF PubWrite, Selectors, memory
  <2>3. CASE PubFlip
    BY <1>0, <2>3 DEF PubFlip, Selectors, memory, Return
  <2>4. CASE PubFail
    BY <1>1, <2>4 DEF PubFail, Return, maps, memory
  <2> QED
    BY <1>5, <2>1, <2>2, <2>3, <2>4 DEF Publish
<1>6. CASE UNCHANGED vars
  BY <1>6 DEF vars, maps, memory, Selectors
<1> QED
  BY <1>2, <1>3, <1>4, <1>5, <1>6 DEF Next

-----------------------------------------------------------------------------
(* Failures *)

LEMMA FailuresStep ==
  ASSUME IInv, Failures, [Next]_vars
  PROVE  Failures'
<1>0. faults \in Nat /\ opFaults \in Nat
  BY DEF IInv, TypeOK, GhostOK
<1>1. ASSUME NEW op, NoFault \/ Fault(op), pc' \notin {"rollback", "reinsert"} \/ Fault(op)
      PROVE  Failures'
  BY <1>0, <1>1 DEF Failures, NoFault, Fault, fvars
<1>2. CASE Add
  <2>1. CASE \/ PrepareItem \/ LockAdd \/ RefuseItem \/ InsertItem \/ DeleteOld \/ DeleteOldFails
             \/ AbortItem \/ FinishItems \/ FinishRollback
    <3>1. /\ NoFault \/ Fault("insert") \/ Fault("delete")
          /\ pc' \notin {"rollback", "reinsert"}
      BY <2>1 DEF PrepareItem, LockAdd, RefuseItem, InsertItem, DeleteOld, DeleteOldFails,
                  AbortItem, FinishItems, FinishRollback, SkipItem, CommitItem, Return, NoFault
    <3> QED
      BY <1>1, <3>1
  <2>2. CASE RollbackItem \/ Reinsert
    <3>1. /\ NoFault \/ Fault("insert") \/ Fault("delete")
          /\ opFaults >= 1 /\ opFaults <= faults
      BY <2>2 DEF RollbackItem, Reinsert, Failures
    <3> QED
      BY <1>0, <3>1 DEF Failures, NoFault, Fault, fvars
  <2>3. CASE \E b \in AddBatches : BeginAdd(b)
    BY <1>0, <2>3 DEF BeginAdd, Failures
  <2> QED
    BY <1>2, <2>1, <2>2, <2>3 DEF Add
<1>3. CASE Delete
  <2>1. CASE \E b \in DelBatches : BeginDelete(b)
    BY <1>0, <2>1 DEF BeginDelete, Failures
  <2>2. CASE DeleteFails \/ DeleteItem \/ FinishDelete
    <3>1. (NoFault \/ Fault("delete")) /\ pc' \notin {"rollback", "reinsert"}
      BY <2>2 DEF DeleteFails, DeleteItem, FinishDelete, Return, NoFault
    <3> QED
      BY <1>1, <3>1
  <2> QED
    BY <1>3, <2>1, <2>2 DEF Delete
<1>4. CASE Sync
  <2>1. CASE \E b \in SyncBatches : BeginSync(b)
    BY <1>0, <2>1 DEF BeginSync, Failures
  <2>2. CASE \/ SyncClear \/ SyncItem \/ SyncAbort \/ SyncConfig \/ SyncFlip
             \/ SyncPublishFails \/ SyncCleanup
    <3>1. /\ NoFault \/ Fault("clear") \/ Fault("insert") \/ Fault("publish")
          /\ pc' \notin {"rollback", "reinsert"}
      BY <2>2 DEF SyncClear, SyncItem, SyncAbort, SyncConfig, SyncFlip, SyncPublishFails,
                  SyncCleanup, ClearMap, Return, NoFault
    <3> QED
      BY <1>1, <3>1
  <2> QED
    BY <1>4, <2>1, <2>2 DEF Sync
<1>5. CASE Publish
  <2>1. CASE PubFail
    BY <1>1, <2>1 DEF PubFail
  <2>2. CASE PubCopy \/ PubWrite \/ PubFlip
    <3>1. NoFault /\ pc' \notin {"rollback", "reinsert"}
      BY <2>2 DEF PubCopy, PubWrite, PubFlip, Return
    <3> QED
      BY <1>1, <3>1
  <2> QED
    BY <1>5, <2>1, <2>2 DEF Publish
<1>6. CASE UNCHANGED vars
  BY <1>6 DEF vars, fvars, Failures
<1> QED
  BY <1>2, <1>3, <1>4, <1>5, <1>6 DEF Next

\* Where nothing may fail any more, or nothing has.
LEMMA CleanBefore ==
  ASSUME IInv, [Next]_vars, Clean'
  PROVE  Clean /\ \A op : Fault(op) => Narrow
<1>0. faults \in Nat
  BY DEF IInv, TypeOK, GhostOK
<1>1. Narrow' <=> Narrow
  BY DEF Narrow
<1>2. DistinctSyncs' <=> DistinctSyncs
  BY DEF DistinctSyncs, Distinct
<1>3. DistinctSyncs /\ (faults' = 0 \/ Narrow)
  BY <1>1, <1>2 DEF Clean
<1>4. faults' = faults \/ faults' = faults + 1
  BY DEF Next, Add, Delete, Sync, Publish, BeginAdd, PrepareItem, LockAdd, RefuseItem, InsertItem,
         DeleteOld, DeleteOldFails, AbortItem, FinishItems, RollbackItem, Reinsert, FinishRollback,
         BeginDelete, DeleteFails, DeleteItem, FinishDelete, BeginSync, SyncClear, SyncItem,
         SyncAbort, SyncConfig, SyncFlip, SyncPublishFails, SyncCleanup, ClearMap, PubCopy,
         PubWrite, PubFlip, PubFail, Fault, NoFault, fvars, vars
<1>5. \A op : Fault(op) => faults' = faults + 1
  BY DEF Fault
<1> QED
  BY <1>0, <1>3, <1>4, <1>5 DEF Clean

-----------------------------------------------------------------------------
(* The table changes as asked *)

\* A sequence is its head and its tail.
LEMMA TailItems ==
  ASSUME NEW S, NEW s \in Seq(S), s # <<>>
  PROVE  /\ ItemsOf(s) = {Head(s)} \cup ItemsOf(Tail(s))
         /\ Head(s) \in S /\ Tail(s) \in Seq(S)
<1>1. /\ DOMAIN s = 1 .. Len(s) /\ Len(s) \in Nat /\ Len(s) > 0
      /\ DOMAIN Tail(s) = 1 .. Len(s) - 1
      /\ \A n \in 1 .. Len(s) - 1 : Tail(s)[n] = s[n + 1]
      /\ Head(s) = s[1] /\ Head(s) \in S /\ Tail(s) \in Seq(S)
  OBVIOUS
<1>2. ASSUME NEW n \in DOMAIN s PROVE s[n] \in {Head(s)} \cup ItemsOf(Tail(s))
  <2>1. CASE n = 1
    BY <1>1, <2>1
  <2>2. CASE n # 1
    <3>1. n - 1 \in DOMAIN Tail(s) /\ Tail(s)[n - 1] = s[n]
      BY <1>1, <2>2
    <3> QED
      BY <3>1 DEF ItemsOf
  <2> QED
    BY <2>1, <2>2
<1>3. ASSUME NEW n \in DOMAIN Tail(s) PROVE Tail(s)[n] \in ItemsOf(s)
  BY <1>1, <1>3 DEF ItemsOf
<1>4. Head(s) \in ItemsOf(s)
  BY <1>1 DEF ItemsOf
<1> QED
  BY <1>1, <1>2, <1>3, <1>4 DEF ItemsOf

\* The elements of an extended sequence.
LEMMA AppendItems ==
  ASSUME NEW S, NEW s \in Seq(S), NEW e
  PROVE  ItemsOf(Append(s, e)) = ItemsOf(s) \cup {e}
<1>1. /\ DOMAIN s = 1 .. Len(s) /\ Len(s) \in Nat
      /\ DOMAIN Append(s, e) = 1 .. Len(s) + 1
      /\ \A n \in 1 .. Len(s) : Append(s, e)[n] = s[n]
      /\ Append(s, e)[Len(s) + 1] = e
  OBVIOUS
<1> HIDE DEF ItemsOf
<1>2. \A n \in DOMAIN Append(s, e) : n \in DOMAIN s \/ n = Len(s) + 1
  BY <1>1
<1> QED
  BY <1>1, <1>2 DEF ItemsOf

LEMMA IdsItems ==
  ASSUME NEW s
  PROVE  IdsOf(s) = {it.id : it \in ItemsOf(s)} /\ ItemsOf(<<>>) = {}
BY DEF IdsOf, ItemsOf

LEMMA ElementIds ==
  ASSUME NEW s \in Seq(Item)
  PROVE  \A e \in ItemsOf(s) : e \in Item /\ e.id \in Ids
<1>1. \A n \in DOMAIN s : s[n] \in Item
  OBVIOUS
<1> QED
  BY <1>1 DEF ItemsOf, Item

\* Rules an add asks for come from its items.
LEMMA AskedItems ==
  ASSUME NEW b, NEW it \in ItemsOf(b)
  PROVE  [key |-> it.key, val |-> it.val] \in Store!Asked(b, it.id)
BY DEF ItemsOf, Store!Asked, Store!RuleOf

LEMMA CommitAsked ==
  ASSUME IInv, NEW b, AddAsked(b), prepared # <<>>, CommitItem(Head(prepared))
  PROVE  AddAsked(b)'
<1> DEFINE it == Head(prepared)
           e  == [id |-> it.id, key |-> it.key, old |-> rules[it.id]]
<1>1. /\ prepared \in Seq(Item) /\ done \in Seq(Done)
      /\ rules \in [Ids -> Rule \cup {None}]
  BY DEF IInv, TypeOK, LocalOK, MemoryOK
<1>2. /\ it \in ItemsOf(b) /\ ItemsOf(Tail(prepared)) \subseteq ItemsOf(b)
      /\ it \in Item
  BY <1>1, TailItems DEF AddAsked
<1>3. /\ rules' = [rules EXCEPT ![it.id] = [key |-> it.key, val |-> it.val]]
      /\ done' = Append(done, e) /\ prepared' = Tail(prepared)
      /\ UNCHANGED <<committed, targets, todo>>
  BY DEF CommitItem, ghost
<1> HIDE DEF it
<1>4. IdsOf(done') = IdsOf(done) \cup {it.id}
  <2>1. ItemsOf(done') = ItemsOf(done) \cup {e}
    BY <1>1, <1>3, AppendItems
  <2>2. e.id = it.id
    OBVIOUS
  <2> HIDE DEF e
  <2> QED
    BY <2>1, <2>2, IdsItems
<1>5. it.id \in IdsOf(b)
  BY <1>2, IdsItems
<1>6. \A i \in Ids : rules'[i] \in {committed[i]} \cup Store!Asked(b, i)
  BY <1>1, <1>2, <1>3, AskedItems DEF AddAsked
<1> QED
  BY <1>2, <1>3, <1>4, <1>5, <1>6 DEF AddAsked

LEMMA AddAskedStep ==
  ASSUME IInv, AsAsked, Add, kind' = "add"
  PROVE  \E b \in AddBatches : AddAsked(b)'
<1>1. CASE \E b \in AddBatches : BeginAdd(b)
  <2>1. PICK b \in AddBatches : BeginAdd(b)
    BY <1>1
  <2>2. rules = committed
    BY <2>1 DEF BeginAdd, IInv, Control, Untouched
  <2>3. AddAsked(b)'
    BY <2>1, <2>2, IdsItems DEF BeginAdd, AddAsked, IInv, Control, IdsOf, memory
  <2> QED
    BY <2>3
<1>2. CASE ~\E b \in AddBatches : BeginAdd(b)
  <2>1. kind = "add"
    BY <1>2 DEF Add, PrepareItem, LockAdd, RefuseItem, InsertItem, DeleteOld, DeleteOldFails,
                AbortItem, FinishItems, RollbackItem, Reinsert, FinishRollback, IInv, Control
  <2>2. PICK b \in AddBatches : AddAsked(b)
    BY <2>1 DEF AsAsked
  <2>3. /\ todo \in Seq(Item) /\ prepared \in Seq(Item) /\ done \in Seq(Done)
        /\ rules \in [Ids -> Rule \cup {None}]
    BY DEF IInv, TypeOK, LocalOK, MemoryOK
  <2>4. CASE PrepareItem
    <3>1. /\ todo # <<>> /\ todo' = Tail(todo)
          /\ prepared' = KeepLast(prepared, Head(todo)) \/ prepared' = prepared
          /\ UNCHANGED <<rules, committed, targets, done>>
      BY <2>4 DEF PrepareItem, memory, ghost
    <3>2. Head(todo) \in ItemsOf(b) /\ ItemsOf(Tail(todo)) \subseteq ItemsOf(b) /\ Head(todo) \in Item
      BY <2>2, <2>3, <3>1, TailItems DEF AddAsked
    <3>3. Distinct(prepared)
      BY <2>1 DEF IInv, AddUndoable
    <3>4. ItemsOf(prepared') \subseteq ItemsOf(b)
      <4>1. \A n \in DOMAIN prepared : prepared[n] \in ItemsOf(b)
        BY <2>2 DEF AddAsked, ItemsOf
      <4>2. ASSUME NEW n \in DOMAIN prepared' PROVE prepared'[n] \in ItemsOf(b)
        <5> DEFINE kl == KeepLast(prepared, Head(todo))
        <5>1. \A m \in DOMAIN kl : kl[m] = Head(todo) \/ \E l \in DOMAIN prepared : kl[m] = prepared[l]
          BY <2>3, <3>2, <3>3, KeepLastType
        <5> HIDE DEF kl
        <5>2. prepared' = kl \/ prepared' = prepared
          BY <3>1 DEF kl
        <5> QED
          BY <3>2, <4>1, <4>2, <5>1, <5>2
      <4> QED
        BY <4>2 DEF ItemsOf
    <3> QED
      BY <2>2, <3>1, <3>2, <3>4 DEF AddAsked
  <2>5. CASE RefuseItem \/ AbortItem
    <3>1. prepared # <<>> /\ prepared' = Tail(prepared) /\ UNCHANGED <<rules, committed, targets, todo, done>>
      BY <2>5 DEF RefuseItem, AbortItem, SkipItem, memory, ghost, IInv, Control
    <3> QED
      BY <2>2, <2>3, <3>1, TailItems DEF AddAsked
  <2>6. CASE InsertItem \/ DeleteOld
    <3>1. CASE UNCHANGED <<memory, local, ghost>>
      BY <2>2, <3>1 DEF AddAsked, memory, local, ghost
    <3>2. CASE prepared # <<>> /\ CommitItem(Head(prepared))
      BY <2>2, <3>2, CommitAsked
    <3> QED
      BY <2>6, <3>1, <3>2 DEF InsertItem, DeleteOld, IInv, Control
  <2>7. CASE RollbackItem
    <3> DEFINE d == Head(done)
    <3>1. /\ done # <<>> /\ rules' = [rules EXCEPT ![d.id] = d.old]
          /\ done' = done \/ done' = Tail(done)
          /\ UNCHANGED <<committed, targets, todo, prepared>>
      BY <2>7 DEF RollbackItem, ghost
    <3>2. d \in ItemsOf(done) /\ ItemsOf(Tail(done)) \subseteq ItemsOf(done)
      BY <2>3, <3>1, TailItems
    <3>3. d.old = committed[d.id]
      BY <2>1, <2>7, <3>2 DEF RollbackItem, IInv, AddUndoable, Pending, ItemsOf
    <3>4. IdsOf(done') \subseteq targets
      <4>1. ItemsOf(done') \subseteq ItemsOf(done)
        BY <3>1, <3>2
      <4> QED
        BY <2>2, <4>1, IdsItems DEF AddAsked
    <3>5. \A i \in Ids : rules'[i] \in {committed[i]} \cup Store!Asked(b, i)
      BY <2>2, <2>3, <3>1, <3>3 DEF AddAsked
    <3> QED
      BY <2>2, <3>1, <3>4, <3>5 DEF AddAsked
  <2>8. CASE Reinsert
    <3>1. done # <<>> /\ done' = Tail(done) /\ UNCHANGED <<rules, committed, targets, todo, prepared>>
      BY <2>8 DEF Reinsert, memory, ghost, IInv, Control
    <3>2. IdsOf(done') \subseteq targets
      BY <2>2, <2>3, <3>1, TailItems, IdsItems DEF AddAsked
    <3> QED
      BY <2>2, <3>1, <3>2 DEF AddAsked
  <2>9. CASE LockAdd \/ DeleteOldFails \/ FinishItems \/ FinishRollback
    <3>1. UNCHANGED <<rules, committed, targets, todo, prepared, done>>
      BY <2>9 DEF LockAdd, DeleteOldFails, FinishItems, FinishRollback, Return, memory, local, ghost
    <3> QED
      BY <2>2, <3>1 DEF AddAsked
  <2> QED
    BY <1>2, <2>4, <2>5, <2>6, <2>7, <2>8, <2>9 DEF Add
<1> QED
  BY <1>1, <1>2

LEMMA DelAskedStep ==
  ASSUME IInv, AsAsked, Delete, kind' = "del"
  PROVE  \E b \in DelBatches : DelAsked(b)'
<1>1. CASE \E b \in DelBatches : BeginDelete(b)
  <2>1. PICK b \in DelBatches : BeginDelete(b)
    BY <1>1
  <2>2. rules = committed
    BY <2>1 DEF BeginDelete, IInv, Control, Untouched
  <2>3. DelAsked(b)'
    BY <2>1, <2>2 DEF BeginDelete, DelAsked, ItemsOf, memory
  <2> QED
    BY <2>3
<1>2. CASE ~\E b \in DelBatches : BeginDelete(b)
  <2>1. kind = "del"
    BY <1>2 DEF Delete, DeleteFails, DeleteItem, FinishDelete, IInv, Control
  <2>2. PICK b \in DelBatches : DelAsked(b)
    BY <2>1 DEF AsAsked
  <2>3. ids \in Seq(Ids) /\ rules \in [Ids -> Rule \cup {None}]
    BY DEF IInv, TypeOK, LocalOK, MemoryOK
  <2>4. CASE DeleteFails
    <3>1. ids # <<>> /\ ids' = Tail(ids) /\ UNCHANGED <<rules, committed, targets>>
      BY <2>4 DEF DeleteFails, memory, ghost
    <3> QED
      BY <2>2, <2>3, <3>1, TailItems DEF DelAsked
  <2>5. CASE DeleteItem
    <3>1. /\ ids # <<>> /\ ids' = Tail(ids) /\ UNCHANGED <<committed, targets>>
          /\ rules' = [rules EXCEPT ![Head(ids)] = None]
      BY <2>5 DEF DeleteItem, ghost
    <3>2. Head(ids) \in targets /\ ItemsOf(Tail(ids)) \subseteq targets
      BY <2>2, <2>3, <3>1, TailItems DEF DelAsked
    <3> QED
      BY <2>2, <2>3, <3>1, <3>2 DEF DelAsked
  <2>6. CASE FinishDelete
    <3>1. UNCHANGED <<rules, committed, targets, ids>>
      BY <2>6 DEF FinishDelete, Return, memory, local
    <3> QED
      BY <2>2, <3>1 DEF DelAsked
  <2> QED
    BY <1>2, <2>4, <2>5, <2>6 DEF Delete
<1> QED
  BY <1>1, <1>2

\* A full sync fills the table it builds as asked.
LEMMA SyncAskedStep ==
  ASSUME IInv, AsAsked, NEW b \in SyncBatches, SyncAsked(b), SyncItem
  PROVE  SyncAsked(b)'
<1> DEFINE it  == Head(todo)
           new == [key |-> it.key, val |-> it.val]
<1>1. /\ todo \in Seq(Item) /\ todo # <<>> /\ todo' = Tail(todo)
      /\ shadow.rules \in [Ids -> Rule \cup {None}]
  BY DEF SyncItem, IInv, TypeOK, LocalOK
<1>2. /\ it \in ItemsOf(b) /\ it \in Item /\ ItemsOf(todo) = {it} \cup ItemsOf(Tail(todo))
      /\ ItemsOf(Tail(todo)) \subseteq ItemsOf(b)
  BY <1>1, TailItems DEF SyncAsked
<1>3. CASE shadow' = [shadow EXCEPT !.failed = TRUE]
  <2>1. shadow'.rules = shadow.rules /\ shadow'.failed
    BY <1>3 DEF IInv, TypeOK, LocalOK
  <2> QED
    BY <1>1, <1>2, <2>1 DEF SyncAsked
<1>4. CASE shadow' = [shadow EXCEPT !.rules[it.id] = new, !.index[it.key] = it.id,
                                    !.combo[Combo[it.key]] = @ + 1, !.count = @ + 1]
  <2>1. shadow'.rules = [shadow.rules EXCEPT ![it.id] = new] /\ shadow'.failed = shadow.failed
    BY <1>4 DEF IInv, TypeOK, LocalOK
  <2>2. new \in Store!Asked(b, it.id) /\ new # None /\ it.id \in Ids
    BY <1>2, AskedItems, ConstantsAssumption DEF Item, Rule
  <2> HIDE DEF it, new
  <2>3. \A i \in Ids : shadow'.rules[i] \in {None} \cup Store!Asked(b, i)
    BY <1>1, <2>1, <2>2 DEF SyncAsked
  <2>4. shadow'.rules[it.id] # None /\ \A i : shadow.rules[i] # None => shadow'.rules[i] # None
    BY <1>1, <2>1, <2>2
  <2> QED
    BY <1>1, <1>2, <2>1, <2>3, <2>4 DEF SyncAsked
<1> QED
  BY <1>3, <1>4 DEF SyncItem

LEMMA AskedStep ==
  ASSUME IInv, AsAsked, [Next]_vars
  PROVE  AsAsked'
<1>0. /\ kind \in {"none", "add", "del", "sync"}
      /\ pc \in {"clear", "fill", "swap", "cleanup"} => kind = "sync"
      /\ pc = "idle" => kind = "none"
      /\ pc \in {"copy", "write", "flip"} => kind \in {"add", "del"}
  BY DEF IInv, Control, TypeOK, LocalOK
<1>1. CASE Return
  BY <1>1 DEF Return, AsAsked
<1>2. CASE UNCHANGED vars
  BY <1>2 DEF vars, memory, local, ghost, AsAsked, AddAsked, DelAsked, SyncAsked
<1>3. CASE Add
  <2>1. (kind' = "add" /\ pc' \notin {"idle", "clear", "fill", "swap"}) \/ Return
    BY <1>0, <1>3 DEF Add, BeginAdd, PrepareItem, LockAdd, RefuseItem, InsertItem, DeleteOld,
       DeleteOldFails, AbortItem, FinishItems, RollbackItem, Reinsert, FinishRollback, SkipItem,
       CommitItem, local, IInv, Control
  <2> QED
    BY <1>1, <1>3, <2>1, AddAskedStep DEF AsAsked
<1>4. CASE Delete
  <2>1. (kind' = "del" /\ pc' \notin {"idle", "clear", "fill", "swap"}) \/ Return
    BY <1>0, <1>4 DEF Delete, BeginDelete, DeleteFails, DeleteItem, FinishDelete, local, IInv, Control
  <2> QED
    BY <1>1, <1>4, <2>1, DelAskedStep DEF AsAsked
<1>5. CASE Publish
  <2>1. CASE UNCHANGED <<memory, local, ghost>> /\ pc' \notin {"idle", "clear", "fill", "swap"}
    BY <2>1 DEF memory, local, ghost, AsAsked, AddAsked, DelAsked
  <2>2. (UNCHANGED <<memory, local, ghost>> /\ pc' \notin {"idle", "clear", "fill", "swap"}) \/ Return
    BY <1>5 DEF Publish, PubCopy, PubWrite, PubFlip, PubFail
  <2> QED
    BY <1>1, <2>1, <2>2
<1>6. CASE Sync
  <2>1. kind' = "sync" \/ Return
    BY <1>0, <1>6 DEF Sync, BeginSync, SyncClear, SyncItem, SyncAbort, SyncConfig, SyncFlip,
       SyncPublishFails, SyncCleanup, local
  <2>2. ASSUME kind' = "sync", pc' = "clear" => todo' \in SyncBatches,
               pc' \in {"idle", "clear"} => shadow' = NoShadow,
               pc' \in {"fill", "swap"} => \E b \in SyncBatches : SyncAsked(b)',
               pc' = "swap" => todo' = <<>> /\ ~shadow'.failed
        PROVE  AsAsked'
    BY <2>2 DEF AsAsked
  <2>3. CASE \E b \in SyncBatches : BeginSync(b)
    <3>1. pc' = "clear" /\ kind' = "sync" /\ todo' \in SyncBatches /\ shadow' = shadow /\ pc = "idle"
      BY <2>3 DEF BeginSync
    <3>2. shadow = NoShadow
      BY <3>1 DEF AsAsked
    <3> QED
      BY <2>2, <3>1, <3>2
  <2>4. CASE SyncClear
    <3>1. pc' = "fill" /\ kind' = "sync" /\ UNCHANGED <<todo, shadow>>
      BY <1>0, <2>4 DEF SyncClear, local
    <3>2. todo \in SyncBatches /\ shadow = NoShadow
      BY <2>4 DEF SyncClear, AsAsked
    <3>3. SyncAsked(todo)'
      BY <3>1, <3>2 DEF SyncAsked, NoShadow, EmptyTable
    <3> QED
      BY <2>2, <3>1, <3>2, <3>3
  <2>5. CASE SyncItem
    <3>1. pc = "fill" /\ pc' = "fill" /\ kind' = "sync"
      BY <1>0, <2>5 DEF SyncItem
    <3>2. PICK b \in SyncBatches : SyncAsked(b)
      BY <3>1 DEF AsAsked
    <3> QED
      BY <2>2, <2>5, <3>1, <3>2, SyncAskedStep
  <2>6. CASE SyncConfig
    <3>1. /\ pc = "fill" /\ pc' = "swap" /\ kind' = "sync" /\ todo = <<>> /\ ~shadow.failed
          /\ UNCHANGED <<todo, shadow>>
      BY <1>0, <2>6 DEF SyncConfig, local
    <3>2. PICK b \in SyncBatches : SyncAsked(b)
      BY <3>1 DEF AsAsked
    <3>3. SyncAsked(b)'
      BY <3>1, <3>2 DEF SyncAsked
    <3> QED
      BY <2>2, <3>1, <3>3
  <2>7. CASE SyncFlip
    BY <1>0, <2>7 DEF SyncFlip, local, AsAsked
  <2>8. CASE SyncAbort \/ SyncPublishFails \/ SyncCleanup
    BY <1>1, <2>8 DEF SyncAbort, SyncPublishFails, SyncCleanup
  <2> QED
    BY <1>6, <2>3, <2>4, <2>5, <2>6, <2>7, <2>8 DEF Sync
<1> QED
  BY <1>2, <1>3, <1>4, <1>5, <1>6 DEF Next

-----------------------------------------------------------------------------
(* Mirrors *)

\* The index and the table have the types of the store's.
Typed(x, t) == x \in [Keys -> Ids \cup {None}] /\ t \in [Ids -> Rule \cup {None}]

\* What a mirror says of a rule and of a free key.
LEMMA MirrorFacts ==
  ASSUME NEW m, NEW x, NEW t, Typed(x, t), Mirrors(m, x, t)
  PROVE  /\ \A i \in Ids : t[i] # None => /\ t[i] \in Rule /\ x[t[i].key] = i
                                          /\ m[t[i].key] = t[i].val /\ m[t[i].key] # None
         /\ \A k \in Keys : m[k] = None <=> x[k] = None
         /\ Store!UniqueKeys(t)
<1>1. None \notin Vals /\ None \notin Ids
  BY ConstantsAssumption
<1>2. ASSUME NEW i \in Ids, t[i] # None
      PROVE  t[i] \in Rule /\ x[t[i].key] = i /\ m[t[i].key] = t[i].val /\ m[t[i].key] # None
  BY <1>1, <1>2 DEF Typed, Mirrors, Indexes, Rule
<1>3. ASSUME NEW k \in Keys, x[k] # None PROVE m[k] # None
  BY <1>1, <1>3 DEF Typed, Mirrors, Indexes, Rule
<1>4. Store!UniqueKeys(t)
  BY <1>2 DEF Store!UniqueKeys
<1> QED
  BY <1>2, <1>3, <1>4 DEF Mirrors

\* A rule is added under an id that has none and a key nobody owns.
LEMMA MirrorAdd ==
  ASSUME NEW m, NEW x, NEW t, Typed(x, t), Mirrors(m, x, t),
         NEW i \in Ids, NEW r \in Rule, t[i] = None, x[r.key] = None,
         NEW m2, NEW x2, NEW t2,
         \A k \in Keys : m2[k] = IF k = r.key THEN r.val ELSE m[k],
         \A k \in Keys : x2[k] = IF k = r.key THEN i ELSE x[k],
         \A j \in Ids : t2[j] = IF j = i THEN r ELSE t[j]
  PROVE  Mirrors(m2, x2, t2)
<1>1. None \notin Ids /\ None \notin Rule /\ r.key \in Keys
  BY ConstantsAssumption DEF Rule
<1>2. Indexes(x2, t2)
  <2>1. ASSUME NEW k \in Keys, NEW j \in Ids
        PROVE  x2[k] = j <=> (t2[j] # None /\ t2[j].key = k)
    BY <1>1 DEF Mirrors, Indexes, Typed
  <2> QED
    BY <2>1 DEF Indexes
<1>3. ASSUME NEW k \in Keys
      PROVE  (x2[k] = None => m2[k] = None) /\ (x2[k] # None => m2[k] = t2[x2[k]].val)
  <2>1. CASE k = r.key
    BY <1>1, <2>1
  <2>2. CASE k # r.key
    <3>1. x2[k] = x[k] /\ m2[k] = m[k] /\ x[k] # i /\ x[k] \in Ids \cup {None}
      BY <2>2 DEF Mirrors, Indexes, Typed
    <3> QED
      BY <3>1 DEF Mirrors
  <2> QED
    BY <2>1, <2>2
<1> QED
  BY <1>2, <1>3 DEF Mirrors

\* A rule is removed.
LEMMA MirrorDrop ==
  ASSUME NEW m, NEW x, NEW t, Typed(x, t), Mirrors(m, x, t),
         NEW i \in Ids, t[i] # None, NEW m2, NEW x2, NEW t2,
         \A k \in Keys : m2[k] = IF k = t[i].key THEN None ELSE m[k],
         \A k \in Keys : x2[k] = IF k = t[i].key THEN None ELSE x[k],
         \A j \in Ids : t2[j] = IF j = i THEN None ELSE t[j]
  PROVE  Mirrors(m2, x2, t2)
<1>1. None \notin Ids /\ t[i].key \in Keys /\ x[t[i].key] = i
  BY MirrorFacts, ConstantsAssumption DEF Rule
<1>2. Indexes(x2, t2)
  <2>1. ASSUME NEW k \in Keys, NEW j \in Ids
        PROVE  x2[k] = j <=> (t2[j] # None /\ t2[j].key = k)
    BY <1>1 DEF Mirrors, Indexes, Typed
  <2> QED
    BY <2>1 DEF Indexes
<1>3. ASSUME NEW k \in Keys
      PROVE  (x2[k] = None => m2[k] = None) /\ (x2[k] # None => m2[k] = t2[x2[k]].val)
  <2>1. CASE k = t[i].key
    BY <2>1
  <2>2. CASE k # t[i].key
    <3>1. x2[k] = x[k] /\ m2[k] = m[k] /\ x[k] # i /\ x[k] \in Ids \cup {None}
      BY <2>2 DEF Mirrors, Indexes, Typed
    <3> QED
      BY <3>1 DEF Mirrors
  <2> QED
    BY <2>1, <2>2
<1> QED
  BY <1>2, <1>3 DEF Mirrors

LEMMA EmptyMirrors == Mirrors(EmptyIndex, EmptyIndex, EmptyTable)
BY ConstantsAssumption DEF Mirrors, Indexes, EmptyIndex, EmptyTable

\* The same map, index and table in another state.
LEMMA SameMirrors ==
  ASSUME NEW m, NEW x, NEW t, Mirrors(m, x, t), NEW m2, \A k \in Keys : m2[k] = m[k]
  PROVE  Mirrors(m2, x, t)
BY DEF Mirrors

LEMMA Types ==
  ASSUME IInv
  PROVE  /\ Typed(ruleKeyIndex, rules) /\ Typed(shadow.index, shadow.rules)
         /\ bl \in [Slots -> [Keys -> Vals \cup {None}]]
         /\ activeRuleSlot \in Slots /\ Other(activeRuleSlot) \in Slots
         /\ Other(activeRuleSlot) # activeRuleSlot
         /\ Other(Other(activeRuleSlot)) = activeRuleSlot
BY DEF IInv, TypeOK, MemoryOK, MapsOK, LocalOK, Typed, Other, Slots

-----------------------------------------------------------------------------
(* The shadow of a full sync *)

LEMMA ShadowItem ==
  ASSUME IInv, ShadowMirrors, SyncItem
  PROVE  ShadowMirrors'
<1> DEFINE s   == Other(activeRuleSlot)
           it  == Head(todo)
           new == [key |-> it.key, val |-> it.val]
<1>1. /\ pc = "fill" /\ pc' = "fill" /\ todo # <<>> /\ todo' = Tail(todo) /\ todo \in Seq(Item)
      /\ s' = s /\ s \in Slots
  BY Types DEF SyncItem, memory, IInv, TypeOK, LocalOK, Other
<1>2. /\ Mirrors(bl[s], shadow.index, shadow.rules) /\ Distinct(todo)
      /\ \A e \in ItemsOf(todo) : shadow.rules[e.id] = None
  BY <1>1 DEF ShadowMirrors
<1>3. /\ it \in ItemsOf(todo) /\ it \in Item /\ ItemsOf(Tail(todo)) \subseteq ItemsOf(todo)
      /\ Distinct(Tail(todo)) /\ it.id \notin IdsOf(Tail(todo))
  BY <1>1, <1>2, TailItems, TailIds
<1>4. CASE UNCHANGED bl /\ shadow' = [shadow EXCEPT !.failed = TRUE]
  <2>1. shadow'.rules = shadow.rules /\ shadow'.index = shadow.index
    BY <1>4 DEF IInv, TypeOK, LocalOK
  <2> QED
    BY <1>1, <1>2, <1>3, <1>4, <2>1 DEF ShadowMirrors
<1>5. CASE /\ bl[s][it.key] = None
           /\ bl' = [bl EXCEPT ![s][it.key] = it.val]
           /\ shadow' = [shadow EXCEPT !.rules[it.id] = new, !.index[it.key] = it.id,
                                       !.combo[Combo[it.key]] = @ + 1, !.count = @ + 1]
  <2>1. /\ shadow'.rules = [shadow.rules EXCEPT ![it.id] = new]
        /\ shadow'.index = [shadow.index EXCEPT ![it.key] = it.id]
    BY <1>5 DEF IInv, TypeOK, LocalOK
  <2>2. /\ it.id \in Ids /\ new \in Rule /\ new.key = it.key /\ new.val = it.val /\ it.key \in Keys
    BY <1>3 DEF Item, Rule
  <2> HIDE DEF it, new, s
  <2>3. shadow.rules[it.id] = None /\ shadow.index[new.key] = None
    BY <1>2, <1>3, <1>5, <2>2, MirrorFacts, Types
  <2>4. \A k \in Keys : bl'[s][k] = IF k = new.key THEN new.val ELSE bl[s][k]
    BY <1>1, <1>5, <2>2, Types
  <2>5. \A k \in Keys : shadow'.index[k] = IF k = new.key THEN it.id ELSE shadow.index[k]
    BY <2>1, <2>2, Types DEF Typed
  <2>6. \A j \in Ids : shadow'.rules[j] = IF j = it.id THEN new ELSE shadow.rules[j]
    BY <2>1, <2>2, Types DEF Typed
  <2>7. Mirrors(bl'[s], shadow'.index, shadow'.rules)
    BY <1>2, <2>2, <2>3, <2>4, <2>5, <2>6, MirrorAdd, Types
  <2>8. \A e \in ItemsOf(Tail(todo)) : shadow'.rules[e.id] = None
    <3>1. ASSUME NEW e \in ItemsOf(Tail(todo)) PROVE shadow'.rules[e.id] = None
      <4>1. e.id # it.id /\ shadow.rules[e.id] = None
        BY <1>2, <1>3, IdsItems
      <4>2. e.id \in Ids
        BY <1>1, TailItems, ElementIds
      <4> QED
        BY <2>6, <4>1, <4>2
    <3> QED
      BY <3>1
  <2>9. Other(activeRuleSlot') = s
    BY <1>1 DEF s
  <2> QED
    BY <1>1, <1>3, <2>7, <2>8, <2>9 DEF ShadowMirrors
<1> QED
  BY <1>4, <1>5 DEF SyncItem

LEMMA ShadowStep ==
  ASSUME EInv, [Next]_vars, Clean'
  PROVE  ShadowMirrors'
<1>0. IInv /\ Clean /\ ShadowMirrors /\ \A op : Fault(op) => Narrow
  BY CleanBefore DEF EInv, Exact
<1>1. CASE pc' \notin {"fill", "swap"}
  BY <1>1 DEF ShadowMirrors
<1>2. CASE SyncClear
  <2> DEFINE s == Other(activeRuleSlot)
  <2>1. s \in Slots /\ s' = s
    BY <1>0, <1>2, Types DEF SyncClear, memory, Other
  <2>2. bl' = [bl EXCEPT ![s] = EmptyIndex]
    <3>1. ~Fault("clear")
      BY <1>0 DEF Narrow, Fault
    <3> QED
      BY <1>2, <3>1 DEF SyncClear, ClearMap
  <2>3. /\ pc = "clear" /\ shadow = NoShadow /\ todo \in SyncBatches
        /\ UNCHANGED <<todo, shadow>>
    BY <1>2 DEF EInv, SyncClear, AsAsked, local
  <2>4. Mirrors(bl'[s], shadow'.index, shadow'.rules)
    BY <1>0, <2>1, <2>2, <2>3, EmptyMirrors, Types DEF NoShadow
  <2>5. Distinct(todo) /\ \A e \in ItemsOf(todo) : shadow.rules[e.id] = None
    <3>1. \A e \in ItemsOf(todo) : e.id \in Ids
      BY <1>0, ElementIds DEF IInv, TypeOK, LocalOK
    <3> QED
      BY <1>0, <2>3, <3>1 DEF Clean, DistinctSyncs, NoShadow, EmptyTable
  <2> QED
    BY <2>1, <2>3, <2>4, <2>5 DEF ShadowMirrors
<1>3. CASE SyncItem
  BY <1>0, <1>3, ShadowItem
<1>4. CASE SyncConfig \/ UNCHANGED vars
  <2>1. UNCHANGED <<bl, shadow, todo, activeRuleSlot>> /\ (pc = "fill" \/ pc' = pc)
    BY <1>4 DEF SyncConfig, memory, local, vars, maps
  <2> QED
    BY <1>0, <1>1, <2>1 DEF ShadowMirrors
<1>5. CASE Add \/ Delete \/ Publish
  <2>1. pc' \notin {"fill", "swap"}
    <3>1. CASE Add
      BY <1>0, <3>1 DEF Add, BeginAdd, PrepareItem, LockAdd, RefuseItem, InsertItem, DeleteOld,
         DeleteOldFails, AbortItem, FinishItems, RollbackItem, Reinsert, FinishRollback, SkipItem,
         CommitItem, Return
    <3>2. CASE Delete
      BY <3>2 DEF Delete, BeginDelete, DeleteFails, DeleteItem, FinishDelete, Return
    <3>3. CASE Publish
      BY <3>3 DEF Publish, PubCopy, PubWrite, PubFlip, PubFail, Return
    <3> QED
      BY <1>5, <3>1, <3>2, <3>3
  <2> QED
    BY <1>1, <2>1
<1>6. CASE \/ \E b \in SyncBatches : BeginSync(b)
           \/ SyncAbort \/ SyncFlip \/ SyncPublishFails \/ SyncCleanup
  BY <1>1, <1>6 DEF BeginSync, SyncAbort, SyncFlip, SyncPublishFails, SyncCleanup, Return
<1> QED
  BY <1>2, <1>3, <1>4, <1>5, <1>6 DEF Next, Sync

-----------------------------------------------------------------------------
(* The active map *)

Settled(p) == p \notin {"delold", "abort", "reinsert"}

\* Nothing the mirror is about changes.
LEMMA Frame ==
  ASSUME IInv, ActiveMirrors, Settled(pc), Settled(pc'),
         UNCHANGED <<activeRuleSlot, ruleKeyIndex, rules>>,
         bl'[activeRuleSlot] = bl[activeRuleSlot]
  PROVE  ActiveMirrors'
BY DEF ActiveMirrors, Settled

\* An item that is not refused is new or moves to a free key.
LEMMA TakenItem ==
  ASSUME IInv, ActiveMirrors, pc = "insert", prepared # <<>>, ~Refused(Head(prepared))
  PROVE  LET it == Head(prepared) IN
         /\ ruleKeyIndex[it.key] = None
         /\ ~Moves(it) => rules[it.id] = None
<1> DEFINE it == Head(prepared)
<1>0. it \in Item
  BY DEF IInv, TypeOK, LocalOK
<1>1. it.id \in Ids /\ it.key \in Keys
  BY <1>0 DEF Item
<1>2. Mirrors(bl[activeRuleSlot], ruleKeyIndex, rules) /\ Typed(ruleKeyIndex, rules)
  BY Types DEF ActiveMirrors
<1>3. bl[activeRuleSlot][it.key] = None
  BY DEF Refused
<1> HIDE DEF it
<1>4. ruleKeyIndex[it.key] = None
  BY <1>1, <1>2, <1>3, MirrorFacts
<1>5. ~Moves(it) => rules[it.id] = None
  BY <1>1, <1>2, <1>4, MirrorFacts, ConstantsAssumption DEF Moves
<1> QED
  BY <1>4, <1>5 DEF it

LEMMA InsertMirrors ==
  ASSUME IInv, ActiveMirrors, InsertItem
  PROVE  ActiveMirrors'
<1> DEFINE it == Head(prepared)
           a  == activeRuleSlot
           r  == [key |-> it.key, val |-> it.val]
<1>1. /\ pc = "insert" /\ prepared # <<>> /\ ~Refused(it)
      /\ bl' = [bl EXCEPT ![a][it.key] = it.val]
  BY DEF InsertItem
<1>2. /\ Mirrors(bl[a], ruleKeyIndex, rules) /\ Typed(ruleKeyIndex, rules) /\ a \in Slots
      /\ bl \in [Slots -> [Keys -> Vals \cup {None}]]
  BY <1>1, Types DEF ActiveMirrors
<1>3. it.id \in Ids /\ it.key \in Keys /\ r \in Rule /\ r.key = it.key /\ r.val = it.val
  <2>1. it \in Item
    BY <1>1 DEF IInv, TypeOK, LocalOK
  <2> QED
    BY <2>1 DEF Item, Rule
<1>4. ruleKeyIndex[it.key] = None /\ (~Moves(it) => rules[it.id] = None)
  BY <1>1, TakenItem
<1>5. \A k \in Keys : bl'[a][k] = IF k = it.key THEN it.val ELSE bl[a][k]
  BY <1>1, <1>2, <1>3
<1>6. CASE Moves(it)
  <2>1. pc' = "delold" /\ UNCHANGED <<memory, local, ghost>>
    BY <1>6 DEF InsertItem
  <2>2. UNCHANGED <<activeRuleSlot, ruleKeyIndex, rules, prepared>>
    BY <2>1 DEF memory, local
  <2> HIDE DEF it, a
  <2>3. Mirrors([bl'[a] EXCEPT ![it.key] = None], ruleKeyIndex, rules)
    <3>1. bl[a][it.key] = None /\ DOMAIN bl'[a] = Keys
      BY <1>1, <1>2, <1>3, <1>4 DEF Mirrors
    <3>2. \A k \in Keys : [bl'[a] EXCEPT ![it.key] = None][k] = bl[a][k]
      BY <1>3, <1>5, <3>1
    <3> QED
      BY <1>2, <3>2, SameMirrors
  <2>4. bl'[a][it.key] = it.val
    BY <1>3, <1>5
  <2> QED
    BY <1>4, <2>1, <2>2, <2>3, <2>4 DEF ActiveMirrors, it, a
<1>7. CASE ~Moves(it)
  <2>1. CommitItem(it)
    BY <1>7 DEF InsertItem
  <2>2. rules[it.id] = None
    BY <1>4, <1>7
  <2>3. /\ pc' = "insert" /\ activeRuleSlot' = a
        /\ ruleKeyIndex' = Reindex(it, None)
        /\ rules' = [rules EXCEPT ![it.id] = r]
    BY <2>1, <2>2 DEF CommitItem
  <2> HIDE DEF it, a, r
  <2>4. \A k \in Keys : ruleKeyIndex'[k] = IF k = it.key THEN it.id ELSE ruleKeyIndex[k]
    BY <2>3 DEF Reindex
  <2>5. \A j \in Ids : rules'[j] = IF j = it.id THEN r ELSE rules[j]
    BY <1>2, <1>3, <2>3 DEF Typed
  <2>6. Mirrors(bl'[a], ruleKeyIndex', rules')
    BY <1>2, <1>3, <1>4, <1>5, <2>2, <2>4, <2>5, MirrorAdd
  <2> QED
    BY <2>3, <2>6 DEF ActiveMirrors
<1> QED
  BY <1>6, <1>7

\* In the middle of a move: the old rule, and the map without the new entry.
LEMMA MidMove ==
  ASSUME IInv, ActiveMirrors, pc \in {"delold", "abort"}
  PROVE  LET it  == Head(prepared)
             old == rules[it.id]
             b   == bl[activeRuleSlot]
         IN  /\ it.id \in Ids /\ it.key \in Keys /\ it.val \in Vals
             /\ old \in Rule /\ old # None /\ old.key # it.key /\ old.key \in Keys
             /\ ruleKeyIndex[it.key] = None /\ b[it.key] = it.val
             /\ Mirrors([b EXCEPT ![it.key] = None], ruleKeyIndex, rules)
             /\ b[old.key] = old.val /\ b \in [Keys -> Vals \cup {None}]
<1> DEFINE it  == Head(prepared)
           old == rules[it.id]
           b   == bl[activeRuleSlot]
           m   == [b EXCEPT ![it.key] = None]
<1>1. prepared # <<>> /\ Moves(it)
  BY DEF IInv, Control
<1>2. it \in Item
  BY <1>1 DEF IInv, TypeOK, LocalOK
<1>3. it.id \in Ids /\ it.key \in Keys /\ it.val \in Vals
  BY <1>2 DEF Item
<1>4. /\ ruleKeyIndex[it.key] = None /\ b[it.key] = it.val
      /\ Mirrors(m, ruleKeyIndex, rules)
  BY DEF ActiveMirrors
<1>5. old # None /\ old.key # it.key
  BY <1>1 DEF Moves
<1>6. b \in [Keys -> Vals \cup {None}] /\ Typed(ruleKeyIndex, rules)
  BY Types
<1> HIDE DEF it, m
<1>7. old \in Rule /\ m[old.key] = old.val
  BY <1>3, <1>4, <1>5, <1>6, MirrorFacts
<1> HIDE DEF old, b
<1>8. old.key \in Keys /\ b[old.key] = old.val
  BY <1>5, <1>6, <1>7 DEF Rule, m
<1> QED
  BY <1>3, <1>4, <1>5, <1>6, <1>7, <1>8 DEF it, m, old, b

LEMMA MoveMirrors ==
  ASSUME IInv, ActiveMirrors, DeleteOld
  PROVE  ActiveMirrors'
<1> DEFINE it  == Head(prepared)
           i   == it.id
           old == rules[i]
           a   == activeRuleSlot
           b   == bl[a]
           m   == [b EXCEPT ![it.key] = None]
           r   == [key |-> it.key, val |-> it.val]
           m1  == [k \in Keys |-> IF k = old.key THEN None ELSE m[k]]
           x1  == [k \in Keys |-> IF k = old.key THEN None ELSE ruleKeyIndex[k]]
           t1  == [j \in Ids |-> IF j = i THEN None ELSE rules[j]]
<1>1. /\ pc = "delold" /\ CommitItem(it)
      /\ bl' = [bl EXCEPT ![a][old.key] = None]
  BY DEF DeleteOld
<1>2. /\ i \in Ids /\ it.key \in Keys /\ it.val \in Vals
      /\ old \in Rule /\ old # None /\ old.key # it.key /\ old.key \in Keys
      /\ ruleKeyIndex[it.key] = None /\ b[it.key] = it.val
      /\ Mirrors(m, ruleKeyIndex, rules) /\ b \in [Keys -> Vals \cup {None}]
  BY <1>1, MidMove
<1>3. /\ Typed(ruleKeyIndex, rules) /\ a \in Slots
      /\ bl \in [Slots -> [Keys -> Vals \cup {None}]]
  BY Types
<1>4. /\ pc' = "insert" /\ activeRuleSlot' = a
      /\ ruleKeyIndex' = Reindex(it, old)
      /\ rules' = [rules EXCEPT ![i] = r]
  BY <1>1 DEF CommitItem
<1>5. r \in Rule /\ r.key = it.key /\ r.val = it.val
  BY <1>2 DEF Rule
<1>6. \A k \in Keys : ruleKeyIndex'[k] = IF k = it.key THEN i ELSE x1[k]
  BY <1>2, <1>4 DEF Reindex
<1> HIDE DEF r
<1>7. \A j \in Ids : rules'[j] = IF j = i THEN r ELSE t1[j]
  BY <1>2, <1>3, <1>4 DEF Typed
<1>8. \A k \in Keys : bl'[a][k] = IF k = it.key THEN it.val ELSE m1[k]
  BY <1>1, <1>2, <1>3
<1>9. Typed(x1, t1) /\ t1[i] = None /\ x1[it.key] = None
  BY <1>2, <1>3 DEF Typed
<1>10. Mirrors(m1, x1, t1)
  <2>1. /\ \A k \in Keys : m1[k] = IF k = old.key THEN None ELSE m[k]
        /\ \A k \in Keys : x1[k] = IF k = old.key THEN None ELSE ruleKeyIndex[k]
        /\ \A j \in Ids : t1[j] = IF j = i THEN None ELSE rules[j]
    OBVIOUS
  <2> HIDE DEF m1, x1, t1, m, i
  <2> QED
    BY <1>2, <1>3, <2>1, MirrorDrop
<1> HIDE DEF m1, x1, t1, m, i, it, old, b, a
<1>11. Mirrors(bl'[a], ruleKeyIndex', rules')
  BY <1>2, <1>5, <1>6, <1>7, <1>8, <1>9, <1>10, MirrorAdd
<1> QED
  BY <1>4, <1>11 DEF ActiveMirrors

LEMMA DeleteMirrors ==
  ASSUME IInv, ActiveMirrors, DeleteItem
  PROVE  ActiveMirrors'
<1> DEFINE i == Head(ids)
           a == activeRuleSlot
<1>1. /\ pc = "delete" /\ pc' = pc /\ activeRuleSlot' = a
      /\ rules[i] # None
      /\ bl' = [bl EXCEPT ![a][rules[i].key] = None]
      /\ ruleKeyIndex' = [ruleKeyIndex EXCEPT ![rules[i].key] = None]
      /\ rules' = [rules EXCEPT ![i] = None]
  BY DEF DeleteItem, Deletable
<1>2. /\ Mirrors(bl[a], ruleKeyIndex, rules) /\ Typed(ruleKeyIndex, rules) /\ a \in Slots
      /\ bl \in [Slots -> [Keys -> Vals \cup {None}]]
  BY <1>1, Types DEF ActiveMirrors
<1>3. i \in Ids
  BY DEF DeleteItem, IInv, TypeOK, LocalOK
<1> HIDE DEF i, a
<1>4. rules[i] \in Rule /\ rules[i].key \in Keys
  BY <1>1, <1>2, <1>3 DEF Typed, Rule
<1>5. \A k \in Keys : bl'[a][k] = IF k = rules[i].key THEN None ELSE bl[a][k]
  BY <1>1, <1>2, <1>4
<1>6. \A k \in Keys : ruleKeyIndex'[k] = IF k = rules[i].key THEN None ELSE ruleKeyIndex[k]
  BY <1>1, <1>2, <1>4 DEF Typed
<1>7. \A j \in Ids : rules'[j] = IF j = i THEN None ELSE rules[j]
  BY <1>1, <1>2, <1>3 DEF Typed
<1>8. Mirrors(bl'[a], ruleKeyIndex', rules')
  <2> DEFINE m2 == bl'[a]
             x2 == ruleKeyIndex'
             t2 == rules'
             m  == bl[a]
  <2>1. /\ \A k \in Keys : m2[k] = IF k = rules[i].key THEN None ELSE m[k]
        /\ \A k \in Keys : x2[k] = IF k = rules[i].key THEN None ELSE ruleKeyIndex[k]
        /\ \A j \in Ids : t2[j] = IF j = i THEN None ELSE rules[j]
        /\ Mirrors(m, ruleKeyIndex, rules)
    BY <1>2, <1>5, <1>6, <1>7
  <2> HIDE DEF m2, x2, t2, m
  <2>2. Mirrors(m2, x2, t2)
    BY <1>1, <1>2, <1>3, <2>1, MirrorDrop
  <2> QED
    BY <2>2 DEF m2, x2, t2
<1> QED
  BY <1>1, <1>8 DEF ActiveMirrors

\* An undo runs alone in the request: the running add names one rule, and no map
\* call of the undo fails.
LEMMA UndoAlone ==
  ASSUME EInv, Clean, pc \in {"abort", "rollback", "reinsert"}
  PROVE  /\ \A op : ~Fault(op)
         /\ \A d \in ItemsOf(done) : targets = {d.id}
<1>1. opFaults >= 1 /\ opFaults <= faults /\ faults \in Nat /\ opFaults \in Nat
  BY DEF EInv, Failures, Exact, Undoable, IInv, TypeOK, GhostOK
<1>2. Narrow
  BY <1>1 DEF Clean
<1>3. \A op : ~Fault(op)
  BY <1>1, <1>2, ConstantsAssumption DEF Narrow, Fault
<1>4. kind = "add"
  BY DEF EInv, IInv, Control
<1>5. PICK b \in AddBatches : AddAsked(b)
  BY <1>4 DEF EInv, AsAsked
<1>6. Len(b) = 1 /\ b \in Seq(Item)
  BY <1>2, ConstantsAssumption DEF Narrow
<1>7. targets = {b[1].id}
  <2>1. DOMAIN b = {1}
    BY <1>6
  <2> QED
    BY <1>5, <2>1 DEF AddAsked, IdsOf
<1>8. \A d \in ItemsOf(done) : d.id \in targets
  BY <1>5, IdsItems DEF AddAsked
<1> QED
  BY <1>3, <1>7, <1>8

\* The item an undo is about, what it replaced, and that nobody else has the key
\* of what it replaced.
LEMMA UndoItem ==
  ASSUME EInv, Clean, pc = "rollback", done # <<>>
  PROVE  LET d == Head(done) IN
         /\ d.id \in Ids /\ d.key \in Keys /\ d.old \in Rule \cup {None}
         /\ rules[d.id] \in Rule /\ rules[d.id] # None /\ rules[d.id].key = d.key
         /\ d.old # None => /\ d.old.key # d.key /\ ruleKeyIndex[d.old.key] = None
                            /\ d.old.key \in Keys
<1> DEFINE d == Head(done)
<1>0. IInv /\ Exact /\ kind = "add" /\ Pending = done /\ done \in Seq(Done)
  BY DEF EInv, IInv, Control, Pending, TypeOK, LocalOK
<1>1. d \in Done /\ 1 \in DOMAIN done /\ d = done[1] /\ d \in ItemsOf(done)
  BY <1>0 DEF ItemsOf
<1>2. d.id \in Ids /\ d.key \in Keys /\ d.old \in Rule \cup {None}
  BY <1>1 DEF Done
<1>3. d.old = committed[d.id] /\ rules[d.id] # None /\ rules[d.id].key = d.key
  BY <1>0, <1>1 DEF IInv, AddUndoable
<1>4. /\ Mirrors(bl[activeRuleSlot], ruleKeyIndex, rules) /\ Typed(ruleKeyIndex, rules)
      /\ Store!UniqueKeys(committed)
      /\ d.old # None => d.old.key # d.key
  BY <1>0, <1>1, Types DEF Exact, ActiveMirrors, Undoable
<1>5. targets = {d.id}
  BY <1>1, UndoAlone
<1>6. \A j \in Ids \ {d.id} : rules[j] = committed[j]
  <2>1. PICK b \in AddBatches : AddAsked(b)
    BY <1>0 DEF EInv, AsAsked
  <2>2. \A j \in Ids \ {d.id} : Store!Asked(b, j) = {}
    BY <1>5, <2>1 DEF AddAsked, IdsOf, Store!Asked
  <2> QED
    BY <2>1, <2>2 DEF AddAsked
<1>7. ASSUME d.old # None PROVE ruleKeyIndex[d.old.key] = None
  <2> SUFFICES ASSUME ruleKeyIndex[d.old.key] # None PROVE FALSE
    OBVIOUS
  <2> DEFINE j == ruleKeyIndex[d.old.key]
  <2> HIDE DEF d
  <2>1. d.old.key \in Keys
    BY <1>2, <1>7 DEF Rule
  <2>2. j \in Ids
    BY <1>4, <2>1 DEF Typed
  <2>3. rules[j] # None /\ rules[j].key = d.old.key
    BY <1>4, <2>1, <2>2 DEF Mirrors, Indexes
  <2> HIDE DEF j
  <2>4. j # d.id
    BY <1>3, <1>4, <1>7, <2>3
  <2>5. committed[j] = rules[j]
    BY <1>6, <2>2, <2>4
  <2> QED
    BY <1>2, <1>3, <1>4, <1>7, <2>2, <2>3, <2>4, <2>5 DEF Store!UniqueKeys
<1> HIDE DEF d
<1>8. rules[d.id] \in Rule
  BY <1>2, <1>3, <1>4 DEF Typed
<1>9. d.old # None => d.old.key \in Keys
  BY <1>2 DEF Rule
<1> QED
  BY <1>2, <1>3, <1>4, <1>7, <1>8, <1>9 DEF d

LEMMA RollbackMirrors ==
  ASSUME EInv, Clean, RollbackItem
  PROVE  ActiveMirrors'
<1> DEFINE d  == Head(done)
           i  == d.id
           a  == activeRuleSlot
           m  == bl[a]
           m1 == bl'[a]
           x1 == [k \in Keys |-> IF k = d.key THEN None ELSE ruleKeyIndex[k]]
           t1 == [j \in Ids |-> IF j = i THEN None ELSE rules[j]]
<1>1. /\ pc = "rollback" /\ done # <<>> /\ activeRuleSlot' = a
      /\ rules' = [rules EXCEPT ![i] = d.old]
      /\ ruleKeyIndex' = [k \in Keys |-> IF d.old # None /\ k = d.old.key THEN i
                                         ELSE IF k = d.key THEN None ELSE ruleKeyIndex[k]]
      /\ IF d.old # None /\ d.old.key # d.key
         THEN pc' = "reinsert" /\ UNCHANGED done
         ELSE done' = Tail(done) /\ UNCHANGED pc
  BY DEF RollbackItem
<1>2. /\ i \in Ids /\ d.key \in Keys /\ d.old \in Rule \cup {None}
      /\ rules[i] \in Rule /\ rules[i] # None /\ rules[i].key = d.key
      /\ d.old # None => /\ d.old.key # d.key /\ ruleKeyIndex[d.old.key] = None
                         /\ d.old.key \in Keys
  BY <1>1, UndoItem
<1>3. /\ Mirrors(m, ruleKeyIndex, rules) /\ Typed(ruleKeyIndex, rules) /\ a \in Slots
      /\ bl \in [Slots -> [Keys -> Vals \cup {None}]]
  BY <1>1, Types DEF EInv, Exact, ActiveMirrors
<1>4. bl' = [bl EXCEPT ![a][d.key] = None]
  <2>1. ~Fault("delete")
    BY <1>1, UndoAlone
  <2> QED
    BY <2>1 DEF RollbackItem
<1> HIDE DEF d, i, a
<1>5. \A k \in Keys : m1[k] = IF k = rules[i].key THEN None ELSE m[k]
  BY <1>2, <1>3, <1>4
<1>6. Mirrors(m1, x1, t1) /\ Typed(x1, t1)
  <2>1. Typed(x1, t1)
    BY <1>2, <1>3 DEF Typed
  <2>2. /\ \A k \in Keys : x1[k] = IF k = rules[i].key THEN None ELSE ruleKeyIndex[k]
        /\ \A j \in Ids : t1[j] = IF j = i THEN None ELSE rules[j]
    BY <1>2
  <2> HIDE DEF m1, x1, t1, m
  <2>3. Mirrors(m1, x1, t1)
    BY <1>2, <1>3, <1>5, <2>2, MirrorDrop
  <2> QED
    BY <2>1, <2>3
<1>7. CASE d.old = None
  <2>1. pc' = "rollback" /\ ruleKeyIndex' = x1 /\ rules' = t1
    BY <1>1, <1>2, <1>3, <1>7 DEF Typed
  <2> QED
    BY <1>1, <1>6, <2>1 DEF ActiveMirrors
<1>8. CASE d.old # None
  <2> DEFINE m2 == [m1 EXCEPT ![d.old.key] = d.old.val]
             x2 == ruleKeyIndex'
             t2 == rules'
  <2>1. pc' = "reinsert" /\ done' = done /\ d.old \in Rule
    BY <1>1, <1>2, <1>8
  <2>2. x1[d.old.key] = None /\ t1[i] = None /\ m1[d.old.key] = None
    <3>1. x1[d.old.key] = None /\ t1[i] = None
      BY <1>2, <1>8
    <3> QED
      BY <1>2, <1>6, <1>8, <3>1 DEF Mirrors
  <2>3. DOMAIN m1 = Keys
    BY <1>2, <1>3, <1>4
  <2>4. /\ \A k \in Keys : m2[k] = IF k = d.old.key THEN d.old.val ELSE m1[k]
        /\ \A k \in Keys : x2[k] = IF k = d.old.key THEN i ELSE x1[k]
        /\ \A j \in Ids : t2[j] = IF j = i THEN d.old ELSE t1[j]
    BY <1>1, <1>2, <1>3, <1>8, <2>3 DEF Typed
  <2>5. Mirrors(m2, x2, t2)
    <3> HIDE DEF m1, m2, x1, x2, t1, t2
    <3> QED
      BY <1>2, <1>6, <2>1, <2>2, <2>4, MirrorAdd
  <2>6. rules'[i] = d.old
    BY <1>1, <1>2, <1>3 DEF Typed
  <2> QED
    BY <1>1, <2>1, <2>2, <2>5, <2>6 DEF ActiveMirrors, d, i
<1> QED
  BY <1>7, <1>8

LEMMA ReinsertMirrors ==
  ASSUME EInv, Clean, Reinsert
  PROVE  ActiveMirrors'
<1> DEFINE d == Head(done)
           a == activeRuleSlot
           m == [bl[a] EXCEPT ![d.old.key] = d.old.val]
<1>1. /\ pc = "reinsert" /\ pc' = "rollback" /\ UNCHANGED <<activeRuleSlot, ruleKeyIndex, rules>>
  BY DEF Reinsert, memory
<1>2. /\ bl[a][d.old.key] = None /\ Mirrors(m, ruleKeyIndex, rules)
  BY <1>1 DEF EInv, Exact, ActiveMirrors
<1>3. bl' = [bl EXCEPT ![a][d.old.key] = d.old.val]
  <2>1. ~Fault("insert")
    BY <1>1, UndoAlone
  <2> QED
    BY <1>2, <2>1 DEF Reinsert
<1>4. bl'[a] = m
  BY <1>3, Types DEF EInv
<1> HIDE DEF m, a
<1> QED
  BY <1>1, <1>2, <1>4 DEF ActiveMirrors, a

LEMMA AbortMirrors ==
  ASSUME EInv, Clean, AbortItem
  PROVE  ActiveMirrors'
<1> DEFINE it == Head(prepared)
           a  == activeRuleSlot
           m  == [bl[a] EXCEPT ![it.key] = None]
<1>1. /\ pc = "abort" /\ pc' = "insert" /\ UNCHANGED <<activeRuleSlot, ruleKeyIndex, rules>>
  BY DEF AbortItem, SkipItem, memory
<1>2. Mirrors(m, ruleKeyIndex, rules)
  BY <1>1 DEF EInv, Exact, ActiveMirrors
<1>3. bl' = [bl EXCEPT ![a][it.key] = None]
  <2>1. ~Fault("delete")
    BY <1>1, UndoAlone
  <2> QED
    BY <2>1 DEF AbortItem
<1>4. bl'[a] = m
  BY <1>3, Types DEF EInv
<1> HIDE DEF m, a
<1> QED
  BY <1>1, <1>2, <1>4 DEF ActiveMirrors, a

\* The old entry of a move is there, so only a failing call keeps it.
LEMMA OldEntryThere ==
  ASSUME IInv, ActiveMirrors, DeleteOldFails
  PROVE  Fault("delete")
<1>1. pc = "delold"
  BY DEF DeleteOldFails
<1>2. bl[activeRuleSlot][rules[Head(prepared).id].key] # None
  BY <1>1, MidMove, ConstantsAssumption DEF Rule
<1> QED
  BY <1>2 DEF DeleteOldFails

LEMMA ActiveStep ==
  ASSUME EInv, [Next]_vars, Clean'
  PROVE  ActiveMirrors'
<1>0. IInv /\ Clean /\ ActiveMirrors /\ ShadowMirrors
  BY CleanBefore DEF EInv, Exact
<1> USE DEF Settled
<1>1. CASE Add
  <2>1. CASE InsertItem
    BY <1>0, <2>1, InsertMirrors
  <2>2. CASE DeleteOld
    BY <1>0, <2>2, MoveMirrors
  <2>3. CASE DeleteOldFails
    BY <1>0, <2>3 DEF DeleteOldFails, ActiveMirrors, maps, memory, local
  <2>4. CASE AbortItem
    BY <1>0, <2>4, AbortMirrors
  <2>5. CASE RollbackItem
    BY <1>0, <2>5, RollbackMirrors
  <2>6. CASE Reinsert
    BY <1>0, <2>6, ReinsertMirrors
  <2>7. CASE \/ \E b \in AddBatches : BeginAdd(b)
             \/ PrepareItem \/ LockAdd \/ RefuseItem \/ FinishItems \/ FinishRollback
    <3>1. /\ Settled(pc) /\ Settled(pc')
          /\ UNCHANGED <<activeRuleSlot, ruleKeyIndex, rules, bl>>
      BY <2>7 DEF BeginAdd, PrepareItem, LockAdd, RefuseItem, SkipItem, FinishItems,
                  FinishRollback, Return, maps, memory
    <3> QED
      BY <1>0, <3>1, Frame
  <2> QED
    BY <1>1, <2>1, <2>2, <2>3, <2>4, <2>5, <2>6, <2>7 DEF Add
<1>2. CASE Delete
  <2>1. CASE DeleteItem
    BY <1>0, <2>1, DeleteMirrors
  <2>2. CASE (\E b \in DelBatches : BeginDelete(b)) \/ DeleteFails \/ FinishDelete
    <3>1. /\ Settled(pc) /\ Settled(pc')
          /\ UNCHANGED <<activeRuleSlot, ruleKeyIndex, rules, bl>>
      BY <2>2 DEF BeginDelete, DeleteFails, FinishDelete, Return, maps, memory
    <3> QED
      BY <1>0, <3>1, Frame
  <2> QED
    BY <1>2, <2>1, <2>2 DEF Delete
<1>3. CASE Sync
  <2> DEFINE a == activeRuleSlot
             o == Other(activeRuleSlot)
  <2>1. /\ a \in Slots /\ o \in Slots /\ o # a
        /\ bl \in [Slots -> [Keys -> Vals \cup {None}]]
    BY <1>0, Types
  <2>2. CASE SyncFlip
    BY <1>0, <2>2 DEF SyncFlip, ActiveMirrors, ShadowMirrors
  <2>3. CASE SyncClear \/ SyncItem \/ SyncCleanup
    <3>1. /\ Settled(pc) /\ Settled(pc') /\ UNCHANGED <<activeRuleSlot, ruleKeyIndex, rules>>
      BY <2>3 DEF SyncClear, SyncItem, SyncCleanup, Return, memory
    <3>2. bl'[a] = bl[a]
      <4> HIDE DEF a, o
      <4>1. CASE SyncItem
        BY <2>1, <4>1 DEF SyncItem, o
      <4>2. CASE SyncClear \/ SyncCleanup
        BY <2>1, <4>2 DEF SyncClear, SyncCleanup, ClearMap, o
      <4> QED
        BY <2>3, <4>1, <4>2
    <3> QED
      BY <1>0, <3>1, <3>2, Frame
  <2>4. CASE \/ \E b \in SyncBatches : BeginSync(b)
             \/ SyncAbort \/ SyncConfig \/ SyncPublishFails
    <3>1. /\ Settled(pc) /\ Settled(pc')
          /\ UNCHANGED <<activeRuleSlot, ruleKeyIndex, rules, bl>>
      BY <2>4 DEF BeginSync, SyncAbort, SyncConfig, SyncPublishFails, Return, maps, memory
    <3> QED
      BY <1>0, <3>1, Frame
  <2> QED
    BY <1>3, <2>2, <2>3, <2>4 DEF Sync
<1>4. CASE Publish
  <2>1. /\ Settled(pc) /\ Settled(pc')
        /\ UNCHANGED <<activeRuleSlot, ruleKeyIndex, rules, bl>>
    BY <1>4 DEF Publish, PubCopy, PubWrite, PubFlip, PubFail, Return, maps, memory
  <2> QED
    BY <1>0, <2>1, Frame
<1>5. CASE UNCHANGED vars
  BY <1>0, <1>5 DEF vars, maps, memory, local, ActiveMirrors
<1> QED
  BY <1>1, <1>2, <1>3, <1>4, <1>5 DEF Next

-----------------------------------------------------------------------------
(* Undoing, and the rules in force *)

\* The only steps that put rules in force.
LEMMA InForce ==
  ASSUME IInv, [Next]_vars
  PROVE  \/ UNCHANGED committed
         \/ committed' = rules /\ kind \in {"add", "del"} /\ pc \in {"copy", "write", "flip"}
         \/ committed' = shadow.rules /\ pc = "swap"
<1> USE DEF ghost
<1>1. CASE Add
  BY <1>1 DEF Add, BeginAdd, PrepareItem, LockAdd, RefuseItem, InsertItem, DeleteOld,
     DeleteOldFails, AbortItem, FinishItems, RollbackItem, Reinsert, FinishRollback, SkipItem,
     CommitItem
<1>2. CASE Delete
  BY <1>2 DEF Delete, BeginDelete, DeleteFails, DeleteItem, FinishDelete
<1>3. CASE Sync
  BY <1>3 DEF Sync, BeginSync, SyncClear, SyncItem, SyncAbort, SyncConfig, SyncFlip,
     SyncPublishFails, SyncCleanup
<1>4. CASE Publish
  <2>1. pc \in {"copy", "write", "flip"} => kind \in {"add", "del"}
    BY DEF IInv, Control
  <2> QED
    BY <1>4, <2>1 DEF Publish, PubCopy, PubWrite, PubFlip, PubFail
<1>5. CASE UNCHANGED vars
  BY <1>5 DEF vars
<1> QED
  BY <1>1, <1>2, <1>3, <1>4, <1>5 DEF Next

LEMMA UniqueStep ==
  ASSUME EInv, [Next]_vars, Clean'
  PROVE  Store!UniqueKeys(committed')
<1>0. IInv /\ Clean /\ ActiveMirrors /\ ShadowMirrors /\ Store!UniqueKeys(committed)
  BY CleanBefore DEF EInv, Exact, Undoable
<1>1. pc \in {"copy", "write", "flip"} => Store!UniqueKeys(rules)
  BY <1>0, MirrorFacts, Types DEF ActiveMirrors
<1>2. pc = "swap" => Store!UniqueKeys(shadow.rules)
  BY <1>0, MirrorFacts, Types DEF ShadowMirrors
<1> QED
  BY <1>0, <1>1, <1>2, InForce

\* Whether the succeeded items are new rules or moves.
Moved(s) == \A n \in DOMAIN s : s[n].old # None => s[n].old.key # s[n].key

LEMMA CommitMoved ==
  ASSUME IInv, Moved(done), NEW it, CommitItem(it),
         rules[it.id] # None => rules[it.id].key # it.key
  PROVE  Moved(done')
<1> DEFINE e == [id |-> it.id, key |-> it.key, old |-> rules[it.id]]
<1>1. done' = Append(done, e) /\ done \in Seq(Done)
  BY DEF CommitItem, IInv, TypeOK, LocalOK
<1>2. e.old # None => e.old.key # e.key
  OBVIOUS
<1> HIDE DEF e
<1>3. ItemsOf(done') = ItemsOf(done) \cup {e}
  BY <1>1, AppendItems
<1>4. \A x \in ItemsOf(done') : x.old # None => x.old.key # x.key
  BY <1>2, <1>3 DEF Moved, ItemsOf
<1> QED
  BY <1>4 DEF Moved, ItemsOf

LEMMA MovedStep ==
  ASSUME EInv, [Next]_vars, Clean'
  PROVE  Moved(done')
<1>0. IInv /\ Clean /\ ActiveMirrors /\ Moved(done) /\ done \in Seq(Done)
  BY CleanBefore DEF EInv, Exact, Undoable, Moved, IInv, TypeOK, LocalOK
<1>1. CASE UNCHANGED done \/ done' = <<>>
  BY <1>0, <1>1 DEF Moved
<1>2. CASE done # <<>> /\ done' = Tail(done)
  <2>1. ItemsOf(done') \subseteq ItemsOf(done)
    BY <1>0, <1>2, TailItems
  <2>2. \A x \in ItemsOf(done') : x.old # None => x.old.key # x.key
    BY <1>0, <2>1 DEF Moved, ItemsOf
  <2> QED
    BY <2>2 DEF Moved, ItemsOf
<1> USE DEF local
<1>3. CASE Add
  <2>1. CASE InsertItem
    <3>1. CASE Moves(Head(prepared))
      BY <1>1, <2>1, <3>1 DEF InsertItem
    <3>2. CASE ~Moves(Head(prepared))
      <4>1. pc = "insert" /\ prepared # <<>> /\ ~Refused(Head(prepared)) /\ CommitItem(Head(prepared))
        BY <2>1, <3>2 DEF InsertItem
      <4>2. rules[Head(prepared).id] = None
        BY <1>0, <3>2, <4>1, TakenItem
      <4> QED
        BY <1>0, <4>1, <4>2, CommitMoved
    <3> QED
      BY <3>1, <3>2
  <2>2. CASE DeleteOld
    <3>1. Moves(Head(prepared)) /\ CommitItem(Head(prepared))
      BY <1>0, <2>2 DEF DeleteOld, IInv, Control
    <3> QED
      BY <1>0, <3>1, CommitMoved DEF Moves
  <2>3. CASE RollbackItem \/ Reinsert
    BY <1>0, <1>1, <1>2, <2>3 DEF RollbackItem, Reinsert, IInv, Control
  <2>4. CASE \/ \E b \in AddBatches : BeginAdd(b)
             \/ PrepareItem \/ LockAdd \/ RefuseItem \/ DeleteOldFails \/ AbortItem
             \/ FinishItems \/ FinishRollback
    BY <1>1, <2>4 DEF BeginAdd, PrepareItem, LockAdd, RefuseItem, DeleteOldFails, AbortItem,
       SkipItem, FinishItems, FinishRollback, Return
  <2> QED
    BY <1>3, <2>1, <2>2, <2>3, <2>4 DEF Add
<1>4. CASE Delete
  BY <1>1, <1>4 DEF Delete, BeginDelete, DeleteFails, DeleteItem, FinishDelete, Return
<1>5. CASE Sync
  BY <1>1, <1>5 DEF Sync, BeginSync, SyncClear, SyncItem, SyncAbort, SyncConfig, SyncFlip,
     SyncPublishFails, SyncCleanup, Return
<1>6. CASE Publish
  BY <1>1, <1>6 DEF Publish, PubCopy, PubWrite, PubFlip, PubFail, Return
<1>7. CASE UNCHANGED vars
  BY <1>1, <1>7 DEF vars
<1> QED
  BY <1>3, <1>4, <1>5, <1>6, <1>7 DEF Next

LEMMA AbortStep ==
  ASSUME EInv, [Next]_vars, Clean', pc' = "abort"
  PROVE  opFaults' >= 1
<1>0. /\ IInv /\ Clean /\ ActiveMirrors /\ (pc = "abort" => opFaults >= 1)
      /\ opFaults \in Nat
  BY CleanBefore DEF EInv, Exact, Undoable, IInv, TypeOK, GhostOK
<1>1. CASE DeleteOldFails
  <2>1. Fault("delete")
    BY <1>0, <1>1, OldEntryThere
  <2> QED
    BY <1>0, <2>1 DEF Fault
<1>2. CASE UNCHANGED vars
  BY <1>0, <1>2 DEF vars, fvars
<1>3. Next => DeleteOldFails
  <2>1. ASSUME Add, ~DeleteOldFails PROVE FALSE
    BY <2>1 DEF Add, BeginAdd, PrepareItem, LockAdd, RefuseItem, InsertItem, DeleteOld, AbortItem,
       FinishItems, RollbackItem, Reinsert, FinishRollback, SkipItem, CommitItem, Return
  <2>2. ASSUME Delete PROVE FALSE
    BY <2>2 DEF Delete, BeginDelete, DeleteFails, DeleteItem, FinishDelete, Return
  <2>3. ASSUME Sync PROVE FALSE
    BY <2>3 DEF Sync, BeginSync, SyncClear, SyncItem, SyncAbort, SyncConfig, SyncFlip,
       SyncPublishFails, SyncCleanup, Return
  <2>4. ASSUME Publish PROVE FALSE
    BY <2>4 DEF Publish, PubCopy, PubWrite, PubFlip, PubFail, Return
  <2> QED
    BY <2>1, <2>2, <2>3, <2>4 DEF Next
<1> QED
  BY <1>1, <1>2, <1>3

-----------------------------------------------------------------------------
(* The theorems *)

LEMMA ExactInit == Init => EInv
<1> SUFFICES ASSUME Init PROVE EInv
  OBVIOUS
<1>1. IInv
  BY InitInv
<1>2. Selectors /\ AsAsked /\ Failures
  BY DEF Init, Selectors, AsAsked, Failures, Slots
<1>3. ActiveMirrors
  BY EmptyMirrors DEF Init, ActiveMirrors, Slots
<1>4. ShadowMirrors /\ Undoable
  BY DEF Init, ShadowMirrors, Undoable, Store!UniqueKeys, EmptyTable
<1> QED
  BY <1>1, <1>2, <1>3, <1>4 DEF EInv, Exact

LEMMA ExactNext ==
  ASSUME EInv, [Next]_vars
  PROVE  EInv'
<1>1. IInv'
  BY NextInv DEF EInv
<1>2. Selectors' /\ AsAsked' /\ Failures'
  BY SelectorsStep, AskedStep, FailuresStep DEF EInv
<1>3. ASSUME Clean' PROVE Exact'
  <2>1. ActiveMirrors' /\ ShadowMirrors'
    BY <1>3, ActiveStep, ShadowStep
  <2>2. Undoable'
    BY <1>3, UniqueStep, MovedStep, AbortStep DEF Undoable, Moved, Store!UniqueKeys
  <2> QED
    BY <2>1, <2>2 DEF Exact
<1> QED
  BY <1>1, <1>2, <1>3 DEF EInv

\* Whatever fails, the table in force changes only as a request of the clients asks;
\* and until something fails, or for adds of one rule with one failure, index and
\* active map are the exact image of the rule table outside the middle of a move,
\* and of its undo.
THEOREM ExactInvariance == Spec => []EInv
<1>1. Init => EInv
  BY ExactInit
<1>2. EInv /\ [Next]_vars => EInv'
  BY ExactNext
<1> QED
  BY <1>1, <1>2, PTL DEF Spec

\* The running request has not touched the rules it does not name.
LEMMA Unnamed ==
  ASSUME EInv, NEW i \in Ids \ targets
  PROVE  rules[i] = committed[i]
<1>1. CASE kind = "add"
  <2>1. PICK b \in AddBatches : AddAsked(b)
    BY <1>1 DEF EInv, AsAsked
  <2>2. Store!Asked(b, i) = {}
    BY <2>1 DEF AddAsked, IdsOf, Store!Asked
  <2> QED
    BY <2>1, <2>2 DEF AddAsked
<1>2. CASE kind = "del"
  <2>1. PICK b \in DelBatches : DelAsked(b)
    BY <1>2 DEF EInv, AsAsked
  <2> QED
    BY <2>1 DEF DelAsked
<1>3. CASE kind \in {"none", "sync"}
  BY <1>3 DEF EInv, IInv, Untouched
<1> QED
  BY <1>1, <1>2, <1>3 DEF EInv, IInv, TypeOK, LocalOK

\* Where the store is exact, what each property asks for.
LEMMA ExactEnforces ==
  ASSUME EInv, Clean
  PROVE  Enforced
<1>0. IInv /\ ActiveMirrors /\ Selectors
  BY DEF EInv, Exact
<1> SUFFICES ASSUME NEW i \in Present(committed) \ targets
             PROVE  Blocks(committed[i])
  BY DEF Enforced
<1> DEFINE a == activeRuleSlot
           r == committed[i]
<1>1. i \in Ids /\ r # None /\ Reachable(r) /\ cfg[activeConfig].ruleSel = a
  BY <1>0, CoveredReached DEF Present, NeverHidden, Selectors
<1>2. rules[i] = r
  BY <1>1, Unnamed
<1> HIDE DEF r
<1>3. Typed(ruleKeyIndex, rules) /\ bl[a] \in [Keys -> Vals \cup {None}]
  BY <1>0, Types
<1>4. bl[a][r.key] = r.val
  <2>1. CASE Settled(pc)
    BY <1>0, <1>1, <1>2, <1>3, <2>1, MirrorFacts DEF ActiveMirrors, Settled
  <2>2. CASE pc \in {"delold", "abort"}
    <3> DEFINE k == Head(prepared).key
               m == [bl[a] EXCEPT ![k] = None]
    <3>1. ruleKeyIndex[k] = None /\ Mirrors(m, ruleKeyIndex, rules)
      BY <1>0, <2>2, MidMove
    <3> HIDE DEF k, m, a
    <3>2. r \in Rule /\ ruleKeyIndex[r.key] = i /\ m[r.key] = r.val
      BY <1>1, <1>2, <1>3, <3>1, MirrorFacts
    <3>3. r.key # k /\ r.key \in Keys
      BY <1>1, <3>1, <3>2, ConstantsAssumption DEF Rule
    <3> QED
      BY <1>3, <3>2, <3>3 DEF m
  <2>3. CASE pc = "reinsert"
    <3> DEFINE d == Head(done)
               k == d.old.key
               m == [bl[a] EXCEPT ![k] = d.old.val]
    <3>1. /\ rules[d.id] = d.old /\ Mirrors(m, ruleKeyIndex, rules)
          /\ done # <<>> /\ d.old # None
      BY <1>0, <2>3 DEF ActiveMirrors, IInv, Control
    <3>2. d.id \in Ids /\ d.id # i
      <4>1. d \in ItemsOf(done) /\ d \in Done
        BY <1>0, <3>1, TailItems DEF IInv, TypeOK, LocalOK
      <4>2. targets = {d.id}
        BY <2>3, <4>1, UndoAlone
      <4> QED
        BY <4>1, <4>2 DEF Done
    <3> HIDE DEF m, a, d
    <3>3. r \in Rule /\ ruleKeyIndex[r.key] = i /\ m[r.key] = r.val
      BY <1>1, <1>2, <1>3, <3>1, MirrorFacts
    <3>4. ruleKeyIndex[k] = d.id
      BY <1>3, <3>1, <3>2, MirrorFacts
    <3>5. r.key # k /\ r.key \in Keys
      BY <3>2, <3>3, <3>4 DEF Rule
    <3> QED
      BY <1>3, <3>3, <3>5 DEF m
  <2> QED
    BY <2>1, <2>2, <2>3 DEF Settled
<1> QED
  BY <1>1, <1>4 DEF Blocks, r

LEMMA ExactIndexes ==
  ASSUME EInv, Clean
  PROVE  IndexInverse /\ NoOrphan
<1>1. CASE pc = "idle"
  <2>1. Mirrors(bl[activeRuleSlot], ruleKeyIndex, rules) /\ Typed(ruleKeyIndex, rules)
    BY <1>1, Types DEF EInv, Exact, ActiveMirrors
  <2>2. IndexInverse
    BY <2>1 DEF IndexInverse, Mirrors, Indexes
  <2>3. ASSUME NEW k \in Keys, bl[activeRuleSlot][k] # None
        PROVE  \E i \in Ids : rules[i] # None /\ rules[i].key = k
    BY <2>1, <2>3, MirrorFacts DEF Typed, Mirrors, Indexes
  <2> QED
    BY <2>2, <2>3 DEF NoOrphan
<1>2. CASE pc # "idle"
  BY <1>2 DEF IndexInverse, NoOrphan
<1> QED
  BY <1>1, <1>2

\* A step of the store is one of RuleStore.
LEMMA ExactStore ==
  ASSUME EInv, EInv', [Next]_vars, Clean'
  PROVE  Store!Next \/ UNCHANGED committed
<1>1. Store!UniqueKeys(committed')
  BY DEF EInv, Exact, Undoable, Store!UniqueKeys
<1>2. CASE committed' = rules /\ kind = "add"
  <2>1. PICK b \in AddBatches : AddAsked(b)
    BY <1>2 DEF EInv, AsAsked
  <2>2. Store!Put(b)
    BY <1>2, <2>1 DEF AddAsked, Store!Put
  <2> QED
    BY <1>1, <2>2 DEF Store!Next
<1>3. CASE committed' = rules /\ kind = "del"
  <2>1. PICK b \in DelBatches : DelAsked(b)
    BY <1>3 DEF EInv, AsAsked
  <2>2. Store!Remove(b)
    BY <1>3, <2>1 DEF DelAsked, ItemsOf, Store!Remove
  <2> QED
    BY <1>1, <2>2 DEF Store!Next
<1>4. CASE committed' = shadow.rules /\ pc = "swap"
  <2>1. PICK b \in SyncBatches : SyncAsked(b)
    BY <1>4 DEF EInv, AsAsked
  <2>2. todo = <<>> /\ ~shadow.failed
    BY <1>4 DEF EInv, AsAsked
  <2>3. \A it \in ItemsOf(b) : shadow.rules[it.id] # None
    BY <2>1, <2>2, IdsItems DEF SyncAsked
  <2>4. ASSUME NEW i \in Ids
        PROVE  IF Store!Asked(b, i) = {} THEN committed'[i] = None
                                         ELSE committed'[i] \in Store!Asked(b, i)
    <3>1. committed'[i] \in {None} \cup Store!Asked(b, i)
      BY <1>4, <2>1 DEF SyncAsked
    <3>2. Store!Asked(b, i) # {} => \E it \in ItemsOf(b) : it.id = i
      BY DEF Store!Asked, ItemsOf
    <3> QED
      BY <1>4, <2>3, <3>1, <3>2
  <2>5. Store!Replace(b)
    BY <2>4 DEF Store!Replace
  <2> QED
    BY <1>1, <2>5 DEF Store!Next
<1> QED
  BY <1>2, <1>3, <1>4, InForce DEF EInv

\* The condition does not depend on the state.
LEMMA CleanAlways ==
  ASSUME Narrow, DistinctSyncs
  PROVE  Clean
BY DEF Clean

\* Every rule in force that the running request does not name blocks its packets at
\* every step, the two map writes of a move, the undo of a failed publish and the
\* flip of a full sync included.
THEOREM RulesEnforced ==
  ASSUME Narrow, DistinctSyncs
  PROVE  Spec => []Enforced
<1>1. EInv => Enforced
  BY CleanAlways, ExactEnforces
<1> QED
  BY <1>1, ExactInvariance, PTL

\* Between requests the key index that AddRule consults for conflicts is the inverse
\* of the rule table.
THEOREM IndexExact ==
  ASSUME Narrow, DistinctSyncs
  PROVE  Spec => []IndexInverse
<1>1. EInv => IndexInverse
  BY CleanAlways, ExactIndexes
<1> QED
  BY <1>1, ExactInvariance, PTL

\* Between requests no packet is dropped for an entry the API can neither list nor
\* delete.
THEOREM NothingOrphaned ==
  ASSUME Narrow, DistinctSyncs
  PROVE  Spec => []NoOrphan
<1>1. EInv => NoOrphan
  BY CleanAlways, ExactIndexes
<1> QED
  BY <1>1, ExactInvariance, PTL

\* The same of batches of any length, of which no map operation has failed yet.
THEOREM ExactUntilFailure ==
  ASSUME DistinctSyncs
  PROVE  Spec => [](faults = 0 => Enforced /\ IndexInverse /\ NoOrphan)
<1>1. EInv => (faults = 0 => Enforced /\ IndexInverse /\ NoOrphan)
  BY ExactEnforces, ExactIndexes DEF Clean
<1> QED
  BY <1>1, ExactInvariance, PTL

\* The handlers, with maps, counters, flips and undos, implement the rule table of
\* RuleStore: every request applies at one instant, only as far as it asks, and keeps
\* one rule per key.
THEOREM StoreImplemented ==
  ASSUME Narrow, DistinctSyncs
  PROVE  Spec => ImplementsStore
<1>1. Init => Store!Init
  BY DEF Init, Store!Init, EmptyTable
<1>2. EInv /\ EInv' /\ [Next]_vars => [Store!Next]_committed
  <2>1. Clean'
    BY DEF Clean, Narrow, DistinctSyncs, Distinct
  <2> QED
    BY <2>1, ExactStore
<1> QED
  BY <1>1, <1>2, ExactInvariance, PTL DEF Spec, ImplementsStore, Store!Spec

\* Batches, moves and exchanges of keys within them included: until a map operation
\* fails, the agent makes the steps of RuleStore only.
THEOREM BatchesImplemented ==
  ASSUME DistinctSyncs
  PROVE  Spec => BatchesImplement
<1>1. EInv /\ EInv' /\ [Next]_vars => [faults' = 0 => Store!Next \/ UNCHANGED committed]_vars
  <2> SUFFICES ASSUME EInv, EInv', [Next]_vars, faults' = 0
               PROVE  Store!Next \/ UNCHANGED committed
    OBVIOUS
  <2>1. Clean'
    BY DEF Clean, DistinctSyncs, Distinct
  <2> QED
    BY <2>1, ExactStore
<1> QED
  BY <1>1, ExactInvariance, PTL DEF Spec, BatchesImplement
=============================================================================
