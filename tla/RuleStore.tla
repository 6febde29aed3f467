----------------------------- MODULE RuleStore -----------------------------
(***************************************************************************)
(* What the agent promises of its rule table, without maps, counters or    *)
(* failures: a table of rules by id in which no two rules have one key.    *)
(* Every request changes it at one instant and only as far as the request  *)
(* asks: an add may take some of its items and refuse the others, a delete *)
(* may miss some ids, a full sync is all or nothing.                       *)
(***************************************************************************)
EXTENDS Integers, Sequences

CONSTANTS
  Ids, Keys,
  None,                                \* no rule
  AddBatches, DelBatches, SyncBatches  \* the requests, as in NodeRules

VARIABLE table \* the rule of each id, or None

UniqueKeys(t) ==
  \A i, j \in Ids : t[i] # None /\ t[j] # None /\ t[i].key = t[j].key => i = j

\* The rule an item asks for, and the rules a batch asks for under one id.
RuleOf(it)   == [key |-> it.key, val |-> it.val]
Asked(b, i)  == {RuleOf(b[n]) : n \in {m \in DOMAIN b : b[m].id = i}}

Init == table = [i \in Ids |-> None]

\* Some items of an add are taken.
Put(b) == \A i \in Ids : table'[i] \in {table[i]} \cup Asked(b, i)

\* Some ids of a delete are found and removed.
Remove(b) ==
  \A i \in Ids : table'[i] \in {table[i]} \cup IF \E n \in DOMAIN b : b[n] = i
                                             THEN {None} ELSE {}

\* A full sync installs exactly the rules it names.
Replace(b) ==
  \A i \in Ids : IF Asked(b, i) = {} THEN table'[i] = None
                                     ELSE table'[i] \in Asked(b, i)

Next ==
  /\ \/ \E b \in AddBatches : Put(b)
     \/ \E b \in DelBatches : Remove(b)
     \/ \E b \in SyncBatches : Replace(b)
  /\ UniqueKeys(table')

Spec == Init /\ [][Next]_table
=============================================================================
