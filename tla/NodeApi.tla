------------------------------ MODULE NodeApi ------------------------------
(***************************************************************************)
(* An agent as the controller meets it: a table of what it enforces, by    *)
(* controller id, and what one call of its HTTP API does to that table.    *)
(* Rules and whitelist entries share the table; their ids and keys are     *)
(* apart.  NodeRules and Whitelist model the handlers themselves; here a   *)
(* call takes effect at one instant, or is refused.                        *)
(***************************************************************************)
EXTENDS Integers, FiniteSets

CONSTANTS
  RuleIds, WlIds,  \* the ids of rules and of whitelist entries
  Keys, KeyOf,     \* the tuple an id matches; it never changes
  Vals,            \* what a rule does with a packet
  None             \* nothing under this id

Ids    == RuleIds \cup WlIds
Scopes == {RuleIds, WlIds}
Tables == [Ids -> Vals \cup {None}]

ASSUME NodeApiAssumption ==
  /\ IsFiniteSet(Ids)
  /\ None \notin Vals
  /\ KeyOf \in [Ids -> Keys]
  /\ \A i \in RuleIds, j \in WlIds : i # j /\ KeyOf[i] # KeyOf[j]

Empty      == [i \in Ids |-> None]
Has(T)     == {i \in Ids : T[i] # None}
Only(T, S) == [i \in Ids |-> IF i \in S THEN T[i] ELSE None]
Over(T, U) == [i \in Ids |-> IF T[i] # None THEN T[i] ELSE U[i]]

DistinctKeys(S) == \A i, j \in S : KeyOf[i] = KeyOf[j] => i = j

\* A call: add the items, delete the ids, or replace all of a scope by the items.
Call == [kind : {"add", "del", "replace"}, items : Tables, ids : SUBSET Ids]
Add(T)        == [kind |-> "add", items |-> T, ids |-> Has(T)]
Del(S)        == [kind |-> "del", items |-> Empty, ids |-> S]
Replace(T, S) == [kind |-> "replace", items |-> Only(T, S), ids |-> S]

\* POST /rules and /rules/batch: an item is refused when its key is taken, by its
\* own id too; the others are stored, in whatever order the batch lists them.
Fits(S, T) == Has(T) \cap S = {} /\ DistinctKeys(Has(T) \cup S)
Stored(T, I) == {S \in SUBSET Has(I) :
                   /\ Fits(S, T)
                   /\ \A i \in Has(I) \ S : ~Fits(S \cup {i}, T)}

\* POST /whitelist and /whitelist/batch: all items or none; a stored item may come
\* again.
StoredWl(T, I) == IF DistinctKeys(Has(T) \cup Has(I)) THEN {Has(I)} ELSE {{}}

\* What a call may do to a table, and whether the answer reports complete success.
Effects(c, T) ==
  CASE c.kind = "add" ->
         {[table |-> Over(Only(c.items, S), T), ok |-> S = c.ids] :
            S \in IF c.ids \subseteq WlIds THEN StoredWl(T, c.items)
                                           ELSE Stored(T, c.items)}
    [] c.kind = "del" ->
         {[table |-> Only(T, Ids \ c.ids), ok |-> c.ids \subseteq Has(T)]}
    [] c.kind = "replace" ->
         IF DistinctKeys(Has(c.items))
         THEN {[table |-> Over(c.items, Only(T, Ids \ c.ids)), ok |-> TRUE]}
         ELSE {[table |-> T, ok |-> FALSE]}
=============================================================================
