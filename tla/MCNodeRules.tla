---------------------------- MODULE MCNodeRules ----------------------------
(***************************************************************************)
(* Instances of NodeRules for TLC: two ids, three keys of two combo types  *)
(* and one key of an unsupported combo.                                    *)
(***************************************************************************)
EXTENDS NodeRules, TLC

CONSTANTS i1, i2, k1, k2, k3, bad, c1, c2

MCCombo == (k1 :> c1) @@ (k2 :> c2) @@ (k3 :> c1) @@ (bad :> None)

It(i, k, v) == [id |-> i, key |-> k, val |-> v]

DelOne == {<<i>> : i \in Ids}

\* Batches: a move and a rule for the key it frees, two writes of one id, a
\* bad item between good ones.
AddMany == {<<It(i1, k1, Plain), It(i2, k2, Anomaly)>>,
            <<It(i1, k2, Plain), It(i2, k1, Plain)>>,
            <<It(i1, k3, Plain), It(i1, k1, Anomaly), It(i2, bad, Plain)>>}
DelMany == {<<i1, i2>>, <<i2, i2>>}

\* Full syncs: empty, one rule, two rules, the second rule refused.
SyncMany == {<<>>, <<It(i1, k1, Plain)>>, <<It(i1, k2, Plain), It(i2, k3, Anomaly)>>,
             <<It(i2, k1, Anomaly), It(i1, bad, Plain)>>}
NoBatch  == {}

=============================================================================
