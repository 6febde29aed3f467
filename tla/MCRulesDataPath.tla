-------------------------- MODULE MCRulesDataPath --------------------------
(***************************************************************************)
(* Instances of NodeRules under RulesDataPath for TLC: two ids, three keys *)
(* of two combo types and one key of an unsupported combo.                 *)
(***************************************************************************)
EXTENDS RulesDataPath, TLC

CONSTANTS i1, i2, k1, k2, k3, bad, c1, c2

MCCombo == (k1 :> c1) @@ (k2 :> c2) @@ (k3 :> c1) @@ (bad :> None)

It(i, k, v) == [id |-> i, key |-> k, val |-> v]

\* One rule per request: new rules, moves to another combo and back, an anomaly rule,
\* a key that another id owns, a bad key.
Adds == {<<It(i1, k1, Plain)>>, <<It(i1, k2, Anomaly)>>,
         <<It(i2, k3, Anomaly)>>, <<It(i2, k2, Plain)>>, <<It(i1, bad, Plain)>>}
Dels == {<<i1>>, <<i2>>}

\* A full sync, and one with a refused rule.
Syncs == {<<It(i1, k1, Plain), It(i2, k2, Anomaly)>>, <<It(i2, k3, Anomaly), It(i1, bad, Plain)>>}
=============================================================================
