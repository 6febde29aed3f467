-------------------------- MODULE MCWhitelistGate --------------------------
(***************************************************************************)
(* Instances of Whitelist under WhitelistGate for TLC: two ids, three keys *)
(* of two combo types and one key of an unsupported combo.                 *)
(***************************************************************************)
EXTENDS WhitelistGate

CONSTANTS i1, i2, k1, k2, k3, bad

MCCombo == (k1 :> 0) @@ (k2 :> 1) @@ (k3 :> 0) @@ (bad :> None)

It(i, k) == [id |-> i, key |-> k]

\* Plain adds and moves within a combo and to another one, a batch that replaces
\* and adds and names an id twice, a batch with a bad item.
Adds == {<<It(i1, k1)>>, <<It(i1, k2)>>,
         <<It(i2, k1), It(i1, k3), It(i2, k2)>>,
         <<It(i1, k2), It(i2, bad)>>}
Dels == {<<i2, i1, i2>>}

\* A sync that keeps i1's first entry, one that drops it, one that names a key twice.
Syncs == {<<It(i1, k1), It(i2, k2)>>, <<It(i2, k3)>>, <<It(i1, k3), It(i2, k3)>>}

\* A packet that can hit two entries of two combos.
MCPackets == {{k1, k2}}
=============================================================================
