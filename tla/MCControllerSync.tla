-------------------------- MODULE MCControllerSync --------------------------
(***************************************************************************)
(* Instances of ControllerSync for TLC.                                    *)
(***************************************************************************)
EXTENDS ControllerSync, TLC

CONSTANTS a, b, c, x, ka, kb, kx, v1, v2, n1, r1, r2

\* A rule and a whitelist entry with a key of their own.
Apart == [i \in Ids |-> IF i = x THEN kx ELSE ka]
\* Two rules for one tuple, and a third apart.
Same  == [i \in Ids |-> ((a :> ka) @@ (b :> ka) @@ (c :> kb) @@ (x :> kx))[i]]

\* The request slots are alike, and so are two rules for one tuple, and the actions.
Alike == {f @@ g @@ h : f \in Permutations(Requests), g \in Permutations({a, b}),
                        h \in Permutations(Vals)}

\* A controller that has been running: rows from before, on every node or disabled.
Running ==
  /\ db \in [Ids -> {Fresh} \cup [state : {"on", "off"}, val : Vals]]
  /\ \A i \in WlIds : db[i].state # "off"
  /\ DistinctKeys(Has(Listed))
  /\ table = [n \in Nodes |-> Enabled] /\ asked = Has(Enabled)
  /\ status = [n \in Nodes |-> "online"]
  /\ fails = [n \in Nodes |-> 0] /\ seen = [n \in Nodes |-> "none"]
  /\ job = [w \in Workers |-> Idle]
  /\ task = [w \in Workers |-> [n \in Nodes |-> Done]]
  /\ agent = [n \in Nodes |-> "up"] /\ fetched = [n \in Nodes |-> Empty]
  /\ late = {}
  /\ requests = 0 /\ faults = 0 /\ restarts = 0 /\ alone = TRUE

RunningSpec == (Init \/ Running) /\ [][Next]_vars /\ Fairness
=============================================================================
