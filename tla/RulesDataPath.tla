--------------------------- MODULE RulesDataPath ---------------------------
(***************************************************************************)
(* A packet passing xdp_firewall_main and xdp_anomaly_verify while the     *)
(* agent of NodeRules changes the maps.                                    *)
(*                                                                         *)
(* The BPF programs take no lock: every map read is a step of its own, and *)
(* the agent may do anything between two of them.  xdp_firewall_main reads *)
(* the active slot once and everything else through it; xdp_anomaly_verify *)
(* reads the slot again.  The packet is followed because it hits the key   *)
(* of one rule that was in force when it arrived; a lookup of any other    *)
(* key can only drop it earlier.                                           *)
(***************************************************************************)
EXTENDS NodeRules

CONSTANT WatchedFaults  \* bound: a packet is followed while at most so many operations failed

ASSUME WatchedAssumption == WatchedFaults \in Nat

VARIABLE
  pkt  \* the packet in the programs: where it is, what it has read, what it hits

dvars == <<vars, pkt>>

NoPacket == [at |-> "none", prog |-> "main", slot |-> 0, sel |-> 0, id |-> None,
             rule |-> None, cleared |-> FALSE]

DInit == Init /\ pkt = NoPacket

-----------------------------------------------------------------------------
(* The packet *)

\* A packet arrives that hits a rule in force the running request leaves alone.
Arrive(i) ==
  /\ pkt.at = "none" /\ faults <= WatchedFaults
  /\ i \in Present(committed) \ targets
  /\ pkt' = [NoPacket EXCEPT !.at = "slot", !.id = i, !.rule = committed[i]]

\* read_active_slot
ReadSlot ==
  /\ pkt.at = "slot"
  /\ pkt' = [pkt EXCEPT !.slot = activeConfig, !.at = "sel"]

\* read_rule_map_selector
ReadSel ==
  /\ pkt.at = "sel"
  /\ pkt' = [pkt EXCEPT !.sel = cfg[pkt.slot].ruleSel, !.at = "count"]

\* What follows a miss: main asks for the anomaly count, verify passes the packet.
Miss == IF pkt.prog = "main" THEN "anomaly" ELSE "pass"

\* lookup_rule and lookup_rule_anomaly, phase 1.
ReadCount ==
  /\ pkt.at = "count"
  /\ pkt' = [pkt EXCEPT !.at = IF cfg[pkt.slot].blCount = 0 THEN Miss ELSE "bitmap"]

\* Phase 2, and the bit of the combo the rule has.
ReadBitmap ==
  /\ pkt.at = "bitmap"
  /\ pkt' = [pkt EXCEPT !.at =
               IF Combo[pkt.rule.key] \in cfg[pkt.slot].bitmap THEN "lookup" ELSE Miss]

\* lookup_rule takes rules without anomaly bits, lookup_rule_anomaly the others.
Matches(v) == v = IF pkt.prog = "main" THEN Plain ELSE Anomaly

ReadRule ==
  /\ pkt.at = "lookup"
  /\ pkt' = [pkt EXCEPT !.at = IF Matches(bl[pkt.sel][pkt.rule.key]) THEN "drop" ELSE Miss]

\* The dispatch on a lookup miss; the tail call runs xdp_anomaly_verify.
Dispatch ==
  /\ pkt.at = "anomaly"
  /\ pkt' = IF cfg[pkt.slot].anomaly > 0
            THEN [pkt EXCEPT !.prog = "verify", !.at = "slot"]
            ELSE [pkt EXCEPT !.at = "pass"]

Leave ==
  /\ pkt.at \in {"drop", "pass"}
  /\ pkt' = NoPacket

Packet ==
  /\ \/ \E i \in Ids : Arrive(i)
     \/ ReadSlot \/ ReadSel \/ ReadCount \/ ReadBitmap \/ ReadRule
     \/ Dispatch \/ Leave
  /\ UNCHANGED vars

\* The packet's rule is, after the agent's step, still in force and untouched.
Kept == /\ committed'[pkt.id] = pkt.rule /\ pkt.id \notin targets'
        /\ faults' <= WatchedFaults

\* A step of the agent: the packet is followed as long as its rule is kept; it
\* remembers whether a rule map was cleared while it was in the program.
Observe ==
  \/ pkt.at = "none" /\ UNCHANGED pkt
  \/ pkt.at # "none" /\ ~Kept /\ pkt' = NoPacket
  \/ /\ pkt.at # "none" /\ Kept
     /\ pkt' = [pkt EXCEPT !.cleared = @ \/ pc \in {"clear", "cleanup"}]

Agent == Next /\ Observe

DNext == Agent \/ Packet

DSpec == DInit /\ [][DNext]_dvars

-----------------------------------------------------------------------------
(* Properties *)

\* A packet whose rule stays in force and untouched while it is in the program,
\* during which no rule map is emptied, is dropped: no mixture of the values
\* before and after any number of publishes and flips lets it through.
FlipConsistent == pkt.at = "pass" => pkt.cleared
=============================================================================
