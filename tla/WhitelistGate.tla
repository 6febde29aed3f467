--------------------------- MODULE WhitelistGate ---------------------------
(***************************************************************************)
(* A packet passing xdp_whitelist_gate while the agent of Whitelist changes *)
(* the maps.  The program takes no lock: each map read is a step of its    *)
(* own.  It reads the active slot and then, through that slot, the bitmap  *)
(* and the selector, and looks up one key for each combo whose bit is set, *)
(* in a fixed order, until one is found.  A packet that is not admitted    *)
(* goes on to xdp_firewall_main.                                           *)
(***************************************************************************)
EXTENDS Whitelist

CONSTANTS
  Packets,       \* the entries a packet can hit: sets of keys, one per combo
  WatchedFaults  \* bound: a packet is followed while at most so many operations failed

ASSUME PacketsAssumption == Packets \subseteq SUBSET Keys /\ WatchedFaults \in Nat

VARIABLE
  pkt  \* the packet: where it is, what it has read, and what was in force meanwhile

gvars == <<vars, pkt>>

NoPacket == [at |-> "none", slot |-> 0, bitmap |-> {}, sel |-> 0, hit |-> None,
             keys |-> {}, kept |-> {}, seen |-> {}, cleared |-> FALSE]

GInit == Init /\ pkt = NoPacket

\* Entries in force that the running request leaves alone; entries in force or
\* asked for.
Safe == {committed[i] : i \in Present(committed) \ targets}
Fair == KeysOf(committed) \cup ItemKeys(prepared)

Arrive(keys) ==
  /\ pkt.at = "none" /\ faults <= WatchedFaults
  /\ pkt' = [NoPacket EXCEPT !.at = "slot", !.keys = keys,
                             !.kept = keys \cap Safe, !.seen = Fair]

ReadSlot ==
  /\ pkt.at = "slot"
  /\ pkt' = [pkt EXCEPT !.slot = activeConfig, !.at = "bitmap"]

\* The fast path: no bit set, nothing to look up.
ReadBitmap ==
  /\ pkt.at = "bitmap"
  /\ LET bits == conf[pkt.slot].bitmap IN
     pkt' = [pkt EXCEPT !.bitmap = bits, !.at = IF bits = {} THEN "missed" ELSE "sel"]

\* read_wl_map_selector
ReadSel ==
  /\ pkt.at = "sel"
  /\ pkt' = [pkt EXCEPT !.sel = conf[pkt.slot].sel, !.slot = 0, !.at = "lookup"]

\* Bug variant of Lookup: only the first set combo is looked up.
LookupFirst ==
  /\ pkt.at = "lookup"
  /\ LET c    == Min(pkt.bitmap)
         hits == {k \in pkt.keys \cap wl[pkt.sel] : Combo[k] = c}
     IN  pkt' = IF hits # {} THEN [pkt EXCEPT !.at = "admitted", !.hit = CHOOSE k \in hits : TRUE]
                ELSE [pkt EXCEPT !.at = "missed"]

\* WL_COMBO_CHECK for the next combo whose bit is set.
Lookup ==
  /\ pkt.at = "lookup"
  /\ LET c    == Min(pkt.bitmap)
         hits == {k \in pkt.keys \cap wl[pkt.sel] : Combo[k] = c}
     IN  pkt' = IF hits # {} THEN [pkt EXCEPT !.at = "admitted", !.bitmap = {}, !.hit = CHOOSE k \in hits : TRUE]
                ELSE [pkt EXCEPT !.bitmap = @ \ {c},
                                 !.at = IF pkt.bitmap = {c} THEN "missed" ELSE "lookup"]

Leave ==
  /\ pkt.at \in {"admitted", "missed"}
  /\ pkt' = NoPacket

Packet ==
  /\ \/ \E keys \in Packets : Arrive(keys)
     \/ ReadSlot \/ ReadBitmap \/ ReadSel \/ Lookup \/ Leave
  /\ UNCHANGED vars

\* What the agent's step means for the packet in the program.
Observe ==
  IF pkt.at = "none" \/ faults' > WatchedFaults THEN pkt' = NoPacket
  ELSE pkt' = [pkt EXCEPT !.kept = @ \cap Safe', !.seen = @ \cup Fair',
                          !.cleared = @ \/ pc \in {"clear", "cleanup"}]

GNext == (Next /\ Observe) \/ Packet

GSpec == GInit /\ [][GNext]_gvars

-----------------------------------------------------------------------------
(* Properties *)

\* A packet that hits an entry in force and untouched all the while it is in
\* the gate is admitted, unless a map was emptied meanwhile or some undo has
\* failed: no mixture of values before and after any number of flips hides it.
KeptAdmitted ==
  pkt.at = "missed" /\ ~botched => pkt.kept = {} \/ pkt.cleared

\* A packet is admitted only for an entry that was in force, or asked for by a
\* running request, while it was in the gate: a deleted entry exempts no packet
\* that arrives later, whatever config or map the packet still uses.
AdmittedForCause ==
  pkt.at = "admitted" /\ ~botched => pkt.hit \in pkt.seen
=============================================================================
