----------------------- MODULE RulesDataPathProofs -----------------------
(***************************************************************************)
(* The packet beside the agent, for any rules and requests: as long as the *)
(* maps are exact (NodeRulesProofs), a packet that hits a rule in          *)
(* force is dropped, however many publishes and flips it meets, unless a   *)
(* rule map is emptied while it is in the programs.  The argument follows  *)
(* what the packet has read: the config of its slot keeps the rule         *)
(* reachable though it is rewritten, and the map it will look into is the  *)
(* active one until a full sync has flipped.                               *)
(***************************************************************************)
EXTENDS RulesDataPath, NodeRulesProofs

-----------------------------------------------------------------------------
(* The inductive invariant *)

\* While a packet is followed the maps are exact.
ExactWhileWatched == DistinctSyncs /\ (Narrow \/ WatchedFaults = 0)

\* Config c lets the lookup reach rule r.
Reaches(c, r) ==
  /\ c.blCount > 0
  /\ Combo[r.key] \in c.bitmap
  /\ r.val = Anomaly => c.anomaly > 0

Watched ==
  pkt.at # "none" =>
    /\ pkt.id \in Present(committed) \ targets /\ pkt.rule = committed[pkt.id]
    /\ faults <= WatchedFaults

\* The config the packet reads next; only a full sync, which clears a map first,
\* writes a config without the rule.
SlotRead ==
  pkt.at \in {"sel", "count", "bitmap", "lookup", "anomaly"} =>
    /\ pkt.slot \in Slots /\ Reaches(cfg[pkt.slot], pkt.rule)
    /\ bl[cfg[pkt.slot].ruleSel][pkt.rule.key] = pkt.rule.val
    /\ pc # "cleanup" => cfg[pkt.slot].ruleSel = activeRuleSlot
    /\ pc \in {"fill", "swap"} => pkt.slot = activeConfig

\* The map the packet looks into.
SelRead ==
  pkt.at \in {"count", "bitmap", "lookup"} =>
    /\ pkt.sel \in Slots /\ bl[pkt.sel][pkt.rule.key] = pkt.rule.val
    /\ pc # "cleanup" => pkt.sel = activeRuleSlot

\* Only an anomaly rule takes the packet beyond the lookup of the main program.
Programs ==
  /\ pkt.prog \in {"main", "verify"}
  /\ pkt.prog = "verify" \/ pkt.at = "anomaly" => pkt.rule.val = Anomaly
  /\ pkt.at = "anomaly" => pkt.prog = "main"
  /\ pkt.at # "pass"

Places == {"none", "slot", "sel", "count", "bitmap", "lookup", "anomaly", "drop", "pass"}

Fields == DOMAIN pkt = {"at", "prog", "slot", "sel", "id", "rule", "cleared"}

PInv ==
  /\ Fields
  /\ pkt.at \in Places
  /\ Watched
  /\ pkt.at # "none" /\ ~pkt.cleared => SlotRead /\ SelRead /\ Programs

DInv == EInv /\ PInv

-----------------------------------------------------------------------------
(* Configs and rules *)

\* A config that covers a table lets the lookup reach each of its rules.
LEMMA CoversReaches ==
  ASSUME NEW c \in Config, NEW t, Covers(c, t), NEW i \in Present(t)
  PROVE  Reaches(c, t[i])
<1>1. Count(Present(t)) > 0 /\ Count(Present(t)) \in Nat /\ c.blCount \in Nat
  BY CountPositive, CountType DEF Config
<1>2. c.blCount > 0
  BY <1>1 DEF Covers
<1> QED
  BY <1>2 DEF Covers, Reaches

\* The rule of the packet: the active config reaches it, and the active map has it.
LEMMA RuleThere ==
  ASSUME ExactWhileWatched, EInv, Watched, pkt.at # "none"
  PROVE  /\ pkt.id \in Ids \ targets /\ pkt.rule = committed[pkt.id] /\ pkt.rule # None
         /\ pkt.rule \in Rule /\ pkt.rule = rules[pkt.id]
         /\ Reaches(cfg[activeConfig], pkt.rule)
         /\ cfg[activeConfig].ruleSel = activeRuleSlot
         /\ bl[activeRuleSlot][pkt.rule.key] = pkt.rule.val
<1>1. /\ pkt.id \in Present(committed) \ targets /\ pkt.rule = committed[pkt.id]
      /\ faults <= WatchedFaults
  BY DEF Watched
<1>2. Clean
  BY <1>1, WatchedAssumption DEF ExactWhileWatched, Clean, EInv, IInv, TypeOK, GhostOK
<1>3. Blocks(committed[pkt.id])
  BY <1>1, <1>2, ExactEnforces DEF Enforced
<1>4. cfg[activeConfig].ruleSel = activeRuleSlot
  BY DEF EInv, Selectors
<1>5. pkt.id \in Ids \ targets /\ pkt.rule # None
  BY <1>1 DEF Present
<1>6. pkt.rule \in Rule
  BY <1>1, <1>5 DEF EInv, IInv, TypeOK, GhostOK
<1>7. pkt.rule = rules[pkt.id]
  BY <1>1, <1>5, Unnamed
<1> QED
  BY <1>1, <1>3, <1>4, <1>5, <1>6, <1>7 DEF Blocks, Reachable, Reaches

Hit == pkt.at # "none" => bl[activeRuleSlot][pkt.rule.key] = pkt.rule.val

LEMMA RuleHit == ExactWhileWatched /\ EInv /\ Watched => Hit
BY RuleThere DEF Hit

LEMMA RuleHitNext == ExactWhileWatched' /\ EInv' /\ Watched' => Hit'
BY RuleHit, PTL

-----------------------------------------------------------------------------
(* The packet moves *)

\* What a move leaves of the packet.
Follows == /\ pkt'.id = pkt.id /\ pkt'.rule = pkt.rule /\ pkt'.cleared = pkt.cleared
           /\ Fields'

LEMMA MoveAt ==
  ASSUME Fields, NEW p, pkt' = [pkt EXCEPT !.at = p]
  PROVE  /\ Follows /\ pkt'.at = p
         /\ pkt'.prog = pkt.prog /\ pkt'.slot = pkt.slot /\ pkt'.sel = pkt.sel
BY DEF Fields, Follows

LEMMA MoveSlot ==
  ASSUME Fields, NEW s, NEW p, pkt' = [pkt EXCEPT !.slot = s, !.at = p]
  PROVE  /\ Follows /\ pkt'.at = p
         /\ pkt'.prog = pkt.prog /\ pkt'.slot = s /\ pkt'.sel = pkt.sel
BY DEF Fields, Follows

LEMMA MoveSel ==
  ASSUME Fields, NEW s, NEW p, pkt' = [pkt EXCEPT !.sel = s, !.at = p]
  PROVE  /\ Follows /\ pkt'.at = p
         /\ pkt'.prog = pkt.prog /\ pkt'.slot = pkt.slot /\ pkt'.sel = s
BY DEF Fields, Follows

LEMMA MoveProg ==
  ASSUME Fields, NEW g, NEW p, pkt' = [pkt EXCEPT !.prog = g, !.at = p]
  PROVE  /\ Follows /\ pkt'.at = p
         /\ pkt'.prog = g /\ pkt'.slot = pkt.slot /\ pkt'.sel = pkt.sel
BY DEF Fields, Follows

Reads == ReadSlot \/ ReadSel \/ ReadCount \/ ReadBitmap \/ ReadRule \/ Dispatch

LEMMA PacketStep ==
  ASSUME ExactWhileWatched, DInv, Packet
  PROVE  PInv'
<1>0. EInv /\ PInv /\ UNCHANGED vars
  BY DEF DInv, Packet
<1>1. /\ UNCHANGED <<bl, cfg, activeConfig, activeRuleSlot, pc, committed, targets, faults, rules>>
      /\ cfg \in [Slots -> Config] /\ activeConfig \in Slots
      /\ Plain # Anomaly
  BY <1>0, ConstantsAssumption DEF vars, maps, memory, ghost, fvars, EInv, IInv, TypeOK, MapsOK
<1>2. CASE \E i \in Ids : Arrive(i)
  BY <1>1, <1>2 DEF Arrive, NoPacket, PInv, Places, Fields, Watched, SlotRead,
     SelRead, Programs
<1>3. CASE Leave
  BY <1>3 DEF Leave, NoPacket, PInv, Places, Fields, Watched
<1>4. CASE pkt.at # "none" /\ Reads
  <2>0. Fields /\ Watched
    BY <1>0 DEF PInv
  <2>1. CASE pkt.cleared
    <3> SUFFICES Follows /\ pkt'.at \in Places \ {"none"}
      BY <1>1, <1>4, <2>0, <2>1 DEF PInv, Watched, Follows
    <3> USE DEF Places
    <3>1. CASE ReadSlot \/ ReadSel
      <4>1. CASE ReadSlot
        BY <2>0, <4>1, MoveSlot DEF ReadSlot
      <4>2. CASE ReadSel
        BY <2>0, <4>2, MoveSel DEF ReadSel
      <4> QED
        BY <3>1, <4>1, <4>2
    <3>2. CASE ReadCount \/ ReadBitmap \/ ReadRule
      <4>1. Miss \in {"anomaly", "pass"}
        BY DEF Miss
      <4>2. PICK p \in {"bitmap", "lookup", "drop", Miss} : pkt' = [pkt EXCEPT !.at = p]
        BY <3>2 DEF ReadCount, ReadBitmap, ReadRule
      <4> QED
        BY <2>0, <4>1, <4>2, MoveAt
    <3>3. CASE Dispatch
      <4>1. CASE pkt' = [pkt EXCEPT !.prog = "verify", !.at = "slot"]
        <5>1. Follows /\ pkt'.at = "slot"
          BY <2>0, <4>1, MoveProg
        <5> QED
          BY <5>1
      <4>2. CASE pkt' = [pkt EXCEPT !.at = "pass"]
        BY <2>0, <4>2, MoveAt
      <4> QED
        BY <3>3, <4>1, <4>2 DEF Dispatch
    <3> QED
      BY <1>4, <3>1, <3>2, <3>3 DEF Reads
  <2>2. CASE ~pkt.cleared
    <3>1. /\ pkt.rule \in Rule /\ Reaches(cfg[activeConfig], pkt.rule)
          /\ cfg[activeConfig].ruleSel = activeRuleSlot
          /\ bl[activeRuleSlot][pkt.rule.key] = pkt.rule.val
      BY <1>0, <1>4, RuleThere DEF PInv
    <3>2. SlotRead /\ SelRead /\ Programs
      BY <1>0, <1>4, <2>2 DEF PInv
    <3> SUFFICES /\ Follows /\ pkt'.at \in Places
                 /\ SlotRead' /\ SelRead' /\ Programs'
      BY <1>1, <1>4, <2>0 DEF PInv, Watched, Follows
    <3> USE DEF Places
    <3>3. CASE ReadSlot
      <4>1. Follows /\ pkt'.at = "sel" /\ pkt'.prog = pkt.prog /\ pkt'.slot = activeConfig
        BY <2>0, <3>3, MoveSlot DEF ReadSlot
      <4> QED
        BY <1>1, <3>1, <3>2, <4>1 DEF Follows, SlotRead, SelRead, Programs
    <3>4. CASE ReadSel
      <4>1. pkt.at = "sel" /\ Follows /\ pkt'.at = "count" /\ pkt'.prog = pkt.prog
            /\ pkt'.slot = pkt.slot /\ pkt'.sel = cfg[pkt.slot].ruleSel
        BY <2>0, <3>4, MoveSel DEF ReadSel
      <4>2. cfg[pkt.slot].ruleSel \in Slots
        BY <1>1, <3>2, <4>1 DEF SlotRead, Config
      <4> QED
        BY <1>1, <3>2, <4>1, <4>2 DEF Follows, SlotRead, SelRead, Programs
    <3>5. CASE ReadCount \/ ReadBitmap
      <4>1. PICK p \in {"bitmap", "lookup"} : pkt' = [pkt EXCEPT !.at = p]
        BY <3>2, <3>5 DEF ReadCount, ReadBitmap, SlotRead, Reaches
      <4>2. pkt.at \in {"count", "bitmap"}
        BY <3>5 DEF ReadCount, ReadBitmap
      <4>3. Follows /\ pkt'.at = p /\ pkt'.prog = pkt.prog
            /\ pkt'.slot = pkt.slot /\ pkt'.sel = pkt.sel
        BY <2>0, <4>1, MoveAt
      <4> QED
        BY <1>1, <3>2, <4>2, <4>3 DEF Follows, SlotRead, SelRead, Programs
    <3>6. CASE ReadRule
      <4>1. bl[pkt.sel][pkt.rule.key] = pkt.rule.val /\ pkt.rule.val \in {Plain, Anomaly}
        BY <3>1, <3>2, <3>6 DEF ReadRule, SelRead, Rule, Vals
      <4>2. \/ pkt' = [pkt EXCEPT !.at = "drop"]
            \/ /\ pkt' = [pkt EXCEPT !.at = "anomaly"]
               /\ pkt.prog = "main" /\ pkt.rule.val = Anomaly
        BY <3>2, <3>6, <4>1 DEF ReadRule, Matches, Miss, Programs
      <4>3. PICK p \in {"drop", "anomaly"} :
              /\ pkt' = [pkt EXCEPT !.at = p]
              /\ p = "anomaly" => pkt.prog = "main" /\ pkt.rule.val = Anomaly
        BY <4>2
      <4>4. pkt.at = "lookup" /\ Follows /\ pkt'.at = p /\ pkt'.prog = pkt.prog
            /\ pkt'.slot = pkt.slot /\ pkt'.sel = pkt.sel
        BY <2>0, <3>6, <4>3, MoveAt DEF ReadRule
      <4> QED
        BY <1>1, <3>2, <4>3, <4>4 DEF Follows, SlotRead, SelRead, Programs
    <3>7. CASE Dispatch
      <4>1. pkt.at = "anomaly" /\ pkt' = [pkt EXCEPT !.prog = "verify", !.at = "slot"]
        BY <3>2, <3>7 DEF Dispatch, SlotRead, Reaches, Programs
      <4>2. Follows /\ pkt'.at = "slot" /\ pkt'.prog = "verify"
        BY <2>0, <4>1, MoveProg
      <4> QED
        BY <1>1, <3>2, <4>1, <4>2 DEF Follows, SlotRead, SelRead, Programs
    <3> QED
      BY <1>4, <3>3, <3>4, <3>5, <3>6, <3>7 DEF Reads
  <2> QED
    BY <2>1, <2>2
<1> QED
  BY <1>2, <1>3, <1>4 DEF Packet, Reads, ReadSlot, ReadSel, ReadCount, ReadBitmap, ReadRule, Dispatch

-----------------------------------------------------------------------------
(* The agent moves *)

\* What a step of the agent that empties no map does to configs and selectors.
LEMMA AgentFrame ==
  ASSUME EInv, Next, pc \notin {"clear", "cleanup"}
  PROVE  /\ pc' \in {"fill", "swap"} => pc \in {"fill", "swap"} /\ UNCHANGED activeConfig
         /\ \/ UNCHANGED <<bl, cfg>> /\ pc' = "cleanup"
            \/ pc' # "cleanup" /\ UNCHANGED activeRuleSlot
         /\ \/ UNCHANGED cfg
            \/ PubCopy
            \/ PubWrite
            \/ SyncConfig
<1>0. pc \in {"copy", "write", "flip"} => kind \in {"add", "del"}
  BY DEF EInv, IInv, Control
<1> USE DEF maps, memory
<1>1. CASE Add
  <2>1. pc' \notin {"fill", "swap", "cleanup"} /\ UNCHANGED <<cfg, activeRuleSlot>>
    <3>1. CASE (\E b \in AddBatches : BeginAdd(b)) \/ PrepareItem \/ LockAdd \/ RefuseItem
      BY <3>1 DEF BeginAdd, PrepareItem, LockAdd, RefuseItem, SkipItem
    <3>2. CASE InsertItem \/ DeleteOld \/ DeleteOldFails \/ AbortItem
      BY <3>2 DEF InsertItem, DeleteOld, DeleteOldFails, AbortItem, SkipItem, CommitItem
    <3>3. CASE FinishItems \/ RollbackItem \/ Reinsert \/ FinishRollback
      BY <3>3 DEF FinishItems, RollbackItem, Reinsert, FinishRollback, Return
    <3> QED
      BY <1>1, <3>1, <3>2, <3>3 DEF Add
  <2> QED
    BY <2>1
<1>2. CASE Delete
  <2>1. pc' \notin {"fill", "swap", "cleanup"} /\ UNCHANGED <<cfg, activeRuleSlot>>
    BY <1>2 DEF Delete, BeginDelete, DeleteFails, DeleteItem, FinishDelete, Return
  <2> QED
    BY <2>1
<1>3. CASE Sync
  <2>1. CASE SyncFlip
    BY <2>1 DEF SyncFlip
  <2>2. CASE SyncConfig
    BY <2>2 DEF SyncConfig
  <2>3. CASE \/ \E b \in SyncBatches : BeginSync(b)
             \/ SyncItem \/ SyncAbort \/ SyncPublishFails
    BY <2>3 DEF BeginSync, SyncItem, SyncAbort, SyncPublishFails, Return
  <2> QED
    BY <1>3, <2>1, <2>2, <2>3 DEF Sync, SyncClear, SyncCleanup
<1>4. CASE Publish
  BY <1>4 DEF Publish, PubCopy, PubWrite, PubFlip, PubFail, Return
<1> QED
  BY <1>1, <1>2, <1>3, <1>4 DEF Next

LEMMA AgentStep ==
  ASSUME ExactWhileWatched, DInv, EInv', Agent
  PROVE  PInv'
<1>0. EInv /\ PInv /\ Next /\ Observe /\ ExactWhileWatched'
  BY DEF DInv, Agent, ExactWhileWatched, Narrow, DistinctSyncs, Distinct
<1>1. CASE pkt' = NoPacket \/ (pkt.at = "none" /\ UNCHANGED pkt)
  BY <1>0, <1>1 DEF NoPacket, PInv, Places, Fields, Watched
<1>2. CASE pkt.at # "none" /\ Kept /\ pkt' = [pkt EXCEPT !.cleared = pkt.cleared \/ pc \in {"clear", "cleanup"}]
  <2> DEFINE r == pkt.rule
  <2>1. /\ pkt'.at = pkt.at /\ pkt'.id = pkt.id /\ pkt'.rule = r /\ pkt'.prog = pkt.prog
        /\ pkt'.slot = pkt.slot /\ pkt'.sel = pkt.sel
        /\ ~pkt'.cleared => ~pkt.cleared /\ pc \notin {"clear", "cleanup"}
        /\ DOMAIN pkt' = DOMAIN pkt
    BY <1>0, <1>2 DEF PInv, Fields
  <2>2. Watched'
    <3>1. pkt.id \in Ids /\ r # None
      BY <1>0, <1>2 DEF PInv, Watched, Present
    <3> QED
      BY <1>2, <2>1, <3>1 DEF Watched, Kept, Present
  <2>3. CASE pkt'.cleared
    BY <1>0, <2>1, <2>2, <2>3 DEF PInv, Fields
  <2>4. CASE ~pkt'.cleared
    <3>1. SlotRead /\ SelRead /\ Programs /\ pc \notin {"clear", "cleanup"}
      BY <1>0, <1>2, <2>1, <2>4 DEF PInv
    <3>2. /\ pkt.id \in Ids \ targets /\ r = committed[pkt.id] /\ r # None /\ r = rules[pkt.id]
          /\ Reaches(cfg[activeConfig], r) /\ cfg[activeConfig].ruleSel = activeRuleSlot
      BY <1>0, <1>2, RuleThere DEF PInv
    <3>3. bl'[activeRuleSlot'][r.key] = r.val
      BY <1>0, <1>2, <2>1, <2>2, RuleHitNext DEF Hit
    <3>4. /\ pc' \in {"fill", "swap"} => pc \in {"fill", "swap"} /\ UNCHANGED activeConfig
          /\ \/ UNCHANGED <<bl, cfg>> /\ pc' = "cleanup"
             \/ pc' # "cleanup" /\ UNCHANGED activeRuleSlot
      BY <1>0, <3>1, AgentFrame
    <3>5. ASSUME pkt.slot \in Slots, Reaches(cfg[pkt.slot], r), cfg[pkt.slot].ruleSel = activeRuleSlot,
                 pc \in {"fill", "swap"} => pkt.slot = activeConfig
          PROVE  Reaches(cfg'[pkt.slot], r) /\ cfg'[pkt.slot].ruleSel = activeRuleSlot
      <4> DEFINE s == Other(activeConfig)
      <4>0. /\ cfg \in [Slots -> Config] /\ s \in Slots /\ s # activeConfig /\ activeConfig \in Slots
        BY <1>0, TwoSlots DEF EInv, IInv, TypeOK, MapsOK
      <4> HIDE DEF s
      <4>1. CASE UNCHANGED cfg
        BY <3>5, <4>1
      <4>2. CASE PubCopy
        <5>1. cfg' = [cfg EXCEPT ![s] = cfg[activeConfig]]
          BY <4>2 DEF PubCopy, s
        <5> QED
          BY <3>2, <3>5, <4>0, <5>1
      <4>3. CASE PubWrite
        <5>1. /\ pc' = "flip" /\ UNCHANGED <<rules, activeConfig>>
              /\ cfg'[s].ruleSel = cfg[s].ruleSel
              /\ \A o \in Slots : o # s => cfg'[o] = cfg[o]
          BY <4>0, <4>3 DEF PubWrite, memory, s
        <5>2. Covers(cfg'[s], rules) /\ cfg'[s] \in Config
          BY <1>0, <4>0, <5>1 DEF EInv, IInv, ConfigsCover, TypeOK, MapsOK, s
        <5>3. pkt.id \in Present(rules)
          BY <3>2 DEF Present
        <5>4. Reaches(cfg'[s], r)
          BY <3>2, <5>2, <5>3, CoversReaches
        <5> QED
          BY <3>5, <5>1, <5>4
      <4>4. CASE SyncConfig
        <5>1. pkt.slot = activeConfig
          BY <3>5, <4>4 DEF SyncConfig
        <5>2. cfg'[activeConfig] = cfg[activeConfig]
          BY <4>0, <4>4 DEF SyncConfig, s
        <5> QED
          BY <3>5, <5>1, <5>2
      <4> QED
        BY <1>0, <3>1, <4>1, <4>2, <4>3, <4>4, AgentFrame
    <3>6. SlotRead'
      BY <2>1, <3>1, <3>3, <3>4, <3>5 DEF SlotRead
    <3>7. SelRead'
      BY <2>1, <3>1, <3>3, <3>4 DEF SelRead
    <3>8. Programs'
      BY <2>1, <3>1 DEF Programs
    <3> QED
      BY <1>0, <2>1, <2>2, <3>6, <3>7, <3>8 DEF PInv, Fields
  <2> QED
    BY <2>3, <2>4
<1> QED
  BY <1>0, <1>1, <1>2 DEF Observe

-----------------------------------------------------------------------------
(* The theorems *)

\* The packet only watches: with it, the agent makes the steps it makes without.
THEOREM PacketOnlyWatches == DSpec => Spec
<1>1. DInit => Init
  BY DEF DInit
<1>2. [DNext]_dvars => [Next]_vars
  BY DEF DNext, dvars, Agent, Packet
<1> QED
  BY <1>1, <1>2, PTL DEF DSpec, Spec

\* At every step the packet, as far as it is followed, is about to read something that
\* still leads it to its rule.
THEOREM PacketInvariance ==
  ASSUME ExactWhileWatched
  PROVE  DSpec => []DInv
<1>1. DInit => PInv
  BY DEF DInit, NoPacket, PInv, Places, Fields, Watched
<1>2. DInv /\ EInv' /\ [DNext]_dvars => PInv'
  <2> SUFFICES ASSUME DInv, EInv', [DNext]_dvars PROVE PInv'
    OBVIOUS
  <2>1. CASE Agent
    BY <2>1, AgentStep
  <2>2. CASE Packet
    BY <2>2, PacketStep
  <2>3. CASE UNCHANGED dvars
    BY <2>3 DEF dvars, vars, maps, memory, ghost, fvars, DInv, PInv, Fields, Watched, SlotRead, SelRead,
       Programs
  <2> QED
    BY <2>1, <2>2, <2>3 DEF DNext
<1> QED
  BY <1>1, <1>2, PacketOnlyWatches, ExactInvariance, PTL DEF DSpec, DInv

\* A packet that hits a rule in force, which no request touches meanwhile, is dropped
\* by xdp_firewall_main or xdp_anomaly_verify unless a rule map is emptied while it is
\* in them: no interleaving of its map reads with publishes and flips lets it through.
THEOREM NoFlipLeaks ==
  ASSUME ExactWhileWatched
  PROVE  DSpec => []FlipConsistent
<1>1. DInv => FlipConsistent
  BY DEF DInv, PInv, Programs, FlipConsistent
<1> QED
  BY <1>1, PacketInvariance, PTL
===========================================================================
