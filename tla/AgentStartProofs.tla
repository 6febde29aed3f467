-------------------------- MODULE AgentStartProofs --------------------------
(***************************************************************************)
(* For any interfaces and configurations, any number of lives and of       *)
(* failed operations: what a serving agent has attached, what a failed     *)
(* start leaves, whose entries the maps hold, what is restored on exit,    *)
(* and that a pinned link filters without a gap.                           *)
(***************************************************************************)
EXTENDS AgentStart, FiniteSetTheorems, TLAPS

-----------------------------------------------------------------------------
(* The inductive invariant *)

Early   == {"off", "loadMain", "loadGate", "clear", "wire"}
Linking == {"reuse", "attach", "pin", "serve"}
PCs     == Early \cup {"conf", "forward"} \cup Linking
Index   == 1 .. Len(cfg.ifs)

TypeOK ==
    /\ life \in 0 .. MaxLives /\ cfg \in Setups
    /\ pc \in PCs /\ at \in Index
    /\ sig \in {"none", "close", "restore", "exit"}
    /\ maps \in [Colls -> 0 .. MaxLives] /\ pinMaps \in [Colls -> 0 .. MaxLives]
    /\ content \in [Colls -> [Lives -> 0 .. MaxLives]] /\ ff \in [Lives -> BOOLEAN]
    /\ prog \in [Interfaces -> Lives \cup {None, Legacy}]
    /\ pin \in [Interfaces -> BOOLEAN] /\ fd \in [Interfaces -> BOOLEAN]
    /\ set \in [Interfaces -> SUBSET Features] /\ misread \in [Interfaces -> SUBSET Features]
    /\ saved \in [Interfaces -> {NoState} \cup SUBSET Features]
    /\ faults \in Nat /\ unrestored \in BOOLEAN

\* Where main is, and what has happened by then.
Phases ==
    /\ how # "none" => pc = "off"
    /\ pc # "off" => life \in Lives
    /\ pc \in Early => /\ at = 1 /\ sig = "none"
                       /\ \A i \in Interfaces : ~fd[i] /\ saved[i] = NoState
    /\ pc \in {"conf", "forward"} => Fast /\ \A i \in Interfaces : ~fd[i]
    /\ pc = "forward" => at = 1

\* The collections that are loaded.
Loaded == {c \in Colls : pc \notin {"off", "loadMain"} /\ (c = "gate" => pc # "loadGate")}

\* A set of maps and its entries are no older than the life that made them, and
\* unless something failed the pinning mode decides whose maps are in use.
MapsKnown ==
    /\ \A c \in Colls : maps[c] <= life /\ pinMaps[c] <= life
    /\ \A c \in Loaded : /\ maps[c] \in Lives
                         /\ faults = 0 => maps[c] = IF cfg.mode = "disable" THEN life
                                                    ELSE pinMaps[c]
    /\ \A c \in Colls, m \in Lives : content[c][m] # 0 => content[c][m] \in m .. life

\* A program stays exactly as long as its link; main has resolved the links
\* before the present one and holds no later one.
LinksHeld ==
    /\ \A i \in Interfaces : prog[i] \in Lives <=> pin[i] \/ fd[i]
    /\ pc \in {"reuse", "attach"} => \A k \in Index : k >= at => ~fd[cfg.ifs[k]]
    /\ pc = "attach" /\ faults = 0 => ~pin[Iface]
    /\ pc = "pin" => /\ fd[Iface] /\ prog[Iface] = life
                     /\ \A k \in Index : k > at => ~fd[cfg.ifs[k]]

\* Until a signal comes, what is resolved is attached, and pinned if it has to be.
Resolving ==
    pc \in Linking /\ sig = "none" =>
        \A k \in Index : k < at \/ pc = "serve" =>
            LET i == cfg.ifs[k]
            IN  fd[i] /\ prog[i] = life /\ (cfg.mode = "require" => pin[i])

Forwarding == pc \in Linking => ff[maps["main"]] = Fast

\* An interface that is not remembered has its features; one that is remembered
\* gets them back from what is remembered and what is on now.
Undoable(was, now, before, unread) ==
    IF was = NoState THEN AsBefore(now, before, unread)
    ELSE /\ AsBefore(was, before, unread)
         /\ now \cap Offloads \subseteq before
         /\ was \cap Flags \subseteq now

\* What was changed is remembered as far as it could be read, until it is restored.
Remembered ==
    /\ ~unrestored => \A i \in Interfaces : Undoable(saved[i], set[i], Original[i], misread[i])
    /\ pc = "conf" => \A i \in Interfaces : saved[i] # NoState => at = 2 /\ i = cfg.ifs[1]
    /\ sig = "exit" /\ ~unrestored => \A i \in Interfaces : saved[i] = NoState

IInv ==
    /\ TypeOK /\ Phases /\ MapsKnown /\ CleanStart /\ LinksHeld /\ Resolving
    /\ Forwarding /\ Remembered /\ RolledBack

-----------------------------------------------------------------------------
(* What the steps have in common *)

\* The places of one interface or of a pair.
LEMMA Places ==
    ASSUME NEW n \in {1, 2}
    PROVE  /\ 1 \in 1 .. n /\ (n = 2 => 2 \in 1 .. n)
           /\ \A k \in 1 .. n : k \in {1, 2} /\ (k = 2 => n = 2)
OBVIOUS

\* The interfaces of the configuration in use.
LEMMA SetupFacts ==
    ASSUME TypeOK
    PROVE  /\ Len(cfg.ifs) \in {1, 2} /\ cfg.mode \in {"auto", "require", "disable"}
           /\ \A k \in Index : cfg.ifs[k] \in Interfaces
           /\ 1 \in Index /\ at \in {1, 2}
           /\ \A k \in Index : k = 1 \/ (k = 2 /\ Fast)
           /\ Fast => 2 \in Index /\ cfg.ifs[1] # cfg.ifs[2]
           /\ Managed = {cfg.ifs[k] : k \in Index}
           /\ Iface \in Interfaces
<1>1. /\ cfg.ifs \in Seq(Interfaces) /\ Len(cfg.ifs) \in {1, 2}
      /\ cfg.mode \in {"auto", "require", "disable"}
      /\ Len(cfg.ifs) = 2 => cfg.ifs[1] # cfg.ifs[2]
  BY AgentStartAssumption DEF TypeOK
<1>2. /\ 1 \in Index /\ (Fast => 2 \in Index)
      /\ \A k \in Index : k \in {1, 2} /\ (k = 2 => Fast)
  BY <1>1, Places DEF Index, Fast
<1>3. \A k \in Index : cfg.ifs[k] \in Interfaces
  BY <1>1 DEF Index
<1>4. at \in Index
  BY DEF TypeOK
<1> QED
  BY <1>1, <1>2, <1>3, <1>4 DEF Fast, Managed, Iface, Index

\* A failed operation is counted.
LEMMA FaultFacts ==
    ASSUME TypeOK
    PROVE  /\ NoFault => faults' = faults
           /\ Fault => faults' \in Nat /\ faults' # 0
           /\ FaultOrClosed => faults' \in Nat /\ faults' >= faults
           /\ FaultOrClosed /\ ~Closed => faults' # 0
BY DEF TypeOK, NoFault, Fault, FaultOrClosed

\* RestoreInterface, when no command fails.
LEMMA PutBackFacts ==
    ASSUME NEW was \in SUBSET Features, NEW now \in SUBSET Features,
           NEW before \in SUBSET Features, NEW unread,
           Undoable(was, now, before, unread)
    PROVE  AsBefore(PutBack(now, was, {}), before, unread)
<1>1. was # NoState
  BY AgentStartAssumption
<1> QED
  BY <1>1, AgentStartAssumption DEF Undoable, AsBefore, PutBack, Features

\* RestoreAll puts back what was changed, or says that it could not.
LEMMA RestoreFacts ==
    ASSUME TypeOK, NEW states \in [Interfaces -> {NoState} \cup SUBSET Features],
           NEW now \in [Interfaces -> SUBSET Features],
           NEW unread \in [Interfaces -> SUBSET Features],
           ~unrestored => \A i \in Interfaces :
               Undoable(states[i], now[i], Original[i], unread[i]),
           RestoreAll(states, now)
    PROVE  /\ set' \in [Interfaces -> SUBSET Features] /\ unrestored' \in BOOLEAN
           /\ ~unrestored' => \A i \in Interfaces :
                  AsBefore(set'[i], Original[i], unread[i])
<1> PICK stuck \in SUBSET (Interfaces \X Features) :
        /\ set' = [i \in Interfaces |->
                       IF states[i] = NoState THEN now[i]
                       ELSE PutBack(now[i], states[i], {f \in Features : <<i, f>> \in stuck})]
        /\ unrestored' = (unrestored \/
               \E i \in Interfaces : /\ states[i] # NoState
                                     /\ set'[i] # PutBack(now[i], states[i], {}))
  BY DEF RestoreAll
<1>1. set' \in [Interfaces -> SUBSET Features]
  <2>1. \A i \in Interfaces : states[i] # NoState => states[i] \in SUBSET Features
    OBVIOUS
  <2>2. ASSUME NEW x \in SUBSET Features, NEW y \in SUBSET Features, NEW z
        PROVE  PutBack(x, y, z) \in SUBSET Features
    BY DEF PutBack
  <2> QED
    BY <2>1, <2>2
<1>2. unrestored' \in BOOLEAN /\ (~unrestored' => ~unrestored)
  BY DEF TypeOK
<1>3. ASSUME ~unrestored', NEW i \in Interfaces
      PROVE  AsBefore(set'[i], Original[i], unread[i])
  <2>1. Undoable(states[i], now[i], Original[i], unread[i])
    BY <1>2, <1>3
  <2>2. CASE states[i] = NoState
    BY <2>1, <2>2 DEF Undoable
  <2>3. CASE states[i] # NoState
    <3>1. set'[i] = PutBack(now[i], states[i], {})
      BY <1>3, <2>3
    <3>2. Original[i] \in SUBSET Features /\ states[i] \in SUBSET Features
      BY <2>3, AgentStartAssumption
    <3> QED
      BY <2>1, <3>1, <3>2, PutBackFacts
  <2> QED
    BY <2>2, <2>3
<1> QED
  BY <1>1, <1>2, <1>3

\* However a process ends: with no more pins than before, and with its interfaces
\* restored or the history knowing of it.
LEMMA EndsInv ==
    ASSUME IInv, NEW h, NEW p \in [Interfaces -> BOOLEAN], Ends(h, p),
           \A i \in Interfaces : p[i] => pin[i],
           faults' \in Nat, faults' >= faults,
           set' \in [Interfaces -> SUBSET Features], unrestored' \in BOOLEAN,
           misread' \in [Interfaces -> SUBSET Features],
           ~unrestored' => \A i \in Interfaces : AsBefore(set'[i], Original[i], misread'[i]),
           h = "rolledBack" => ~p[cfg.ifs[1]]
    PROVE  IInv'
<1> USE DEF Early, Linking, PCs
<1>1. TypeOK'
  BY SetupFacts DEF IInv, Ends, TypeOK, Index, Attached, NoFds, NoStates, bpffs
<1>2. Phases'
  BY DEF Ends, Phases, NoFds, NoStates
<1>3. MapsKnown'
  BY DEF IInv, Ends, MapsKnown, Loaded, bpffs
<1>4. CleanStart'
  BY DEF Ends, CleanStart
<1>5. \A i \in Interfaces : /\ prog'[i] \in Lives <=> p[i]
                            /\ pin'[i] = p[i] /\ fd'[i] = FALSE
  BY DEF IInv, Ends, LinksHeld, Attached, NoFds, Lives, None
<1>6. LinksHeld'
  BY <1>5 DEF Ends, LinksHeld
<1>7. Resolving' /\ Forwarding'
  BY DEF Ends, Resolving, Forwarding
<1>8. Remembered'
  BY DEF Ends, Remembered, NoStates, Undoable
<1>9. RolledBack'
  <2>1. cfg.ifs[1] \in Interfaces
    BY SetupFacts DEF IInv
  <2> QED
    BY <1>5, <2>1 DEF Ends, RolledBack
<1> QED
  BY <1>1, <1>2, <1>3, <1>4, <1>6, <1>7, <1>8, <1>9 DEF IInv

\* log.Fatalf, with and without RestoreAll.
LEMMA FatalInv ==
    ASSUME IInv, Fatal, faults' \in Nat, faults' >= faults
    PROVE  IInv'
<1>1. pin \in [Interfaces -> BOOLEAN]
  BY DEF IInv, TypeOK
<1>2. /\ Ends("fatal", pin) /\ set' = set /\ misread' = misread /\ unrestored' \in BOOLEAN
      /\ ~unrestored' => ~unrestored /\ saved = NoStates
  BY DEF Fatal, IInv, TypeOK
<1>3. /\ set' \in [Interfaces -> SUBSET Features]
      /\ misread' \in [Interfaces -> SUBSET Features]
  BY <1>2 DEF IInv, TypeOK
<1>4. ~unrestored' => \A i \in Interfaces : AsBefore(set'[i], Original[i], misread'[i])
  BY <1>2 DEF IInv, Remembered, Undoable, NoStates
<1> QED
  BY <1>1, <1>2, <1>3, <1>4, EndsInv

LEMMA FatalRestoredInv ==
    ASSUME IInv, NEW h, NEW p \in [Interfaces -> BOOLEAN], FatalRestored(h, p),
           \A i \in Interfaces : p[i] => pin[i],
           faults' \in Nat, faults' >= faults,
           h = "rolledBack" => ~p[cfg.ifs[1]]
    PROVE  IInv'
<1>1. Ends(h, p) /\ RestoreAll(saved, set) /\ misread' = misread
  BY DEF FatalRestored
<1>2. /\ TypeOK /\ set \in [Interfaces -> SUBSET Features]
      /\ misread \in [Interfaces -> SUBSET Features]
      /\ saved \in [Interfaces -> {NoState} \cup SUBSET Features]
      /\ ~unrestored => \A i \in Interfaces :
             Undoable(saved[i], set[i], Original[i], misread[i])
  BY DEF IInv, TypeOK, Remembered
<1>3. /\ set' \in [Interfaces -> SUBSET Features] /\ unrestored' \in BOOLEAN
      /\ ~unrestored' => \A i \in Interfaces :
             AsBefore(set'[i], Original[i], misread'[i])
  BY <1>1, <1>2, RestoreFacts
<1> QED
  BY <1>1, <1>2, <1>3, EndsInv

\* A start that could not attach an interface.
LEMMA RollbackInv ==
    ASSUME IInv, Rollback, faults' \in Nat, faults' >= faults
    PROVE  IInv'
<1> DEFINE p == [pin EXCEPT ![cfg.ifs[1]] = FALSE]
<1>1. pin \in [Interfaces -> BOOLEAN] /\ cfg.ifs[1] \in Interfaces
  BY SetupFacts DEF IInv, TypeOK
<1>2. /\ p \in [Interfaces -> BOOLEAN] /\ ~p[cfg.ifs[1]]
      /\ \A i \in Interfaces : p[i] => pin[i]
  BY <1>1
<1>3. \/ FatalRestored("rolledBack", p)
      \/ FatalRestored("stuck", pin) \/ FatalRestored("fatal", pin) \/ Fatal
  BY DEF Rollback
<1> HIDE DEF p
<1> QED
  BY <1>1, <1>2, <1>3, FatalInv, FatalRestoredInv

-----------------------------------------------------------------------------
(* One lemma per action *)

LEMMA InitInv == Init => IInv
<1> SUFFICES ASSUME Init PROVE IInv
  OBVIOUS
<1> USE DEF Init, Early, Linking, PCs, NoFds, NoStates
<1>1. TypeOK
  <2>1. Len(cfg.ifs) \in {1, 2}
    BY AgentStartAssumption
  <2>2. 1 \in Index
    BY <2>1, Places DEF Index
  <2>3. 0 \in 0 .. MaxLives
    BY AgentStartAssumption
  <2> QED
    BY <2>2, <2>3, AgentStartAssumption DEF TypeOK
<1>2. Phases /\ CleanStart /\ Resolving /\ Forwarding /\ Remembered /\ RolledBack
  BY DEF Phases, CleanStart, Resolving, Forwarding, Remembered, RolledBack, Undoable, AsBefore
<1>3. MapsKnown
  BY DEF MapsKnown, Loaded
<1>4. LinksHeld
  BY DEF LinksHeld, Lives, None, Legacy
<1> QED
  BY <1>1, <1>2, <1>3, <1>4 DEF IInv

LEMMA CrashInv ==
    ASSUME IInv, Crash PROVE IInv'
<1>1. pin \in [Interfaces -> BOOLEAN] /\ set' \in [Interfaces -> SUBSET Features]
      /\ misread' \in [Interfaces -> SUBSET Features] /\ faults' \in Nat /\ faults' >= faults
  BY DEF Crash, IInv, TypeOK
<1> QED
  BY <1>1, EndsInv DEF Crash

LEMMA BootInv ==
    ASSUME IInv, NEW c \in Setups, Boot(c) PROVE IInv'
<1> USE DEF Early, Linking, PCs, Boot, kernel, nics
<1>1. TypeOK'
  <2>1. Len(c.ifs) \in {1, 2}
    BY AgentStartAssumption
  <2>2. life + 1 \in 0 .. MaxLives
    BY AgentStartAssumption DEF IInv, TypeOK
  <2>3. at' \in Index'
    BY <2>1 DEF Index
  <2>4. 0 \in 0 .. MaxLives
    BY AgentStartAssumption
  <2> QED
    BY <2>2, <2>3, <2>4 DEF IInv, TypeOK
<1>2. Phases'
  BY AgentStartAssumption DEF IInv, TypeOK, Phases, Lives
<1>3. MapsKnown'
  BY DEF IInv, TypeOK, MapsKnown, Loaded, Lives
<1>4. CleanStart' /\ Resolving' /\ Forwarding' /\ RolledBack'
  BY DEF CleanStart, Resolving, Forwarding, RolledBack
<1>5. LinksHeld'
  BY DEF IInv, LinksHeld
<1>6. Remembered'
  BY DEF IInv, Remembered
<1> QED
  BY <1>1, <1>2, <1>3, <1>4, <1>5, <1>6 DEF IInv

\* A collection is loaded on its own pinned maps, on new ones, or not at all.
LEMMA LoadInv ==
    ASSUME IInv,
           LoadMain \/ LoadGate
    PROVE  IInv'
<1>1. PICK c \in Colls, here \in {"loadMain", "loadGate"}, next \in {"loadGate", "clear"} :
          /\ Load(c, here, next)
          /\ c = "main" => here = "loadMain" /\ next = "loadGate"
          /\ c = "gate" => here = "loadGate" /\ next = "clear"
  BY DEF LoadMain, LoadGate, Colls
<1>2. CASE Fault /\ Fatal
  BY <1>2, FatalInv, FaultFacts DEF IInv, TypeOK, Fault
<1>3. ASSUME NEW m \in Lives, m <= life, pc = here, pc' = next,
             maps' = [maps EXCEPT ![c] = m],
             NEW n \in 0 .. life, pinMaps' = [pinMaps EXCEPT ![c] = n],
             faults' \in Nat, faults' = 0 => faults = 0,
             faults' = 0 => m = IF cfg.mode = "disable" THEN life ELSE n,
             UNCHANGED <<process, sig, content, ff, kernel, nics, how>>
      PROVE  IInv'
  <2> USE <1>1, <1>3 DEF Early, Linking, PCs, process, kernel, nics
  <2>1. TypeOK'
    <3>1. m \in 0 .. MaxLives /\ n \in 0 .. MaxLives
      BY AgentStartAssumption DEF IInv, TypeOK, Lives
    <3> QED
      BY <3>1 DEF IInv, TypeOK, Index, Colls
  <2>2. Phases'
    BY DEF IInv, Phases, Colls
  <2>3. MapsKnown'
    <3>1. Loaded' = Loaded \cup {c}
      BY DEF Loaded, Colls
    <3>2. maps'[c] = m /\ pinMaps'[c] = n /\ \A d \in Colls \ {c} : maps'[d] = maps[d] /\ pinMaps'[d] = pinMaps[d]
      BY DEF IInv, TypeOK
    <3>3. \A d \in Colls : maps'[d] <= life' /\ pinMaps'[d] <= life'
      BY <3>2 DEF IInv, TypeOK, MapsKnown
    <3>4. ASSUME NEW d \in Loaded'
          PROVE  /\ maps'[d] \in Lives
                 /\ faults' = 0 => maps'[d] = IF cfg'.mode = "disable" THEN life' ELSE pinMaps'[d]
      <4>1. CASE d = c
        BY <3>2, <4>1
      <4>2. CASE d # c
        BY <3>1, <3>2, <4>2 DEF IInv, MapsKnown, Loaded
      <4> QED
        BY <4>1, <4>2
    <3> QED
      BY <3>3, <3>4 DEF IInv, MapsKnown
  <2>4. CleanStart' /\ Resolving' /\ Forwarding' /\ RolledBack'
    BY DEF IInv, Phases, CleanStart, Resolving, Forwarding, RolledBack, Colls
  <2>5. LinksHeld'
    BY DEF IInv, LinksHeld, Colls
  <2>6. Remembered'
    BY DEF IInv, Remembered, Colls
  <2> QED
    BY <2>1, <2>2, <2>3, <2>4, <2>5, <2>6 DEF IInv
<1>4. life \in Lives
  BY <1>1 DEF IInv, Phases, Load, Colls, Early
<1>5. ASSUME NEW m \in {pinMaps[c], life} \ {0}, cfg.mode # "disable", NoFault,
             pc = here, pc' = next,
             maps' = [maps EXCEPT ![c] = m], pinMaps' = [pinMaps EXCEPT ![c] = m],
             UNCHANGED <<process, sig, content, ff, kernel, nics, how>>
      PROVE  IInv'
  <2>1. m \in Lives /\ m <= life /\ m \in 0 .. life
    BY <1>4 DEF IInv, TypeOK, MapsKnown, Lives
  <2>2. faults' \in Nat /\ faults' = faults
    BY <1>5 DEF IInv, TypeOK, NoFault
  <2> QED
    BY <1>3, <1>5, <2>1, <2>2
<1>6. ASSUME (cfg.mode = "disable" /\ NoFault) \/ (cfg.mode = "auto" /\ Fault),
             pc = here, pc' = next, maps' = [maps EXCEPT ![c] = life],
             pinMaps' \in {pinMaps, [pinMaps EXCEPT ![c] = 0]},
             UNCHANGED <<process, sig, content, ff, kernel, nics, how>>
      PROVE  IInv'
  <2>1. life <= life
    BY DEF IInv, TypeOK
  <2>2. faults' \in Nat /\ (faults' = 0 => faults = 0 /\ cfg.mode = "disable")
    BY <1>6, FaultFacts DEF IInv, TypeOK
  <2>3. PICK n \in 0 .. life : pinMaps' = [pinMaps EXCEPT ![c] = n]
    <3>1. pinMaps[c] \in 0 .. life /\ 0 \in 0 .. life /\ pinMaps = [pinMaps EXCEPT ![c] = pinMaps[c]]
      BY DEF IInv, TypeOK, MapsKnown
    <3> QED
      BY <1>6, <3>1
  <2> QED
    BY <1>3, <1>4, <1>6, <2>1, <2>2, <2>3
<1> QED
  BY <1>1, <1>2, <1>5, <1>6 DEF Load

\* ClearDataMaps: without a failure nothing of an earlier life is left, because the
\* pinned maps are emptied and maps that are not pinned are new.
LEMMA ClearInv ==
    ASSUME IInv, ClearDataMaps PROVE IInv'
<1> USE DEF Early, Linking, PCs, ClearDataMaps, process, kernel, nics
<1>1. PICK failed \in SUBSET Colls :
        /\ IF failed = {} THEN NoFault ELSE Pinned("main") /\ Fault
        /\ content' = [c \in Colls |->
               IF Pinned("main") /\ c \notin failed
               THEN [content[c] EXCEPT ![maps[c]] = 0] ELSE content[c]]
  OBVIOUS
<1>2. faults' \in Nat /\ (faults' = 0 => faults = 0 /\ failed = {})
  BY <1>1, FaultFacts DEF IInv, TypeOK
<1>3. /\ content' \in [Colls -> [Lives -> 0 .. MaxLives]]
      /\ \A c \in Colls, m \in Lives :
           content'[c][m] = IF Pinned("main") /\ c \notin failed /\ m = maps[c] THEN 0 ELSE content[c][m]
  <2>1. 0 \in 0 .. MaxLives
    BY AgentStartAssumption
  <2>2. \A c \in Colls : content[c] \in [Lives -> 0 .. MaxLives]
    BY DEF IInv, TypeOK
  <2> QED
    BY <1>1, <2>1, <2>2
<1>4. /\ pc = "clear" /\ pc' = "wire"
      /\ UNCHANGED <<life, cfg, at, sig, maps, pinMaps, ff, prog, pin, fd, how>>
      /\ UNCHANGED <<set, saved, misread, unrestored>>
  OBVIOUS
<1>5. Colls = Loaded /\ Loaded' = Loaded
  BY <1>4 DEF Loaded, Colls
<1>6. TypeOK'
  BY <1>2, <1>3, <1>4 DEF IInv, TypeOK, Index
<1>7. Phases' /\ Resolving' /\ Forwarding' /\ RolledBack'
  BY <1>4 DEF IInv, Phases, Resolving, Forwarding, RolledBack
<1>8. MapsKnown'
  BY <1>2, <1>3, <1>4, <1>5 DEF IInv, TypeOK, MapsKnown
<1>9. LinksHeld' /\ Remembered'
  BY <1>4 DEF IInv, LinksHeld, Remembered
<1>10. CleanStart'
  <2> SUFFICES ASSUME faults' = 0, NEW c \in Colls
               PROVE  content'[c][maps[c]] \in {0, life}
    BY <1>4 DEF CleanStart
  <2>1. maps[c] \in Lives /\ maps["main"] \in Lives /\ life \in 0 .. MaxLives
    BY <1>5 DEF IInv, TypeOK, MapsKnown, Colls
  <2>2. CASE cfg.mode = "disable"
    <3>1. maps[c] = life
      BY <1>2, <1>5, <2>2 DEF IInv, MapsKnown
    <3>2. content[c][maps[c]] = 0 \/ content[c][maps[c]] \in life .. life
      BY <2>1, <3>1 DEF IInv, MapsKnown
    <3> QED
      BY <1>3, <2>1, <3>2
  <2>3. CASE cfg.mode # "disable"
    <3>1. maps["main"] = pinMaps["main"]
      BY <1>2, <1>5, <2>3 DEF IInv, MapsKnown, Colls
    <3>2. Pinned("main")
      BY <2>1, <3>1 DEF Pinned, Lives
    <3> QED
      BY <1>2, <1>3, <2>1, <3>2
  <2> QED
    BY <2>2, <2>3
<1> QED
  BY <1>6, <1>7, <1>8, <1>9, <1>10 DEF IInv

LEMMA WireInv ==
    ASSUME IInv, Wire PROVE IInv'
<1>1. CASE Fault /\ Fatal
  BY <1>1, FatalInv, FaultFacts DEF IInv, TypeOK, Fault
<1>2. CASE /\ pc = "wire" /\ ff' = [ff EXCEPT ![maps["main"]] = FALSE] /\ NoFault
           /\ pc' = IF Fast THEN "conf" ELSE "reuse"
           /\ UNCHANGED <<process, sig, maps, pinMaps, content, kernel, nics, how>>
  <2> USE <1>2 DEF Early, Linking, PCs, process, kernel, nics, NoFault
  <2>1. maps["main"] \in Lives
    BY DEF IInv, MapsKnown, Loaded, Colls
  <2>2. TypeOK'
    BY DEF IInv, TypeOK, Index
  <2>3. Phases'
    BY DEF IInv, Phases, Fast
  <2>4. MapsKnown' /\ CleanStart' /\ RolledBack'
    BY DEF IInv, MapsKnown, Loaded, CleanStart, RolledBack
  <2>5. at = 1 /\ \A i \in Interfaces : ~fd[i] /\ saved[i] = NoState
    BY DEF IInv, Phases
  <2>6. LinksHeld'
    <3>1. \A k \in Index : cfg.ifs[k] \in Interfaces
      BY SetupFacts DEF IInv
    <3> QED
      BY <2>5, <3>1 DEF IInv, LinksHeld, Index
  <2>7. Resolving'
    BY <2>5 DEF Resolving, Index
  <2>8. Forwarding'
    BY <2>1 DEF IInv, TypeOK, Forwarding, Fast
  <2>9. Remembered'
    BY <2>5 DEF IInv, Remembered
  <2> QED
    BY <2>2, <2>3, <2>4, <2>6, <2>7, <2>8, <2>9 DEF IInv
<1> QED
  BY <1>1, <1>2 DEF Wire

\* Commands that fail are counted one by one.
LEMMA FaultsFacts ==
    ASSUME TypeOK, NEW lost \in SUBSET Features, NEW stuck \in SUBSET Features
    PROVE  /\ Faults(Cardinality(lost) + Cardinality(stuck)) =>
                  faults' \in Nat /\ faults' >= faults
           /\ Faults(Cardinality(lost) + 1) => faults' \in Nat /\ faults' >= faults
<1>1. IsFiniteSet(Flags)
  <2>1. IsFiniteSet({"up"} \cup {"promisc"})
    BY FS_Singleton, FS_Union
  <2> QED
    BY <2>1, Zenon DEF Flags
<1>2. IsFiniteSet(Features)
  BY <1>1, AgentStartAssumption, FS_Union DEF Features
<1>3. Cardinality(lost) \in Nat /\ Cardinality(stuck) \in Nat
  BY <1>2, FS_Subset, FS_CardinalityType
<1> QED
  BY <1>3 DEF TypeOK, Faults

\* An interface is configured: what is remembered undoes it.
LEMMA ConfiguredUndoable ==
    ASSUME NEW now \in SUBSET Features, NEW before \in SUBSET Features,
           NEW unread \in SUBSET Features, AsBefore(now, before, unread),
           NEW lost \in SUBSET (now \ {"up"}), NEW stuck \in SUBSET (now \cap Offloads),
           NEW done \in SUBSET Flags
    PROVE  /\ Undoable(now \ lost, Flags \cup stuck, before, unread \cup lost)
           /\ Undoable(now \ lost, now \cup done, before, unread \cup lost)
<1>1. now \ lost # NoState
  BY AgentStartAssumption
<1>2. AsBefore(now \ lost, before, unread \cup lost)
  BY DEF AsBefore
<1> QED
  BY <1>1, <1>2, AgentStartAssumption DEF Undoable, AsBefore, Features

\* ConfigureInterface remembers what it changes, except for what it cannot read.
LEMMA ConfigureInv ==
    ASSUME IInv, ConfigureInterface PROVE IInv'
<1> USE DEF Early, Linking, PCs
<1>0. /\ pc = "conf" /\ Fast /\ cfg.ifs[1] # cfg.ifs[2] /\ at \in {1, 2}
      /\ Iface \in Interfaces /\ pin \in [Interfaces -> BOOLEAN]
      /\ \A k \in {1, 2} : k \in Index /\ cfg.ifs[k] \in Interfaces
  BY SetupFacts DEF IInv, TypeOK, Phases, ConfigureInterface
<1>1. saved[Iface] = NoState /\ (at = 1 => saved = NoStates)
  <2>1. saved[Iface] = NoState /\ (at = 1 => \A i \in Interfaces : saved[i] = NoState)
    BY <1>0 DEF IInv, TypeOK, Remembered, Iface
  <2> QED
    BY <2>1 DEF IInv, TypeOK, NoStates
<1>2. /\ set \in [Interfaces -> SUBSET Features] /\ misread \in [Interfaces -> SUBSET Features]
      /\ saved \in [Interfaces -> {NoState} \cup SUBSET Features] /\ faults \in Nat
      /\ TypeOK /\ unrestored \in BOOLEAN
      /\ \A i \in Interfaces : Original[i] \in SUBSET Features
      /\ ~unrestored => \A i \in Interfaces :
             Undoable(saved[i], set[i], Original[i], misread[i])
  BY AgentStartAssumption DEF IInv, TypeOK, Remembered
\* The process gives up.
<1>3. ASSUME NEW states \in [Interfaces -> {NoState} \cup SUBSET Features],
             NEW now \in [Interfaces -> SUBSET Features],
             NEW unread \in [Interfaces -> SUBSET Features], misread' = unread,
             ~unrestored => \A i \in Interfaces :
                 Undoable(states[i], now[i], Original[i], unread[i]),
             at = 1 /\ now = set /\ ~unrestored => \A i \in Interfaces :
                 AsBefore(set[i], Original[i], unread[i]),
             GiveUp(states, now), faults' \in Nat, faults' >= faults
      PROVE  IInv'
  <2>1. /\ set' \in [Interfaces -> SUBSET Features] /\ unrestored' \in BOOLEAN
        /\ ~unrestored' => \A i \in Interfaces :
               AsBefore(set'[i], Original[i], misread'[i])
    <3>1. CASE at = 1
      BY <1>0, <1>2, <1>3, <3>1 DEF GiveUp
    <3>2. CASE at = 2
      <4>1. RestoreAll(states, now)
        BY <1>3, <3>2 DEF GiveUp
      <4> QED
        BY <1>2, <1>3, <4>1, RestoreFacts
    <3> QED
      BY <1>0, <3>1, <3>2
  <2>2. Ends("fatal", pin)
    BY <1>3 DEF GiveUp
  <2> QED
    BY <1>0, <1>3, <2>1, <2>2, EndsInv
\* The interface cannot be found.
<1>4. CASE Fault /\ GiveUp(saved, set) /\ UNCHANGED misread
  <2>1. faults' \in Nat /\ faults' >= faults
    BY <1>2, <1>4 DEF Fault
  <2>2. at = 1 /\ ~unrestored => \A i \in Interfaces :
            AsBefore(set[i], Original[i], misread[i])
    BY <1>1, <1>2 DEF Undoable, NoStates
  <2> QED
    BY <1>2, <1>3, <1>4, <2>1, <2>2
\* What is saved and what is lost.
<1>5. ASSUME NEW lost \in SUBSET (set[Iface] \ {"up"})
      PROVE  /\ lost \in SUBSET Features
             /\ set[Iface] \ lost \in {NoState} \cup SUBSET Features
             /\ misread[Iface] \cup lost \in SUBSET Features
             /\ ~unrestored => AsBefore(set[Iface], Original[Iface], misread[Iface])
  BY <1>0, <1>1, <1>2, <1>5 DEF Undoable
\* It cannot be brought up or made promiscuous.
<1>6. ASSUME NEW lost \in SUBSET (set[Iface] \ {"up"}),
             NEW done \in {{}, {"up"}},
             misread' = [misread EXCEPT ![Iface] = @ \cup lost],
             Faults(Cardinality(lost) + 1),
             GiveUp([saved EXCEPT ![Iface] = set[Iface] \ lost],
                    [set EXCEPT ![Iface] = @ \cup done])
      PROVE  IInv'
  <2>0. PICK states : states = [saved EXCEPT ![Iface] = set[Iface] \ lost]
    OBVIOUS
  <2>1. PICK unread : unread = [misread EXCEPT ![Iface] = @ \cup lost]
    OBVIOUS
  <2>2. PICK now : now = [set EXCEPT ![Iface] = @ \cup done]
    OBVIOUS
  <2>3. /\ states \in [Interfaces -> {NoState} \cup SUBSET Features]
        /\ unread \in [Interfaces -> SUBSET Features] /\ lost \in SUBSET Features
        /\ \A i \in Interfaces \ {Iface} : states[i] = saved[i] /\ unread[i] = misread[i]
        /\ states[Iface] = set[Iface] \ lost /\ unread[Iface] = misread[Iface] \cup lost
        /\ ~unrestored => AsBefore(set[Iface], Original[Iface], misread[Iface])
    BY <1>0, <1>2, <1>5, <2>0, <2>1
  <2>4. /\ now \in [Interfaces -> SUBSET Features] /\ done \in SUBSET Flags
        /\ now[Iface] = set[Iface] \cup done
        /\ \A i \in Interfaces \ {Iface} : now[i] = set[i]
    <3>1. done \in SUBSET Flags /\ done \in SUBSET Features
      BY DEF Flags, Features
    <3> QED
      BY <1>0, <1>2, <2>2, <3>1
  <2>5. ~unrestored => \A i \in Interfaces :
            Undoable(states[i], now[i], Original[i], unread[i])
    <3> SUFFICES ASSUME ~unrestored, NEW i \in Interfaces
                 PROVE  Undoable(states[i], now[i], Original[i], unread[i])
      OBVIOUS
    <3>1. CASE i = Iface
      <4>1. {} \in SUBSET (set[Iface] \cap Offloads)
        OBVIOUS
      <4>2. Undoable(set[Iface] \ lost, set[Iface] \cup done, Original[Iface],
                     misread[Iface] \cup lost)
        BY <1>0, <1>2, <2>3, <2>4, <4>1, ConfiguredUndoable
      <4> QED
        BY <2>3, <2>4, <3>1, <4>2
    <3>2. CASE i # Iface
      BY <1>2, <2>3, <2>4, <3>2
    <3> QED
      BY <3>1, <3>2
  <2>6. at = 1 /\ ~unrestored => \A i \in Interfaces :
            AsBefore(set[i], Original[i], unread[i])
    <3> SUFFICES ASSUME at = 1, ~unrestored, NEW i \in Interfaces
                 PROVE  AsBefore(set[i], Original[i], unread[i])
      OBVIOUS
    <3>1. AsBefore(set[i], Original[i], misread[i])
      BY <1>1, <1>2 DEF Undoable, NoStates
    <3>2. misread[i] \subseteq unread[i]
      BY <2>3
    <3> QED
      BY <3>1, <3>2 DEF AsBefore
  <2>7. faults' \in Nat /\ faults' >= faults
    BY <1>2, <1>6, <2>3, FaultsFacts
  <2> QED
    BY <1>3, <1>6, <2>0, <2>1, <2>2, <2>3, <2>4, <2>5, <2>6, <2>7
\* It is configured.
<1>7. ASSUME NEW lost \in SUBSET (set[Iface] \ {"up"}),
             NEW stuck \in SUBSET (set[Iface] \cap Offloads),
             misread' = [misread EXCEPT ![Iface] = @ \cup lost],
             Faults(Cardinality(lost) + Cardinality(stuck)),
             saved' = [saved EXCEPT ![Iface] = set[Iface] \ lost],
             set' = [set EXCEPT ![Iface] = Flags \cup stuck],
             unrestored' = (unrestored \/ Closed),
             IF at = 1 THEN at' = 2 /\ UNCHANGED pc ELSE at' = 1 /\ pc' = "forward",
             UNCHANGED <<life, cfg, sig, bpffs, kernel, how>>
      PROVE  IInv'
  <2> USE DEF bpffs, kernel
  <2>0. /\ saved' \in [Interfaces -> {NoState} \cup SUBSET Features]
        /\ misread' \in [Interfaces -> SUBSET Features]
        /\ lost \in SUBSET Features /\ stuck \in SUBSET Features
        /\ \A i \in Interfaces \ {Iface} : saved'[i] = saved[i] /\ misread'[i] = misread[i]
        /\ saved'[Iface] = set[Iface] \ lost /\ misread'[Iface] = misread[Iface] \cup lost
        /\ ~unrestored => AsBefore(set[Iface], Original[Iface], misread[Iface])
    BY <1>0, <1>2, <1>5, <1>7
  <2>1. /\ set' \in [Interfaces -> SUBSET Features] /\ set'[Iface] = Flags \cup stuck
        /\ \A i \in Interfaces \ {Iface} : set'[i] = set[i]
    BY <1>0, <1>2, <1>7, <2>0 DEF Features
  <2>2. faults' \in Nat /\ (faults' = 0 => faults = 0)
    BY <1>2, <1>7, <2>0, FaultsFacts
  <2>3. TypeOK'
    BY <1>0, <1>2, <1>7, <2>0, <2>1, <2>2 DEF IInv, TypeOK, Index
  <2>4. Phases'
    BY <1>0, <1>7 DEF IInv, Phases, Fast
  <2>5. MapsKnown' /\ CleanStart' /\ RolledBack'
    BY <1>0, <1>7, <2>2 DEF IInv, MapsKnown, Loaded, CleanStart, Phases, RolledBack
  <2>6. LinksHeld' /\ Resolving' /\ Forwarding'
    BY <1>0, <1>7 DEF IInv, LinksHeld, Resolving, Forwarding
  <2>7. Remembered'
    <3>1. sig' = "exit" => unrestored'
      BY <1>7 DEF Closed
    <3>2. ASSUME ~unrestored', NEW i \in Interfaces
          PROVE  Undoable(saved'[i], set'[i], Original[i], misread'[i])
      <4>1. ~unrestored
        BY <1>7, <3>2
      <4>2. CASE i = Iface
        <5>1. {} \in SUBSET Flags
          OBVIOUS
        <5>2. Undoable(set[Iface] \ lost, Flags \cup stuck, Original[Iface],
                       misread[Iface] \cup lost)
          BY <1>0, <1>2, <2>0, <4>1, <5>1, ConfiguredUndoable
        <5> QED
          BY <2>0, <2>1, <4>2, <5>2
      <4>3. CASE i # Iface
        BY <1>2, <2>0, <2>1, <4>1, <4>3
      <4> QED
        BY <4>2, <4>3
    <3>3. ASSUME pc' = "conf", NEW i \in Interfaces, saved'[i] # NoState
          PROVE  at' = 2 /\ i = cfg'.ifs[1]
      <4>1. at = 1 /\ at' = 2 /\ cfg' = cfg
        BY <1>0, <1>7, <3>3
      <4> QED
        BY <1>1, <2>0, <3>3, <4>1 DEF NoStates, Iface
    <3> QED
      BY <1>7, <3>1, <3>2, <3>3 DEF Remembered
  <2> QED
    BY <2>3, <2>4, <2>5, <2>6, <2>7 DEF IInv
<1> QED
  BY <1>4, <1>6, <1>7 DEF ConfigureInterface

LEMMA ForwardInv ==
    ASSUME IInv, Forward PROVE IInv'
<1> USE DEF Early, Linking, PCs
<1>0. /\ pc = "forward" /\ Fast /\ at = 1 /\ pin \in [Interfaces -> BOOLEAN]
      /\ \A i \in Interfaces : ~fd[i]
      /\ maps["main"] \in Lives
      /\ \A k \in Index : cfg.ifs[k] \in Interfaces
  BY SetupFacts DEF IInv, TypeOK, Phases, MapsKnown, Loaded, Colls, Forward
<1>1. CASE /\ NoFault
           /\ ff' = [ff EXCEPT ![maps["main"]] = TRUE]
           /\ pc' = "reuse"
           /\ UNCHANGED <<process, sig, maps, pinMaps, content, kernel, nics, how>>
  <2> USE <1>1 DEF process, kernel, nics, NoFault
  <2>1. TypeOK'
    BY DEF IInv, TypeOK, Index
  <2>2. Phases' /\ MapsKnown' /\ CleanStart' /\ RolledBack'
    BY <1>0 DEF IInv, Phases, MapsKnown, Loaded, CleanStart, RolledBack
  <2>3. LinksHeld' /\ Resolving'
    BY <1>0 DEF IInv, LinksHeld, Resolving, Index
  <2>4. Forwarding' /\ Remembered'
    BY <1>0 DEF IInv, TypeOK, Forwarding, Fast, Remembered
  <2> QED
    BY <2>1, <2>2, <2>3, <2>4 DEF IInv
<1>2. CASE FaultOrClosed /\ FatalRestored("fatal", pin)
  BY <1>0, <1>2, FaultFacts, FatalRestoredInv DEF IInv
<1> QED
  BY <1>1, <1>2 DEF Forward

-----------------------------------------------------------------------------
(* Resolving the links *)

\* A step of resolveXDPLink that changes only the link of the present interface
\* and goes on to the next one, to serving, or to the attach or pin of this one.
LEMMA LinkStepInv ==
    ASSUME IInv, pc \in {"reuse", "attach", "pin"}, OthersUnchanged,
           faults' \in Nat, faults' = 0 => faults = 0,
           pin' \in [Interfaces -> BOOLEAN], fd' \in [Interfaces -> BOOLEAN],
           prog' \in [Interfaces -> Lives \cup {None, Legacy}],
           \A i \in Interfaces \ {Iface} :
               pin'[i] = pin[i] /\ fd'[i] = fd[i] /\ prog'[i] = prog[i],
           prog'[Iface] \in Lives <=> pin'[Iface] \/ fd'[Iface],
           \/ /\ Resolved
              /\ sig = "none" => /\ fd'[Iface] /\ prog'[Iface] = life
                                 /\ cfg.mode = "require" => pin'[Iface]
           \/ /\ pc' = "attach" /\ UNCHANGED at /\ ~fd'[Iface]
              /\ faults' = 0 => ~pin'[Iface]
           \/ pc' = "pin" /\ UNCHANGED at /\ fd'[Iface] /\ prog'[Iface] = life
    PROVE  IInv'
<1> USE DEF Early, Linking, PCs, OthersUnchanged, bpffs, nics
<1>0. /\ Iface = cfg.ifs[at] /\ Iface \in Interfaces /\ at \in Index
      /\ \A k \in Index : cfg.ifs[k] \in Interfaces /\ (k = 1 \/ (k = 2 /\ Fast))
      /\ Fast => cfg.ifs[1] # cfg.ifs[2] /\ 2 \in Index
      /\ Len(cfg.ifs) \in {1, 2} /\ at \in {1, 2} /\ Index' = Index
      /\ (at < Len(cfg.ifs) <=> at = 1 /\ Fast)
  BY SetupFacts DEF IInv, TypeOK, Iface, Index, Fast
<1>1. pc' \in Linking
  BY DEF Resolved
<1>2. at' \in Index /\ (at' = at \/ (at = 1 /\ at' = 2 /\ Fast /\ pc' = "reuse"))
  BY <1>0 DEF Resolved
<1>3. TypeOK'
  BY <1>0, <1>1, <1>2 DEF IInv, TypeOK
<1>4. Phases' /\ MapsKnown' /\ CleanStart' /\ RolledBack' /\ Forwarding'
  BY <1>1 DEF IInv, Phases, MapsKnown, Loaded, CleanStart, RolledBack, Forwarding, Fast
<1>5. \A k \in Index : k > at => ~fd'[cfg.ifs[k]]
  <2> SUFFICES ASSUME NEW k \in Index, k > at PROVE ~fd'[cfg.ifs[k]]
    OBVIOUS
  <2>1. cfg.ifs[k] # Iface /\ k >= at
    BY <1>0
  <2>2. ~fd[cfg.ifs[k]]
    BY <1>0, <2>1 DEF IInv, LinksHeld
  <2> QED
    BY <1>0, <2>1, <2>2
<1>6. LinksHeld'
  <2>1. \A i \in Interfaces : prog'[i] \in Lives <=> pin'[i] \/ fd'[i]
    BY <1>0 DEF IInv, LinksHeld
  <2>2. pc' \in {"reuse", "attach"} => \A k \in Index : k >= at' => ~fd'[cfg.ifs[k]]
    <3>1. CASE pc' = "reuse"
      <4>1. at = 1 /\ at' = 2
        BY <1>0, <3>1 DEF Resolved
      <4> QED
        BY <1>0, <1>5, <4>1
    <3>2. CASE pc' = "attach"
      <4>1. at' = at /\ ~fd'[Iface]
        BY <3>2 DEF Resolved
      <4> QED
        BY <1>0, <1>5, <4>1
    <3> QED
      BY <3>1, <3>2
  <2>3. Iface' = IF at' = at THEN Iface ELSE cfg.ifs[2]
    BY <1>2 DEF Iface
  <2>4. pc' = "attach" /\ faults' = 0 => ~pin'[Iface']
    BY <2>3 DEF Resolved
  <2>5. pc' = "pin" => /\ fd'[Iface'] /\ prog'[Iface'] = life'
                       /\ \A k \in Index : k > at' => ~fd'[cfg.ifs[k]]
    BY <1>5, <2>3 DEF Resolved
  <2> QED
    BY <1>0, <2>1, <2>2, <2>4, <2>5 DEF LinksHeld
<1>7. Resolving'
  <2> SUFFICES ASSUME sig = "none", NEW k \in Index, k < at' \/ pc' = "serve"
               PROVE  LET i == cfg.ifs[k]
                      IN  fd'[i] /\ prog'[i] = life /\ (cfg.mode = "require" => pin'[i])
    BY <1>0 DEF Resolving
  <2>1. CASE k < at
    <3>1. cfg.ifs[k] # Iface
      BY <1>0, <2>1
    <3> QED
      BY <1>0, <2>1, <3>1 DEF IInv, Resolving
  <2>2. CASE ~(k < at)
    <3>1. Resolved /\ k = at
      BY <1>0, <1>2, <2>2 DEF Resolved
    <3> QED
      BY <1>0, <3>1 DEF Resolved
  <2> QED
    BY <2>1, <2>2
<1>8. Remembered'
  BY <1>1 DEF IInv, Remembered
<1> QED
  BY <1>3, <1>4, <1>6, <1>7, <1>8 DEF IInv

LEMMA ReuseInv ==
    ASSUME IInv, Reuse PROVE IInv'
<1>0. /\ pc = "reuse" /\ Iface \in Interfaces /\ ~fd[Iface] /\ life \in Lives
      /\ pin \in [Interfaces -> BOOLEAN] /\ fd \in [Interfaces -> BOOLEAN]
      /\ prog \in [Interfaces -> Lives \cup {None, Legacy}]
      /\ \A i \in Interfaces : prog[i] \in Lives <=> pin[i] \/ fd[i]
  BY SetupFacts DEF IInv, TypeOK, LinksHeld, Iface, Index, Phases, Reuse
<1>1. CASE /\ pin[Iface] /\ cfg.mode # "disable" /\ ~Closed /\ NoFault
           /\ Links(pin, [fd EXCEPT ![Iface] = TRUE], [prog EXCEPT ![Iface] = life])
           /\ Resolved /\ OthersUnchanged
  <2>1. faults' \in Nat /\ faults' = faults
    BY <1>1 DEF IInv, TypeOK, NoFault
  <2> QED
    BY <1>0, <1>1, <2>1, LinkStepInv DEF Links
<1>2. CASE /\ pin[Iface]
           /\ IF cfg.mode = "disable" THEN NoFault ELSE FaultOrClosed
           /\ Links(Unpinned, fd, Attached(prog, Unpinned, fd))
           /\ pc' = "attach" /\ UNCHANGED at /\ OthersUnchanged
  <2>1. faults' \in Nat /\ (faults' = 0 => faults = 0)
    BY <1>2, FaultFacts DEF IInv, TypeOK
  <2>2. /\ pin' = [pin EXCEPT ![Iface] = FALSE] /\ fd' = fd
        /\ prog' = Attached(prog, Unpinned, fd)
    BY <1>2 DEF Links, Unpinned
  <2>3. /\ prog' \in [Interfaces -> Lives \cup {None, Legacy}]
        /\ \A i \in Interfaces \ {Iface} : prog'[i] = prog[i]
        /\ prog'[Iface] \notin Lives
    BY <1>0, <2>2 DEF Attached, Unpinned, Lives, None, Legacy
  <2>4. pin' \in [Interfaces -> BOOLEAN] /\ ~pin'[Iface] /\ \A i \in Interfaces \ {Iface} : pin'[i] = pin[i]
    BY <1>0, <2>2
  <2> QED
    BY <1>0, <1>2, <2>1, <2>2, <2>3, <2>4, LinkStepInv
<1>3. CASE /\ IF pin[Iface] THEN Fault ELSE NoFault
           /\ Links(pin, fd, PreDetach(prog))
           /\ pc' = "attach" /\ UNCHANGED at /\ OthersUnchanged
  <2>1. faults' \in Nat /\ (faults' = 0 => faults = 0 /\ ~pin[Iface])
    BY <1>3, FaultFacts DEF IInv, TypeOK
  <2>2. pin' = pin /\ fd' = fd /\ prog' = PreDetach(prog)
    BY <1>3 DEF Links
  <2>3. /\ prog' \in [Interfaces -> Lives \cup {None, Legacy}]
        /\ \A i \in Interfaces \ {Iface} : prog'[i] = prog[i]
        /\ prog'[Iface] \in Lives <=> prog[Iface] \in Lives
    BY <1>0, <2>2 DEF PreDetach, Lives, None, Legacy
  <2> QED
    BY <1>0, <1>3, <2>1, <2>2, <2>3, LinkStepInv
<1>4. CASE Fault /\ Rollback
  BY <1>4, RollbackInv DEF IInv, TypeOK, Fault
<1> QED
  BY <1>1, <1>2, <1>3, <1>4 DEF Reuse

LEMMA AttachInv ==
    ASSUME IInv, AttachXDP PROVE IInv'
<1>0. /\ pc = "attach" /\ Iface \in Interfaces /\ life \in Lives
      /\ pin \in [Interfaces -> BOOLEAN] /\ fd \in [Interfaces -> BOOLEAN]
      /\ prog \in [Interfaces -> Lives \cup {None, Legacy}]
      /\ cfg.mode \in {"auto", "require", "disable"}
  BY SetupFacts DEF IInv, TypeOK, Phases, AttachXDP
<1>1. CASE /\ NoFault
           /\ Links(pin, [fd EXCEPT ![Iface] = TRUE], [prog EXCEPT ![Iface] = life])
           /\ IF cfg.mode = "disable" THEN Resolved ELSE pc' = "pin" /\ UNCHANGED at
           /\ OthersUnchanged
  <2>1. faults' \in Nat /\ faults' = faults
    BY <1>1 DEF IInv, TypeOK, NoFault
  <2> QED
    BY <1>0, <1>1, <2>1, LinkStepInv DEF Links
<1>2. CASE /\ IF prog[Iface] \in Lives THEN NoFault ELSE FaultOrClosed
           /\ Rollback
  <2>1. faults' \in Nat /\ faults' >= faults
    BY <1>2, FaultFacts DEF IInv, TypeOK
  <2> QED
    BY <1>2, <2>1, RollbackInv
<1> QED
  BY <1>1, <1>2 DEF AttachXDP

LEMMA PinInv ==
    ASSUME IInv, Pin PROVE IInv'
<1>0. /\ pc = "pin" /\ Iface \in Interfaces /\ life \in Lives
      /\ pin \in [Interfaces -> BOOLEAN] /\ fd \in [Interfaces -> BOOLEAN]
      /\ prog \in [Interfaces -> Lives \cup {None, Legacy}]
      /\ fd[Iface] /\ prog[Iface] = life
  BY SetupFacts DEF IInv, TypeOK, Phases, LinksHeld, Pin
<1>1. CASE /\ NoFault
           /\ Links([pin EXCEPT ![Iface] = TRUE], fd, prog) /\ Resolved /\ OthersUnchanged
  <2>1. faults' \in Nat /\ faults' = faults
    BY <1>1 DEF IInv, TypeOK, NoFault
  <2> QED
    BY <1>0, <1>1, <2>1, LinkStepInv DEF Links
<1>2. CASE /\ cfg.mode = "auto" /\ Fault
           /\ UNCHANGED kernel /\ Resolved /\ OthersUnchanged
  <2>1. faults' \in Nat /\ faults' # 0
    BY <1>2, FaultFacts DEF IInv
  <2> QED
    BY <1>0, <1>2, <2>1, LinkStepInv DEF kernel
<1>3. CASE Fault /\ Rollback
  BY <1>3, RollbackInv DEF IInv, TypeOK, Fault
<1> QED
  BY <1>1, <1>2, <1>3 DEF Pin

-----------------------------------------------------------------------------
(* Serving, and the end *)

LEMMA FillInv ==
    ASSUME IInv, Fill PROVE IInv'
<1> USE DEF Early, Linking, PCs, Fill, process, kernel, nics
<1>1. PICK c \in Colls : content' = [content EXCEPT ![c][maps[c]] = life]
  OBVIOUS
<1>2. /\ life \in Lives /\ life \in 0 .. MaxLives /\ maps[c] \in Lives /\ maps[c] <= life
      /\ \A d \in Colls : maps[d] \in Lives
  BY DEF IInv, TypeOK, Phases, MapsKnown, Loaded
<1>3. /\ content' \in [Colls -> [Lives -> 0 .. MaxLives]]
      /\ \A d \in Colls, m \in Lives :
           content'[d][m] = IF d = c /\ m = maps[c] THEN life ELSE content[d][m]
  BY <1>1, <1>2 DEF IInv, TypeOK
<1>4. TypeOK' /\ Phases'
  BY <1>3 DEF IInv, TypeOK, Index, Phases, Fast
<1>5. MapsKnown'
  <2>1. \A d \in Colls, m \in Lives : content'[d][m] # 0 => content'[d][m] \in m .. life
    BY <1>2, <1>3 DEF IInv, MapsKnown, Lives
  <2> QED
    BY <2>1 DEF IInv, MapsKnown, Loaded
<1>6. CleanStart'
  BY <1>2, <1>3 DEF IInv, CleanStart
<1>7. LinksHeld' /\ Resolving' /\ Forwarding' /\ Remembered' /\ RolledBack'
  BY DEF IInv, LinksHeld, Iface, Index, Resolving, Forwarding, Fast, Remembered, RolledBack
<1> QED
  BY <1>4, <1>5, <1>6, <1>7 DEF IInv

LEMMA SignalInv ==
    ASSUME IInv, Signal PROVE IInv'
<1> USE DEF Early, Linking, PCs, Signal, process, bpffs, kernel, nics
<1>1. TypeOK' /\ Phases'
  BY DEF IInv, TypeOK, Index, Phases, Fast
<1>2. MapsKnown' /\ CleanStart' /\ LinksHeld'
  BY DEF IInv, MapsKnown, Loaded, CleanStart, LinksHeld, Iface, Index
<1>3. Resolving' /\ Forwarding' /\ Remembered' /\ RolledBack'
  BY DEF IInv, Resolving, Forwarding, Fast, Remembered, RolledBack
<1> QED
  BY <1>1, <1>2, <1>3 DEF IInv

\* The shutdown goroutine closes what main has recorded.
LEMMA CloseInv ==
    ASSUME IInv, CloseLinks PROVE IInv'
<1> USE DEF Early, Linking, PCs, CloseLinks, process, bpffs, nics
<1>0. /\ Iface \in Interfaces /\ fd \in [Interfaces -> BOOLEAN]
      /\ \A k \in Index : cfg.ifs[k] \in Interfaces
  BY SetupFacts DEF IInv, TypeOK
<1>1. pin' = pin /\ fd' = Untracked /\ prog' = Attached(prog, pin, Untracked)
  BY DEF Links
<1>2. /\ fd' \in [Interfaces -> BOOLEAN]
      /\ \A i \in Interfaces : fd'[i] <=> fd[i] /\ pc = "pin" /\ i = Iface
  BY <1>0, <1>1 DEF Untracked
<1>3. /\ prog' \in [Interfaces -> Lives \cup {None, Legacy}]
      /\ \A i \in Interfaces : /\ prog'[i] \in Lives <=> pin[i] \/ fd'[i]
                               /\ fd'[i] => prog'[i] = prog[i]
  BY <1>1, <1>2 DEF IInv, TypeOK, LinksHeld, Attached, Lives, None, Legacy
<1>4. TypeOK'
  BY <1>1, <1>2, <1>3 DEF IInv, TypeOK, Index
<1>5. Phases' /\ MapsKnown' /\ CleanStart' /\ RolledBack'
  BY <1>0, <1>2 DEF IInv, Phases, Fast, MapsKnown, Loaded, CleanStart, RolledBack
<1>6. LinksHeld'
  BY <1>0, <1>1, <1>2, <1>3 DEF IInv, LinksHeld, Iface, Index
<1>7. Resolving' /\ Forwarding' /\ Remembered'
  BY DEF IInv, Resolving, Forwarding, Fast, Remembered
<1> QED
  BY <1>4, <1>5, <1>6, <1>7 DEF IInv

LEMMA RestoreInv ==
    ASSUME IInv, RestoreNics PROVE IInv'
<1> USE DEF Early, Linking, PCs, RestoreNics, process, bpffs, kernel
<1>0. /\ TypeOK /\ set \in [Interfaces -> SUBSET Features]
      /\ misread \in [Interfaces -> SUBSET Features] /\ misread' = misread
      /\ saved \in [Interfaces -> {NoState} \cup SUBSET Features] /\ saved' = NoStates
      /\ ~unrestored => \A i \in Interfaces :
             Undoable(saved[i], set[i], Original[i], misread[i])
  BY DEF IInv, TypeOK, Remembered
<1>1. /\ set' \in [Interfaces -> SUBSET Features] /\ unrestored' \in BOOLEAN
      /\ ~unrestored' => \A i \in Interfaces :
             AsBefore(set'[i], Original[i], misread'[i])
  BY <1>0, RestoreFacts
<1>2. TypeOK' /\ Phases'
  BY <1>0, <1>1 DEF IInv, TypeOK, Index, Phases, Fast, NoStates
<1>3. MapsKnown' /\ CleanStart' /\ LinksHeld'
  BY DEF IInv, MapsKnown, Loaded, CleanStart, LinksHeld, Iface, Index
<1>4. Resolving' /\ Forwarding' /\ RolledBack'
  BY DEF IInv, Resolving, Forwarding, Fast, RolledBack
<1>5. Remembered'
  BY <1>0, <1>1 DEF Remembered, NoStates, Undoable
<1> QED
  BY <1>2, <1>3, <1>4, <1>5 DEF IInv

LEMMA ExitInv ==
    ASSUME IInv, Exit PROVE IInv'
<1>1. /\ pin \in [Interfaces -> BOOLEAN] /\ set' \in [Interfaces -> SUBSET Features]
      /\ misread' \in [Interfaces -> SUBSET Features]
      /\ faults' \in Nat /\ faults' >= faults /\ unrestored' \in BOOLEAN
  BY DEF Exit, IInv, TypeOK
<1>2. ~unrestored' => \A i \in Interfaces : AsBefore(set'[i], Original[i], misread'[i])
  BY DEF Exit, IInv, Remembered, Undoable
<1> QED
  BY <1>1, <1>2, EndsInv DEF Exit

LEMMA StutterInv ==
    ASSUME IInv, UNCHANGED vars PROVE IInv'
<1> USE DEF vars, process, bpffs, kernel, nics
<1>1. TypeOK' /\ Phases'
  BY DEF IInv, TypeOK, Index, Phases, Fast
<1>2. MapsKnown' /\ CleanStart' /\ LinksHeld'
  BY DEF IInv, MapsKnown, Loaded, CleanStart, LinksHeld, Iface, Index
<1>3. Resolving' /\ Forwarding' /\ Remembered' /\ RolledBack'
  BY DEF IInv, Resolving, Index, Forwarding, Fast, Remembered, RolledBack
<1> QED
  BY <1>1, <1>2, <1>3 DEF IInv

\* IInv holds at every step of every life: whatever signals, crashes, failed
\* operations and changes of the configuration came before.
THEOREM Invariance == Spec => []IInv
<1>1. IInv /\ [Next]_vars => IInv'
  <2> SUFFICES ASSUME IInv, [Next]_vars PROVE IInv'
    OBVIOUS
  <2>1. CASE RunFails
    BY <2>1, FatalInv DEF RunFails, IInv, TypeOK, Fault
  <2> QED
    BY <2>1, BootInv, LoadInv, ClearInv, WireInv, ConfigureInv, ForwardInv, ReuseInv,
       AttachInv, PinInv, FillInv, SignalInv, CloseInv, RestoreInv, ExitInv, CrashInv,
       StutterInv DEF Next
<1> QED
  BY <1>1, InitInv, PTL DEF Spec

-----------------------------------------------------------------------------
(* The properties *)

\* An agent that serves has its own program on each of its interfaces, pinned
\* where pinning is required, over maps that say whether it forwards: main
\* resolves the links in order and gives up on the first that fails.
THEOREM ServesAttached == Spec => []Serving
<1>1. IInv => Serving
  <2> SUFFICES ASSUME IInv, pc = "serve", sig = "none"
               PROVE  /\ \A i \in Managed : fd[i] /\ prog[i] = life
                      /\ ff[maps["main"]] = Fast
                      /\ cfg.mode = "require" => \A i \in Managed : pin[i]
    BY DEF Serving
  <2>1. Managed = {cfg.ifs[k] : k \in Index}
    BY SetupFacts DEF IInv
  <2> QED
    BY <2>1 DEF IInv, Resolving, Forwarding, Linking
<1> QED
  BY <1>1, Invariance, PTL

\* A start that fails on the second interface of a pair has detached the first.
THEOREM FailedStartUndone == Spec => []RolledBack
<1>1. IInv => RolledBack
  BY DEF IInv
<1> QED
  BY <1>1, Invariance, PTL

\* Without a failed operation no life works on entries of an earlier one: what is
\* not pinned is new, and what is pinned has been cleared before NewHandlers.
THEOREM StartsClean == Spec => []CleanStart
<1>1. IInv => CleanStart
  BY DEF IInv
<1> QED
  BY <1>1, Invariance, PTL

\* An agent that is not killed and restores what it can leaves on no interface a
\* feature that was off before the first life, and takes away none but one it could
\* not read when it configured the interface.
THEOREM InterfacesRestored == Spec => []RestoredOnExit
<1>1. IInv => RestoredOnExit
  BY DEF IInv, Phases, Early, Remembered, Undoable, RestoredOnExit
<1> QED
  BY <1>1, Invariance, PTL

\* Without a failed operation, a step that meets a pinned link, of an agent that
\* pins and is not interrupted while it starts, keeps the pin and the program.
THEOREM FilteredThroughout == Spec => NoGap
<1> DEFINE Kept ==
      \A i \in Interfaces :
          /\ pin[i] /\ faults' = 0
          /\ cfg.mode # "disable"
          /\ sig # "none" => pc = "serve"
          => pin'[i] /\ prog'[i] \in Lives
<1>1. IInv /\ IInv' /\ [Next]_vars => [Kept]_vars
  <2> SUFFICES ASSUME IInv, IInv', Next, NEW i \in Interfaces, pin[i], faults' = 0,
                      cfg.mode # "disable", sig # "none" => pc = "serve"
               PROVE  pin'[i]
    BY DEF IInv, LinksHeld
  <2>1. /\ pin \in [Interfaces -> BOOLEAN] /\ Iface \in Interfaces
        /\ ~Fault /\ (FaultOrClosed => Closed)
    BY SetupFacts, FaultFacts DEF IInv, TypeOK
  <2>2. Closed => pc = "serve"
    BY DEF Closed
  <2>3. CASE \E h : Ends(h, pin)
    BY <2>3 DEF Ends
  <2>5. CASE (\E c \in Setups : Boot(c)) \/ Fill \/ Signal
    BY <2>5 DEF Boot, Fill, Signal, kernel
  <2>6. CASE LoadMain \/ LoadGate \/ ClearDataMaps \/ Wire
    BY <2>1, <2>6 DEF LoadMain, LoadGate, Load, ClearDataMaps, Wire, kernel
  <2>7. CASE ConfigureInterface \/ Forward
    BY <2>1, <2>2, <2>7 DEF ConfigureInterface, GiveUp, Forward, kernel, Ends
  <2>8. CASE Reuse
    <3>1. pc = "reuse"
      BY <2>8 DEF Reuse
    <3> QED
      BY <2>1, <2>2, <2>8, <3>1 DEF Reuse, Links
  <2>9. CASE AttachXDP
    <3>1. pc = "attach" /\ ~Closed
      BY <2>2, <2>9 DEF AttachXDP
    <3>2. faults = 0
      BY <2>1, <2>9, <3>1, FaultFacts DEF AttachXDP, IInv
    <3>3. ~pin[Iface] /\ ~fd[Iface]
      BY <3>1, <3>2, SetupFacts DEF IInv, TypeOK, LinksHeld, Iface, Index
    <3>4. prog[Iface] \notin Lives
      BY <2>1, <3>3 DEF IInv, LinksHeld
    <3> QED
      BY <2>1, <2>9, <3>1, <3>4 DEF AttachXDP, Links
  <2>10. CASE Pin
    BY <2>1, <2>10 DEF Pin, Links, kernel
  <2>11. CASE RunFails \/ CloseLinks \/ RestoreNics \/ Exit \/ Crash
    BY <2>1, <2>3, <2>11 DEF RunFails, CloseLinks, Links, RestoreNics, kernel, Exit, Crash
  <2> QED
    BY <2>5, <2>6, <2>7, <2>8, <2>9, <2>10, <2>11 DEF Next
<1> QED
  BY <1>1, Invariance, PTL DEF Spec, NoGap
=============================================================================
