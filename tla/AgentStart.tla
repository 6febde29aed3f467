---------------------------- MODULE AgentStart ----------------------------
(***************************************************************************)
(* The lives of an agent process and what they leave in the kernel: the    *)
(* two BPF collections with pinned or fresh maps, the XDP links that are   *)
(* reused, attached, pinned and rolled back, the interfaces that fast      *)
(* forward mode reconfigures, and the shutdown goroutine that runs beside  *)
(* a start that has not ended.                                             *)
(*                                                                         *)
(* A life is numbered; so is the program it loads and the set of maps it   *)
(* creates.  A link is attached while the process holds its fd or a pin    *)
(* file refers to it.  A configuration with two interfaces is a fast       *)
(* forward pair, one with a single interface is traditional mode.          *)
(***************************************************************************)
EXTENDS Integers, Sequences, FiniteSets

CONSTANTS
    Interfaces,
    Offloads,    \* the offload features that fast forward mode disables
    Original,    \* the features of each interface that are on before the first life
    NoState,     \* no entry in originalStates
    Setups,      \* configurations: [mode |-> bpf.pinning, ifs |-> interfaces in order]
    MaxLives,    \* bound: starts of the agent
    MaxFaults    \* bound: operations that fail

Flags    == {"up", "promisc"}      \* what fast forward mode sets
Features == Flags \cup Offloads

ASSUME AgentStartAssumption ==
    /\ MaxLives \in Nat \ {0} /\ MaxFaults \in Nat
    /\ IsFiniteSet(Offloads) /\ Offloads \cap Flags = {}
    /\ \A S \in SUBSET Features : NoState # S
    /\ Original \in [Interfaces -> SUBSET Features]
    /\ \A c \in Setups : /\ c.mode \in {"auto", "require", "disable"}
                         /\ c.ifs \in Seq(Interfaces) /\ Len(c.ifs) \in {1, 2}
                         /\ Len(c.ifs) = 2 => c.ifs[1] # c.ifs[2]   \* config.go, Validate

VARIABLES
    life, cfg,   \* the life and its configuration
    pc, at,      \* where main is, and the index of the interface it works on
    sig,         \* where the shutdown goroutine is
    maps,        \* per collection, the life that created the maps in use, 0 if none
    pinMaps,     \* per collection, the life that created the pinned maps, 0 if none
    content,     \* per collection and set of maps, the life that wrote its entries
    ff,          \* CONFIG_FAST_FORWARD_ENABLED, per set of maps of the main collection
    prog,        \* the program on an interface: None, Legacy, or a life's
    pin, fd,     \* link pins; links this process holds
    set, saved,  \* the features of an interface that are on, and originalStates
    misread,     \* history: features that were on when reading them failed
    faults,      \* operations that failed so far
    how,         \* how the last life ended
    unrestored         \* history: a life may have ended without restoring its interfaces

process == <<life, cfg, at>>
bpffs   == <<maps, pinMaps, content, ff>>
kernel  == <<prog, pin, fd>>
nics    == <<set, saved, misread, unrestored>>
vars    == <<process, pc, sig, bpffs, kernel, nics, faults, how>>

Colls  == {"main", "gate"}     \* the gate owns whitelist_b, main every other data map
Lives  == 1 .. MaxLives
None   == 0
Legacy == -1                   \* attached without a link, by an agent of an older version

Fast     == Len(cfg.ifs) = 2
Iface    == cfg.ifs[at]
Managed  == {cfg.ifs[k] : k \in 1 .. Len(cfg.ifs)}
Pinned(c) == maps[c] # 0 /\ maps[c] = pinMaps[c]       \* Result.PinPath # ""
Closed   == sig \in {"restore", "exit"}                \* the collections are closed
Fault    == faults < MaxFaults /\ faults' = faults + 1
NoFault  == UNCHANGED faults
\* n commands of one step fail.
Faults(n) == faults + n <= MaxFaults /\ faults' = faults + n
\* An operation that needs a program or a map of a collection fails.
FaultOrClosed == IF Closed THEN NoFault ELSE Fault

NoFds    == [i \in Interfaces |-> FALSE]
NoStates == [i \in Interfaces |-> NoState]

Init ==
    /\ life = 0 /\ cfg \in Setups /\ at = 1
    /\ pc = "off" /\ sig = "none"
    /\ maps = [c \in Colls |-> 0] /\ pinMaps = [c \in Colls |-> 0]
    /\ content = [c \in Colls |-> [m \in Lives |-> 0]] /\ ff = [m \in Lives |-> FALSE]
    /\ prog \in [Interfaces -> {None, Legacy}]
    /\ pin = NoFds /\ fd = NoFds
    /\ set = Original /\ saved = NoStates /\ misread = [i \in Interfaces |-> {}]
    /\ faults = 0 /\ how = "none" /\ unrestored = FALSE

---------------------------------------------------------------------------
(* The kernel and the end of a process. *)

\* What is attached with the pins p and the fds f: a link with neither is gone.
Attached(pr, p, f) ==
    [i \in Interfaces |-> IF pr[i] \in Lives /\ ~p[i] /\ ~f[i] THEN None ELSE pr[i]]

\* The process ends with the pins p: its fds are closed, its memory is gone.
Ends(h, p) ==
    /\ pc' = "off" /\ sig' = "none" /\ at' = 1 /\ how' = h
    /\ pin' = p /\ fd' = NoFds /\ prog' = Attached(prog, p, NoFds)
    /\ saved' = NoStates
    /\ UNCHANGED <<life, cfg, bpffs>>

\* RestoreInterface of an interface with the features now on: what was not set is
\* cleared and the offloads that were on are enabled, best effort; the rest stays.
PutBack(now, was, stuck) ==
    (now \cup ((was \cap Offloads) \ stuck)) \ ((Flags \ was) \ stuck)

\* RestoreAll of the states remembered; the commands that fail are logged.
RestoreAll(states, now) ==
    \E stuck \in SUBSET (Interfaces \X Features) :
        /\ Cardinality(stuck) <= MaxFaults - faults
        /\ set' = [i \in Interfaces |->
                       IF states[i] = NoState THEN now[i]
                       ELSE PutBack(now[i], states[i], {f \in Features : <<i, f>> \in stuck})]
        /\ unrestored' = (unrestored \/
               \E i \in Interfaces : /\ states[i] # NoState
                                     /\ set'[i] # PutBack(now[i], states[i], {}))

\* log.Fatalf after RestoreAll, and without it.
FatalRestored(h, p) == Ends(h, p) /\ RestoreAll(saved, set) /\ UNCHANGED misread
Fatal == /\ Ends("fatal", pin) /\ UNCHANGED <<set, misread>>
         /\ unrestored' = (unrestored \/ saved # NoStates)

\* SIGKILL, a panic, or a SIGTERM before signal.Notify.
Crash ==
    /\ pc # "off"
    /\ Ends("crash", pin)
    /\ unrestored' = TRUE
    /\ UNCHANGED <<faults, set, misread>>

---------------------------------------------------------------------------
(* main up to signal.Notify. *)

Boot(c) ==
    /\ pc = "off" /\ life < MaxLives
    /\ life' = life + 1 /\ cfg' = c /\ pc' = "loadMain" /\ at' = 1
    /\ maps' = [x \in Colls |-> 0] /\ how' = "none"
    /\ UNCHANGED <<sig, pinMaps, content, ff, kernel, nics, faults>>

\* Load of one collection: pinned maps are reused, or replaced when their schema
\* has drifted (reconcilePinnedMaps); when pinning fails auto goes on without it,
\* the drifted pins already removed or not, and require ends.  A collection that
\* cannot be loaded at all ends every mode.  (The pins such an end has removed are
\* replaced at the next load, as they would be if they were still there.)
Load(c, here, next) ==
    /\ pc = here
    /\ \/ /\ \/ /\ cfg.mode # "disable" /\ NoFault
                /\ \E m \in {pinMaps[c], life} \ {0} :
                       maps' = [maps EXCEPT ![c] = m] /\ pinMaps' = [pinMaps EXCEPT ![c] = m]
             \/ /\ maps' = [maps EXCEPT ![c] = life]
                /\ \/ cfg.mode = "disable" /\ NoFault /\ UNCHANGED pinMaps
                   \/ /\ cfg.mode = "auto" /\ Fault
                      /\ pinMaps' \in {pinMaps, [pinMaps EXCEPT ![c] = 0]}
          /\ pc' = next
          /\ UNCHANGED <<process, sig, content, ff, kernel, nics, how>>
       \/ Fault /\ Fatal

LoadMain == Load("main", "loadMain", "loadGate")
LoadGate == Load("gate", "loadGate", "clear")

\* Bug variant of ClearDataMaps: the gate's collection is not cleared.
ClearDataMapsMain ==
    /\ pc = "clear" /\ pc' = "wire" /\ NoFault
    /\ content' = IF Pinned("main") THEN [content EXCEPT !["main"][maps["main"]] = 0] ELSE content
    /\ UNCHANGED <<process, sig, maps, pinMaps, ff, kernel, nics, how>>

\* ClearDataMaps of both collections, when main is pinned; an error is only logged.
ClearDataMaps ==
    /\ pc = "clear" /\ pc' = "wire"
    /\ \E failed \in SUBSET Colls :
        /\ IF failed = {} THEN NoFault ELSE Pinned("main") /\ Fault
        /\ content' = [c \in Colls |->
               IF Pinned("main") /\ c \notin failed
               THEN [content[c] EXCEPT ![maps[c]] = 0] ELSE content[c]]
    /\ UNCHANGED <<process, sig, maps, pinMaps, ff, kernel, nics, how>>

\* prog_tail_map is filled, NewHandlers zeroes both configs, the divisor is
\* written, and signals are caught from here on.
Wire ==
    /\ pc = "wire"
    /\ \/ /\ ff' = [ff EXCEPT ![maps["main"]] = FALSE] /\ NoFault
          /\ pc' = IF Fast THEN "conf" ELSE "reuse"
          /\ UNCHANGED <<process, sig, maps, pinMaps, content, kernel, nics, how>>
       \/ Fault /\ Fatal

---------------------------------------------------------------------------
(* Fast forward: the interfaces, the devmap and the config. *)

\* log.Fatalf when an interface cannot be configured: RestoreAll comes before it
\* only if that interface is the second.
GiveUp(states, now) ==
    /\ Ends("fatal", pin)
    /\ \/ at = 1 /\ set' = now /\ unrestored' = (unrestored \/ now # set)
       \/ at = 2 /\ RestoreAll(states, now)

\* Bug variant of ConfigureInterface: the state is read after the flags are set.
ConfigureInterfaceLate ==
    /\ pc = "conf" /\ NoFault
    /\ set' = [set EXCEPT ![Iface] = Flags]
    /\ saved' = [saved EXCEPT ![Iface] = set'[Iface]]
    /\ unrestored' = (unrestored \/ Closed)
    /\ IF at = 1 THEN at' = 2 /\ UNCHANGED pc ELSE at' = 1 /\ pc' = "forward"
    /\ UNCHANGED <<life, cfg, sig, misread, bpffs, kernel, how>>

\* ConfigureInterface.  A failed `ip link show` or `ethtool -k` is taken as "off"
\* and the start goes on, so the state saved lacks the features in lost; whether
\* the interface is up comes with the interface itself.  An offload that cannot be
\* disabled is only logged (stuck).  Without the interface, up or promisc it fails.
ConfigureInterface ==
    /\ pc = "conf"
    /\ \/ \E lost \in SUBSET (set[Iface] \ {"up"}), stuck \in SUBSET (set[Iface] \cap Offloads) :
            LET states == [saved EXCEPT ![Iface] = set[Iface] \ lost]
            IN  /\ misread' = [misread EXCEPT ![Iface] = @ \cup lost]
                /\ \/ /\ Faults(Cardinality(lost) + Cardinality(stuck))
                      /\ saved' = states
                      /\ set' = [set EXCEPT ![Iface] = Flags \cup stuck]
                      /\ unrestored' = (unrestored \/ Closed)
                      /\ IF at = 1 THEN at' = 2 /\ UNCHANGED pc ELSE at' = 1 /\ pc' = "forward"
                      /\ UNCHANGED <<life, cfg, sig, bpffs, kernel, how>>
                   \/ /\ Faults(Cardinality(lost) + 1)
                      /\ \E done \in {{}, {"up"}} :
                             GiveUp(states, [set EXCEPT ![Iface] = @ \cup done])
       \/ Fault /\ GiveUp(saved, set) /\ UNCHANGED misread

\* Bug variant of Forward: only the devmap is set up.
ForwardDevmap ==
    /\ pc = "forward" /\ pc' = "reuse" /\ NoFault
    /\ UNCHANGED <<process, sig, bpffs, kernel, nics, how>>

\* setupDevmap and configureFastForward.
Forward ==
    /\ pc = "forward"
    /\ \/ /\ ~Closed /\ NoFault
          /\ ff' = [ff EXCEPT ![maps["main"]] = TRUE]
          /\ pc' = "reuse"
          /\ UNCHANGED <<process, sig, maps, pinMaps, content, kernel, nics, how>>
       \/ FaultOrClosed /\ FatalRestored("fatal", pin)

---------------------------------------------------------------------------
(* resolveXDPLink, once per interface. *)

Links(p, f, pr) == pin' = p /\ fd' = f /\ prog' = pr
Unpinned == [pin EXCEPT ![Iface] = FALSE]
Resolved == IF at < Len(cfg.ifs) THEN pc' = "reuse" /\ at' = at + 1
                                 ELSE pc' = "serve" /\ UNCHANGED at
OthersUnchanged == UNCHANGED <<life, cfg, sig, bpffs, nics, how>>

\* PreDetach removes a program that was attached without a link, and no other.
PreDetach(pr) == [pr EXCEPT ![Iface] = IF @ = Legacy THEN None ELSE @]

\* Bug variant of Rollback: the first link of a pair is closed and stays pinned.
RollbackClose ==
    FatalRestored(IF at = 2 THEN "rolledBack" ELSE "fatal", pin)

\* An interface could not be attached: the first one of a pair is detached again
\* (ForceDetach, whose Unpin may fail), and the process ends.
Rollback ==
    LET first == cfg.ifs[1]
    IN  \/ at = 2 /\ FatalRestored("rolledBack", [pin EXCEPT ![first] = FALSE])
        \/ at = 2 /\ faults < MaxFaults /\ FatalRestored("stuck", pin)
        \/ at = 1 /\ IF Fast THEN FatalRestored("fatal", pin) ELSE Fatal

\* Bug variant of Reuse: a pinned link is replaced instead of updated.
ReuseNever ==
    /\ pc = "reuse" /\ NoFault
    /\ Links(Unpinned, fd, PreDetach(Attached(prog, Unpinned, fd)))
    /\ pc' = "attach" /\ UNCHANGED at /\ OthersUnchanged

\* With a pin: LoadPinned and Update, which swaps the program in place.  If
\* either fails, or pinning is disabled, the pin is removed, which may fail too
\* (as it does when bpffs cannot be probed, which require does not accept).
Reuse ==
    /\ pc = "reuse"
    /\ \/ /\ pin[Iface] /\ cfg.mode # "disable" /\ ~Closed /\ NoFault
          /\ Links(pin, [fd EXCEPT ![Iface] = TRUE], [prog EXCEPT ![Iface] = life])
          /\ Resolved /\ OthersUnchanged
       \/ /\ pin[Iface]
          /\ IF cfg.mode = "disable" THEN NoFault ELSE FaultOrClosed
          /\ Links(Unpinned, fd, Attached(prog, Unpinned, fd))
          /\ pc' = "attach" /\ UNCHANGED at /\ OthersUnchanged
       \/ /\ IF pin[Iface] THEN Fault ELSE NoFault
          /\ Links(pin, fd, PreDetach(prog))
          /\ pc' = "attach" /\ UNCHANGED at /\ OthersUnchanged
       \/ cfg.mode = "require" /\ Fault /\ Rollback

\* AttachXDP, which is refused while a link is attached.
AttachXDP ==
    /\ pc = "attach"
    /\ \/ /\ prog[Iface] = None /\ ~Closed /\ NoFault
          /\ Links(pin, [fd EXCEPT ![Iface] = TRUE], [prog EXCEPT ![Iface] = life])
          /\ IF cfg.mode = "disable" THEN Resolved ELSE pc' = "pin" /\ UNCHANGED at
          /\ OthersUnchanged
       \/ /\ IF prog[Iface] \in Lives THEN NoFault ELSE FaultOrClosed
          /\ Rollback

\* Pin; without it auto goes on, and require closes the link and ends.
Pin ==
    /\ pc = "pin"
    /\ \/ /\ NoFault
          /\ Links([pin EXCEPT ![Iface] = TRUE], fd, prog) /\ Resolved /\ OthersUnchanged
       \/ /\ cfg.mode = "auto" /\ Fault
          /\ UNCHANGED kernel /\ Resolved /\ OthersUnchanged
       \/ cfg.mode = "require" /\ Fault /\ Rollback

---------------------------------------------------------------------------
(* Serving, and the end. *)

\* SyncOnStartup and the API fill the maps.
Fill ==
    /\ pc = "serve" /\ ~Closed
    /\ \E c \in Colls : /\ content[c][maps[c]] # life
                        /\ content' = [content EXCEPT ![c][maps[c]] = life]
    /\ UNCHANGED <<process, pc, sig, maps, pinMaps, ff, kernel, nics, faults, how>>

\* router.Run fails: log.Fatalf without any cleanup.
RunFails == pc = "serve" /\ Fault /\ Fatal

\* SIGINT or SIGTERM, once signal.Notify has run.
Signal ==
    /\ pc \in {"conf", "forward", "reuse", "attach", "pin", "serve"} /\ sig = "none"
    /\ sig' = "close"
    /\ UNCHANGED <<process, pc, bpffs, kernel, nics, faults, how>>

\* Links this process holds that are not in xdpLinks: the one being resolved.
Untracked == [i \in Interfaces |-> fd[i] /\ pc = "pin" /\ i = Iface]

\* The shutdown goroutine closes the links in xdpLinks and both collections ...
CloseLinks ==
    /\ sig = "close" /\ sig' = "restore"
    /\ Links(pin, Untracked, Attached(prog, pin, Untracked))
    /\ UNCHANGED <<process, pc, bpffs, nics, faults, how>>

\* ... restores the interfaces main has configured by now ...
RestoreNics ==
    /\ sig = "restore" /\ sig' = "exit"
    /\ RestoreAll(saved, set) /\ saved' = NoStates
    /\ UNCHANGED <<process, pc, bpffs, kernel, misread, faults, how>>

\* ... and exits, wherever main is.
Exit ==
    /\ sig = "exit"
    /\ Ends("signal", pin)
    /\ UNCHANGED <<set, misread, unrestored, faults>>

---------------------------------------------------------------------------
Next ==
    \/ \E c \in Setups : Boot(c)
    \/ LoadMain \/ LoadGate \/ ClearDataMaps \/ Wire \/ ConfigureInterface \/ Forward
    \/ Reuse \/ AttachXDP \/ Pin \/ Fill \/ RunFails
    \/ Signal \/ CloseLinks \/ RestoreNics \/ Exit \/ Crash

Spec == Init /\ [][Next]_vars

---------------------------------------------------------------------------
(* Properties *)

\* An agent that serves has its own program on every interface of its
\* configuration, and the maps that program reads say whether it forwards or
\* filters, whatever lives, modes and failures came before (main.go, the order
\* NewHandlers, configureFastForward, resolveLink).
Serving ==
    pc = "serve" /\ sig = "none" =>
        /\ \A i \in Managed : fd[i] /\ prog[i] = life
        /\ ff[maps["main"]] = Fast
        /\ cfg.mode = "require" => \A i \in Managed : pin[i]

\* Without a failed operation, an interface that a pinned link filters is
\* filtered without a gap over exits, crashes and restarts of the agent, until an
\* agent starts with pinning disabled or is interrupted while it starts
\* (xdp_link.go: LoadPinned and Update; main.go: Link.Close keeps the pin).
NoGap ==
    [][\A i \in Interfaces :
           /\ pin[i] /\ faults' = 0
           /\ cfg.mode # "disable"
           /\ sig # "none" => pc = "serve"
           => pin'[i] /\ prog'[i] \in Lives]_vars

\* A start of a pair that fails on the second interface leaves no program of the
\* agent on the first, pinned or not (main.go, ForceDetach of the inbound link).
RolledBack ==
    how = "rolledBack" => LET first == cfg.ifs[1]
                          IN  ~pin[first] /\ prog[first] \notin Lives

\* While nothing has failed, the maps of both collections hold no entry of an
\* earlier life once the handlers exist, however the pinning mode changed from
\* one life to the next (main.go, ClearDataMaps before NewHandlers).
CleanStart ==
    /\ pc \in {"wire", "conf", "forward", "reuse", "attach", "pin", "serve"}
    /\ faults = 0
    => \A c \in Colls : content[c][maps[c]] \in {0, life}

\* The features now are those there were before, but for what could not be read.
AsBefore(now, before, unread) ==
    now \subseteq before /\ before \ now \subseteq unread \ {"up"}

\* Between two lives no feature of an interface is on that was off before the first
\* life, and none is off that was on unless reading it had failed: then "we assume
\* PROMISC was NOT originally set" (ifmgr.go:65), and the offloads likewise.  Whether
\* the interface is up is restored always.  Excepted are lives that were killed,
\* that failed while the first interface was configured or after they began to
\* serve, that could not put a feature back, or that configured an interface after
\* the shutdown goroutine had restored them (ifmgr.RestoreAll and its callers).
RestoredOnExit ==
    pc = "off" /\ ~unrestored =>
        \A i \in Interfaces : AsBefore(set[i], Original[i], misread[i])

===========================================================================
