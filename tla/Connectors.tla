----------------------------- MODULE Connectors -----------------------------
(***************************************************************************)
(* Managed connectors of one site (server/src/connectors.ts): the rows an  *)
(* administrator edits, the supervisor that keeps one adapter process up   *)
(* for each enabled row, and the processes themselves, which outlive a     *)
(* platform that is killed.                                                *)
(*                                                                         *)
(* A process reaches the platform with the site's internal key, which is   *)
(* issued at the first launch of a boot, when the key of the boot before   *)
(* is deleted.  Backoff times, logs and the status view are left out.      *)
(***************************************************************************)
EXTENDS Naturals, FiniteSets

CONSTANTS
  Connectors,    \* identities of rows, each used once
  Configs,       \* configurations of a row
  Pids,          \* processes; bound on how many are alive at once
  None           \* no row, no process, no timer

ASSUME ConnectorsAssumption ==
  /\ None \notin Connectors \cup Configs \cup Pids
  /\ IsFiniteSet(Connectors) /\ IsFiniteSet(Pids)

VARIABLES
  rows,          \* connector rows
  wantUp,        \* Proc.wantUp
  child,         \* Proc.child, a process
  timer,         \* Proc.timer: the record its respawn was given
  strays,        \* respawns pending that Proc.timer no longer names
  process,       \* processes of the operating system
  keyed,         \* managedKeys has the key of the site
  platform,      \* "up", "stopping" or "down"
  awaited        \* processes whose end the shutdown waits for

supervisor == <<wantUp, child, timer, strays, keyed>>
phase == <<platform, awaited>>
vars == <<rows, supervisor, process, phase>>

-----------------------------------------------------------------------------
Row == [state : {"on", "off", "deleted"}, config : Configs]
NoRow == [state |-> "none", config |-> None]
Gone == [of |-> None, config |-> None, dying |-> FALSE, valid |-> FALSE]
Process == [of : Connectors, config : Configs, dying : BOOLEAN,
            valid : BOOLEAN]     \* the platform accepts its key

Exists(c) == rows[c].state \in {"on", "off"}
Enabled   == {c \in Connectors : rows[c].state = "on"}
Alive     == {p \in Pids : process[p] # Gone}
Serving   == platform # "down"

Init ==
  /\ rows = [c \in Connectors |-> NoRow]
  /\ wantUp = [c \in Connectors |-> FALSE]
  /\ child = [c \in Connectors |-> None]
  /\ timer = [c \in Connectors |-> None]
  /\ strays = [c \in Connectors |-> {}]
  /\ process = [p \in Pids |-> Gone]
  /\ keyed = FALSE /\ platform = "up" /\ awaited = {}

-----------------------------------------------------------------------------
(* launch.                                                                 *)

\* Variant: the key of the last boot stays valid.
RekeyedNever(p) == process[p]

\* managedKey: the first launch of a boot deletes the key of the last one.
Rekeyed(p) == IF keyed \/ process[p] = Gone THEN process[p]
              ELSE [process[p] EXCEPT !.valid = FALSE]

\* A process for each connector of S, with the configuration it was given.
Spawn(S, config) ==
  \E id \in [S -> Pids \ Alive] :
    /\ \A c, d \in S : id[c] = id[d] => c = d
    /\ child' = [c \in Connectors |-> IF c \in S THEN id[c] ELSE child[c]]
    /\ process' = [p \in Pids |->
         IF \E c \in S : id[c] = p
           THEN LET c == CHOOSE c \in S : id[c] = p
                IN [of |-> c, config |-> config[c],
                    dying |-> FALSE, valid |-> TRUE]
           ELSE IF S = {} THEN process[p] ELSE Rekeyed(p)]
    /\ keyed' = (keyed \/ S # {})

\* Variant: wantUp is set only when a process is made.
UpIfSpawned(c) == IF child[c] = None THEN [wantUp EXCEPT ![c] = TRUE]
                  ELSE wantUp

Up(c) == [wantUp EXCEPT ![c] = TRUE]
Launched(c) == IF child[c] = None THEN {c} ELSE {}
Launch(c, config) ==
  /\ wantUp' = Up(c)
  /\ Spawn(Launched(c), [d \in {c} |-> config])

Term(S) == process' = [p \in Pids |-> IF p \in S \cap Alive
                         THEN [process[p] EXCEPT !.dying = TRUE]
                         ELSE process[p]]

\* stopConnector; the timer it clears is the one Proc.timer names.
StopConnector(c) ==
  /\ wantUp' = [wantUp EXCEPT ![c] = FALSE]
  /\ timer' = [timer EXCEPT ![c] = None]
  /\ Term({child[c]})
  /\ UNCHANGED <<child, strays, keyed>>

\* restartConnector; a process that runs is replaced when it exits.
RestartConnector(c, config) ==
  /\ \/ /\ child[c] # None
        /\ wantUp' = [wantUp EXCEPT ![c] = TRUE]
        /\ Term({child[c]}) /\ UNCHANGED <<child, keyed>>
     \/ child[c] = None /\ Launch(c, config)
  /\ UNCHANGED <<timer, strays>>

-----------------------------------------------------------------------------
(* The administrator's requests, served until the platform is down.        *)

Create(c, config) ==
  /\ Serving /\ rows[c] = NoRow
  /\ rows' = [rows EXCEPT ![c] = [state |-> "on", config |-> config]]
  /\ Launch(c, config)
  /\ UNCHANGED <<timer, strays, phase>>

Patch(c, config, enabled) ==
  /\ Serving /\ Exists(c)
  /\ rows' = [rows EXCEPT ![c] =
                 [state |-> IF enabled THEN "on" ELSE "off",
                  config |-> config]]
  /\ IF enabled THEN RestartConnector(c, config) ELSE StopConnector(c)
  /\ UNCHANGED phase

Start(c) ==
  /\ Serving /\ Exists(c)
  /\ rows' = [rows EXCEPT ![c].state = "on"]
  /\ Launch(c, rows[c].config)
  /\ UNCHANGED <<timer, strays, phase>>

Stop(c) ==
  /\ Serving /\ Exists(c)
  /\ rows' = [rows EXCEPT ![c].state = "off"]
  /\ StopConnector(c) /\ UNCHANGED phase

Restart(c) ==
  /\ Serving /\ Exists(c)
  /\ RestartConnector(c, rows[c].config)
  /\ UNCHANGED <<rows, phase>>

\* dropConnector; what the closures of its process hold lives on.
Delete(c) ==
  /\ Serving /\ Exists(c)
  /\ rows' = [rows EXCEPT ![c].state = "deleted"]
  /\ StopConnector(c) /\ UNCHANGED phase

-----------------------------------------------------------------------------
(* Exits and respawns.                                                     *)

Respawns(c, p) == child[c] = p /\ wantUp[c]

\* Variant: the entry of the process is not cleared as a whole.
ReapedPartly(p) == [process EXCEPT ![p].of = None]
Reaped(p) == [process EXCEPT ![p] = Gone]

\* The respawn gets the record of the launch that made the process.
ChildExits(p) ==
  /\ p \in Alive
  /\ process' = Reaped(p)
  /\ child' = [c \in Connectors |-> IF child[c] = p THEN None ELSE child[c]]
  /\ timer' = [c \in Connectors |-> IF Respawns(c, p) THEN process[p].config
                                    ELSE timer[c]]
  /\ strays' = [c \in Connectors |-> IF Respawns(c, p)
                  THEN strays[c] \cup ({timer[c]} \ {None}) ELSE strays[c]]
  /\ awaited' = awaited \ {p}
  /\ UNCHANGED <<rows, wantUp, keyed, platform>>

LaunchIfWanted(c, config) ==
  IF wantUp[c] THEN Launch(c, config)
  ELSE UNCHANGED <<wantUp, child, process, keyed>>

TimerFires(c) ==
  /\ Serving /\ timer[c] # None
  /\ timer' = [timer EXCEPT ![c] = None]
  /\ LaunchIfWanted(c, timer[c])
  /\ UNCHANGED <<rows, strays, phase>>

\* Strays with one configuration are one element: another may be left.
StrayFires(c, config, last) ==
  /\ Serving /\ config \in strays[c]
  /\ timer' = [timer EXCEPT ![c] = None]
  /\ strays' = [strays EXCEPT ![c] =
       (@ \ IF last THEN {config} ELSE {}) \cup ({timer[c]} \ {None})]
  /\ LaunchIfWanted(c, config)
  /\ UNCHANGED <<rows, phase>>

-----------------------------------------------------------------------------
(* The platform's own life.                                                *)

\* shutdownConnectors: dropConnector took deleted ones out of its sight.
Shutdown ==
  /\ platform = "up" /\ platform' = "stopping"
  /\ wantUp' = [c \in Connectors |-> FALSE]
  /\ timer' = [c \in Connectors |-> None]
  /\ awaited' = {child[c] : c \in {d \in Connectors : Exists(d)}} \ {None}
  /\ Term(awaited')
  /\ UNCHANGED <<rows, child, strays, keyed>>

Down ==
  /\ platform' = "down" /\ awaited' = {}
  /\ wantUp' = [c \in Connectors |-> FALSE]
  /\ child' = [c \in Connectors |-> None]
  /\ timer' = [c \in Connectors |-> None]
  /\ strays' = [c \in Connectors |-> {}]
  /\ keyed' = FALSE
  /\ UNCHANGED <<rows, process>>

\* Every process waited for is gone, by itself or killed after 2 s.
Exit == platform = "stopping" /\ awaited = {} /\ Down

\* Room, the bound on processes: a boot can give every row a new one.
Crash ==
  /\ Serving /\ Cardinality(Pids \ Alive) >= Cardinality(Connectors)
  /\ Down

\* resumeConnectors.
Boot ==
  /\ platform = "down" /\ platform' = "up"
  /\ Cardinality(Pids \ Alive) >= Cardinality(Connectors)
  /\ wantUp' = [c \in Connectors |-> c \in Enabled]
  /\ Spawn(Enabled, [c \in Enabled |-> rows[c].config])
  /\ UNCHANGED <<rows, timer, strays, awaited>>

-----------------------------------------------------------------------------
Administer ==
  \E c \in Connectors :
    \/ \E config \in Configs : Create(c, config)
    \/ \E config \in Configs, enabled \in BOOLEAN : Patch(c, config, enabled)
    \/ Start(c) \/ Stop(c) \/ Restart(c) \/ Delete(c)

Supervise ==
  \/ \E p \in Pids : ChildExits(p)
  \/ \E c \in Connectors :
       \/ TimerFires(c)
       \/ \E config \in Configs, last \in BOOLEAN : StrayFires(c, config, last)

Next == Administer \/ Supervise \/ Shutdown \/ Exit \/ Crash \/ Boot

Spec == Init /\ [][Next]_vars

\* Timers fire, and a process that was told to end does.
Fairness ==
  /\ \A c \in Connectors : WF_vars(TimerFires(c))
  /\ \A c \in Connectors, config \in Configs :
       WF_vars(StrayFires(c, config, TRUE))
  /\ \A p \in Pids : WF_vars(p \in Alive /\ process[p].dying /\ ChildExits(p))

FairSpec == Spec /\ Fairness

-----------------------------------------------------------------------------
TypeOK ==
  /\ rows \in [Connectors -> Row \cup {NoRow}]
  /\ wantUp \in [Connectors -> BOOLEAN]
  /\ child \in [Connectors -> Pids \cup {None}]
  /\ timer \in [Connectors -> Configs \cup {None}]
  /\ strays \in [Connectors -> SUBSET Configs]
  /\ process \in [Pids -> Process \cup {Gone}]
  /\ keyed \in BOOLEAN
  /\ platform \in {"up", "stopping", "down"} /\ awaited \subseteq Pids

\* Two processes that both reach the platform never serve one connector:
\* whatever is started, stopped, respawned or left behind by a crash, at most
\* one adapter drives the robot (connectors.ts:47-57, 125-130).
OneDriver ==
  \A p, q \in Alive :
    process[p].of = process[q].of /\ process[p].valid /\ process[q].valid
      => p = q

\* A connector that is deleted gets no process any more, by no respawn that
\* was pending or comes later (connectors.ts:172-182, 198-201).
DeletedStaysDown ==
  [][\A c \in Connectors : rows[c].state = "deleted" =>
       child'[c] \in {child[c], None}]_vars

\* An enabled connector runs, or runs again: a stop overtaken by a start, a
\* restart, an exit and a respawn that lost its handle never leave it down
\* (connectors.ts:125-196, 222-226).
EnabledRuns ==
  \A c \in Connectors :
    []<>(c \in Enabled /\ platform = "up" =>
           child[c] # None /\ ~process[child[c]].dying)

\* The processes of a connector follow its row.
FollowsItsRow == DeletedStaysDown /\ EnabledRuns

\* connectors.ts:187: the exit handler respawns with fresh config.
RespawnIsFresh ==
  [][\A c \in Connectors : child'[c] \notin {child[c], None} /\ Exists(c)
       => process'[child'[c]].config = rows'[c].config]_vars
=============================================================================
