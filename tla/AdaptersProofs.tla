----------------------------- MODULE AdaptersProofs ----------------------------
(***************************************************************************)
(* What is around the platform, for every value of the constants: the      *)
(* connector processes (Connectors), the order pump inside one of them     *)
(* (OrderPump), the links of two adapters to their robots (SpotSession,    *)
(* RobotServer), the lists of the web interface (Panels), and all of them  *)
(* in the graph they share (MCAdapters).                                   *)
(*                                                                         *)
(* OneDriver is not inductive: a launch makes a process for a connector    *)
(* without asking whether another still runs.  It is safe because either   *)
(* the boot has its key, and then a process with a valid key is the child  *)
(* of its connector, which launch does ask about; or it has not, and then  *)
(* the launch takes the key of every process there is.                     *)
(*                                                                         *)
(* That motion orders are carried out one at a time rests on FlightInv:    *)
(* what is begun and not over is the order in flight, and at most one goal *)
(* is on its way, of that order, which waits for it.  That none is carried *)
(* out twice rests on Once: what is begun or waits was seen, and the ring, *)
(* having no order twice, is no longer than there are orders, so a ring of *)
(* that length forgets none.                                               *)
(*                                                                         *)
(* The Spot's session is tended or some dance carries it (Carries): it has *)
(* done, since the timers were last cleared, what its stage says.  On the  *)
(* DeepRobotics' line every request is newer than the cancel that was      *)
(* answered last (Past), and every answer on it is true (TrueReplies).     *)
(***************************************************************************)
EXTENDS MCAdapters, FiniteSetTheorems, WellFoundedInduction, TLAPS

ChildrenLive ==
  \A c \in Connectors : child[c] # None =>
    keyed /\ child[c] \in Alive /\ process[child[c]].of = c
KeyedAreChildren ==
  keyed => \A p \in Alive : process[p].valid => child[process[p].of] = p
DownIsEmpty ==
  platform = "down" => \A c \in Connectors : child[c] = None

Core == OneDriver /\ ChildrenLive /\ KeyedAreChildren
ProcessType ==
  /\ child \in [Connectors -> Pids \cup {None}]
  /\ process \in [Pids -> Process \cup {Gone}]
  /\ keyed \in BOOLEAN
DriverInv == TypeOK /\ Core /\ DownIsEmpty

\* A process that is not gone is a process of a connector.
LEMMA AliveProcess ==
  ASSUME ProcessType, NEW p \in Alive
  PROVE  process[p] \in Process /\ p \in Pids
BY DEF ProcessType, Alive

LEMMA GoneIsNone ==
  Gone \notin Process
BY ConnectorsAssumption DEF Gone, Process

\* launch and resumeConnectors, for connectors that have no child.
LEMMA SpawnKeeps ==
  ASSUME ProcessType, Core,
         NEW S \in SUBSET Connectors, \A c \in S : child[c] = None,
         NEW config, \A c \in S : config[c] \in Configs, Spawn(S, config)
  PROVE  ProcessType' /\ Core'
<1>1. PICK id \in [S -> Pids \ Alive] :
        /\ \A c, d \in S : id[c] = id[d] => c = d
        /\ child' = [c \in Connectors |-> IF c \in S THEN id[c] ELSE child[c]]
        /\ process' = [p \in Pids |->
             IF \E c \in S : id[c] = p
               THEN LET c == CHOOSE c \in S : id[c] = p
                    IN [of |-> c, config |-> config[c],
                        dying |-> FALSE, valid |-> TRUE]
               ELSE IF S = {} THEN process[p] ELSE Rekeyed(p)]
        /\ keyed' = (keyed \/ S # {})
  BY DEF Spawn
<1> DEFINE Made == {p \in Pids : \E c \in S : id[c] = p}
<1>2. ASSUME NEW c \in S
      PROVE  /\ id[c] \in Pids /\ id[c] \notin Alive /\ id[c] \in Made
             /\ process'[id[c]] = [of |-> c, config |-> config[c],
                                   dying |-> FALSE, valid |-> TRUE]
             /\ child'[c] = id[c]
  <2>1. id[c] \in Pids \ Alive
    OBVIOUS
  <2>2. (CHOOSE d \in S : id[d] = id[c]) = c
    BY <1>1
  <2> QED
    BY <1>1, <2>1, <2>2
<1>3. ASSUME NEW p \in Pids \ Made
      PROVE  process'[p] = IF S = {} THEN process[p] ELSE Rekeyed(p)
  BY <1>1
<1>4. \A p \in Made : \E c \in S : p = id[c]
  OBVIOUS
<1>5. ProcessType'
  <2>1. ASSUME NEW p \in Pids PROVE process'[p] \in Process \cup {Gone}
    <3>1. CASE p \in Made
      <4>1. PICK c \in S : p = id[c]
        BY <3>1, <1>4
      <4>2. process'[p] = [of |-> c, config |-> config[c],
                           dying |-> FALSE, valid |-> TRUE]
        BY <1>2, <4>1
      <4>3. config[c] \in Configs /\ c \in Connectors
        OBVIOUS
      <4> QED
        BY <4>2, <4>3 DEF Process
    <3>2. CASE p \notin Made
      <4>1. process[p] \in Process \cup {Gone}
        BY DEF ProcessType
      <4>2. process[p] # Gone =>
              [process[p] EXCEPT !.valid = FALSE] \in Process
        BY <4>1 DEF Process
      <4> QED
        BY <3>2, <1>3, <4>1, <4>2 DEF Rekeyed
    <3> QED
      BY <3>1, <3>2
  <2>2. process' \in [Pids -> Process \cup {Gone}]
    BY <1>1, <2>1
  <2>3. child' \in [Connectors -> Pids \cup {None}]
    BY <1>1, <1>2 DEF ProcessType
  <2> QED
    BY <1>1, <2>2, <2>3 DEF ProcessType
<1>6. CASE S = {}
  <2>1. Made = {}
    BY <1>6
  <2>2. process' = process
    <3>1. \A p \in Pids : process'[p] = process[p]
      BY <2>1, <1>3, <1>6
    <3> QED
      BY <3>1, <1>5 DEF ProcessType
  <2>3. child' = child /\ keyed' = keyed
    BY <1>1, <1>6 DEF ProcessType
  <2> QED
    BY <2>2, <2>3, <1>5 DEF Core, OneDriver, ChildrenLive, KeyedAreChildren,
                            Alive
<1>7. CASE S # {}
  <2>1. keyed'
    BY <1>1, <1>7
  <2>2. ASSUME NEW p \in Alive', p \notin Made
        PROVE  /\ p \in Alive /\ process'[p].of = process[p].of
               /\ process'[p].valid => keyed /\ process[p].valid
    <3>1. p \in Pids /\ process'[p] # Gone
      BY DEF Alive
    <3>2. process'[p] = Rekeyed(p)
      BY <3>1, <1>3, <1>7, <2>2
    <3>3. p \in Alive
      BY <3>1, <3>2 DEF Rekeyed, Alive
    <3>4. process[p] \in Process
      BY <3>3, AliveProcess
    <3> QED
      BY <3>2, <3>3, <3>4 DEF Rekeyed, Process, Alive
  <2>3. ASSUME NEW p \in Alive', process'[p].valid
        PROVE  child'[process'[p].of] = p
    <3>1. CASE p \in Made
      <4>1. PICK c \in S : p = id[c]
        BY <3>1, <1>4
      <4>2. /\ process'[p] = [of |-> c, config |-> config[c],
                              dying |-> FALSE, valid |-> TRUE]
            /\ child'[c] = p
        BY <1>2, <4>1
      <4>3. process'[p].of = c
        BY <4>2
      <4> QED
        BY <4>2, <4>3
    <3>2. CASE p \notin Made
      <4>1. /\ p \in Alive /\ process'[p].of = process[p].of
            /\ keyed /\ process[p].valid
        BY <3>2, <2>2, <2>3
      <4>2. child[process[p].of] = p
        BY <4>1 DEF Core, KeyedAreChildren
      <4>3. process[p].of \in Connectors /\ p \in Pids
        BY <4>1, AliveProcess DEF Process
      <4>4. p # None
        BY <4>3, ConnectorsAssumption
      <4>5. process[p].of \notin S
        BY <4>2, <4>4
      <4> QED
        BY <1>1, <4>1, <4>2, <4>3, <4>5
    <3> QED
      BY <3>1, <3>2
  <2>4. OneDriver'
    BY <2>3 DEF OneDriver
  <2>5. ASSUME NEW c \in Connectors, child'[c] # None
        PROVE  child'[c] \in Alive' /\ process'[child'[c]].of = c
    <3>1. CASE c \in S
      <4>1. [of |-> c, config |-> config[c], dying |-> FALSE, valid |-> TRUE]
              # Gone
        BY ConnectorsAssumption DEF Gone
      <4>2. /\ id[c] \in Pids /\ child'[c] = id[c]
            /\ process'[id[c]] = [of |-> c, config |-> config[c],
                                  dying |-> FALSE, valid |-> TRUE]
        BY <3>1, <1>2
      <4>3. process'[id[c]].of = c
        BY <4>2
      <4> QED
        BY <4>1, <4>2, <4>3 DEF Alive
    <3>2. CASE c \notin S
      <4>0. PICK p : p = child[c]
        OBVIOUS
      <4>1. child'[c] = p /\ p # None
        BY <4>0, <3>2, <1>1, <2>5
      <4>2. p \in Alive /\ process[p].of = c
        BY <4>0, <4>1 DEF Core, ChildrenLive
      <4>3. p \in Pids /\ p \notin Made
        BY <4>2, <1>2, <1>4, AliveProcess
      <4>4. process'[p] = Rekeyed(p) /\ process[p] \in Process
        BY <4>2, <4>3, <1>3, <1>7, AliveProcess
      <4>5. process'[p].of = c
        BY <4>4, <4>2 DEF Rekeyed, Process
      <4>6. process'[p] # Gone
        BY <4>5, ConnectorsAssumption DEF Gone
      <4> QED
        BY <4>1, <4>3, <4>5, <4>6 DEF Alive
    <3> QED
      BY <3>1, <3>2
  <2>6. ChildrenLive'
    BY <2>1, <2>5 DEF ChildrenLive
  <2>7. KeyedAreChildren'
    BY <2>3 DEF KeyedAreChildren
  <2> QED
    BY <1>5, <2>4, <2>6, <2>7 DEF Core
<1> QED
  BY <1>5, <1>6, <1>7

\* A process that is told to end goes on until it does.
LEMMA TermKeeps ==
  ASSUME ProcessType, Core, NEW S, Term(S), UNCHANGED <<child, keyed>>
  PROVE  ProcessType' /\ Core'
<1>1. ASSUME NEW p \in Pids
      PROVE  /\ process[p] = Gone => process'[p] = Gone
             /\ process[p] # Gone => /\ process'[p] \in Process
                                     /\ process'[p].of = process[p].of
                                     /\ process'[p].valid = process[p].valid
  <2>1. CASE p \in S \cap Alive
    <3>1. process[p] \in Process /\ process[p] # Gone
      BY <2>1, AliveProcess DEF Alive
    <3>2. process'[p] = [process[p] EXCEPT !.dying = TRUE]
      BY <2>1 DEF Term
    <3> QED
      BY <3>1, <3>2 DEF Process
  <2>2. CASE p \notin S \cap Alive
    <3>1. process'[p] = process[p]
      BY <2>2 DEF Term
    <3> QED
      BY <3>1 DEF ProcessType
  <2> QED
    BY <2>1, <2>2
<1>2. process' \in [Pids -> Process \cup {Gone}]
  <2>1. \A p \in Pids : process'[p] \in Process \cup {Gone}
    BY <1>1
  <2> QED
    BY <2>1 DEF Term
<1>3. Alive' = Alive
  BY <1>1, GoneIsNone DEF Alive
<1>4. ProcessType'
  BY <1>2 DEF ProcessType
<1>5. \A p \in Alive : /\ process'[p].of = process[p].of
                       /\ process'[p].valid = process[p].valid
  BY <1>1 DEF Alive
<1>6. OneDriver'
  BY <1>3, <1>5 DEF Core, OneDriver
<1>7. ChildrenLive'
  BY <1>3, <1>5 DEF Core, ChildrenLive
<1>8. KeyedAreChildren'
  BY <1>3, <1>5 DEF Core, KeyedAreChildren
<1> QED
  BY <1>4, <1>6, <1>7, <1>8 DEF Core

\* A process that exits is the child of nobody.
LEMMA ExitKeeps ==
  ASSUME DriverInv, NEW p \in Pids, ChildExits(p)
  PROVE  DriverInv'
<1>1. /\ p \in Alive /\ process' = [process EXCEPT ![p] = Gone]
      /\ child' = [c \in Connectors |-> IF child[c] = p THEN None ELSE child[c]]
      /\ UNCHANGED <<rows, wantUp, keyed, platform>>
  BY DEF ChildExits, Reaped
<1>2. ProcessType /\ Core
  BY DEF DriverInv, TypeOK, ProcessType
<1>3. Alive' = Alive \ {p} /\ \A q \in Alive' : process'[q] = process[q]
  BY <1>1, <1>2 DEF Alive, ProcessType
<1>4. OneDriver'
  BY <1>2, <1>3 DEF Core, OneDriver
<1>5. ChildrenLive'
  BY <1>1, <1>2, <1>3 DEF Core, ChildrenLive
<1>6. KeyedAreChildren'
  <2> SUFFICES ASSUME keyed', NEW q \in Alive', process'[q].valid
               PROVE  child'[process'[q].of] = q
    BY DEF KeyedAreChildren
  <2>1. /\ q \in Alive /\ q # p /\ process'[q] = process[q]
        /\ process[q].of \in Connectors
    BY <1>2, <1>3, AliveProcess DEF Process
  <2>2. child[process[q].of] = q
    BY <1>1, <1>2, <2>1 DEF Core, KeyedAreChildren
  <2> QED
    BY <1>1, <2>1, <2>2
<1>7. DownIsEmpty'
  BY <1>1 DEF DriverInv, DownIsEmpty
<1>8. process[p].config \in Configs
  BY <1>1, <1>2, AliveProcess DEF Process
<1>9. TypeOK'
  <2>1. timer' \in [Connectors -> Configs \cup {None}]
    BY <1>8 DEF ChildExits, DriverInv, TypeOK
  <2>2. strays' \in [Connectors -> SUBSET Configs]
    BY DEF ChildExits, DriverInv, TypeOK
  <2>3. /\ child' \in [Connectors -> Pids \cup {None}]
        /\ process' \in [Pids -> Process \cup {Gone}]
    BY <1>1, <1>2 DEF ProcessType
  <2>4. awaited' \subseteq Pids
    BY DEF ChildExits, DriverInv, TypeOK
  <2> QED
    BY <1>1, <2>1, <2>2, <2>3, <2>4 DEF DriverInv, TypeOK
<1> QED
  BY <1>4, <1>5, <1>6, <1>7, <1>9 DEF DriverInv, Core

LEMMA LaunchKeeps ==
  ASSUME ProcessType, Core,
         NEW c \in Connectors, NEW config \in Configs, Launch(c, config)
  PROVE  ProcessType' /\ Core'
<1>1. PICK S \in SUBSET Connectors : S = Launched(c)
  BY DEF Launched
<1>2. PICK given : given = [d \in {c} |-> config]
  OBVIOUS
<1>3. Spawn(S, given)
  BY <1>1, <1>2 DEF Launch
<1>4. \A d \in S : child[d] = None /\ given[d] \in Configs
  BY <1>1, <1>2 DEF Launched
<1> QED
  BY <1>3, <1>4, SpawnKeeps

\* With the platform not down, the parts make up the invariant.
LEMMA ServingKeeps ==
  ASSUME DriverInv, ProcessType', Core', platform' # "down",
         rows' \in [Connectors -> Row \cup {NoRow}],
         wantUp' \in [Connectors -> BOOLEAN],
         timer' \in [Connectors -> Configs \cup {None}],
         strays' \in [Connectors -> SUBSET Configs],
         platform' \in {"up", "stopping", "down"}, awaited' \subseteq Pids
  PROVE  DriverInv'
BY DEF DriverInv, TypeOK, ProcessType, DownIsEmpty

LEMMA StopKeeps ==
  ASSUME DriverInv, NEW c \in Connectors, StopConnector(c)
  PROVE  /\ ProcessType' /\ Core'
         /\ wantUp' \in [Connectors -> BOOLEAN]
         /\ timer' \in [Connectors -> Configs \cup {None}]
         /\ strays' \in [Connectors -> SUBSET Configs]
<1>1. ProcessType /\ Core
  BY DEF DriverInv, TypeOK, ProcessType
<1>2. PICK S : S = {child[c]}
  OBVIOUS
<1>3. Term(S) /\ UNCHANGED <<child, keyed>>
  BY <1>2 DEF StopConnector
<1>4. ProcessType' /\ Core'
  BY <1>1, <1>3, TermKeeps
<1> QED
  BY <1>4 DEF StopConnector, DriverInv, TypeOK

LEMMA RestartKeeps ==
  ASSUME DriverInv, NEW c \in Connectors, NEW config \in Configs,
         RestartConnector(c, config)
  PROVE  /\ ProcessType' /\ Core'
         /\ wantUp' \in [Connectors -> BOOLEAN]
         /\ timer' \in [Connectors -> Configs \cup {None}]
         /\ strays' \in [Connectors -> SUBSET Configs]
<1>1. ProcessType /\ Core
  BY DEF DriverInv, TypeOK, ProcessType
<1>2. CASE Launch(c, config)
  <2>1. ProcessType' /\ Core'
    BY <1>1, <1>2, LaunchKeeps
  <2> QED
    BY <1>2, <2>1 DEF RestartConnector, Launch, Up, DriverInv, TypeOK
<1>3. CASE /\ wantUp' = [wantUp EXCEPT ![c] = TRUE]
           /\ Term({child[c]}) /\ UNCHANGED <<child, keyed>>
  <2>1. PICK S : S = {child[c]}
    OBVIOUS
  <2>2. Term(S)
    BY <1>3, <2>1
  <2>3. ProcessType' /\ Core'
    BY <1>1, <1>3, <2>2, TermKeeps
  <2> QED
    BY <1>3, <2>3 DEF RestartConnector, DriverInv, TypeOK
<1> QED
  BY <1>2, <1>3 DEF RestartConnector

\* A respawn launches, or finds that it is not wanted any more.
LEMMA RespawnKeeps ==
  ASSUME DriverInv, NEW c \in Connectors, NEW config \in Configs,
         LaunchIfWanted(c, config)
  PROVE  ProcessType' /\ Core' /\ wantUp' \in [Connectors -> BOOLEAN]
<1>1. ProcessType /\ Core
  BY DEF DriverInv, TypeOK, ProcessType
<1>2. CASE Launch(c, config)
  <2>1. ProcessType' /\ Core'
    BY <1>1, <1>2, LaunchKeeps
  <2> QED
    BY <1>2, <2>1 DEF Launch, Up, DriverInv, TypeOK
<1>3. CASE UNCHANGED <<wantUp, child, process, keyed>>
  BY <1>1, <1>3 DEF DriverInv, TypeOK, ProcessType, Core, OneDriver,
                    ChildrenLive, KeyedAreChildren, Alive
<1> QED
  BY <1>2, <1>3 DEF LaunchIfWanted

LEMMA AdministerKeeps ==
  ASSUME DriverInv, Administer
  PROVE  DriverInv'
<1> USE DEF Serving, phase
<1>0. ProcessType /\ Core
  BY DEF DriverInv, TypeOK, ProcessType
<1>1. PICK c \in Connectors :
        \/ \E config \in Configs : Create(c, config)
        \/ \E config \in Configs, enabled \in BOOLEAN :
             Patch(c, config, enabled)
        \/ Start(c) \/ Stop(c) \/ Restart(c) \/ Delete(c)
  BY DEF Administer
<1>2. Exists(c) => /\ rows[c] \in Row
                   /\ rows[c].config \in Configs
  BY DEF DriverInv, TypeOK, Exists, Row, NoRow
<1>3. ASSUME NEW config \in Configs, Create(c, config) PROVE DriverInv'
  <2>1. ProcessType' /\ Core'
    BY <1>0, <1>3, LaunchKeeps DEF Create
  <2>2. rows' \in [Connectors -> Row \cup {NoRow}]
    BY <1>3 DEF Create, DriverInv, TypeOK, Row
  <2> QED
    BY <1>3, <2>1, <2>2, ServingKeeps
       DEF Create, Launch, Up, DriverInv, TypeOK
<1>4. ASSUME NEW config \in Configs, NEW enabled \in BOOLEAN,
             Patch(c, config, enabled)
      PROVE  DriverInv'
  <2>1. rows' \in [Connectors -> Row \cup {NoRow}]
    <3>1. PICK row : row = [state |-> IF enabled THEN "on" ELSE "off",
                            config |-> config]
      OBVIOUS
    <3>2. row \in Row
      BY <3>1 DEF Row
    <3> QED
      BY <1>4, <3>1, <3>2 DEF Patch, DriverInv, TypeOK
  <2>2. RestartConnector(c, config) \/ StopConnector(c)
    BY <1>4 DEF Patch
  <2>3. /\ ProcessType' /\ Core'
        /\ wantUp' \in [Connectors -> BOOLEAN]
        /\ timer' \in [Connectors -> Configs \cup {None}]
        /\ strays' \in [Connectors -> SUBSET Configs]
    BY <2>2, RestartKeeps, StopKeeps
  <2> QED
    BY <1>4, <2>1, <2>3, ServingKeeps DEF Patch, DriverInv, TypeOK
<1>5. CASE Start(c)
  <2>1. ProcessType' /\ Core'
    <3>1. Launch(c, rows[c].config) /\ rows[c].config \in Configs
      BY <1>5, <1>2 DEF Start
    <3>2. PICK config \in Configs : config = rows[c].config
      BY <3>1
    <3>3. Launch(c, config)
      BY <3>1, <3>2
    <3> QED
      BY <1>0, <3>3, LaunchKeeps
  <2>2. rows' \in [Connectors -> Row \cup {NoRow}]
    BY <1>5, <1>2 DEF Start, DriverInv, TypeOK, Row
  <2> QED
    BY <1>5, <2>1, <2>2, ServingKeeps
       DEF Start, Launch, Up, DriverInv, TypeOK
<1>6. CASE Stop(c)
  <2>1. rows' \in [Connectors -> Row \cup {NoRow}]
    BY <1>6, <1>2 DEF Stop, DriverInv, TypeOK, Row
  <2> QED
    BY <1>6, <2>1, StopKeeps, ServingKeeps DEF Stop, DriverInv, TypeOK
<1>7. CASE Restart(c)
  <2>1. RestartConnector(c, rows[c].config) /\ rows[c].config \in Configs
    BY <1>7, <1>2 DEF Restart
  <2>2. PICK config \in Configs : config = rows[c].config
    BY <2>1
  <2>3. RestartConnector(c, config)
    BY <2>1, <2>2
  <2>4. /\ ProcessType' /\ Core'
        /\ wantUp' \in [Connectors -> BOOLEAN]
        /\ timer' \in [Connectors -> Configs \cup {None}]
        /\ strays' \in [Connectors -> SUBSET Configs]
    BY <2>3, RestartKeeps
  <2> QED
    BY <1>7, <2>4, ServingKeeps DEF Restart, DriverInv, TypeOK
<1>8. CASE Delete(c)
  <2>1. rows' \in [Connectors -> Row \cup {NoRow}]
    BY <1>8, <1>2 DEF Delete, DriverInv, TypeOK, Row
  <2> QED
    BY <1>8, <2>1, StopKeeps, ServingKeeps DEF Delete, DriverInv, TypeOK
<1> QED
  BY <1>1, <1>3, <1>4, <1>5, <1>6, <1>7, <1>8

LEMMA SuperviseKeeps ==
  ASSUME DriverInv, Supervise
  PROVE  DriverInv'
<1> USE DEF Serving, phase
<1>1. ASSUME NEW c \in Connectors, TimerFires(c) PROVE DriverInv'
  <2>1. PICK config \in Configs : config = timer[c]
    BY <1>1 DEF TimerFires, DriverInv, TypeOK
  <2>2. LaunchIfWanted(c, config)
    BY <1>1, <2>1 DEF TimerFires
  <2>3. ProcessType' /\ Core' /\ wantUp' \in [Connectors -> BOOLEAN]
    BY <2>2, RespawnKeeps
  <2> QED
    BY <1>1, <2>3, ServingKeeps DEF TimerFires, DriverInv, TypeOK
<1>2. ASSUME NEW c \in Connectors, NEW config \in Configs,
             NEW final \in BOOLEAN, StrayFires(c, config, final)
      PROVE  DriverInv'
  <2>1. ProcessType' /\ Core' /\ wantUp' \in [Connectors -> BOOLEAN]
    BY <1>2, RespawnKeeps DEF StrayFires
  <2>2. strays' \in [Connectors -> SUBSET Configs]
    <3>1. PICK left : left =
            (strays[c] \ IF final THEN {config} ELSE {})
              \cup ({timer[c]} \ {None})
      OBVIOUS
    <3>2. left \in SUBSET Configs
      BY <3>1 DEF DriverInv, TypeOK
    <3> QED
      BY <1>2, <3>1, <3>2 DEF StrayFires, DriverInv, TypeOK
  <2> QED
    BY <1>2, <2>1, <2>2, ServingKeeps DEF StrayFires, DriverInv, TypeOK
<1> QED
  BY <1>1, <1>2, ExitKeeps DEF Supervise

LEMMA ShutdownKeeps ==
  ASSUME DriverInv, Shutdown
  PROVE  DriverInv'
<1>1. ProcessType /\ Core
  BY DEF DriverInv, TypeOK, ProcessType
<1>2. PICK S : S = awaited'
  OBVIOUS
<1>3. Term(S) /\ UNCHANGED <<child, keyed>>
  BY <1>2 DEF Shutdown
<1>4. ProcessType' /\ Core'
  BY <1>1, <1>3, TermKeeps
<1>5. awaited' \subseteq Pids
  BY <1>1 DEF Shutdown, ProcessType
<1> QED
  BY <1>4, <1>5, ServingKeeps DEF Shutdown, DriverInv, TypeOK

\* The processes live on, no supervisor knows them and no key is issued.
LEMMA DownKeeps ==
  ASSUME DriverInv, Down
  PROVE  DriverInv'
<1>1. TypeOK' /\ DownIsEmpty'
  BY DEF Down, DriverInv, TypeOK, DownIsEmpty
<1>2. OneDriver'
  BY DEF Down, DriverInv, Core, OneDriver, Alive
<1>3. ChildrenLive' /\ KeyedAreChildren'
  BY DEF Down, ChildrenLive, KeyedAreChildren
<1> QED
  BY <1>1, <1>2, <1>3 DEF DriverInv, Core

LEMMA BootKeeps ==
  ASSUME DriverInv, Boot
  PROVE  DriverInv'
<1>1. ProcessType /\ Core
  BY DEF DriverInv, TypeOK, ProcessType
<1>2. PICK S \in SUBSET Connectors : S = Enabled
  BY DEF Enabled
<1>3. PICK given : given = [c \in Enabled |-> rows[c].config]
  OBVIOUS
<1>4. Spawn(S, given)
  BY <1>2, <1>3 DEF Boot
<1>5. \A c \in S : child[c] = None
  BY DEF Boot, DriverInv, DownIsEmpty
<1>6. \A c \in S : given[c] \in Configs
  BY <1>2, <1>3 DEF Enabled, DriverInv, TypeOK, Row, NoRow
<1>7. ProcessType' /\ Core'
  BY <1>1, <1>4, <1>5, <1>6, SpawnKeeps
<1> QED
  BY <1>7, ServingKeeps DEF Boot, DriverInv, TypeOK

LEMMA DriverInvInductive ==
  Spec => []DriverInv
<1>1. Init => DriverInv
  BY GoneIsNone DEF Init, DriverInv, TypeOK, Core, OneDriver, ChildrenLive,
       KeyedAreChildren, DownIsEmpty, Alive
<1>2. DriverInv /\ [Next]_vars => DriverInv'
  <2>1. ASSUME DriverInv, UNCHANGED vars PROVE DriverInv'
    BY <2>1 DEF vars, supervisor, phase, DriverInv, TypeOK, Core, OneDriver,
         ChildrenLive, KeyedAreChildren, DownIsEmpty, Alive
  <2>2. ASSUME DriverInv, Next PROVE DriverInv'
    BY <2>2, AdministerKeeps, SuperviseKeeps, ShutdownKeeps, DownKeeps,
       BootKeeps DEF Next, Exit, Crash
  <2> QED
    BY <2>1, <2>2
<1> QED
  BY <1>1, <1>2, PTL DEF Spec

\* The state of the rows, the supervisor and the processes keeps its type
\* (server/src/connectors.ts), whatever the numbers of each.
THEOREM ConnectorsTypeCorrect ==
  Spec => []TypeOK
BY DriverInvInductive, PTL DEF DriverInv

\* At most one process that the platform lets in serves a connector, however
\* requests, exits, respawns, shutdowns and crashes interleave
\* (connectors.ts:47-57, 125-130).
THEOREM OneDriverHolds ==
  Spec => []OneDriver
BY DriverInvInductive, PTL DEF DriverInv, Core

-----------------------------------------------------------------------------
(* A deleted connector.                                                    *)

\* Nobody wants a connector that is deleted to be up.
DeletedUnwanted ==
  \A c \in Connectors : rows[c].state = "deleted" => ~wantUp[c]

\* Its process is started by no handler that knows its row, and by no respawn,
\* which asks whether the connector is wanted.
LEMMA DeletedStep ==
  ASSUME TypeOK, DeletedUnwanted, [Next]_vars
  PROVE  /\ DeletedUnwanted'
         /\ \A c \in Connectors : rows[c].state = "deleted" => child'[c] \in {child[c], None}
<1> DEFINE Stays == \A c \in Connectors : rows[c].state = "deleted" => child'[c] \in {child[c], None}
<1>1. ASSUME NEW S \in SUBSET Connectors, NEW config, Spawn(S, config),
             \A c \in S : rows[c].state # "deleted"
      PROVE  Stays
  BY <1>1 DEF Spawn
<1>2. ASSUME NEW c \in Connectors, NEW config, Launch(c, config), rows[c].state # "deleted"
      PROVE  Stays /\ wantUp' = [wantUp EXCEPT ![c] = TRUE]
  <2>1. Launched(c) \in SUBSET Connectors /\ \A d \in Launched(c) : d = c
    BY DEF Launched
  <2> QED
    BY <1>1, <1>2, <2>1 DEF Launch, Up
<1>3. ASSUME NEW c \in Connectors, NEW config, RestartConnector(c, config),
             rows[c].state # "deleted"
      PROVE  Stays /\ wantUp' = [wantUp EXCEPT ![c] = TRUE]
  BY <1>2, <1>3 DEF RestartConnector
<1>4. ASSUME Administer PROVE DeletedUnwanted' /\ Stays
  <2>1. PICK c \in Connectors :
          \/ \E config \in Configs : Create(c, config)
          \/ \E config \in Configs, enabled \in BOOLEAN : Patch(c, config, enabled)
          \/ Start(c) \/ Stop(c) \/ Restart(c) \/ Delete(c)
    BY <1>4 DEF Administer
  <2>2. ASSUME NEW config \in Configs, Create(c, config) PROVE DeletedUnwanted' /\ Stays
    <3>1. Stays /\ wantUp' = [wantUp EXCEPT ![c] = TRUE]
      BY <2>2, <1>2 DEF Create, NoRow
    <3> QED
      BY <2>2, <3>1 DEF Create, DeletedUnwanted, TypeOK
  <2>3. ASSUME NEW config \in Configs, NEW enabled \in BOOLEAN, Patch(c, config, enabled)
        PROVE  DeletedUnwanted' /\ Stays
    <3>1. CASE enabled
      <4>1. Stays /\ wantUp' = [wantUp EXCEPT ![c] = TRUE]
        BY <2>3, <3>1, <1>3 DEF Patch, Exists
      <4> QED
        BY <2>3, <3>1, <4>1 DEF Patch, DeletedUnwanted, TypeOK
    <3>2. CASE ~enabled
      BY <2>3, <3>2 DEF Patch, StopConnector, DeletedUnwanted, TypeOK
    <3> QED
      BY <3>1, <3>2
  <2>4. ASSUME Start(c) PROVE DeletedUnwanted' /\ Stays
    <3>1. Stays /\ wantUp' = [wantUp EXCEPT ![c] = TRUE]
      BY <2>4, <1>2 DEF Start, Exists
    <3> QED
      BY <2>4, <3>1 DEF Start, DeletedUnwanted, TypeOK
  <2>5. ASSUME Stop(c) \/ Delete(c) PROVE DeletedUnwanted' /\ Stays
    BY <2>5 DEF Stop, Delete, StopConnector, DeletedUnwanted, TypeOK
  <2>6. ASSUME Restart(c) PROVE DeletedUnwanted' /\ Stays
    <3>1. Stays /\ wantUp' = [wantUp EXCEPT ![c] = TRUE]
      BY <2>6, <1>3 DEF Restart, Exists
    <3> QED
      BY <2>6, <3>1 DEF Restart, DeletedUnwanted, Exists, TypeOK
  <2> QED
    BY <2>1, <2>2, <2>3, <2>4, <2>5, <2>6
<1>5. ASSUME NEW c \in Connectors, NEW config, LaunchIfWanted(c, config)
      PROVE  Stays /\ wantUp' = wantUp
  <2>1. CASE wantUp[c]
    <3>1. Launch(c, config) /\ rows[c].state # "deleted"
      BY <1>5, <2>1 DEF LaunchIfWanted, DeletedUnwanted
    <3>2. Stays /\ wantUp' = [wantUp EXCEPT ![c] = TRUE]
      BY <1>2, <3>1
    <3>3. wantUp \in [Connectors -> BOOLEAN]
      BY DEF TypeOK
    <3>4. [wantUp EXCEPT ![c] = TRUE] = wantUp
      BY <2>1, <3>3
    <3> QED
      BY <3>2, <3>4
  <2>2. CASE ~wantUp[c]
    BY <1>5, <2>2 DEF LaunchIfWanted
  <2> QED
    BY <2>1, <2>2
<1>6. ASSUME Supervise PROVE DeletedUnwanted' /\ Stays
  <2>1. ASSUME NEW p \in Pids, ChildExits(p) PROVE DeletedUnwanted' /\ Stays
    BY <2>1 DEF ChildExits, DeletedUnwanted, TypeOK
  <2>2. ASSUME NEW c \in Connectors, TimerFires(c) PROVE DeletedUnwanted' /\ Stays
    BY <2>2, <1>5 DEF TimerFires, DeletedUnwanted
  <2>3. ASSUME NEW c \in Connectors, NEW config \in Configs, NEW final \in BOOLEAN,
               StrayFires(c, config, final)
        PROVE  DeletedUnwanted' /\ Stays
    BY <2>3, <1>5 DEF StrayFires, DeletedUnwanted
  <2> QED
    BY <1>6, <2>1, <2>2, <2>3 DEF Supervise
<1>7. ASSUME Shutdown \/ Exit \/ Crash \/ UNCHANGED vars PROVE DeletedUnwanted' /\ Stays
  BY <1>7 DEF Shutdown, Exit, Crash, Down, vars, supervisor, phase, DeletedUnwanted, TypeOK
<1>8. ASSUME Boot PROVE DeletedUnwanted' /\ Stays
  <2>1. \A c \in Enabled : rows[c].state # "deleted"
    BY DEF Enabled
  <2>2. PICK S \in SUBSET Connectors : S = Enabled
    BY DEF Enabled
  <2>3. PICK config : config = [c \in Enabled |-> rows[c].config]
    OBVIOUS
  <2>4. Stays
    BY <1>8, <1>1, <2>1, <2>2, <2>3 DEF Boot
  <2> QED
    BY <1>8, <2>4 DEF Boot, DeletedUnwanted, Enabled
<1> QED
  BY <1>4, <1>6, <1>7, <1>8 DEF Next

\* A connector that is deleted gets no process any more, by no respawn that was
\* pending, no other request and no boot (connectors.ts:172-182, 198-201).  It
\* is the half of FollowsItsRow that needs no fairness.
THEOREM DeletedForGood ==
  Spec => DeletedStaysDown
<1>1. Init => DeletedUnwanted
  BY DEF Init, DeletedUnwanted
<1>2. TypeOK /\ DeletedUnwanted /\ [Next]_vars => DeletedUnwanted'
  BY DeletedStep
<1>3. TypeOK /\ DeletedUnwanted /\ [Next]_vars =>
        [\A c \in Connectors : rows[c].state = "deleted" => child'[c] \in {child[c], None}]_vars
  BY DeletedStep
<1> QED
  BY <1>1, <1>2, <1>3, ConnectorsTypeCorrect, PTL DEF Spec, DeletedStaysDown

-----------------------------------------------------------------------------
(* OrderPump: sequences and the least of a reply.                          *)

LEMMA LeastOfReply ==
  ASSUME NEW T \in SUBSET Nat, T # {}
  PROVE  Min(T) \in T
<1>1. PICK R : R = OpToRel(<, Nat)
  OBVIOUS
<1>2. IsWellFoundedOn(R, Nat)
  BY <1>1, NatLessThanWellFounded
<1>3. PICK x \in T : \A y \in T : ~(<<y, x>> \in R)
  BY <1>2, WFMin
<1>4. \A y, z \in Nat : y < z => <<y, z>> \in R
  BY <1>1 DEF OpToRel
<1>5. \A y \in T : ~(y < x)
  BY <1>3, <1>4
<1>6. \E z \in T : \A y \in T : z <= y
  BY <1>5
<1> QED
  BY <1>6 DEF Min

\* What is left of a sequence, and where.
Later(i, k) == IF k < i THEN k ELSE k + 1

LEMMA RemoveAtIs ==
  ASSUME NEW X, NEW s \in Seq(X), NEW i \in 1..Len(s)
  PROVE  /\ RemoveAt(s, i) \in Seq(X) /\ Len(RemoveAt(s, i)) = Len(s) - 1
         /\ \A k \in 1..Len(RemoveAt(s, i)) :
              /\ Later(i, k) \in (1..Len(s)) \ {i}
              /\ RemoveAt(s, i)[k] = s[Later(i, k)]
         /\ \A k, j \in 1..Len(RemoveAt(s, i)) : Later(i, k) = Later(i, j) => k = j
<1>1. PICK n, u, w : n = Len(s) /\ u = SubSeq(s, 1, i - 1) /\ w = SubSeq(s, i + 1, n)
  OBVIOUS
<1>2. n \in Nat /\ i \in 1..n
  BY <1>1
<1>3. u \in Seq(X) /\ Len(u) = i - 1 /\ \A k \in 1..(i - 1) : u[k] = s[k]
  BY <1>1, <1>2
<1>4. w \in Seq(X) /\ Len(w) = n - i /\ \A k \in 1..(n - i) : w[k] = s[k + i]
  BY <1>1, <1>2
<1>5. PICK r : r = u \o w
  OBVIOUS
<1>6. r = RemoveAt(s, i)
  BY <1>1, <1>5 DEF RemoveAt
<1>7. r \in Seq(X) /\ Len(r) = n - 1
  <2>1. r \in Seq(X)
    BY <1>3, <1>4, <1>5
  <2>2. Len(r) = Len(u) + Len(w)
    <3>1. \A a, b \in Seq(X) : Len(a \o b) = Len(a) + Len(b)
      OBVIOUS
    <3> QED
      BY <3>1, <1>3, <1>4, <1>5
  <2>3. (i - 1) + (n - i) = n - 1
    BY <1>2
  <2> QED
    BY <2>1, <2>2, <2>3, <1>3, <1>4
<1>8. \A k \in 1..(n - 1) : r[k] = IF k <= i - 1 THEN u[k] ELSE w[k - (i - 1)]
  BY <1>2, <1>3, <1>4, <1>5
<1>9. ASSUME NEW k \in 1..(n - 1) PROVE r[k] = s[Later(i, k)]
  <2>1. CASE k < i
    BY <2>1, <1>2, <1>3, <1>8 DEF Later
  <2>2. CASE ~(k < i)
    <3>1. k - (i - 1) \in 1..(n - i) /\ (k - (i - 1)) + i = k + 1 /\ ~(k <= i - 1)
      BY <2>2, <1>2
    <3> QED
      BY <3>1, <2>2, <1>4, <1>8 DEF Later
  <2> QED
    BY <2>1, <2>2
<1>10. \A k \in 1..(n - 1) : Later(i, k) \in (1..n) \ {i}
  BY <1>2 DEF Later
<1>11. \A k, j \in 1..(n - 1) : Later(i, k) = Later(i, j) => k = j
  BY <1>2 DEF Later
<1> QED
  BY <1>1, <1>6, <1>7, <1>9, <1>10, <1>11

-----------------------------------------------------------------------------
(* OrderPump: one motion at a time.                                        *)

Given(o) == orders[o].state # "none"

\* Only an order that was queued is anywhere in the adapter; only a motion
\* waits or is in flight.
GivenOnly ==
  /\ \A reply \in replies : \A o \in reply : Given(o)
  /\ \A o \in batch : Given(o)
  /\ \A o \in Seen : Given(o)
  /\ \A o \in Ids : doing[o] # "idle" => Given(o)
  /\ \A i \in 1..Len(queue) : Given(queue[i]) /\ Motion(queue[i])
  /\ inflight # Nobody => Given(inflight) /\ Motion(inflight)

\* A motion that is begun and not over is the one in flight; what waits for a
\* navigation is a motion, and what waits for an intervention is none.
OneInFlight ==
  \A o \in Ids : Motion(o) /\ doing[o] \notin {"idle", "over"} => o = inflight
Driving == {"check", "nav", "going", "dwell", "held"}
StagesFit ==
  \A o \in Ids : /\ doing[o] \in Driving => Motion(o)
                 /\ doing[o] \in {"ask", "halt"} => ~Motion(o)

\* There is at most one goal on its way, of the motion in flight, and that
\* waits for it.
IsNav(i)  == calls[i].act = "nav"
GoalsFit ==
  /\ \A i \in 1..Len(calls) : IsNav(i) =>
       inflight # Nobody /\ calls[i].by = inflight /\ doing[inflight] = "nav"
  /\ \A i, j \in 1..Len(calls) : IsNav(i) /\ IsNav(j) => i = j
HaltsFit ==
  \A i \in 1..Len(calls) : calls[i].act = "halt" /\ calls[i].by # Nobody =>
    doing[calls[i].by] # "idle" /\ ~Motion(calls[i].by)

\* A mission that is driven point by point has a point left.
PointsFit ==
  \A o \in Ids :
    /\ doing[o] = "dwell" => orders[o].kind = "mission" /\ ~Native
    /\ orders[o].kind = "mission" /\ ~Native /\ doing[o] \in Driving => run.points > 0

FlightInv == /\ OrderTypeOK /\ GivenOnly /\ OneInFlight /\ StagesFit
             /\ GoalsFit /\ HaltsFit /\ PointsFit

RunType == [active : Ids \cup {Nobody}, mission : Ids \cup {Nobody},
            aborted : BOOLEAN, paused : BOOLEAN, points : 0..MaxPoints]
CallType == [act : {"nav", "halt"}, by : Ids \cup {Nobody}]

LEMMA OrderNumbers ==
  /\ OrderCount \in Nat /\ SeenCap \in Nat /\ MaxPoints \in Nat
  /\ Ids \subseteq Nat /\ Nobody \notin Ids
BY OrderPumpAssumption DEF Ids, Nobody

LEMMA CallsAre ==
  \A o \in Ids \cup {Nobody} :
    /\ NavCall(o) \in CallType /\ NavCall(o).act = "nav" /\ NavCall(o).by = o
    /\ HaltCall(o) \in CallType /\ HaltCall(o).act = "halt" /\ HaltCall(o).by = o
BY DEF NavCall, HaltCall, CallType

\* The platform's steps, on orders and replies.
PlatformStep ==
  /\ UNCHANGED <<kit, ring, queue, inflight, doing, run, calls, robot>>
  /\ orders' \in [Ids -> [kind : Kinds, of : Ids \cup {Nobody},
                  state : {"none", "pending", "acked", "done", "failed"}]]
  /\ \A o \in Ids : Given(o) => Given(o)' /\ orders'[o].kind = orders[o].kind
  /\ \A reply \in replies' : reply \subseteq Ids /\ \A o \in reply : Given(o)'
  /\ batch' \subseteq Ids /\ \A o \in batch' : Given(o)'
  /\ faults' \in 0..MaxFaults

LEMMA PlatformKeepsFlight ==
  ASSUME FlightInv, PlatformStep
  PROVE  FlightInv'
<1>1. \A o \in Ids : Given(o) => Given(o)' /\ (Motion(o)' <=> Motion(o))
  BY DEF PlatformStep, Motion
<1>2. /\ \A o \in Seen : o \in Ids
      /\ \A i \in 1..Len(queue) : queue[i] \in Ids
      /\ inflight \in Ids \cup {Nobody}
      /\ \A i \in 1..Len(calls) : calls[i].by \in Ids \cup {Nobody}
  <2>1. ring \in Seq(Ids) /\ queue \in Seq(Ids) /\ calls \in Seq(CallType)
        /\ inflight \in Ids \cup {Nobody}
    BY DEF FlightInv, OrderTypeOK, CallType
  <2>2. \A i \in 1..Len(calls) : calls[i] \in CallType
    BY <2>1
  <2> QED
    BY <2>1, <2>2 DEF Seen, ToSet, CallType
<1>3. OrderTypeOK'
  BY DEF PlatformStep, FlightInv, OrderTypeOK
<1>4. GivenOnly'
  <2>1. Seen' = Seen
    BY DEF PlatformStep, Seen
  <2> QED
    BY <1>1, <1>2, <2>1 DEF PlatformStep, FlightInv, GivenOnly
<1>5. OneInFlight'
  BY <1>1 DEF PlatformStep, FlightInv, OneInFlight, GivenOnly
<1>6. StagesFit'
  <2>1. \A o \in Ids : doing[o] # "idle" => (Motion(o)' <=> Motion(o))
    BY <1>1 DEF FlightInv, GivenOnly
  <2> QED
    BY <2>1 DEF PlatformStep, FlightInv, StagesFit, Driving
<1>7. GoalsFit'
  BY DEF PlatformStep, FlightInv, GoalsFit, IsNav
<1>8. HaltsFit'
  BY <1>1, <1>2 DEF PlatformStep, FlightInv, HaltsFit, GivenOnly
<1>9. PointsFit'
  <2>1. \A o \in Ids : doing[o] # "idle" => orders'[o].kind = orders[o].kind
    BY DEF PlatformStep, FlightInv, GivenOnly
  <2> QED
    BY <2>1 DEF PlatformStep, FlightInv, PointsFit, Driving, Native
<1> QED
  BY <1>3, <1>4, <1>5, <1>6, <1>7, <1>8, <1>9 DEF FlightInv

LEMMA PlatformSteps ==
  ASSUME FlightInv,
         \/ Request \/ Intervene \/ (\E m \in Ids : CancelPending(m)) \/ Pull \/ Reserve
         \/ (\E reply \in replies : Deliver(reply) \/ Lose(reply))
  PROVE  PlatformStep /\ FlightInv'
<1>1. SUFFICES PlatformStep
  BY PlatformKeepsFlight
<1>2. /\ replies \subseteq SUBSET Ids /\ batch \subseteq Ids
      /\ orders \in [Ids -> [kind : Kinds, of : Ids \cup {Nobody},
                     state : {"none", "pending", "acked", "done", "failed"}]]
      /\ faults \in 0..MaxFaults
      /\ \A reply \in replies : \A o \in reply : Given(o)
      /\ \A o \in batch : Given(o)
  BY DEF FlightInv, OrderTypeOK, GivenOnly
<1>3. Fault => faults' \in 0..MaxFaults
  BY <1>2, OrderPumpAssumption DEF Fault
<1>4. ASSUME NEW kind \in Kinds, NEW of \in Ids \cup {Nobody}, Enqueue(kind, of)
      PROVE  PlatformStep
  <2>1. PICK o \in Fresh : orders' = [orders EXCEPT ![o] = [kind |-> kind, state |-> "pending", of |-> of]]
    BY <1>4 DEF Enqueue
  <2>2. UNCHANGED <<kit, faults, replies, batch, ring, queue, inflight, doing, run, calls, robot>>
    BY <1>4 DEF Enqueue, pump, task
  <2>3. o \in Ids /\ ~Given(o)
    BY <2>1 DEF Fresh, Given
  <2>4. /\ orders' \in [Ids -> [kind : Kinds, of : Ids \cup {Nobody},
                        state : {"none", "pending", "acked", "done", "failed"}]]
        /\ \A q \in Ids : Given(q) => orders'[q] = orders[q]
    BY <1>2, <2>1, <2>3
  <2>5. \A q \in Ids : Given(q) => Given(q)' /\ orders'[q].kind = orders[q].kind
    BY <2>4 DEF Given
  <2> QED
    BY <1>2, <2>2, <2>4, <2>5 DEF PlatformStep
<1>5. ASSUME Request \/ Intervene PROVE PlatformStep
  BY <1>5, <1>4 DEF Request, Intervene, Kinds, MotionKinds
<1>6. ASSUME UNCHANGED <<kit, batch, ring, queue, inflight, doing, run, calls, robot>>,
             faults' = faults \/ Fault,
             orders' \in [Ids -> [kind : Kinds, of : Ids \cup {Nobody},
                          state : {"none", "pending", "acked", "done", "failed"}]],
             \A o \in Ids : /\ orders'[o].kind = orders[o].kind
                            /\ Given(o) => Given(o)',
             replies' \subseteq SUBSET Ids, \A reply \in replies' : \A o \in reply : Given(o)'
      PROVE  PlatformStep
  BY <1>2, <1>3, <1>6 DEF PlatformStep
<1>7. ASSUME NEW m \in Ids, CancelPending(m) PROVE PlatformStep
  <2>1. /\ orders' = [o \in Ids |->
             IF orders[o].state = "pending" /\ (o = m \/ orders[o].of = m)
               THEN [orders[o] EXCEPT !.state = "failed"] ELSE orders[o]]
        /\ UNCHANGED <<kit, faults, replies, batch, ring, queue, inflight, doing, run, calls, robot>>
    BY <1>7 DEF CancelPending, pump, task
  <2>2. \A o \in Ids : /\ orders'[o].kind = orders[o].kind
                       /\ Given(o) => Given(o)'
    BY <1>2, <2>1 DEF Given
  <2>3. orders' \in [Ids -> [kind : Kinds, of : Ids \cup {Nobody},
                     state : {"none", "pending", "acked", "done", "failed"}]]
    BY <1>2, <2>1
  <2> QED
    BY <1>2, <1>6, <2>1, <2>2, <2>3
<1>8. ASSUME Pull PROVE PlatformStep
  <2>1. PICK out : out = {o \in Ids : orders[o].state = "pending"}
    OBVIOUS
  <2>2. /\ orders' = [o \in Ids |-> IF o \in out THEN [orders[o] EXCEPT !.state = "acked"] ELSE orders[o]]
        /\ replies' = replies \cup {out}
        /\ UNCHANGED <<kit, faults, batch, ring, queue, inflight, doing, run, calls, robot>>
    BY <1>8, <2>1 DEF Pull, pump, task
  <2>3. \A o \in Ids : /\ orders'[o].kind = orders[o].kind
                       /\ Given(o) => Given(o)'
                       /\ o \in out => Given(o)'
    BY <1>2, <2>1, <2>2 DEF Given
  <2>4. orders' \in [Ids -> [kind : Kinds, of : Ids \cup {Nobody},
                     state : {"none", "pending", "acked", "done", "failed"}]]
    BY <1>2, <2>2
  <2>5. out \subseteq Ids
    BY <2>1
  <2> QED
    BY <1>2, <1>6, <2>2, <2>3, <2>4, <2>5
<1>9. ASSUME Reserve PROVE PlatformStep
  <2>1. /\ orders' = [o \in Ids |->
             IF orders[o].state = "acked" THEN [orders[o] EXCEPT !.state = "pending"] ELSE orders[o]]
        /\ UNCHANGED <<kit, replies, batch, ring, queue, inflight, doing, run, calls, robot>> /\ Fault
    BY <1>9 DEF Reserve, pump, task
  <2>2. \A o \in Ids : /\ orders'[o].kind = orders[o].kind
                       /\ Given(o) => Given(o)'
    BY <1>2, <2>1 DEF Given
  <2>3. orders' \in [Ids -> [kind : Kinds, of : Ids \cup {Nobody},
                     state : {"none", "pending", "acked", "done", "failed"}]]
    BY <1>2, <2>1
  <2> QED
    BY <1>2, <1>6, <2>1, <2>2, <2>3
<1>10. ASSUME NEW reply \in replies, Deliver(reply) PROVE PlatformStep
  <2>1. /\ batch' = reply /\ replies' = replies \ {reply} /\ orders' = orders
        /\ UNCHANGED <<kit, faults, ring, queue, inflight, doing, run, calls, robot>>
    BY <1>10 DEF Deliver, task
  <2> QED
    BY <1>2, <2>1 DEF PlatformStep, Given
<1>11. ASSUME NEW reply \in replies, Lose(reply) PROVE PlatformStep
  <2>1. /\ replies' = replies \ {reply} /\ orders' = orders /\ Fault
        /\ UNCHANGED <<kit, batch, ring, queue, inflight, doing, run, calls, robot>>
    BY <1>11 DEF Lose, pump, task
  <2> QED
    BY <1>2, <1>3, <2>1 DEF PlatformStep, Given
<1> QED
  BY <1>5, <1>7, <1>8, <1>9, <1>10, <1>11

\* A motion is begun when none is.
LEMMA BeginFits ==
  ASSUME FlightInv, NEW o \in Ids, Motion(o), NEW d \in [Ids -> Stages], NEW r \in RunType,
         Begin(o, d, r),
         kit' = kit, \A q \in Ids : orders'[q].kind = orders[q].kind,
         \A q \in Ids : d[q] \notin Driving /\ (Motion(q) => d[q] \in {"idle", "over"}),
         \A q \in Ids : d[q] \in {"ask", "halt"} => ~Motion(q),
         \A q \in Ids : doing[q] # "idle" => d[q] # "idle",
         \A i \in 1..Len(calls) : ~IsNav(i)
  PROVE  /\ inflight' = o /\ doing' \in [Ids -> Stages] /\ run' \in RunType
         /\ calls' \in Seq(CallType)
         /\ doing'[o] # "idle" /\ \A q \in Ids \ {o} : doing'[q] = d[q]
         /\ OneInFlight' /\ StagesFit' /\ GoalsFit' /\ HaltsFit' /\ PointsFit'
<1>0. \A q \in Ids : Motion(q)' <=> Motion(q)
  BY DEF Motion
<1>1. PICK s \in {"check", "nav", "done"} :
        /\ inflight' = o /\ doing' = [d EXCEPT ![o] = s]
        /\ calls' = calls \/ (s = "nav" /\ calls' = Append(calls, NavCall(o)))
  BY DEF Begin
<1>2. run' \in RunType
  <2>1. run' = r \/ run' = [r EXCEPT !.active = o, !.aborted = FALSE]
        \/ \E n \in 0..MaxPoints : run' = [active |-> o, mission |-> o, aborted |-> FALSE,
                                           paused |-> FALSE, points |-> n]
    BY DEF Begin
  <2>2. [r EXCEPT !.active = o, !.aborted = FALSE] \in RunType
    BY DEF RunType
  <2>3. \A n \in 0..MaxPoints : [active |-> o, mission |-> o, aborted |-> FALSE,
                                 paused |-> FALSE, points |-> n] \in RunType
    BY DEF RunType
  <2> QED
    BY <2>1, <2>2, <2>3
<1>3. /\ doing' \in [Ids -> Stages] /\ doing'[o] = s
      /\ \A q \in Ids \ {o} : doing'[q] = d[q]
  BY <1>1 DEF Stages
<1>4. calls \in Seq(CallType)
  BY DEF FlightInv, OrderTypeOK, CallType
<1>5. calls' \in Seq(CallType)
  BY <1>1, <1>4, CallsAre
<1>6. \A i \in 1..Len(calls') :
        \/ i \in 1..Len(calls) /\ calls'[i] = calls[i]
        \/ i = Len(calls) + 1 /\ calls'[i] = NavCall(o) /\ s = "nav"
  BY <1>1, <1>4, CallsAre
<1>7. OneInFlight'
  BY <1>0, <1>1, <1>3 DEF OneInFlight
<1>8. StagesFit'
  <2>1. (doing'[o] \in Driving => Motion(o)') /\ (doing'[o] \in {"ask", "halt"} => ~Motion(o)')
    BY <1>0, <1>3
  <2> QED
    BY <1>0, <2>1, <1>3 DEF StagesFit
<1>9. GoalsFit'
  <2>1. \A i \in 1..Len(calls') : IsNav(i)' => i = Len(calls) + 1 /\ calls'[i] = NavCall(o) /\ s = "nav"
    BY <1>6 DEF IsNav
  <2>2. inflight' # Nobody /\ NavCall(o).by = o
    BY <1>1, OrderNumbers, CallsAre
  <2> QED
    BY <2>1, <2>2, <1>1, <1>3 DEF GoalsFit
<1>10. HaltsFit'
  <2>1. ASSUME NEW i \in 1..Len(calls'), NEW b, b = calls'[i].by,
               calls'[i].act = "halt", b # Nobody
        PROVE  doing'[b] # "idle" /\ ~Motion(b)'
    <3>1. i \in 1..Len(calls) /\ calls'[i] = calls[i]
      BY <2>1, <1>6, CallsAre
    <3>2. calls[i] \in CallType
      BY <3>1, <1>4
    <3>3. b \in Ids
      BY <2>1, <3>1, <3>2 DEF CallType
    <3>4. doing[b] # "idle" /\ ~Motion(b)
      BY <2>1, <3>1 DEF FlightInv, HaltsFit
    <3>5. d[b] # "idle"
      BY <3>3, <3>4
    <3>6. doing'[b] # "idle"
      BY <3>3, <3>5, <1>1, <1>3
    <3> QED
      BY <1>0, <3>3, <3>4, <3>6
  <2> QED
    BY <2>1 DEF HaltsFit
<1>11. PointsFit'
  <2>1. \A q \in Ids \ {o} : doing'[q] \notin Driving /\ doing'[q] # "dwell"
    BY <1>3 DEF Driving
  <2>2. doing'[o] # "dwell"
    BY <1>3
  <2>3. ASSUME orders[o].kind = "mission", ~Native, doing'[o] \in Driving
        PROVE  run'.points > 0
    <3>1. PICK n \in 0..MaxPoints :
            /\ run' = [active |-> o, mission |-> o, aborted |-> FALSE,
                       paused |-> FALSE, points |-> n]
            /\ doing' = [d EXCEPT ![o] = IF n = 0 THEN "done" ELSE "nav"]
      BY <2>3 DEF Begin
    <3>2. n # 0
      BY <2>3, <3>1 DEF Driving
    <3>3. n \in Nat
      BY OrderNumbers
    <3> QED
      BY <3>1, <3>2, <3>3
  <2> QED
    BY <2>1, <2>2, <2>3 DEF PointsFit, Native
<1> QED
  BY <1>1, <1>2, <1>3, <1>5, <1>7, <1>8, <1>9, <1>10, <1>11

\* The rest of the adapter's state keeps its types.
LEMMA RunIsTyped ==
  ASSUME FlightInv
  PROVE  /\ run \in RunType /\ calls \in Seq(CallType) /\ doing \in [Ids -> Stages]
         /\ ring \in Seq(Ids) /\ queue \in Seq(Ids) /\ batch \subseteq Ids
         /\ inflight \in Ids \cup {Nobody} /\ run.active \in Ids \cup {Nobody}
         /\ \A i \in 1..Len(calls) : calls[i].by \in Ids \cup {Nobody}
                                     /\ calls[i].act \in {"nav", "halt"}
         /\ \A i \in 1..Len(queue) : queue[i] \in Ids
         /\ \A o \in Seen : o \in Ids
<1>1. /\ run \in RunType /\ calls \in Seq(CallType) /\ doing \in [Ids -> Stages]
      /\ ring \in Seq(Ids) /\ queue \in Seq(Ids) /\ batch \subseteq Ids
      /\ inflight \in Ids \cup {Nobody}
  BY DEF FlightInv, OrderTypeOK, RunType, CallType
<1>2. \A i \in 1..Len(calls) : calls[i] \in CallType
  BY <1>1
<1>3. run.active \in Ids \cup {Nobody}
  BY <1>1 DEF RunType
<1>4. \A i \in 1..Len(calls) : calls[i].by \in Ids \cup {Nobody} /\ calls[i].act \in {"nav", "halt"}
  BY <1>2 DEF CallType
<1>5. /\ \A i \in 1..Len(queue) : queue[i] \in Ids
      /\ \A o \in Seen : o \in Ids
  BY <1>1 DEF Seen, ToSet
<1> QED
  BY <1>1, <1>3, <1>4, <1>5

\* One order does not wait for a motion, or it is the motion in flight.
StageStep(o, s) ==
  /\ doing' = [doing EXCEPT ![o] = s] /\ o \in Ids /\ s \in Stages /\ s # "idle"
  /\ doing[o] # "idle" \/ ~Motion(o)
  /\ s \in Driving => Motion(o) /\ o = inflight
  /\ s \in {"ask", "halt"} => ~Motion(o)
  /\ Motion(o) => o = inflight
  /\ Given(o)

\* The calls lose one, or grow by a halt of an intervention or of no order.
CallStep ==
  \/ UNCHANGED calls
  \/ \E i \in 1..Len(calls) : calls' = RemoveAt(calls, i)
  \/ \E c \in CallType : /\ calls' = Append(calls, c) /\ c.act = "halt"
                         /\ c.by # Nobody => doing'[c.by] # "idle" /\ ~Motion(c.by)

LEMMA CallStepFits ==
  ASSUME FlightInv, CallStep
  PROVE  /\ calls' \in Seq(CallType)
         /\ \A i \in 1..Len(calls') :
              \/ \E k \in 1..Len(calls) : calls'[i] = calls[k]
              \/ /\ calls'[i].act = "halt" /\ calls'[i].by \in Ids \cup {Nobody}
                 /\ calls'[i].by # Nobody => doing'[calls'[i].by] # "idle" /\ ~Motion(calls'[i].by)
         /\ \A i, j \in 1..Len(calls') : IsNav(i)' /\ IsNav(j)' => i = j
<1>1. calls \in Seq(CallType)
  BY RunIsTyped
<1>2. \A i, j \in 1..Len(calls) : IsNav(i) /\ IsNav(j) => i = j
  BY DEF FlightInv, GoalsFit
<1>3. CASE UNCHANGED calls
  BY <1>1, <1>2, <1>3 DEF IsNav
<1>4. ASSUME NEW i \in 1..Len(calls), calls' = RemoveAt(calls, i)
      PROVE  /\ calls' \in Seq(CallType)
             /\ \A k \in 1..Len(calls') : \E j \in 1..Len(calls) : calls'[k] = calls[j]
             /\ \A k, j \in 1..Len(calls') : IsNav(k)' /\ IsNav(j)' => k = j
  <2>1. /\ calls' \in Seq(CallType)
        /\ \A k \in 1..Len(calls') : Later(i, k) \in 1..Len(calls) /\ calls'[k] = calls[Later(i, k)]
        /\ \A k, j \in 1..Len(calls') : Later(i, k) = Later(i, j) => k = j
    BY <1>1, <1>4, RemoveAtIs
  <2> QED
    BY <2>1, <1>2 DEF IsNav
<1>5. ASSUME NEW c \in CallType, calls' = Append(calls, c), c.act = "halt"
      PROVE  /\ calls' \in Seq(CallType)
             /\ \A k \in 1..Len(calls') : (k \in 1..Len(calls) /\ calls'[k] = calls[k])
                                          \/ calls'[k] = c
             /\ \A k, j \in 1..Len(calls') : IsNav(k)' /\ IsNav(j)' => k = j
  <2>1. /\ calls' \in Seq(CallType)
        /\ \A k \in 1..Len(calls') : (k \in 1..Len(calls) /\ calls'[k] = calls[k])
                                     \/ calls'[k] = c
    BY <1>1, <1>5
  <2>2. \A k \in 1..Len(calls') : IsNav(k)' => k \in 1..Len(calls) /\ IsNav(k)
    BY <2>1, <1>5 DEF IsNav
  <2> QED
    BY <2>1, <2>2, <1>2
<1>6. ASSUME NEW c \in CallType, calls' = Append(calls, c), c.act = "halt",
             c.by # Nobody => doing'[c.by] # "idle" /\ ~Motion(c.by)
      PROVE  \A i \in 1..Len(calls') :
              \/ \E k \in 1..Len(calls) : calls'[i] = calls[k]
              \/ /\ calls'[i].act = "halt" /\ calls'[i].by \in Ids \cup {Nobody}
                 /\ calls'[i].by # Nobody => doing'[calls'[i].by] # "idle" /\ ~Motion(calls'[i].by)
  <2>1. c.by \in Ids \cup {Nobody}
    BY DEF CallType
  <2> QED
    BY <1>5, <1>6, <2>1
<1> QED
  BY <1>3, <1>4, <1>5, <1>6 DEF CallStep

\* What was given is given, and of its kind.
OrdersStand ==
  /\ orders' \in [Ids -> [kind : Kinds, of : Ids \cup {Nobody},
                  state : {"none", "pending", "acked", "done", "failed"}]]
  /\ \A o \in Ids : Given(o) => Given(o)'
  /\ \A o \in Ids : orders'[o].kind = orders[o].kind

\* No run comes to drive, and none has a point less.
PointsKept ==
  /\ run'.points = run.points
  /\ \A q \in Ids : /\ doing'[q] \in Driving => doing[q] \in Driving
                    /\ doing'[q] = "dwell" => doing[q] = "dwell"

LEMMA PointsStillFit ==
  ASSUME FlightInv, kit' = kit, OrdersStand, PointsKept
  PROVE  PointsFit'
BY DEF FlightInv, OrdersStand, PointsKept, PointsFit, Native

\* What the adapter does other than to begin or end a motion or to send a goal.
LEMMA AdapterStep ==
  ASSUME FlightInv, UNCHANGED <<kit, replies, inflight>>, OrdersStand,
         faults' \in 0..MaxFaults,
         batch' \subseteq batch, ring' \in Seq(Ids), \A q \in Seen' : Given(q),
         queue' = queue \/ \E o \in Ids : queue' = Append(queue, o) /\ Given(o) /\ Motion(o),
         run' \in RunType, robot' \in [goal : Ids \cup {Nobody}, reached : BOOLEAN],
         CallStep, PointsFit',
         \/ UNCHANGED doing
         \/ \E o \in Ids, s \in Stages : StageStep(o, s)
              /\ (o = inflight => doing[o] # "nav" \/
                    \A i \in 1..Len(calls') : ~IsNav(i)')
  PROVE  FlightInv'
<1>0. \A q \in Ids : Motion(q)' <=> Motion(q)
  BY DEF OrdersStand, Motion
<1>1. calls' \in Seq(CallType)
  BY CallStepFits
<1>2. doing' \in [Ids -> Stages] /\ \A o \in Ids : doing[o] # "idle" => doing'[o] # "idle"
  BY RunIsTyped DEF StageStep
<1>3. /\ queue' \in Seq(Ids)
      /\ \A i \in 1..Len(queue') : queue'[i] \in Ids /\ Given(queue'[i]) /\ Motion(queue'[i])
  <2>1. \A i \in 1..Len(queue) : queue[i] \in Ids /\ Given(queue[i]) /\ Motion(queue[i])
    BY RunIsTyped DEF FlightInv, GivenOnly
  <2>2. queue \in Seq(Ids)
    BY RunIsTyped
  <2>3. ASSUME NEW o \in Ids, queue' = Append(queue, o), Given(o), Motion(o)
        PROVE  /\ queue' \in Seq(Ids)
               /\ \A i \in 1..Len(queue') : queue'[i] \in Ids /\ Given(queue'[i]) /\ Motion(queue'[i])
    <3>1. /\ queue' \in Seq(Ids) /\ Len(queue') = Len(queue) + 1
          /\ \A i \in 1..Len(queue') : (i \in 1..Len(queue) /\ queue'[i] = queue[i]) \/ queue'[i] = o
      BY <2>2, <2>3
    <3> QED
      BY <3>1, <2>1, <2>3
  <2> QED
    BY <2>1, <2>2, <2>3
<1>4. OrderTypeOK'
  <2>1. kit' \in Kits /\ replies' \subseteq SUBSET Ids /\ batch' \subseteq Ids
        /\ inflight' \in Ids \cup {Nobody}
    BY DEF FlightInv, OrderTypeOK
  <2> QED
    BY <1>1, <1>2, <1>3, <2>1 DEF OrderTypeOK, RunType, CallType, OrdersStand
<1>5. GivenOnly'
  <2>1. /\ \A reply \in replies' : \A o \in reply : o \in Ids /\ Given(o)
        /\ \A o \in batch' : o \in Ids /\ Given(o)
        /\ inflight' # Nobody => inflight' \in Ids /\ Given(inflight') /\ Motion(inflight')
    BY RunIsTyped DEF FlightInv, GivenOnly, OrderTypeOK
  <2>2. \A o \in Seen' : o \in Ids /\ Given(o)
    BY DEF Seen, ToSet
  <2>3. \A o \in Ids : doing'[o] # "idle" => Given(o)
    BY RunIsTyped DEF FlightInv, GivenOnly, StageStep
  <2> QED
    BY <1>0, <1>3, <2>1, <2>2, <2>3 DEF GivenOnly, OrdersStand
<1>6. OneInFlight'
  BY <1>0, RunIsTyped DEF FlightInv, OneInFlight, StageStep
<1>7. StagesFit'
  BY <1>0, RunIsTyped DEF FlightInv, StagesFit, StageStep, Driving
<1>8. GoalsFit'
  <2>1. \A i, j \in 1..Len(calls') : IsNav(i)' /\ IsNav(j)' => i = j
    BY CallStepFits
  <2>2. ASSUME NEW i \in 1..Len(calls'), IsNav(i)'
        PROVE  inflight' # Nobody /\ calls'[i].by = inflight' /\ doing'[inflight'] = "nav"
    <3>1. PICK k \in 1..Len(calls) : IsNav(k) /\ calls'[i] = calls[k]
      BY <2>2, CallStepFits DEF IsNav
    <3>2. inflight # Nobody /\ calls'[i].by = inflight /\ doing[inflight] = "nav"
      BY <3>1 DEF FlightInv, GoalsFit
    <3>3. doing'[inflight] = "nav"
      BY <2>2, <3>2, RunIsTyped DEF StageStep
    <3> QED
      BY <3>2, <3>3
  <2> QED
    BY <2>1, <2>2 DEF GoalsFit
<1>9. HaltsFit'
  <2>1. ASSUME NEW i \in 1..Len(calls'), NEW b, b = calls'[i].by,
               calls'[i].act = "halt", b # Nobody
        PROVE  doing'[b] # "idle" /\ ~Motion(b)'
    <3>1. CASE \E k \in 1..Len(calls) : calls'[i] = calls[k]
      <4>1. PICK k \in 1..Len(calls) : calls'[i] = calls[k]
        BY <3>1
      <4>2. b \in Ids /\ calls[k].by = b /\ calls[k].act = "halt"
        BY <2>1, <4>1, RunIsTyped
      <4>3. doing[b] # "idle" /\ ~Motion(b)
        BY <2>1, <4>2 DEF FlightInv, HaltsFit
      <4> QED
        BY <1>0, <4>2, <4>3, <1>2
    <3>2. CASE /\ calls'[i].act = "halt" /\ calls'[i].by \in Ids \cup {Nobody}
               /\ calls'[i].by # Nobody => doing'[calls'[i].by] # "idle" /\ ~Motion(calls'[i].by)
      BY <1>0, <2>1, <3>2
    <3> QED
      BY <3>1, <3>2, CallStepFits
  <2> QED
    BY <2>1 DEF HaltsFit
<1> QED
  BY <1>4, <1>5, <1>6, <1>7, <1>8, <1>9 DEF FlightInv

\* The motion in flight sends a goal; none is on its way.
LEMMA GoalStep ==
  ASSUME FlightInv, UNCHANGED <<kit, orders, replies, batch, ring, queue, inflight, robot, faults>>,
         run' \in RunType, NEW o \in Ids, PointsFit', doing[o] \in Driving \ {"nav"},
         doing' = [doing EXCEPT ![o] = "nav"],
         NEW rest \in Seq(CallType), calls' = Append(rest, NavCall(o)),
         \A k \in 1..Len(rest) : rest[k].act = "halt" /\
            (rest[k].by = Nobody \/ \E j \in 1..Len(calls) : rest[k] = calls[j])
  PROVE  FlightInv'
<1>1. Motion(o) /\ o = inflight /\ o # Nobody
  BY OrderNumbers DEF FlightInv, StagesFit, OneInFlight, Driving
<1>2. /\ doing' \in [Ids -> Stages] /\ doing'[o] = "nav"
      /\ \A q \in Ids \ {o} : doing'[q] = doing[q]
  BY RunIsTyped DEF Stages
<1>3. calls' \in Seq(CallType)
  BY CallsAre
<1>4. \A i \in 1..Len(calls') :
        \/ i \in 1..Len(rest) /\ calls'[i] = rest[i]
        \/ i = Len(rest) + 1 /\ calls'[i] = NavCall(o)
  BY CallsAre
<1>5. OrderTypeOK'
  BY <1>2, <1>3 DEF FlightInv, OrderTypeOK, RunType, CallType
<1>6. GivenOnly'
  <2>1. doing[o] # "idle" /\ Seen' = Seen
    BY DEF Driving, Seen
  <2> QED
    BY <2>1, <1>2, RunIsTyped DEF FlightInv, GivenOnly, Given, Motion
<1>7. OneInFlight'
  BY <1>1, <1>2 DEF FlightInv, OneInFlight, Motion
<1>8. StagesFit'
  BY <1>1, <1>2 DEF FlightInv, StagesFit, Motion
<1>9. GoalsFit'
  <2>1. \A i \in 1..Len(calls') : IsNav(i)' => i = Len(rest) + 1 /\ calls'[i] = NavCall(o)
    BY <1>4 DEF IsNav
  <2> QED
    BY <2>1, <1>1, <1>2, CallsAre DEF GoalsFit
<1>10. HaltsFit'
  <2>1. ASSUME NEW i \in 1..Len(calls'), NEW b, b = calls'[i].by,
               calls'[i].act = "halt", b # Nobody
        PROVE  doing'[b] # "idle" /\ ~Motion(b)'
    <3>1. i \in 1..Len(rest) /\ calls'[i] = rest[i]
      BY <2>1, <1>4, CallsAre
    <3>2. PICK j \in 1..Len(calls) : rest[i] = calls[j]
      BY <2>1, <3>1
    <3>3. b \in Ids
      BY <2>1, <3>1, <3>2, RunIsTyped
    <3>4. doing[b] # "idle" /\ ~Motion(b)
      BY <2>1, <3>1, <3>2 DEF FlightInv, HaltsFit
    <3> QED
      BY <3>3, <3>4, <1>2 DEF Motion
  <2> QED
    BY <2>1 DEF HaltsFit
<1> QED
  BY <1>5, <1>6, <1>7, <1>8, <1>9, <1>10 DEF FlightInv

\* The same when the goal joins the calls there are.
LEMMA GoalJoins ==
  ASSUME FlightInv, UNCHANGED <<kit, orders, replies, batch, ring, queue, inflight, robot, faults>>,
         run' \in RunType, NEW o \in Ids, PointsFit', doing[o] \in Driving \ {"nav"},
         doing' = [doing EXCEPT ![o] = "nav"], calls' = Append(calls, NavCall(o))
  PROVE  FlightInv'
<1>1. o = inflight /\ doing[inflight] # "nav"
  BY DEF FlightInv, StagesFit, OneInFlight, Driving
<1>2. \A k \in 1..Len(calls) : calls[k].act = "halt"
  BY <1>1, RunIsTyped DEF FlightInv, GoalsFit, IsNav
<1>3. calls \in Seq(CallType)
  BY RunIsTyped
<1> QED
  BY <1>2, <1>3, GoalStep

LEMMA RememberedIs ==
  ASSUME FlightInv, NEW o \in Ids, ring' = Remembers(o), Given(o)
  PROVE  ring' \in Seq(Ids) /\ \A q \in Seen' : Given(q)
<1>1. ring \in Seq(Ids) /\ \A q \in Seen : Given(q)
  BY RunIsTyped DEF FlightInv, GivenOnly
<1>2. PICK r : r = Append(ring, o)
  OBVIOUS
<1>3. /\ r \in Seq(Ids) /\ Len(r) = Len(ring) + 1
      /\ \A i \in 1..Len(r) : (i \in 1..Len(ring) /\ r[i] = ring[i]) \/ r[i] = o
  BY <1>1, <1>2
<1>4. \A i \in 1..Len(r) : Given(r[i])
  BY <1>1, <1>3 DEF Seen, ToSet
<1>5. CASE ring' = r
  BY <1>3, <1>4, <1>5 DEF Seen, ToSet
<1>6. CASE ring' = Tail(r)
  <2>1. r # <<>>
    BY <1>3
  <2>2. ring' \in Seq(Ids) /\ Len(ring') = Len(r) - 1
        /\ \A i \in 1..Len(ring') : ring'[i] = r[i + 1]
    BY <1>3, <1>6, <2>1
  <2>3. \A i \in 1..Len(ring') : i + 1 \in 1..Len(r)
    BY <1>3, <2>2
  <2> QED
    BY <1>4, <2>2, <2>3 DEF Seen, ToSet
<1> QED
  BY <1>2, <1>5, <1>6 DEF Remembers

LEMMA Halting ==
  ASSUME FlightInv, Preempted
  PROVE  run' \in RunType /\ run'.points = run.points /\ CallStep
<1>1. run \in RunType
  BY RunIsTyped
<1>2. PICK r : r = [run EXCEPT !.aborted = run.active # Nobody \/ @]
  OBVIOUS
<1>4. r \in RunType /\ r.points = run.points
  BY <1>1, <1>2 DEF RunType
<1>3. HaltCall(Nobody) \in CallType /\ HaltCall(Nobody).act = "halt" /\ HaltCall(Nobody).by = Nobody
  BY CallsAre
<1> QED
  BY <1>1, <1>2, <1>3, <1>4 DEF Preempted, CallStep

LEMMA SameOrdersStand ==
  ASSUME FlightInv, UNCHANGED orders
  PROVE  OrdersStand
BY DEF FlightInv, OrderTypeOK, OrdersStand, Given

\* Nothing but the orders that are passed over changes.
LEMMA SkipKeeps ==
  ASSUME FlightInv, SkipSeen
  PROVE  FlightInv'
<1>1. OrdersStand
  BY SameOrdersStand DEF SkipSeen
<1>2. Seen' = Seen
  BY DEF SkipSeen, Seen
<1>3. /\ UNCHANGED <<kit, replies, inflight, queue, ring, doing, run, calls, robot, faults>>
      /\ batch' \subseteq batch
  BY DEF SkipSeen, task
<1>4. /\ robot \in [goal : Ids \cup {Nobody}, reached : BOOLEAN]
      /\ faults \in 0..MaxFaults /\ run \in RunType /\ ring \in Seq(Ids)
      /\ \A q \in Seen : Given(q)
  BY RunIsTyped DEF FlightInv, OrderTypeOK, GivenOnly
<1>5. PointsFit'
  BY <1>1, <1>3, PointsStillFit DEF PointsKept
<1> QED
  BY <1>1, <1>2, <1>3, <1>4, <1>5, AdapterStep DEF CallStep

\* The order the pump looks at.
LEMMA ForemostIs ==
  ASSUME FlightInv, batch # {}
  PROVE  Foremost \in Ids /\ Foremost \in batch /\ Given(Foremost)
<1>1. batch \in SUBSET Nat
  BY RunIsTyped, OrderNumbers
<1>2. Foremost \in batch
  BY <1>1, LeastOfReply DEF Foremost
<1> QED
  BY <1>2, RunIsTyped DEF FlightInv, GivenOnly

LEMMA MotionKeeps ==
  ASSUME FlightInv, TakeMotion
  PROVE  FlightInv'
<1>1. PICK o : o = Foremost
  OBVIOUS
<1>2. /\ batch # {} /\ o \notin Seen /\ Motion(o)
      /\ batch' = batch \ {o} /\ ring' = Remembers(o)
      /\ IF Begins THEN queue' = queue /\ Begin(o, doing, run)
         ELSE /\ queue' = Append(queue, o) /\ Preempted
              /\ UNCHANGED <<inflight, doing>>
      /\ UNCHANGED <<kit, faults, orders, replies, robot>>
  BY <1>1 DEF TakeMotion
<1>3. o \in Ids /\ Given(o)
  BY <1>1, <1>2, ForemostIs
<1>4. ring' \in Seq(Ids) /\ \A q \in Seen' : Given(q)
  BY <1>2, <1>3, RememberedIs
<1>5. OrdersStand
  BY <1>2, SameOrdersStand
<1>6. /\ robot \in [goal : Ids \cup {Nobody}, reached : BOOLEAN]
      /\ faults \in 0..MaxFaults
  BY DEF FlightInv, OrderTypeOK
<1>7. CASE ~Begins
  <2>1. run' \in RunType /\ run'.points = run.points /\ CallStep
    BY <1>2, <1>7, Halting
  <2>2. PointsFit'
    BY <1>2, <1>5, <1>7, <2>1, PointsStillFit DEF PointsKept
  <2> QED
    BY <1>2, <1>3, <1>4, <1>5, <1>6, <1>7, <2>1, <2>2, AdapterStep
<1>8. CASE Begins
  <2>1. inflight = Nobody
    BY <1>8 DEF Begins
  <2>2. \A q \in Ids : /\ doing[q] \notin Driving
                       /\ Motion(q) => doing[q] \in {"idle", "over"}
                       /\ doing[q] \in {"ask", "halt"} => ~Motion(q)
    BY <2>1, OrderNumbers DEF FlightInv, OneInFlight, StagesFit, Driving
  <2>3. \A i \in 1..Len(calls) : ~IsNav(i)
    BY <2>1 DEF FlightInv, GoalsFit
  <2>4. kit' = kit /\ \A q \in Ids : orders'[q].kind = orders[q].kind
    BY <1>2, <1>5 DEF OrdersStand
  <2>5. doing \in [Ids -> Stages] /\ run \in RunType
    BY RunIsTyped
  <2>6. /\ inflight' = o /\ doing' \in [Ids -> Stages] /\ run' \in RunType
        /\ calls' \in Seq(CallType)
        /\ \A q \in Ids \ {o} : doing'[q] = doing[q]
        /\ OneInFlight' /\ StagesFit' /\ GoalsFit' /\ HaltsFit' /\ PointsFit'
    BY <1>2, <1>3, <1>8, <2>2, <2>3, <2>4, <2>5, BeginFits
  <2>7. queue' = queue
    BY <1>2, <1>8
  <2>8. OrderTypeOK'
    BY <1>2, <1>3, <1>4, <2>6, <2>7 DEF FlightInv, OrderTypeOK, RunType, CallType
  <2>9. GivenOnly'
    BY <1>2, <1>3, <1>4, <2>6, <2>7, RunIsTyped DEF FlightInv, GivenOnly, Given, Motion
  <2> QED
    BY <2>6, <2>8, <2>9 DEF FlightInv
<1> QED
  BY <1>7, <1>8

LEMMA InterventionKeeps ==
  ASSUME FlightInv, TakeIntervention
  PROVE  /\ FlightInv'
         /\ \E o \in Ids \ Seen, s \in Stages :
              /\ ~Motion(o) /\ doing' = [doing EXCEPT ![o] = s] /\ ring' = Remembers(o)
<1>1. PICK o : o = Foremost
  OBVIOUS
<1>2. /\ batch # {} /\ o \notin Seen /\ ~Motion(o)
      /\ batch' = batch \ {o} /\ ring' = Remembers(o)
      /\ UNCHANGED <<kit, faults, orders, replies, queue, inflight, robot>>
  BY <1>1 DEF TakeIntervention
<1>3. o \in Ids /\ Given(o)
  BY <1>1, <1>2, ForemostIs
<1>4. ring' \in Seq(Ids) /\ \A q \in Seen' : Given(q)
  BY <1>2, <1>3, RememberedIs
<1>5. OrdersStand
  BY <1>2, SameOrdersStand
<1>6. /\ robot \in [goal : Ids \cup {Nobody}, reached : BOOLEAN]
      /\ faults \in 0..MaxFaults
  BY DEF FlightInv, OrderTypeOK
<1>7. PICK s \in {"halt", "failed", "done", "ask"} :
        /\ doing' = [doing EXCEPT ![o] = s]
        /\ calls' = calls \/ (s = "halt" /\ calls' = Append(calls, HaltCall(o)))
        /\ \/ run' = run
           \/ run' = [run EXCEPT !.aborted = run.active # Nobody \/ @]
           \/ run' = [run EXCEPT !.paused = IF run.mission = Nobody THEN @
                                            ELSE orders[o].kind = "pause"]
  <2> DEFINE P(s) ==
        /\ doing' = [doing EXCEPT ![o] = s]
        /\ calls' = calls \/ (s = "halt" /\ calls' = Append(calls, HaltCall(o)))
        /\ \/ run' = run
           \/ run' = [run EXCEPT !.aborted = run.active # Nobody \/ @]
           \/ run' = [run EXCEPT !.paused = IF run.mission = Nobody THEN @
                                            ELSE orders[o].kind = "pause"]
  <2>1. P("halt") \/ P("failed") \/ P("done") \/ P("ask")
    BY <1>1 DEF TakeIntervention
  <2> QED
    BY <2>1
<1>8. run' \in RunType /\ run'.points = run.points
  <2>1. run \in RunType
    BY RunIsTyped
  <2>2. PICK r : r = [run EXCEPT !.aborted = run.active # Nobody \/ @]
    OBVIOUS
  <2>5. r \in RunType /\ r.points = run.points
    BY <2>1, <2>2 DEF RunType
  <2>3. PICK b \in BOOLEAN : b = (orders[o].kind = "pause")
    OBVIOUS
  <2>4. PICK p : p = [run EXCEPT !.paused = IF run.mission = Nobody THEN @ ELSE b]
    OBVIOUS
  <2>6. p \in RunType /\ p.points = run.points
    BY <2>1, <2>4 DEF RunType
  <2> QED
    BY <1>7, <2>1, <2>2, <2>3, <2>4, <2>5, <2>6
<1>9. StageStep(o, s) /\ s \in Stages
  BY <1>2, <1>3, <1>7 DEF StageStep, Stages, Driving
<1>10. CallStep
  <2>1. doing'[o] = s
    BY <1>3, <1>7, RunIsTyped
  <2>2. HaltCall(o) \in CallType /\ HaltCall(o).act = "halt" /\ HaltCall(o).by = o
    BY <1>3, CallsAre
  <2> QED
    BY <1>2, <1>7, <2>1, <2>2 DEF CallStep
<1>11. o = inflight => doing[o] # "nav" \/ \A i \in 1..Len(calls') : ~IsNav(i)'
  BY <1>2, <1>3, OrderNumbers DEF FlightInv, GivenOnly
<1>13. PointsFit'
  <2>1. \A q \in Ids : doing'[q] = doing[q] \/ doing'[q] = s
    BY <1>7, RunIsTyped
  <2>2. PointsKept
    BY <1>7, <1>8, <2>1 DEF PointsKept, Driving
  <2> QED
    BY <1>2, <1>5, <2>2, PointsStillFit
<1>12. FlightInv'
  BY <1>13, <1>2, <1>3, <1>4, <1>5, <1>6, <1>8, <1>9, <1>10, <1>11, AdapterStep
<1> QED
  BY <1>2, <1>3, <1>7, <1>9, <1>12

\* One stage of an order ends, and no call is made.
LEMMA StageKeeps ==
  ASSUME FlightInv, NEW o \in Ids, NEW s \in Stages, doing' = [doing EXCEPT ![o] = s],
         doing[o] \notin {"idle", "over", "nav"}, s \notin {"idle", "ask", "halt"},
         s \in Driving => doing[o] \in Driving,
         run' \in RunType, PointsFit', OrdersStand, faults' \in 0..MaxFaults,
         UNCHANGED <<kit, replies, pump, calls, robot>>
  PROVE  FlightInv'
<1>1. Given(o)
  BY DEF FlightInv, GivenOnly
<1>2. StageStep(o, s)
  BY <1>1 DEF FlightInv, OneInFlight, StagesFit, StageStep
<1>3. /\ UNCHANGED <<kit, replies, inflight, queue, ring, batch, calls, robot>> /\ Seen' = Seen
  BY DEF pump, Seen
<1>4. /\ robot \in [goal : Ids \cup {Nobody}, reached : BOOLEAN]
      /\ ring \in Seq(Ids) /\ \A q \in Seen : Given(q)
  BY RunIsTyped DEF FlightInv, OrderTypeOK, GivenOnly
<1>5. o = inflight => doing[o] # "nav"
  OBVIOUS
<1> QED
  BY <1>2, <1>3, <1>4, <1>5, AdapterStep DEF CallStep

\* Points are kept when one order changes its stage and drives on or no more.
LEMMA PointsOfOne ==
  ASSUME FlightInv, kit' = kit, OrdersStand, run'.points = run.points,
         NEW o \in Ids, NEW s, doing' = [doing EXCEPT ![o] = s],
         s \in Driving => doing[o] \in Driving, s # "dwell"
  PROVE  PointsFit'
<1>1. \A q \in Ids : doing'[q] = doing[q] \/ (q = o /\ doing'[q] = s)
  BY RunIsTyped
<1>2. PointsKept
  BY <1>1 DEF PointsKept
<1> QED
  BY <1>2, PointsStillFit

LEMMA CheckKeeps ==
  ASSUME FlightInv, NEW o \in Ids, CheckIdle(o)
  PROVE  FlightInv'
<1>1. /\ doing[o] = "check" /\ doing' = [doing EXCEPT ![o] = "nav"]
      /\ UNCHANGED <<kit, faults, orders, replies, batch, ring, queue, inflight, run, robot>>
      /\ \/ calls' = <<NavCall(o)>>
         \/ calls' = <<HaltCall(Nobody), NavCall(o)>>
  BY DEF CheckIdle, Stage, GoesTo, pump
<1>2. OrdersStand /\ run' \in RunType
  BY <1>1, SameOrdersStand, RunIsTyped
<1>3. PointsFit'
  BY <1>1, <1>2, PointsOfOne DEF Driving
<1>4. HaltCall(Nobody) \in CallType /\ HaltCall(Nobody).act = "halt" /\ HaltCall(Nobody).by = Nobody
  BY CallsAre
<1>5. PICK rest \in Seq(CallType) :
        /\ calls' = Append(rest, NavCall(o))
        /\ \A k \in 1..Len(rest) : rest[k].act = "halt" /\ rest[k].by = Nobody
  <2>1. CASE calls' = <<NavCall(o)>>
    <3>1. PICK rest : rest = <<>>
      OBVIOUS
    <3>2. rest \in Seq(CallType) /\ Len(rest) = 0
      BY <3>1
    <3>3. calls' = Append(rest, NavCall(o))
      BY <2>1, <3>1
    <3>4. \A k \in 1..Len(rest) : rest[k].act = "halt" /\ rest[k].by = Nobody
      BY <3>2
    <3> QED
      BY <3>2, <3>3, <3>4, Zenon
  <2>2. CASE calls' = <<HaltCall(Nobody), NavCall(o)>>
    <3>1. PICK h : h = HaltCall(Nobody)
      OBVIOUS
    <3>2. PICK c : c = NavCall(o)
      OBVIOUS
    <3>3. PICK rest : rest = <<h>>
      OBVIOUS
    <3>4. rest \in Seq(CallType) /\ Len(rest) = 1 /\ rest[1] = h
      BY <1>4, <3>1, <3>3
    <3>5. calls' = Append(rest, c)
      BY <2>2, <3>1, <3>2, <3>3
    <3>7. calls' = Append(rest, NavCall(o))
      BY <3>2, <3>5
    <3>6. \A k \in 1..Len(rest) : rest[k].act = "halt" /\ rest[k].by = Nobody
      BY <1>4, <3>1, <3>4
    <3> QED
      BY <3>4, <3>6, <3>7, Zenon
  <2> QED
    BY <1>1, <2>1, <2>2
<1>6. doing[o] \in Driving \ {"nav"}
  BY <1>1 DEF Driving
<1> QED
  BY <1>1, <1>2, <1>3, <1>5, <1>6, GoalStep

LEMMA NavEndsKeeps ==
  ASSUME FlightInv, NEW o \in Ids, NavEnds(o)
  PROVE  FlightInv'
<1>1. /\ doing[o] = "going"
      /\ UNCHANGED <<kit, faults, orders, replies, pump, run, calls, robot>>
      /\ \/ doing' = [doing EXCEPT ![o] = "dwell"] /\ orders[o].kind = "mission" /\ ~Native
         \/ doing' = [doing EXCEPT ![o] = "done"]
         \/ doing' = [doing EXCEPT ![o] = "failed"]
  BY DEF NavEnds, Stage, GoesTo
<1>2. OrdersStand /\ run' \in RunType /\ faults' \in 0..MaxFaults
  BY <1>1, SameOrdersStand, RunIsTyped DEF FlightInv, OrderTypeOK
<1>3. CASE doing' = [doing EXCEPT ![o] = "dwell"] /\ orders[o].kind = "mission" /\ ~Native
  <2>1. PointsFit'
    <3>1. \A q \in Ids : doing'[q] = doing[q] \/ (q = o /\ doing'[q] = "dwell")
      BY <1>3, RunIsTyped
    <3>2. orders' = orders /\ kit' = kit /\ run' = run /\ doing[o] \in Driving
      BY <1>1 DEF Driving
    <3> QED
      BY <1>3, <3>1, <3>2 DEF FlightInv, PointsFit, Native
  <2>2. "dwell" \in Stages /\ doing[o] \in Driving
    BY <1>1 DEF Stages, Driving
  <2> QED
    BY <1>1, <1>2, <1>3, <2>1, <2>2, StageKeeps
<1>4. ASSUME NEW s \in {"done", "failed"}, doing' = [doing EXCEPT ![o] = s]
      PROVE  FlightInv'
  <2>1. s \in Stages /\ s \notin Driving
    BY DEF Stages, Driving
  <2>2. PointsFit'
    BY <1>1, <1>2, <1>4, <2>1, PointsOfOne
  <2> QED
    BY <1>1, <1>2, <1>4, <2>1, <2>2, StageKeeps
<1> QED
  BY <1>1, <1>3, <1>4

LEMMA DweltKeeps ==
  ASSUME FlightInv, NEW o \in Ids, Dwelt(o)
  PROVE  FlightInv'
<1>1. doing[o] = "dwell" /\ doing[o] \in Driving \ {"nav"} /\ o = inflight
  BY DEF Dwelt, Stage, FlightInv, OneInFlight, StagesFit, Driving
<1>2. /\ UNCHANGED <<kit, faults, orders, replies, pump, robot>> /\ OrdersStand
      /\ faults' \in 0..MaxFaults
  BY SameOrdersStand DEF Dwelt, FlightInv, OrderTypeOK
<1>3. run.points > 0
  BY <1>1 DEF FlightInv, PointsFit, Driving
<1>4. run' \in RunType /\ run'.points = run.points - 1
  <2>1. run' = [run EXCEPT !.points = @ - 1]
    BY DEF Dwelt
  <2>2. run \in RunType /\ run.points - 1 \in 0..MaxPoints
    BY <1>3, RunIsTyped, OrderNumbers DEF RunType
  <2> QED
    BY <2>1, <2>2 DEF RunType
<1>5. \/ \E s \in {"failed", "done"} : doing' = [doing EXCEPT ![o] = s] /\ UNCHANGED calls
      \/ run.points - 1 # 0 /\ doing' = [doing EXCEPT ![o] = "held"] /\ UNCHANGED calls
      \/ run.points - 1 # 0 /\ doing' = [doing EXCEPT ![o] = "nav"] /\ calls' = Append(calls, NavCall(o))
  BY DEF Dwelt, NextPoint, GoesTo
<1>6. \A q \in Ids : q # o => doing[q] \notin Driving /\ doing[q] # "dwell"
  BY <1>1 DEF FlightInv, OneInFlight, StagesFit, Driving
<1>7. ASSUME NEW s \in {"failed", "done", "held", "nav"}, doing' = [doing EXCEPT ![o] = s],
             s \in {"held", "nav"} => run.points - 1 # 0
      PROVE  PointsFit' /\ s \in Stages \ {"idle", "ask", "halt"}
  <2>1. /\ \A q \in Ids : q # o => doing'[q] \notin Driving /\ doing'[q] # "dwell"
        /\ doing'[o] = s
    BY <1>6, <1>7, RunIsTyped
  <2>2. s \in Driving => run'.points > 0
    BY <1>3, <1>4, <1>7, RunIsTyped, OrderNumbers DEF RunType, Driving
  <2> QED
    BY <2>1, <2>2 DEF PointsFit, Stages
<1>8. ASSUME NEW s \in {"failed", "done", "held"}, doing' = [doing EXCEPT ![o] = s],
             UNCHANGED calls, PointsFit', s \in Stages \ {"idle", "ask", "halt"}
      PROVE  FlightInv'
  BY <1>1, <1>2, <1>4, <1>8, StageKeeps
<1>9. ASSUME doing' = [doing EXCEPT ![o] = "nav"], calls' = Append(calls, NavCall(o)), PointsFit'
      PROVE  FlightInv'
  BY <1>1, <1>2, <1>4, <1>9, GoalJoins DEF pump
<1> QED
  BY <1>5, <1>7, <1>8, <1>9

LEMMA ResumedKeeps ==
  ASSUME FlightInv, NEW o \in Ids, Resumed(o)
  PROVE  FlightInv'
<1>1. /\ doing[o] = "held" /\ doing' = [doing EXCEPT ![o] = "nav"]
      /\ calls' = Append(calls, NavCall(o))
      /\ UNCHANGED <<kit, faults, orders, replies, batch, ring, queue, inflight, run, robot>>
  BY DEF Resumed, Stage, GoesTo, pump
<1>2. OrdersStand /\ run' \in RunType /\ doing[o] \in Driving \ {"nav"}
  BY <1>1, SameOrdersStand, RunIsTyped DEF Driving
<1>3. PointsFit'
  BY <1>1, <1>2, PointsOfOne
<1> QED
  BY <1>1, <1>2, <1>3, GoalJoins

LEMMA AskedKeeps ==
  ASSUME FlightInv, NEW o \in Ids, Asked(o)
  PROVE  FlightInv' /\ ~Motion(o)
<1>1. /\ doing[o] = "ask"
      /\ UNCHANGED <<kit, faults, orders, replies, pump, calls, robot>>
      /\ run' = [run EXCEPT !.paused = IF run.mission = Nobody THEN @
                                       ELSE orders[o].kind = "pause"]
  BY DEF Asked, Stage
<1>2. PICK s \in {"done", "failed"} : doing' = [doing EXCEPT ![o] = s]
  BY DEF Asked, GoesTo
<1>3. OrdersStand /\ faults' \in 0..MaxFaults
  BY <1>1, SameOrdersStand DEF FlightInv, OrderTypeOK
<1>4. run' \in RunType /\ run'.points = run.points
  <2>1. PICK b \in BOOLEAN : b = (orders[o].kind = "pause")
    OBVIOUS
  <2>2. run \in RunType
    BY RunIsTyped
  <2> QED
    BY <1>1, <2>1, <2>2 DEF RunType
<1>5. s \in Stages /\ s \notin Driving
  BY DEF Stages, Driving
<1>6. PointsFit'
  BY <1>1, <1>2, <1>3, <1>4, <1>5, PointsOfOne
<1>7. ~Motion(o)
  BY <1>1 DEF FlightInv, StagesFit
<1> QED
  BY <1>1, <1>2, <1>3, <1>4, <1>5, <1>6, <1>7, StageKeeps

\* A receipt leaves what was asked for as it was.
LEMMA ReceiptStands ==
  ASSUME FlightInv, NEW o \in Ids, Report(o)
  PROVE  /\ OrdersStand /\ faults' \in 0..MaxFaults
         /\ UNCHANGED <<kit, replies, batch, ring, robot>> /\ doing[o] \in {"done", "failed"}
<1>1. /\ Settled(o, doing[o]) /\ doing[o] \in {"done", "failed"}
      /\ UNCHANGED <<kit, replies, batch, ring, robot>>
  BY DEF Report
<1>2. /\ orders \in [Ids -> [kind : Kinds, of : Ids \cup {Nobody},
                     state : {"none", "pending", "acked", "done", "failed"}]]
      /\ faults \in 0..MaxFaults
  BY DEF FlightInv, OrderTypeOK
<1>3. faults' = faults \/ Fault
  BY <1>1 DEF Settled
<1>4. faults' \in 0..MaxFaults
  BY <1>2, <1>3, OrderPumpAssumption DEF Fault
<1>5. PICK s \in {"done", "failed"} : s = doing[o]
  BY <1>1
<1>6. CASE orders' = orders
  BY <1>1, <1>4, <1>6, SameOrdersStand
<1>7. CASE orders' = [orders EXCEPT ![o].state = s]
  BY <1>1, <1>2, <1>4, <1>7 DEF OrdersStand, Given
<1> QED
  BY <1>1, <1>5, <1>6, <1>7 DEF Settled

LEMMA ClearedIs ==
  ASSUME FlightInv, NEW o \in Ids
  PROVE  Cleared(o) \in RunType /\ Cleared(o).points = run.points
<1>1. run \in RunType
  BY RunIsTyped
<1> QED
  BY <1>1 DEF Cleared, RunType

LEMMA ReportKeeps ==
  ASSUME FlightInv, NEW o \in Ids, Report(o)
  PROVE  FlightInv'
<1>1. /\ OrdersStand /\ faults' \in 0..MaxFaults
      /\ UNCHANGED <<kit, replies, batch, ring, robot>> /\ doing[o] \in {"done", "failed"}
  BY ReceiptStands
<1>2. PICK d : d = [doing EXCEPT ![o] = "over"]
  OBVIOUS
<1>3. /\ d \in [Ids -> Stages] /\ d[o] = "over"
      /\ \A q \in Ids \ {o} : d[q] = doing[q]
  BY <1>2, RunIsTyped DEF Stages
<1>4. \A q \in Ids : Motion(q)' <=> Motion(q)
  BY <1>1 DEF OrdersStand, Motion
<1>5. CASE ~Motion(o)
  <2>1. /\ doing' = [doing EXCEPT ![o] = "over"]
        /\ UNCHANGED <<pump, run, calls>>
    BY <1>1, <1>5 DEF Report, pump
  <2>2. run' \in RunType /\ "over" \in Stages /\ "over" \notin Driving
    BY <2>1, RunIsTyped DEF Stages, Driving
  <2>3. PointsFit'
    BY <1>1, <2>1, <2>2, PointsOfOne
  <2> QED
    BY <1>1, <2>1, <2>2, <2>3, StageKeeps
<1>6. CASE Motion(o)
  <2>1. o = inflight
    BY <1>1, <1>6 DEF FlightInv, OneInFlight
  <2>2. \A q \in Ids : /\ d[q] \notin Driving
                       /\ Motion(q) => d[q] \in {"idle", "over"}
                       /\ d[q] \in {"ask", "halt"} => ~Motion(q)
                       /\ doing[q] # "idle" => d[q] # "idle"
    BY <1>1, <1>3, <2>1 DEF FlightInv, OneInFlight, StagesFit, Driving
  <2>3. \A i \in 1..Len(calls) : ~IsNav(i)
    BY <1>1, <2>1 DEF FlightInv, GoalsFit
  <2>4. \A q \in Ids : d[q] # "idle" => Given(q)
    BY <1>1, <1>3 DEF FlightInv, GivenOnly
  <2>5. Seen' = Seen
    BY <1>1 DEF Seen
  <2>6. CASE queue = <<>>
    <3>1. doing' = d /\ run' = Cleared(o) /\ inflight' = Nobody /\ queue' = queue /\ calls' = calls
      BY <1>2, <1>6, <2>6 DEF Report
    <3>2. run' \in RunType /\ calls' \in Seq(CallType) /\ queue' \in Seq(Ids)
      BY <3>1, ClearedIs, RunIsTyped
    <3>3. OrderTypeOK'
      BY <1>1, <1>3, <3>1, <3>2 DEF FlightInv, OrderTypeOK, RunType, CallType, OrdersStand
    <3>4. GivenOnly'
      BY <1>1, <1>4, <2>4, <2>5, <3>1, RunIsTyped DEF FlightInv, GivenOnly, OrdersStand, OrderTypeOK
    <3>5. OneInFlight' /\ StagesFit' /\ PointsFit'
      BY <1>4, <2>2, <3>1 DEF OneInFlight, StagesFit, PointsFit, Driving
    <3>6. GoalsFit'
      BY <2>3, <3>1 DEF GoalsFit, IsNav
    <3>7. HaltsFit'
      <4>1. \A i \in 1..Len(calls) : calls[i].by # Nobody => calls[i].by \in Ids
        BY RunIsTyped
      <4> QED
        BY <1>4, <2>2, <3>1, <4>1 DEF FlightInv, HaltsFit
    <3> QED
      BY <3>3, <3>4, <3>5, <3>6, <3>7 DEF FlightInv
  <2>7. CASE queue # <<>>
    <3>1. PICK h, r : h = Head(queue) /\ r = Cleared(o)
      OBVIOUS
    <3>2. queue' = Tail(queue) /\ Begin(h, d, r)
      BY <1>2, <1>6, <2>7, <3>1 DEF Report
    <3>3. /\ queue' \in Seq(Ids) /\ Len(queue') = Len(queue) - 1
          /\ \A i \in 1..Len(queue') : i + 1 \in 1..Len(queue) /\ queue'[i] = queue[i + 1]
          /\ h = queue[1] /\ 1 \in 1..Len(queue)
      <4>1. queue \in Seq(Ids)
        BY RunIsTyped
      <4> QED
        BY <2>7, <3>1, <3>2, <4>1
    <3>4. h \in Ids /\ Given(h) /\ Motion(h)
      BY <3>3, RunIsTyped DEF FlightInv, GivenOnly
    <3>5. r \in RunType
      BY <3>1, ClearedIs
    <3>6. kit' = kit /\ \A q \in Ids : orders'[q].kind = orders[q].kind
      BY <1>1 DEF OrdersStand
    <3>7. /\ inflight' = h /\ doing' \in [Ids -> Stages] /\ run' \in RunType
          /\ calls' \in Seq(CallType)
          /\ \A q \in Ids \ {h} : doing'[q] = d[q]
          /\ OneInFlight' /\ StagesFit' /\ GoalsFit' /\ HaltsFit' /\ PointsFit'
      BY <1>3, <2>2, <2>3, <3>2, <3>4, <3>5, <3>6, BeginFits
    <3>8. OrderTypeOK'
      BY <1>1, <3>3, <3>4, <3>7 DEF FlightInv, OrderTypeOK, RunType, CallType, OrdersStand
    <3>9. GivenOnly'
      <4>1. \A i \in 1..Len(queue') : queue'[i] \in Ids /\ Given(queue'[i]) /\ Motion(queue'[i])
        BY <3>3, RunIsTyped DEF FlightInv, GivenOnly
      <4>2. \A q \in Ids : doing'[q] # "idle" => Given(q)
        BY <2>4, <3>4, <3>7
      <4> QED
        BY <1>1, <1>4, <2>5, <3>4, <3>7, <4>1, <4>2, RunIsTyped
           DEF FlightInv, GivenOnly, OrdersStand, OrderTypeOK
    <3> QED
      BY <3>7, <3>8, <3>9 DEF FlightInv
  <2> QED
    BY <2>6, <2>7
<1> QED
  BY <1>5, <1>6

\* One call takes effect; of a goal nothing is left on its way.
LEMMA ServedIs ==
  ASSUME FlightInv, NEW i \in 1..Len(calls), calls' = RemoveAt(calls, i)
  PROVE  CallStep /\ (IsNav(i) => \A k \in 1..Len(calls') : ~IsNav(k)')
<1>1. calls \in Seq(CallType)
  BY RunIsTyped
<1>2. \A k \in 1..Len(calls') : Later(i, k) \in (1..Len(calls)) \ {i} /\ calls'[k] = calls[Later(i, k)]
  BY <1>1, RemoveAtIs
<1>3. IsNav(i) => \A k \in 1..Len(calls') : ~IsNav(k)'
  BY <1>2 DEF FlightInv, GoalsFit, IsNav
<1> QED
  BY <1>3 DEF CallStep

LEMMA CallsKeep ==
  ASSUME FlightInv, VendorCalls
  PROVE  /\ FlightInv'
         /\ UNCHANGED <<orders, inflight, ring, queue>>
         /\ \A q \in Ids : doing[q] # "idle" <=> doing'[q] # "idle"
         /\ robot'.goal = robot.goal \/ robot'.goal \in {inflight, Nobody}
<1>1. PICK i \in DOMAIN calls : TakesGoal(i) \/ RefusesGoal(i) \/ Halts(i)
  BY DEF VendorCalls
<1>2. i \in 1..Len(calls)
  BY RunIsTyped
<1>3. calls' = RemoveAt(calls, i)
  BY <1>1 DEF TakesGoal, RefusesGoal, Halts, Served
<1>4. CallStep /\ (IsNav(i) => \A k \in 1..Len(calls') : ~IsNav(k)')
  BY <1>2, <1>3, ServedIs
<1>5. PICK b : b = calls[i].by
  OBVIOUS
<1>6. b \in Ids \cup {Nobody} /\ calls[i].act \in {"nav", "halt"}
  BY <1>2, <1>5, RunIsTyped
<1>7. UNCHANGED <<kit, faults, orders, replies, inflight, batch, ring, queue, run>> /\ Seen' = Seen
  BY <1>1 DEF TakesGoal, RefusesGoal, Halts, pump, Seen
<1>8. /\ OrdersStand /\ faults' \in 0..MaxFaults /\ run' \in RunType /\ ring \in Seq(Ids)
      /\ \A q \in Seen : Given(q)
      /\ robot \in [goal : Ids \cup {Nobody}, reached : BOOLEAN]
  BY <1>7, SameOrdersStand, RunIsTyped DEF FlightInv, OrderTypeOK, GivenOnly
<1>9. AtRest \in [goal : Ids \cup {Nobody}, reached : BOOLEAN] /\ AtRest.goal = Nobody
  BY DEF AtRest
<1>10. CASE TakesGoal(i) \/ RefusesGoal(i)
  <2>1. b = inflight /\ b # Nobody /\ doing[b] = "nav" /\ IsNav(i)
    BY <1>2, <1>5, <1>10 DEF TakesGoal, RefusesGoal, FlightInv, GoalsFit, IsNav
  <2>2. PICK s \in {"going", "failed"} : doing' = [doing EXCEPT ![b] = s]
    BY <1>5, <1>10 DEF TakesGoal, RefusesGoal, GoesTo
  <2>3. b \in Ids /\ Motion(b) /\ Given(b) /\ s \in Stages
    BY <1>6, <2>1, <2>2 DEF FlightInv, GivenOnly, Stages
  <2>4. StageStep(b, s)
    BY <2>1, <2>2, <2>3 DEF StageStep
  <2>5. robot' = [goal |-> b, reached |-> FALSE] \/ robot' = robot
    BY <1>5, <1>10 DEF TakesGoal, RefusesGoal
  <2>6. robot' \in [goal : Ids \cup {Nobody}, reached : BOOLEAN]
        /\ (robot'.goal = robot.goal \/ robot'.goal = inflight)
    <3>1. PICK g : g = [goal |-> b, reached |-> FALSE]
      OBVIOUS
    <3>2. g \in [goal : Ids \cup {Nobody}, reached : BOOLEAN] /\ g.goal = b
      BY <2>3, <3>1
    <3> QED
      BY <1>8, <2>1, <2>5, <3>1, <3>2
  <2>7. doing[b] \in Driving /\ s # "dwell"
    BY <2>1 DEF Driving
  <2>8. PointsFit'
    BY <1>7, <1>8, <2>2, <2>3, <2>7, PointsOfOne
  <2>9. FlightInv'
    BY <1>4, <1>7, <1>8, <2>1, <2>3, <2>4, <2>6, <2>8, AdapterStep
  <2>10. \A q \in Ids : doing[q] # "idle" <=> doing'[q] # "idle"
    BY <2>1, <2>2, <2>3, RunIsTyped
  <2> QED
    BY <1>7, <2>6, <2>9, <2>10
<1>11. CASE Halts(i)
  <2>1. calls[i].act = "halt"
    BY <1>11 DEF Halts
  <2>2. robot' = AtRest \/ robot' = robot
    BY <1>11 DEF Halts
  <2>3. robot' \in [goal : Ids \cup {Nobody}, reached : BOOLEAN]
        /\ (robot'.goal = robot.goal \/ robot'.goal = Nobody)
    BY <1>8, <1>9, <2>2
  <2>4. CASE b = Nobody
    <3>1. doing' = doing
      BY <1>5, <1>11, <2>4 DEF Halts
    <3>2. PointsFit'
      BY <1>7, <1>8, <3>1, PointsStillFit DEF PointsKept
    <3>3. FlightInv'
      BY <1>4, <1>7, <1>8, <2>3, <3>1, <3>2, AdapterStep
    <3> QED
      BY <1>7, <2>3, <3>1, <3>3
  <2>5. CASE b # Nobody
    <3>1. PICK s \in {"done", "failed"} : doing' = [doing EXCEPT ![b] = s]
      BY <1>5, <1>11, <2>5 DEF Halts
    <3>2. b \in Ids /\ doing[b] # "idle" /\ ~Motion(b) /\ Given(b)
      BY <1>2, <1>5, <1>6, <2>1, <2>5 DEF FlightInv, HaltsFit, GivenOnly
    <3>3. s \in Stages /\ s \notin Driving /\ s # "dwell"
      BY <3>1 DEF Stages, Driving
    <3>4. StageStep(b, s)
      BY <3>1, <3>2, <3>3 DEF StageStep
    <3>5. PointsFit'
      BY <1>7, <1>8, <3>1, <3>2, <3>3, PointsOfOne
    <3>6. b # inflight
      BY <2>5, <3>2 DEF FlightInv, GivenOnly
    <3>7. FlightInv'
      BY <1>4, <1>7, <1>8, <2>3, <3>2, <3>3, <3>4, <3>5, <3>6, AdapterStep
    <3>8. \A q \in Ids : doing[q] # "idle" <=> doing'[q] # "idle"
      BY <3>1, <3>2, RunIsTyped
    <3> QED
      BY <1>7, <2>3, <3>7, <3>8
  <2> QED
    BY <2>4, <2>5
<1> QED
  BY <1>1, <1>10, <1>11

\* The robot arrives or stands still.
LEMMA RobotKeeps ==
  ASSUME FlightInv, Arrives \/ Stalls
  PROVE  /\ FlightInv' /\ robot'.goal = Nobody
         /\ UNCHANGED <<kit, faults, orders, replies, pump, task>>
<1>1. UNCHANGED <<kit, faults, orders, replies, batch, ring, queue, inflight, doing, run, calls>>
      /\ Seen' = Seen /\ UNCHANGED <<kit, faults, orders, replies, pump, task>>
  BY DEF Arrives, Stalls, pump, task, Seen
<1>2. robot' \in [goal : Ids \cup {Nobody}, reached : BOOLEAN] /\ robot'.goal = Nobody
  <2>1. PICK g : g = [goal |-> Nobody, reached |-> TRUE]
    OBVIOUS
  <2>2. PICK h : h = [goal |-> Nobody, reached |-> FALSE]
    OBVIOUS
  <2>3. /\ g \in [goal : Ids \cup {Nobody}, reached : BOOLEAN] /\ g.goal = Nobody
        /\ h \in [goal : Ids \cup {Nobody}, reached : BOOLEAN] /\ h.goal = Nobody
    BY <2>1, <2>2
  <2> QED
    BY <2>1, <2>2, <2>3 DEF Arrives, Stalls, AtRest
<1>3. /\ OrdersStand /\ faults' \in 0..MaxFaults /\ run' \in RunType /\ ring \in Seq(Ids)
      /\ \A q \in Seen : Given(q)
  BY <1>1, SameOrdersStand, RunIsTyped DEF FlightInv, OrderTypeOK, GivenOnly
<1>4. PointsFit'
  BY <1>1, <1>3, PointsStillFit DEF PointsKept
<1>5. CallStep
  BY <1>1 DEF CallStep
<1>6. FlightInv'
  BY <1>1, <1>2, <1>3, <1>4, <1>5, AdapterStep
<1> QED
  BY <1>1, <1>2, <1>6

LEMMA NewProcessKeeps ==
  ASSUME FlightInv, AdapterRestarts
  PROVE  FlightInv'
<1>1. /\ batch' = {} /\ ring' = <<>> /\ queue' = <<>> /\ inflight' = Nobody
      /\ doing' = [o \in Ids |-> "idle"] /\ run' = NoRun /\ calls' = <<>>
      /\ Fault /\ UNCHANGED <<kit, orders, replies, robot>>
  BY DEF AdapterRestarts, NewProcess
<1>2. faults' \in 0..MaxFaults
  BY <1>1, OrderPumpAssumption DEF Fault, FlightInv, OrderTypeOK
<1>3. \A reply \in replies' : \A o \in reply : Given(o)'
  BY <1>1 DEF FlightInv, GivenOnly, Given
<1>4. Seen' = {}
  BY <1>1 DEF Seen, ToSet
<1>5. /\ batch' \subseteq Ids /\ ring' \in Seq(Ids) /\ queue' \in Seq(Ids)
      /\ calls' \in Seq(CallType) /\ doing' \in [Ids -> Stages]
      /\ Len(queue') = 0 /\ Len(calls') = 0
  BY <1>1 DEF Stages
<1>6. run' \in RunType
  BY <1>1, OrderNumbers DEF NoRun, RunType
<1>7. GoalsFit' /\ HaltsFit'
  BY <1>5 DEF GoalsFit, HaltsFit
<1>8. OneInFlight' /\ StagesFit' /\ PointsFit'
  BY <1>1 DEF OneInFlight, StagesFit, PointsFit, Driving
<1>9. GivenOnly'
  BY <1>1, <1>3, <1>4, <1>5 DEF GivenOnly
<1>10. OrderTypeOK'
  BY <1>1, <1>2, <1>5, <1>6 DEF FlightInv, OrderTypeOK, RunType, CallType
<1> QED
  BY <1>7, <1>8, <1>9, <1>10 DEF FlightInv

LEMMA FlightBegins ==
  ASSUME OrderInit
  PROVE  FlightInv
<1>1. /\ kit \in Kits /\ replies = {} /\ batch = {} /\ ring = <<>> /\ queue = <<>>
      /\ inflight = Nobody /\ doing = [o \in Ids |-> "idle"] /\ run = NoRun /\ calls = <<>>
      /\ robot = AtRest /\ faults = 0
      /\ orders = [o \in Ids |-> [kind |-> "goto", state |-> "none", of |-> Nobody]]
  BY DEF OrderInit
<1>2. Seen = {}
  BY <1>1 DEF Seen, ToSet
<1>3. /\ batch \subseteq Ids /\ ring \in Seq(Ids) /\ queue \in Seq(Ids)
      /\ calls \in Seq(CallType) /\ doing \in [Ids -> Stages]
      /\ Len(queue) = 0 /\ Len(calls) = 0
  BY <1>1 DEF Stages
<1>4. run \in RunType
  BY <1>1, OrderNumbers DEF NoRun, RunType
<1>5. GoalsFit /\ HaltsFit
  BY <1>3 DEF GoalsFit, HaltsFit
<1>6. OneInFlight /\ StagesFit /\ PointsFit
  BY <1>1 DEF OneInFlight, StagesFit, PointsFit, Driving
<1>7. GivenOnly
  BY <1>1, <1>2, <1>3 DEF GivenOnly
<1>8. OrderTypeOK
  <2>1. robot \in [goal : Ids \cup {Nobody}, reached : BOOLEAN]
    BY <1>1 DEF AtRest
  <2>2. orders \in [Ids -> [kind : Kinds, of : Ids \cup {Nobody},
                    state : {"none", "pending", "acked", "done", "failed"}]]
    BY <1>1 DEF Kinds, MotionKinds
  <2>3. faults \in 0..MaxFaults
    BY <1>1, OrderPumpAssumption
  <2> QED
    BY <1>1, <1>3, <1>4, <2>1, <2>2, <2>3 DEF OrderTypeOK, RunType, CallType
<1> QED
  BY <1>5, <1>6, <1>7, <1>8 DEF FlightInv

\* One lemma for each action.
LEMMA FlightIsKept ==
  ASSUME FlightInv, [OrderNext]_orderVars
  PROVE  FlightInv'
<1>1. CASE UNCHANGED orderVars
  <2>1. UNCHANGED <<kit, orders, replies, batch, ring, queue, inflight, doing, run, calls, robot, faults>>
    BY <1>1 DEF orderVars, pump, task
  <2>2. OrdersStand /\ faults' \in 0..MaxFaults
    BY <2>1, SameOrdersStand DEF FlightInv, OrderTypeOK
  <2>3. PlatformStep
    BY <2>1, <2>2 DEF PlatformStep, OrdersStand, FlightInv, OrderTypeOK, GivenOnly, Given
  <2> QED
    BY <2>3, PlatformKeepsFlight
<1>2. CASE SkipSeen
  BY <1>2, SkipKeeps
<1>3. CASE TakeMotion
  BY <1>3, MotionKeeps
<1>4. CASE TakeIntervention
  BY <1>4, InterventionKeeps
<1>5. CASE \/ Request \/ Intervene \/ (\E m \in Ids : CancelPending(m)) \/ Pull \/ Reserve
           \/ (\E reply \in replies : Deliver(reply) \/ Lose(reply))
  BY <1>5, PlatformSteps
<1>6. CASE \E o \in Ids : Steps(o)
  BY <1>6, CheckKeeps, NavEndsKeeps, DweltKeeps, ResumedKeeps, AskedKeeps, ReportKeeps DEF Steps
<1>7. CASE VendorCalls
  BY <1>7, CallsKeep
<1>8. CASE Arrives \/ Stalls
  BY <1>8, RobotKeeps
<1>9. CASE AdapterRestarts
  BY <1>9, NewProcessKeeps
<1> QED
  BY <1>1, <1>2, <1>3, <1>4, <1>5, <1>6, <1>7, <1>8, <1>9 DEF OrderNext, Loop, Others

\* Orders, replies, the pump's queue and ring, the runner's state and the calls
\* to the vendor have their types in every reachable state (OrderPump, all of
\* index.ts:300-420), for any number of orders, points, replies and faults and
\* for each of the three adapters.
THEOREM OrderTypeCorrect == OrderSpec => []OrderTypeOK
<1>1. FlightInv => OrderTypeOK
  BY DEF FlightInv
<1> QED
  BY <1>1, FlightBegins, FlightIsKept, PTL DEF OrderSpec

\* At most one motion order is under way in the adapter, and it is the one the
\* pump holds in flight: whatever is served again, preempts or fails
\* (index.ts:323-365).
THEOREM OneMotionAtATime == OrderSpec => []OneInFlight
<1>1. FlightInv => OneInFlight
  BY DEF FlightInv
<1> QED
  BY <1>1, FlightBegins, FlightIsKept, PTL DEF OrderSpec

-----------------------------------------------------------------------------
(* OrderPump implements SerialMotion while the ring forgets no order.      *)

RingSuffices == OrderCount <= SeenCap

Once ==
  /\ \A i, j \in 1..Len(ring) : ring[i] = ring[j] => i = j
  /\ \A o \in Ids : doing[o] # "idle" => o \in Seen
  /\ \A i \in 1..Len(queue) : queue[i] \in Seen /\ doing[queue[i]] = "idle"
  /\ \A i, j \in 1..Len(queue) : queue[i] = queue[j] => i = j

\* A ring without repetitions is no longer than there are orders.
LEMMA RingIsShort ==
  ASSUME NEW r \in Seq(Ids), \A i, j \in 1..Len(r) : r[i] = r[j] => i = j
  PROVE  Len(r) <= OrderCount
<1>1. PICK n \in Nat : n = Len(r)
  OBVIOUS
<1>2. r \in [1..n -> 1..OrderCount]
  <2>1. r \in [1..Len(r) -> Ids]
    OBVIOUS
  <2> QED
    BY <1>1, <2>1 DEF Ids
<1>3. /\ IsFiniteSet(1..n) /\ Cardinality(1..n) = n
      /\ IsFiniteSet(1..OrderCount) /\ Cardinality(1..OrderCount) = OrderCount
  <2>1. \A m \in Nat : IsFiniteSet(1..m) /\ Cardinality(1..m) = m
    BY FS_Interval
  <2> QED
    BY <1>1, <2>1, OrderNumbers
<1>4. SUFFICES ASSUME n > OrderCount PROVE FALSE
  BY <1>1, OrderNumbers
<1>5. \E i, j \in 1..n : i # j /\ r[i] = r[j]
  BY <1>2, <1>3, <1>4, OrderNumbers, FS_PigeonHole
<1> QED
  BY <1>1, <1>5

\* An order that was not seen joins those that were.
LEMMA RingGrows ==
  ASSUME FlightInv, Once, RingSuffices, NEW o \in Ids, o \notin Seen, ring' = Remembers(o)
  PROVE  /\ Seen' = Seen \cup {o}
         /\ \A i, j \in 1..Len(ring') : ring'[i] = ring'[j] => i = j
<1>1. PICK r : r = Append(ring, o)
  OBVIOUS
<1>2. ring \in Seq(Ids)
  BY RunIsTyped
<1>3. /\ r \in Seq(Ids) /\ Len(r) = Len(ring) + 1 /\ r[Len(ring) + 1] = o
      /\ \A i \in 1..Len(ring) : r[i] = ring[i]
      /\ Len(ring) \in Nat
  BY <1>1, <1>2
<1>4. \A i \in 1..Len(ring) : ring[i] # o
  BY DEF Seen, ToSet
<1>5. \A i \in 1..Len(r) : i \in 1..Len(ring) \/ i = Len(ring) + 1
  BY <1>3
<1>6. \A i, j \in 1..Len(r) : r[i] = r[j] => i = j
  BY <1>3, <1>4, <1>5 DEF Once
<1>7. Len(r) <= OrderCount
  BY <1>3, <1>6, RingIsShort
<1>8. ring' = r
  BY <1>1, <1>3, <1>7, OrderNumbers, OrderPumpAssumption DEF Remembers, RingSuffices
<1>9. Seen' = Seen \cup {o}
  <2>1. \A q : (\E i \in 1..Len(r) : r[i] = q) <=> (q = o \/ \E i \in 1..Len(ring) : ring[i] = q)
    BY <1>3, <1>5
  <2>2. \A q : q \in Seen' <=> \E i \in 1..Len(r) : r[i] = q
    BY <1>3, <1>8 DEF Seen, ToSet
  <2>3. \A q : q \in Seen <=> \E i \in 1..Len(ring) : ring[i] = q
    BY <1>2 DEF Seen, ToSet
  <2>4. \A q : q \in Seen' <=> q \in Seen \cup {o}
    BY <2>1, <2>2, <2>3
  <2> QED
    BY <2>4
<1> QED
  BY <1>6, <1>8, <1>9

\* A step that begins and ends no motion and takes no order.
Quiet ==
  /\ UNCHANGED <<ring, queue, inflight>>
  /\ \A o \in Ids : doing[o] # "idle" <=> doing'[o] # "idle"
  /\ \A o \in Ids : doing[o] # "idle" => (Motion(o)' <=> Motion(o))
  /\ robot'.goal \in {robot.goal, inflight, Nobody}

LEMMA OneStageIsQuiet ==
  ASSUME FlightInv, NEW o \in Ids, NEW s, doing' = [doing EXCEPT ![o] = s],
         doing[o] # "idle", s # "idle", OrdersStand,
         UNCHANGED <<ring, queue, inflight, robot>>
  PROVE  Quiet
BY RunIsTyped DEF Quiet, OrdersStand, Motion

LEMMA QuietSteps ==
  ASSUME FlightInv,
         \/ UNCHANGED orderVars \/ SkipSeen
         \/ Request \/ Intervene \/ (\E m \in Ids : CancelPending(m)) \/ Pull \/ Reserve
         \/ (\E reply \in replies : Deliver(reply) \/ Lose(reply))
         \/ (\E o \in Ids : Steps(o) /\ ~(Report(o) /\ Motion(o)))
         \/ VendorCalls \/ Arrives \/ Stalls
  PROVE  Quiet
<1>1. CASE UNCHANGED orderVars \/ SkipSeen
  <2>1. UNCHANGED <<orders, ring, queue, inflight, doing, robot>>
    BY <1>1 DEF SkipSeen, orderVars, pump, task
  <2> QED
    BY <2>1 DEF Quiet, Motion
<1>2. CASE \/ Request \/ Intervene \/ (\E m \in Ids : CancelPending(m)) \/ Pull \/ Reserve
           \/ (\E reply \in replies : Deliver(reply) \/ Lose(reply))
  <2>1. PlatformStep
    BY <1>2, PlatformSteps
  <2>2. \A o \in Ids : doing[o] # "idle" => Given(o)
    BY DEF FlightInv, GivenOnly
  <2> QED
    BY <2>1, <2>2 DEF PlatformStep, Quiet, Motion
<1>3. ASSUME NEW o \in Ids, Steps(o), ~(Report(o) /\ Motion(o))
      PROVE  Quiet
  <2>1. CASE Report(o)
    <3>1. ~Motion(o)
      BY <1>3, <2>1
    <3>2. /\ doing' = [doing EXCEPT ![o] = "over"] /\ doing[o] # "idle"
          /\ UNCHANGED <<ring, queue, inflight, robot>>
      BY <2>1, <3>1 DEF Report
    <3>3. OrdersStand
      BY <2>1, ReceiptStands
    <3> QED
      BY <3>2, <3>3, OneStageIsQuiet
  <2>2. CASE CheckIdle(o) \/ NavEnds(o) \/ Dwelt(o) \/ Resumed(o) \/ Asked(o)
    <3>1. UNCHANGED <<orders, ring, queue, inflight, robot>> /\ doing[o] # "idle"
      BY <2>2 DEF CheckIdle, NavEnds, Dwelt, Resumed, Asked, pump, Stage
    <3>2. \E s \in {"nav", "dwell", "done", "failed", "held"} : doing' = [doing EXCEPT ![o] = s]
      <4>1. CASE CheckIdle(o) \/ Resumed(o)
        BY <4>1 DEF CheckIdle, Resumed, GoesTo
      <4>2. CASE NavEnds(o)
        <5>1. \/ GoesTo(o, "dwell") \/ GoesTo(o, "done") \/ GoesTo(o, "failed")
          BY <4>2 DEF NavEnds
        <5> QED
          BY <5>1 DEF GoesTo
      <4>3. CASE Dwelt(o)
        <5>1. \/ GoesTo(o, "failed") \/ GoesTo(o, "done") \/ GoesTo(o, "held") \/ GoesTo(o, "nav")
          BY <4>3 DEF Dwelt, NextPoint
        <5> QED
          BY <5>1 DEF GoesTo
      <4>4. CASE Asked(o)
        BY <4>4 DEF Asked, GoesTo
      <4> QED
        BY <2>2, <4>1, <4>2, <4>3, <4>4
    <3> QED
      BY <3>1, <3>2, SameOrdersStand, OneStageIsQuiet
  <2> QED
    BY <1>3, <2>1, <2>2 DEF Steps
<1>4. CASE VendorCalls
  <2>1. /\ UNCHANGED <<orders, inflight, ring, queue>>
        /\ \A q \in Ids : doing'[q] # "idle" <=> doing[q] # "idle"
        /\ robot'.goal = robot.goal \/ robot'.goal \in {inflight, Nobody}
    BY <1>4, CallsKeep
  <2> QED
    BY <2>1 DEF Quiet, Motion
<1>5. CASE Arrives \/ Stalls
  <2>1. UNCHANGED <<orders, ring, queue, inflight, doing>> /\ robot'.goal = Nobody
    BY <1>5, RobotKeeps DEF pump, task
  <2> QED
    BY <2>1 DEF Quiet, Motion
<1> QED
  BY <1>1, <1>2, <1>3, <1>4, <1>5

LEMMA QuietKeepsOnce ==
  ASSUME FlightInv, Once, Quiet
  PROVE  Once'
<1>1. Seen' = Seen /\ queue' = queue /\ ring' = ring
  BY DEF Quiet, Seen
<1>2. \A i \in 1..Len(queue) : queue[i] \in Ids
  BY RunIsTyped
<1> QED
  BY <1>1, <1>2 DEF Once, Quiet

\* The begun and the waiting, when one more order is known.
LEMMA Joins ==
  ASSUME FlightInv, Once, RingSuffices, NEW o \in Ids, o \notin Seen, ring' = Remembers(o),
         \A q \in Ids \ {o} : doing'[q] = doing[q],
         queue' = queue \/ (queue' = Append(queue, o) /\ doing'[o] = "idle")
  PROVE  Once' /\ doing[o] = "idle"
<1>1. /\ Seen' = Seen \cup {o}
      /\ \A i, j \in 1..Len(ring') : ring'[i] = ring'[j] => i = j
  BY RingGrows
<1>2. doing[o] = "idle"
  BY DEF Once
<1>3. \A q \in Ids : doing'[q] # "idle" => q \in Seen'
  BY <1>1 DEF Once
<1>4. \A i \in 1..Len(queue) : queue[i] \in Ids /\ queue[i] \in Seen /\ queue[i] # o
  BY RunIsTyped DEF Once
<1>5. CASE queue' = queue
  <2>1. \A i \in 1..Len(queue') : queue'[i] \in Seen' /\ doing'[queue'[i]] = "idle"
    BY <1>1, <1>4, <1>5 DEF Once
  <2> QED
    BY <1>1, <1>2, <1>3, <1>5, <2>1 DEF Once
<1>6. CASE queue' = Append(queue, o) /\ doing'[o] = "idle"
  <2>1. queue \in Seq(Ids)
    BY RunIsTyped
  <2>2. /\ Len(queue) \in Nat /\ Len(queue') = Len(queue) + 1 /\ queue'[Len(queue) + 1] = o
        /\ \A i \in 1..Len(queue) : queue'[i] = queue[i]
        /\ \A i \in 1..Len(queue') : i \in 1..Len(queue) \/ i = Len(queue) + 1
    BY <1>6, <2>1
  <2>3. \A i \in 1..Len(queue') : queue'[i] \in Seen' /\ doing'[queue'[i]] = "idle"
    BY <1>1, <1>4, <1>6, <2>2 DEF Once
  <2>4. \A i, j \in 1..Len(queue') : queue'[i] = queue'[j] => i = j
    BY <1>4, <2>2 DEF Once
  <2> QED
    BY <1>1, <1>2, <1>3, <2>3, <2>4 DEF Once
<1> QED
  BY <1>5, <1>6

\* What the promise sees of the pump.
Handed == {o \in Ids : Motion(o) /\ doing[o] # "idle"}

\* A motion is taken up: it was not begun before, and no other is begun with it.
TakesUp(o) ==
  /\ o \in Ids \ Handed /\ inflight' = o /\ Handed' = Handed \cup {o}
  /\ robot' = robot

LEMMA MotionTaken ==
  ASSUME FlightInv, Once, RingSuffices, TakeMotion
  PROVE  /\ Once'
         /\ \/ Quiet \/ (inflight = Nobody /\ \E o \in Ids : TakesUp(o))
            \/ Handed' = Handed /\ UNCHANGED <<inflight, robot>>
<1>1. PICK o : o = Foremost
  OBVIOUS
<1>2. /\ batch # {} /\ o \notin Seen /\ Motion(o) /\ ring' = Remembers(o)
      /\ IF Begins THEN queue' = queue /\ Begin(o, doing, run)
         ELSE /\ queue' = Append(queue, o) /\ UNCHANGED <<inflight, doing>>
      /\ UNCHANGED <<orders, robot>>
  BY <1>1 DEF TakeMotion
<1>3. o \in Ids
  BY <1>1, <1>2, ForemostIs
<1>4. doing[o] = "idle"
  BY <1>2, <1>3 DEF Once
<1>5. CASE Begins
  <2>1. PICK s \in {"check", "nav", "done"} : doing' = [doing EXCEPT ![o] = s]
    BY <1>2, <1>5 DEF Begin
  <2>2. inflight' = o /\ queue' = queue /\ inflight = Nobody
    BY <1>2, <1>5 DEF Begin, Begins
  <2>3. doing'[o] # "idle" /\ \A q \in Ids \ {o} : doing'[q] = doing[q]
    BY <1>3, <2>1, RunIsTyped
  <2>4. Once'
    BY <1>2, <1>3, <2>2, <2>3, Joins
  <2>5. Handed' = Handed \cup {o}
    BY <1>2, <1>3, <2>3 DEF Handed, Motion
  <2>6. o \notin Handed
    BY <1>4 DEF Handed
  <2> QED
    BY <1>2, <1>3, <2>2, <2>4, <2>5, <2>6 DEF TakesUp
<1>6. CASE ~Begins
  <2>1. queue' = Append(queue, o) /\ UNCHANGED <<inflight, doing, orders, robot>>
    BY <1>2, <1>6
  <2>2. Once'
    BY <1>2, <1>3, <1>4, <2>1, Joins
  <2>3. Handed' = Handed
    BY <2>1 DEF Handed, Motion
  <2> QED
    BY <2>1, <2>2, <2>3
<1> QED
  BY <1>5, <1>6

LEMMA InterventionTaken ==
  ASSUME FlightInv, Once, RingSuffices, TakeIntervention
  PROVE  Once' /\ Handed' = Handed /\ UNCHANGED <<inflight, robot>>
<1>1. UNCHANGED <<orders, queue, inflight, robot>>
  BY DEF TakeIntervention
<1>2. PICK o \in Ids \ Seen, s \in Stages :
        /\ ~Motion(o) /\ doing' = [doing EXCEPT ![o] = s] /\ ring' = Remembers(o)
  BY InterventionKeeps
<1>3. \A q \in Ids \ {o} : doing'[q] = doing[q]
  BY <1>2, RunIsTyped
<1>4. Once'
  BY <1>1, <1>2, <1>3, Joins
<1>5. Handed' = Handed
  BY <1>1, <1>2, <1>3 DEF Handed, Motion
<1> QED
  BY <1>1, <1>4, <1>5

\* The end of a motion begins the first that waits.
LEMMA MotionReported ==
  ASSUME FlightInv, Once, NEW o \in Ids, Motion(o), Report(o)
  PROVE  /\ Once' /\ inflight # Nobody
         /\ \/ inflight' = Nobody /\ Handed' = Handed /\ robot' = robot
            \/ \E h \in Ids : TakesUp(h)
<1>1. /\ OrdersStand /\ UNCHANGED <<ring, robot>> /\ doing[o] \in {"done", "failed"}
  BY ReceiptStands
<1>2. inflight = o /\ inflight # Nobody
  BY <1>1, OrderNumbers DEF FlightInv, OneInFlight
<1>3. PICK d : d = [doing EXCEPT ![o] = "over"]
  OBVIOUS
<1>4. d \in [Ids -> Stages] /\ \A q \in Ids : d[q] # "idle" <=> doing[q] # "idle"
  BY <1>1, <1>3, RunIsTyped DEF Stages
<1>5. \A q \in Ids : Motion(q)' <=> Motion(q)
  BY <1>1 DEF OrdersStand, Motion
<1>6. Seen' = Seen
  BY <1>1 DEF Seen
<1>7. \A i \in 1..Len(queue) : queue[i] \in Ids /\ Motion(queue[i])
  BY RunIsTyped DEF FlightInv, GivenOnly
<1>8. CASE queue = <<>>
  <2>1. doing' = d /\ inflight' = Nobody /\ queue' = queue /\ ring' = ring
    BY <1>1, <1>3, <1>8 DEF Report
  <2>2. Handed' = Handed
    BY <1>4, <1>5, <2>1 DEF Handed
  <2>3. Once'
    BY <1>4, <1>6, <1>7, <2>1 DEF Once
  <2> QED
    BY <1>1, <1>2, <2>1, <2>2, <2>3
<1>9. CASE queue # <<>>
  <2>1. PICK h : h = Head(queue)
    OBVIOUS
  <2>2. queue' = Tail(queue) /\ Begin(h, d, Cleared(o))
    BY <1>3, <1>9, <2>1 DEF Report
  <2>3. /\ queue' \in Seq(Ids) /\ Len(queue') = Len(queue) - 1
        /\ \A i \in 1..Len(queue') : i + 1 \in 1..Len(queue) /\ queue'[i] = queue[i + 1]
        /\ h = queue[1] /\ 1 \in 1..Len(queue)
    <3>1. queue \in Seq(Ids)
      BY RunIsTyped
    <3> QED
      BY <1>9, <2>1, <2>2, <3>1
  <2>4. h \in Ids /\ Motion(h) /\ doing[h] = "idle" /\ h \in Seen
    BY <1>7, <2>3 DEF Once
  <2>5. PICK s \in {"check", "nav", "done"} : inflight' = h /\ doing' = [d EXCEPT ![h] = s]
    BY <2>2 DEF Begin
  <2>6. doing'[h] # "idle" /\ \A q \in Ids \ {h} : doing'[q] = d[q]
    BY <1>4, <2>4, <2>5
  <2>7. Handed' = Handed \cup {h}
    BY <1>4, <1>5, <2>4, <2>6 DEF Handed
  <2>8. Once'
    <3>1. \A i \in 1..Len(queue') : queue'[i] # h
      BY <2>3 DEF Once
    <3>2. \A i \in 1..Len(queue') : queue'[i] \in Ids /\ queue'[i] \in Seen /\ doing[queue'[i]] = "idle"
      BY <1>7, <2>3 DEF Once
    <3>3. \A i \in 1..Len(queue') : doing'[queue'[i]] = "idle"
      BY <1>4, <2>6, <3>1, <3>2
    <3>4. \A i, j \in 1..Len(queue') : queue'[i] = queue'[j] => i = j
      <4>1. ASSUME NEW i \in 1..Len(queue'), NEW j \in 1..Len(queue'), queue'[i] = queue'[j]
            PROVE  i = j
        <5>1. /\ queue[i + 1] = queue[j + 1]
              /\ i + 1 \in 1..Len(queue) /\ j + 1 \in 1..Len(queue)
          BY <2>3, <4>1
        <5>2. i + 1 = j + 1
          BY <5>1 DEF Once
        <5> QED
          BY <5>2
      <4> QED
        BY <4>1
    <3>5. \A q \in Ids : doing'[q] # "idle" => q \in Seen
      BY <1>4, <2>4, <2>6 DEF Once
    <3> QED
      BY <1>1, <1>6, <3>2, <3>3, <3>4, <3>5 DEF Once
  <2>9. h \notin Handed
    BY <2>4 DEF Handed
  <2> QED
    BY <1>1, <1>2, <2>4, <2>5, <2>7, <2>8, <2>9 DEF TakesUp
<1> QED
  BY <1>8, <1>9

LEMMA ProcessForgets ==
  ASSUME FlightInv, AdapterRestarts
  PROVE  Once' /\ inflight' = Nobody /\ Handed' = {} /\ robot' = robot
<1>1. /\ ring' = <<>> /\ queue' = <<>> /\ inflight' = Nobody
      /\ doing' = [o \in Ids |-> "idle"] /\ robot' = robot
  BY DEF AdapterRestarts, NewProcess
<1>2. Len(<<>>) = 0
  OBVIOUS
<1>3. Once'
  BY <1>1, <1>2 DEF Once
<1> QED
  BY <1>1, <1>3 DEF Handed

\* What a step is to the promise.
SerialSteps ==
  \/ Handed' = Handed /\ inflight' = inflight /\ robot'.goal \in {robot.goal, inflight, Nobody}
  \/ inflight = Nobody /\ \E o \in Ids : TakesUp(o)
  \/ /\ inflight # Nobody
     /\ \/ inflight' = Nobody /\ Handed' = Handed /\ robot' = robot
        \/ \E h \in Ids : TakesUp(h)
  \/ inflight' = Nobody /\ Handed' = {} /\ robot' = robot

LEMMA StepsAreSerial ==
  ASSUME FlightInv, Once, RingSuffices, [OrderNext]_orderVars
  PROVE  Once' /\ SerialSteps
<1>1. ASSUME Quiet PROVE Once' /\ SerialSteps
  <2>1. Handed' = Handed
    <3>1. \A o \in Ids : o \in Handed' <=> o \in Handed
      BY <1>1 DEF Quiet, Handed
    <3> QED
      BY <3>1 DEF Handed
  <2> QED
    BY <1>1, <2>1, QuietKeepsOnce DEF Quiet, SerialSteps
<1>2. CASE TakeMotion
  BY <1>1, <1>2, MotionTaken DEF SerialSteps
<1>3. CASE TakeIntervention
  BY <1>3, InterventionTaken DEF SerialSteps
<1>4. ASSUME NEW o \in Ids, Motion(o), Report(o) PROVE Once' /\ SerialSteps
  BY <1>4, MotionReported DEF SerialSteps
<1>5. CASE AdapterRestarts
  BY <1>5, ProcessForgets DEF SerialSteps
<1>6. CASE \/ UNCHANGED orderVars \/ SkipSeen
           \/ Request \/ Intervene \/ (\E m \in Ids : CancelPending(m)) \/ Pull \/ Reserve
           \/ (\E reply \in replies : Deliver(reply) \/ Lose(reply))
           \/ (\E o \in Ids : Steps(o) /\ ~(Report(o) /\ Motion(o)))
           \/ VendorCalls \/ Arrives \/ Stalls
  BY <1>1, <1>6, QuietSteps
<1> QED
  BY <1>2, <1>3, <1>4, <1>5, <1>6 DEF OrderNext, Loop, Others

\* While the ring of identities is as long as there are orders, the adapter
\* keeps the promise of docs/integration.md:233-236: motion orders are carried
\* out one at a time, each at most once by one process, and the robot sets out
\* only for the one in flight - for every number of orders, points, replies under
\* way, restarts and lost receipts, and each of the three adapters.
THEOREM PumpIsSerial == OrderCount <= SeenCap => (OrderSpec => KeepsSerialMotion)
<1>1. OrderInit => Once /\ Serial!SerialInit
  <2>1. SUFFICES ASSUME OrderInit PROVE Once /\ Serial!SerialInit
    OBVIOUS
  <2>2. /\ ring = <<>> /\ queue = <<>> /\ inflight = Nobody /\ robot.goal = Nobody
        /\ doing = [o \in Ids |-> "idle"]
    BY <2>1 DEF OrderInit, AtRest
  <2>3. Len(<<>>) = 0
    OBVIOUS
  <2>4. Once
    BY <2>2, <2>3 DEF Once
  <2> QED
    BY <2>2, <2>4 DEF Serial!SerialInit
<1>2. ASSUME OrderCount <= SeenCap, FlightInv, Once, [OrderNext]_orderVars
      PROVE  Once' /\ [Serial!SerialNext]_(Serial!serialVars)
  <2>1. Once' /\ SerialSteps
    BY <1>2, StepsAreSerial DEF RingSuffices
  <2> QED
    BY <2>1 DEF SerialSteps, TakesUp, Handed, Serial!SerialNext, Serial!serialVars,
       Serial!Take, Serial!Begin, Serial!Finish, Serial!Move, Serial!Forget
<1>3. SUFFICES ASSUME OrderCount <= SeenCap PROVE OrderSpec => KeepsSerialMotion
  OBVIOUS
<1>4. FlightInv /\ Once /\ [OrderNext]_orderVars
        => (FlightInv /\ Once)' /\ [Serial!SerialNext]_(Serial!serialVars)
  BY <1>2, <1>3, FlightIsKept
<1>5. OrderInit => FlightInv
  BY FlightBegins
<1> QED
  BY <1>1, <1>4, <1>5, PTL DEF OrderSpec, KeepsSerialMotion, Serial!SerialSpec

-----------------------------------------------------------------------------
(* SpotSession: somebody always sees to the session.                       *)

\* The session is up with all that keeps it.
Tended == ready /\ lease # "none" /\ timers = KeepAlives

\* A dance that, since the keep-alives were last cleared, left behind what its
\* stage says: when it finishes the session is up.
Carries(d) ==
  \/ dances[d].at \in {"asleep", "hello", "acquire", "take"}
  \/ dances[d].at = "estop" /\ lease # "none" /\ "retain" \in timers
  \/ /\ dances[d].at \in {"power", "feedback"} /\ lease # "none"
     /\ {"retain", "estop"} \subseteq timers

SpotInv == SpotTypeOK /\ (Tended \/ \E d \in Dances : Carries(d))

\* A lease that is outdated is a lease.
LEMMA OutdatedIsLease ==
  ASSUME NEW l \in Leases
  PROVE  Outdated(l) \in Leases /\ (Outdated(l) = "none" <=> l = "none")
BY DEF Outdated, Leases

\* Somebody takes, or was given, a new lease: the others have the old one.
LEMMA OutdatedTypes ==
  ASSUME SpotTypeOK
  PROVE  /\ OutdatedDances \in
              [Dances -> [at : {"none", "asleep", "hello", "acquire", "take", "estop",
                                "power", "feedback"}, lease : Leases, lost : BOOLEAN]]
         /\ OutdatedCalls \in [Slots -> [out : BOOLEAN, lease : Leases, lost : BOOLEAN]]
         /\ \A d \in Dances : OutdatedDances[d].at = dances[d].at
BY OutdatedIsLease DEF OutdatedDances, OutdatedCalls, SpotTypeOK

\* Nothing is cleared, and no dance but one goes on.
LEMMA OthersCarry ==
  ASSUME SpotInv, NEW d \in Dances, SpotTypeOK',
         \A e \in Dances \ {d} : dances'[e].at = dances[e].at,
         ready => ready', lease # "none" => lease' # "none", timers \subseteq timers',
         Carries(d) => Carries(d)' \/ Tended'
  PROVE  SpotInv'
<1>1. CASE Tended
  BY <1>1 DEF Tended, SpotInv, SpotTypeOK
<1>2. ASSUME NEW e \in Dances, Carries(e) PROVE SpotInv'
  <2>1. CASE e = d
    BY <1>2, <2>1 DEF SpotInv
  <2>2. CASE e # d
    BY <1>2, <2>2 DEF SpotInv, Carries
  <2> QED
    BY <2>1, <2>2
<1> QED
  BY <1>1, <1>2 DEF SpotInv

LEMMA DanceKeeps ==
  ASSUME SpotInv, NEW d \in Dances, DanceStep(d)
  PROVE  SpotInv'
<1> USE DEF SpotTypeOK
<1>0. SpotTypeOK
  BY DEF SpotInv
<1>1. CASE Wakes(d) \/ Greeted(d) \/ Claimed(d)
  <2>1. PICK stage \in {"hello", "acquire", "take"} : dances' = [dances EXCEPT ![d].at = stage]
    BY <1>1 DEF Wakes, Greeted, Claimed
  <2>2. UNCHANGED <<ready, lease, timers, pings, contact, troubles>>
    BY <1>1 DEF Wakes, Greeted, Claimed
  <2>3. SpotTypeOK' /\ dances'[d].at = stage /\ \A e \in Dances \ {d} : dances'[e].at = dances[e].at
    BY <1>0, <2>1, <2>2
  <2> HIDE DEF SpotTypeOK
  <2> QED
    BY <2>2, <2>3, OthersCarry DEF Carries
<1>2. CASE Granted(d)
  <2>1. /\ dances' = [OutdatedDances EXCEPT ![d].lease = "good"]
        /\ lease' = Outdated(lease) /\ pings' = OutdatedCalls
        /\ UNCHANGED <<ready, timers, contact, troubles>>
    BY <1>2 DEF Granted
  <2>2. PICK D, C : D = OutdatedDances /\ C = OutdatedCalls
    OBVIOUS
  <2>3. dances' = [D EXCEPT ![d].lease = "good"] /\ pings' = C
    BY <2>1, <2>2
  <2>4. SpotTypeOK' /\ \A e \in Dances : dances'[e].at = dances[e].at
    BY <1>0, <2>1, <2>2, <2>3, OutdatedTypes, OutdatedIsLease DEF Leases
  <2>5. lease # "none" => lease' # "none"
    BY <1>0, <2>1, OutdatedIsLease
  <2> HIDE DEF SpotTypeOK
  <2> QED
    BY <2>1, <2>4, <2>5, OthersCarry DEF Carries
<1>3. CASE Leased(d)
  <2>1. /\ dances[d].lease \in Leases \ {"none"} /\ lease' = dances[d].lease
        /\ timers' = timers \cup {"retain"}
        /\ dances' = [dances EXCEPT ![d].at = "estop", ![d].lease = "none"]
        /\ UNCHANGED <<ready, pings, contact, troubles>>
    BY <1>0, <1>3 DEF Leased
  <2>2. /\ SpotTypeOK' /\ dances'[d].at = "estop"
        /\ \A e \in Dances \ {d} : dances'[e].at = dances[e].at
    BY <1>0, <2>1 DEF Leases, KeepAlives
  <2> HIDE DEF SpotTypeOK
  <2> QED
    BY <2>1, <2>2, OthersCarry DEF Carries
<1>4. CASE CheckedIn(d)
  <2>1. /\ dances[d].at = "estop" /\ timers' = timers \cup {"estop"}
        /\ dances' = [dances EXCEPT ![d].at = "power", ![d].lease = lease]
        /\ UNCHANGED <<ready, lease, pings, contact, troubles>>
    BY <1>4 DEF CheckedIn, Answered
  <2>2. /\ SpotTypeOK' /\ dances'[d].at = "power"
        /\ \A e \in Dances \ {d} : dances'[e].at = dances[e].at
    BY <1>0, <2>1 DEF KeepAlives
  <2> HIDE DEF SpotTypeOK
  <2> QED
    BY <2>1, <2>2, OthersCarry DEF Carries
<1>5. CASE PoweredOn(d)
  <2>1. /\ dances[d].at = "power"
        /\ dances' = [dances EXCEPT ![d].at = "feedback", ![d].lease = "none"]
        /\ UNCHANGED <<ready, lease, timers, pings, contact, troubles>>
    BY <1>5 DEF PoweredOn, Answered
  <2>2. /\ SpotTypeOK' /\ dances'[d].at = "feedback"
        /\ \A e \in Dances \ {d} : dances'[e].at = dances[e].at
    BY <1>0, <2>1 DEF Leases
  <2> HIDE DEF SpotTypeOK
  <2> QED
    BY <2>1, <2>2, OthersCarry DEF Carries
<1>6. CASE Finishes(d)
  <2>1. /\ dances[d].at = "feedback" /\ timers' = timers \cup {"sync"} /\ ready' = TRUE
        /\ dances' = [dances EXCEPT ![d] = Idle]
        /\ UNCHANGED <<lease, pings, contact, troubles>>
    BY <1>6 DEF Finishes, Answered
  <2>2. SpotTypeOK' /\ \A e \in Dances \ {d} : dances'[e].at = dances[e].at
    BY <1>0, <2>1 DEF KeepAlives, Idle, Leases
  <2>3. Carries(d) => Tended'
    BY <1>0, <2>1 DEF Carries, Tended, KeepAlives
  <2> HIDE DEF SpotTypeOK
  <2> QED
    BY <2>1, <2>2, <2>3, OthersCarry
<1>7. CASE Fails(d)
  <2>1. /\ timers' = {} /\ dances' = [dances EXCEPT ![d] = Asleep]
        /\ UNCHANGED <<ready, lease, pings, contact, troubles>>
    BY <1>7 DEF Fails
  <2>2. SpotTypeOK' /\ dances'[d].at = "asleep"
    BY <1>0, <2>1 DEF Asleep, Leases
  <2> QED
    BY <2>2 DEF SpotInv, Carries
<1> QED
  BY <1>1, <1>2, <1>3, <1>4, <1>5, <1>6, <1>7 DEF DanceStep

\* What is said of the dances and of the session stays: only calls change.
LEMMA QuietlyTended ==
  ASSUME SpotInv, SpotTypeOK', UNCHANGED <<ready, timers>>,
         \A d \in Dances : dances'[d].at = dances[d].at,
         lease' = "none" <=> lease = "none"
  PROVE  SpotInv'
BY DEF SpotInv, Tended, Carries

LEMMA CallsTend ==
  ASSUME SpotInv, RetainLease \/ Beats \/ \E c \in Slots : Answers(c) \/ IsRefused(c)
  PROVE  SpotInv'
<1> USE DEF SpotTypeOK
<1>0. SpotTypeOK
  BY DEF SpotInv
<1>1. ASSUME NEW kind \in {"retain", "beat"}, NEW l \in Leases, Sends(kind, l)
      PROVE  SpotInv'
  <2>1. PICK i \in 1..MaxCalls :
          pings' = [pings EXCEPT ![<<kind, i>>].out = TRUE, ![<<kind, i>>].lease = l]
    BY <1>1 DEF Sends
  <2>2. UNCHANGED <<ready, lease, timers, dances, contact, troubles>>
    BY <1>1 DEF Sends
  <2>3. PICK s \in Slots : s = <<kind, i>>
    BY DEF Slots
  <2>4. pings' = [pings EXCEPT ![s].out = TRUE, ![s].lease = l]
    BY <2>1, <2>3
  <2>5. SpotTypeOK'
    BY <1>0, <2>2, <2>4
  <2> HIDE DEF SpotTypeOK
  <2> QED
    BY <2>2, <2>5, QuietlyTended
<1>2. CASE RetainLease \/ Beats
  BY <1>0, <1>1, <1>2 DEF RetainLease, Beats, Leases
<1>3. NoCall \in [out : BOOLEAN, lease : Leases, lost : BOOLEAN]
  BY DEF NoCall, Leases
<1>4. ASSUME NEW c \in Slots, Answers(c) PROVE SpotInv'
  <2>1. /\ pings' = [pings EXCEPT ![c] = NoCall]
        /\ UNCHANGED <<ready, lease, timers, dances, contact, troubles>>
    BY <1>4 DEF Answers
  <2>2. SpotTypeOK'
    BY <1>0, <1>3, <2>1
  <2> HIDE DEF SpotTypeOK
  <2> QED
    BY <2>1, <2>2, QuietlyTended
<1>5. ASSUME NEW c \in Slots, IsRefused(c) PROVE SpotInv'
  <2>1. pings' = [pings EXCEPT ![c] = NoCall] /\ UNCHANGED <<contact, troubles>>
    BY <1>5 DEF IsRefused
  <2>2. CASE TearsDown
    <3>1. PICK d \in Dances : dances' = [dances EXCEPT ![d] = Asleep]
      BY <1>5, <2>2 DEF IsRefused, Ended, FreeDances
    <3>2. ready' = FALSE /\ lease' = "none" /\ timers' = {}
      BY <1>5, <2>2 DEF IsRefused, Ended
    <3>3. SpotTypeOK' /\ dances'[d].at = "asleep"
      BY <1>0, <1>3, <2>1, <3>1, <3>2 DEF Asleep, Leases
    <3> QED
      BY <3>3 DEF SpotInv, Carries
  <2>3. CASE ~TearsDown
    <3>1. UNCHANGED <<ready, lease, timers, dances>>
      BY <1>5, <2>3 DEF IsRefused
    <3>2. SpotTypeOK'
      BY <1>0, <1>3, <2>1, <3>1
    <3> HIDE DEF SpotTypeOK
    <3> QED
      BY <3>1, <3>2, QuietlyTended
  <2> QED
    BY <2>2, <2>3
<1> QED
  BY <1>2, <1>4, <1>5

LEMMA TroublesTend ==
  ASSUME SpotInv, ContactLost \/ ContactBack \/ LosesAnswer \/ Robbed
  PROVE  SpotInv'
<1> USE DEF SpotTypeOK
<1>0. SpotTypeOK /\ MaxLosses \in Nat
  BY SpotSessionAssumption DEF SpotInv
<1>1. CASE ContactLost \/ ContactBack
  <2>1. /\ UNCHANGED <<ready, lease, timers, dances, pings>>
        /\ contact' \in BOOLEAN /\ troubles' \in 0..MaxLosses
    <3>1. CASE ContactBack
      BY <1>0, <3>1 DEF ContactBack
    <3>2. CASE ContactLost
      <4>1. troubles < MaxLosses /\ troubles' = troubles + 1 /\ troubles \in 0..MaxLosses
        BY <1>0, <3>2 DEF ContactLost, Trouble
      <4>2. troubles' \in 0..MaxLosses
        BY <1>0, <4>1
      <4>3. contact' = FALSE /\ UNCHANGED <<ready, lease, timers, dances, pings>>
        BY <3>2 DEF ContactLost
      <4> QED
        BY <4>2, <4>3
    <3> QED
      BY <1>1, <3>1, <3>2
  <2>2. SpotTypeOK'
    BY <1>0, <2>1
  <2> HIDE DEF SpotTypeOK
  <2> QED
    BY <2>1, <2>2, QuietlyTended
<1>2. CASE LosesAnswer
  <2>1. UNCHANGED <<ready, lease, timers, contact, troubles>>
    BY <1>2 DEF LosesAnswer
  <2>2. SpotTypeOK' /\ \A d \in Dances : dances'[d].at = dances[d].at
    <3>1. ASSUME NEW d \in Dances, dances' = [dances EXCEPT ![d].lost = TRUE], pings' = pings
          PROVE  SpotTypeOK' /\ \A e \in Dances : dances'[e].at = dances[e].at
      BY <1>0, <2>1, <3>1
    <3>2. ASSUME NEW c \in Slots, pings' = [pings EXCEPT ![c].lost = TRUE], dances' = dances
          PROVE  SpotTypeOK' /\ \A e \in Dances : dances'[e].at = dances[e].at
      BY <1>0, <2>1, <3>2
    <3> QED
      BY <1>2, <3>1, <3>2 DEF LosesAnswer
  <2> HIDE DEF SpotTypeOK
  <2> QED
    BY <2>1, <2>2, QuietlyTended
<1>3. CASE Robbed
  <2>1. /\ lease' = Outdated(lease) /\ dances' = OutdatedDances /\ pings' = OutdatedCalls
        /\ UNCHANGED <<ready, timers, contact>> /\ troubles' \in 0..MaxLosses
    BY <1>0, <1>3 DEF Robbed, Trouble
  <2>2. /\ lease' \in Leases /\ (lease' = "none" <=> lease = "none")
    BY <1>0, <2>1, OutdatedIsLease
  <2>3. SpotTypeOK' /\ \A d \in Dances : dances'[d].at = dances[d].at
    BY <1>0, <2>1, <2>2, OutdatedTypes
  <2> HIDE DEF SpotTypeOK
  <2> QED
    BY <2>1, <2>2, <2>3, QuietlyTended
<1> QED
  BY <1>1, <1>2, <1>3

LEMMA SpotStarts == SpotInit => SpotInv
<1> SUFFICES ASSUME SpotInit PROVE SpotInv
  OBVIOUS
<1>1. 1 \in Dances /\ 0 \in 0..MaxLosses
  BY SpotSessionAssumption DEF Dances
<1>2. SpotTypeOK
  BY <1>1 DEF SpotInit, SpotBlank, SpotTypeOK, Idle, Asleep, NoCall, Leases, KeepAlives
<1>3. Carries(1)
  BY <1>1 DEF SpotInit, Carries, Asleep
<1> QED
  BY <1>1, <1>2, <1>3 DEF SpotInv

LEMMA SpotSteps == SpotInv /\ [SpotNext]_spotVars => SpotInv'
<1>1. ASSUME SpotInv, UNCHANGED spotVars PROVE SpotInv'
  <2>1. SpotTypeOK'
    BY <1>1 DEF SpotInv, SpotTypeOK, spotVars
  <2> QED
    BY <1>1, <2>1, QuietlyTended DEF spotVars
<1> QED
  BY <1>1, DanceKeeps, CallsTend, TroublesTend DEF SpotNext

LEMMA TendedIs == SpotInv => SpotTypeOK /\ SessionIsTended
<1> SUFFICES ASSUME SpotInv PROVE SessionIsTended
  BY DEF SpotInv
<1>1. Pending = {} => \A d \in Dances : dances[d].at = "none"
  BY DEF Pending
<1>2. Pending = {} => \A d \in Dances : ~Carries(d)
  BY <1>1 DEF Carries
<1> QED
  BY <1>2 DEF SpotInv, SessionIsTended, Tended

\* However dances, refusals and late answers fall together, either a dance is
\* still to come or the session is up with a lease and its keep-alives, for any
\* number of dances, calls and losses (spot main.ts:99-263).
THEOREM SessionsAreTended == SpotSpec => []SessionIsTended
BY SpotStarts, SpotSteps, TendedIs, PTL DEF SpotSpec

-----------------------------------------------------------------------------
(* RobotServer: what an answer says is true.                               *)

RequestTypes == {"poll", "query", "cancel", "nav"}
WaitTable == [Numbers -> RequestTypes \cup {"none"}]
Requests  == [number : Numbers, type : RequestTypes]
Replies   == [number : Numbers, type : RequestTypes, code : 0..2]
Legs      == [at : {"idle", "query", "cancel", "pause", "nav"}, number : Numbers \cup {Nothing}]
Outcomes  == [number : Numbers \cup {Nothing}, code : 0..2]
Tallies   == [runs : 0..MaxRuns, extras : 0..MaxExtras, troubles : 0..MaxUpsets]
USE DEF Legs, Outcomes, Tallies

\* runNav waits for the request it sent last.
LegWaits ==
  /\ leg.at \in {"idle", "pause"} => leg.number = Nothing
  /\ leg.at \in {"query", "cancel", "nav"} =>
       leg.number \in 1..seq /\ waits[leg.number] = leg.at

\* The requests a run has still to send fit the numbers there are.
ToSend == IF leg.at = "query" THEN 2 ELSE IF leg.at \in {"cancel", "pause"} THEN 1 ELSE 0
NumbersFit == seq + ToSend <= 3 * counts.runs + counts.extras

\* The requests on the line are newer than low, and in the order of their numbers.
Ascending(s, low, high) ==
  /\ \A i \in 1..Len(s) : low < s[i].number /\ s[i].number <= high
  /\ \A i, j \in 1..Len(s) : i < j => s[i].number < s[j].number

\* No task up to number n goes on or is still to come.
Past(n) == n <= seq /\ Ascending(toRobot, n, seq) /\ (duty \in Numbers => n < duty)

\* Answers that are true: a cancel that was answered ended all tasks before it,
\* and a task that succeeded arrived.
TrueReplies ==
  {f \in Replies : /\ f.type = "cancel" => Past(f.number)
                   /\ f.type = "nav" /\ f.code = 0 => f.number \in arrived}

LastIsTrue == last.code = 0 => last.number \in arrived

LineInv ==
  /\ LineTypeOK /\ LegWaits /\ NumbersFit
  /\ Past(confirmed) /\ toAdapter \in Seq(TrueReplies) /\ LastIsTrue

LEMMA LineTypes ==
  LineTypeOK <=>
    /\ connected \in BOOLEAN /\ seq \in Numbers \cup {0} /\ waits \in WaitTable
    /\ leg \in Legs
    /\ toRobot \in Seq(Requests) /\ toAdapter \in Seq(Replies)
    /\ torn \in BOOLEAN /\ arrived \subseteq Numbers
    /\ duty \in Numbers \cup {Nothing, OwnTask}
    /\ last \in Outcomes
    /\ confirmed \in Numbers \cup {0}
    /\ counts \in Tallies
BY DEF LineTypeOK, WaitTable, Requests, Replies, RequestTypes

LEMMA NumbersAre ==
  /\ Numbers = {n \in Nat : n >= 1 /\ n <= 3 * MaxRuns + MaxExtras}
  /\ Nothing = 0 /\ Nothing \notin Numbers /\ OwnTask \notin Numbers
  /\ MaxRuns \in Nat /\ MaxExtras \in Nat /\ MaxUpsets \in Nat
BY RobotServerAssumption DEF Numbers, Nothing, OwnTask

LEMMA AppendAscends ==
  ASSUME NEW s \in Seq(Requests), NEW low \in Nat, NEW high \in Nat, low <= high,
         Ascending(s, low, high), NEW r \in Requests, r.number = high + 1
  PROVE  Ascending(Append(s, r), low, high + 1)
<1>1. PICK t : t = Append(s, r)
  OBVIOUS
<1>2. /\ t \in Seq(Requests) /\ Len(t) = Len(s) + 1 /\ Len(s) \in Nat
      /\ t[Len(s) + 1] = r /\ \A i \in 1..Len(s) : t[i] = s[i]
  BY <1>1
<1>3. \A i \in 1..Len(s) : s[i].number \in Nat
  <2>1. \A i \in 1..Len(s) : s[i] \in Requests
    OBVIOUS
  <2> QED
    BY <2>1, NumbersAre DEF Requests
<1>4. \A i \in 1..Len(t) : i \in 1..Len(s) \/ i = Len(s) + 1
  BY <1>2
<1>5. \A i \in 1..Len(t) : low < t[i].number /\ t[i].number <= high + 1
  BY <1>2, <1>3, <1>4 DEF Ascending
<1>6. ASSUME NEW i \in 1..Len(t), NEW j \in 1..Len(t), i < j PROVE t[i].number < t[j].number
  <2>1. i \in 1..Len(s)
    BY <1>2, <1>6
  <2>2. CASE j \in 1..Len(s)
    BY <1>2, <1>6, <2>1, <2>2 DEF Ascending
  <2>3. CASE j = Len(s) + 1
    BY <1>2, <1>3, <2>1, <2>3 DEF Ascending
  <2> QED
    BY <1>4, <2>2, <2>3
<1> QED
  BY <1>1, <1>5, <1>6 DEF Ascending

LEMMA TailAscends ==
  ASSUME NEW s \in Seq(Requests), s # <<>>, NEW low \in Nat, NEW high \in Nat,
         Ascending(s, low, high)
  PROVE  /\ Head(s) \in Requests /\ low < Head(s).number /\ Head(s).number <= high
         /\ Tail(s) \in Seq(Requests)
         /\ Ascending(Tail(s), Head(s).number, high) /\ Ascending(Tail(s), low, high)
<1>1. PICK t, r : t = Tail(s) /\ r = Head(s)
  OBVIOUS
<1>2. /\ t \in Seq(Requests) /\ r \in Requests /\ r = s[1] /\ Len(s) \in Nat \ {0}
      /\ Len(t) = Len(s) - 1 /\ \A i \in 1..Len(t) : t[i] = s[i + 1]
  BY <1>1
<1>3. \A i \in 1..Len(s) : s[i].number \in Nat
  <2>1. \A i \in 1..Len(s) : s[i] \in Requests
    OBVIOUS
  <2> QED
    BY <2>1, NumbersAre DEF Requests
<1>4. \A i \in 1..Len(t) : i + 1 \in 1..Len(s) /\ 1 < i + 1
  BY <1>2
<1>5. \A i \in 1..Len(t) : r.number < t[i].number /\ t[i].number <= high /\ low < t[i].number
  <2>1. ASSUME NEW i \in 1..Len(t)
        PROVE  r.number < t[i].number /\ t[i].number <= high /\ low < t[i].number
    <3>1. PICK k \in 1..Len(s) : k = i + 1 /\ 1 < k
      BY <1>4
    <3>2. t[i] = s[k] /\ 1 \in 1..Len(s)
      BY <1>2, <3>1
    <3> QED
      BY <1>2, <3>1, <3>2 DEF Ascending
  <2> QED
    BY <2>1
<1>6. ASSUME NEW i \in 1..Len(t), NEW j \in 1..Len(t), i < j PROVE t[i].number < t[j].number
  <2>1. i + 1 < j + 1
    BY <1>2, <1>6
  <2> QED
    BY <1>2, <1>4, <2>1 DEF Ascending
<1>7. 1 \in 1..Len(s)
  BY <1>2
<1> QED
  BY <1>1, <1>2, <1>5, <1>6, <1>7 DEF Ascending

\* Nothing that is past comes back, and so answers stay true.
LEMMA RepliesStay ==
  ASSUME LineInv, seq' \in Nat, seq <= seq', arrived \subseteq arrived',
         \A n \in 0..seq : Past(n) => Past(n)'
  PROVE  TrueReplies \subseteq TrueReplies' /\ Seq(TrueReplies) \subseteq Seq(TrueReplies')
<1>0. seq \in Nat
  BY NumbersAre, LineTypes DEF LineInv
<1>1. ASSUME NEW f \in TrueReplies PROVE f \in TrueReplies'
  <2>1. f \in Replies /\ f.number \in Nat
    BY <1>0, NumbersAre DEF TrueReplies, Replies
  <2>2. ASSUME f.type = "cancel" PROVE Past(f.number)'
    <3>1. Past(f.number)
      BY <2>2 DEF TrueReplies
    <3>2. f.number \in 0..seq
      BY <1>0, <2>1, <3>1 DEF Past
    <3> QED
      BY <3>1, <3>2
  <2> QED
    BY <2>1, <2>2 DEF TrueReplies
<1> QED
  BY <1>1

\* A request that is sent.
LEMMA SentIs ==
  ASSUME LineInv, NEW w \in WaitTable, NEW type \in RequestTypes, Sent(type, w),
         seq + 1 <= 3 * MaxRuns + MaxExtras
  PROVE  /\ seq' = seq + 1 /\ seq' \in Numbers /\ waits' \in WaitTable /\ waits'[seq'] = type
         /\ \A n \in Numbers : n # seq' => waits'[n] = w[n]
         /\ toRobot' \in Seq(Requests)
         /\ \A n \in 0..seq : Ascending(toRobot, n, seq) => Ascending(toRobot', n, seq')
<1>1. seq \in Nat /\ seq + 1 \in Numbers
  BY NumbersAre, LineTypes DEF LineInv
<1>2. PICK r : r = [number |-> seq + 1, type |-> type]
  OBVIOUS
<1>3. r \in Requests /\ r.number = seq + 1
  BY <1>1, <1>2 DEF Requests
<1>4. /\ seq' = seq + 1 /\ waits' = [w EXCEPT ![seq + 1] = type]
      /\ toRobot' = Append(toRobot, r)
  BY <1>2 DEF Sent
<1>5. toRobot \in Seq(Requests)
  BY LineTypes DEF LineInv
<1>6. ASSUME NEW n \in 0..seq, Ascending(toRobot, n, seq) PROVE Ascending(toRobot', n, seq')
  <2>1. n \in Nat /\ n <= seq
    BY <1>1
  <2>2. Ascending(Append(toRobot, r), n, seq + 1)
    BY <1>1, <1>3, <1>5, <1>6, <2>1, AppendAscends
  <2> QED
    BY <1>4, <2>2
<1> QED
  BY <1>1, <1>3, <1>4, <1>5, <1>6 DEF WaitTable

-----------------------------------------------------------------------------
(* What runNav does next, and what the end of a request makes it do.       *)

\* It sends at most one request, and waits for it.
Onward ==
  /\ waits' \in WaitTable
  /\ leg' \in Legs
  /\ LegWaits' /\ toRobot' \in Seq(Requests) /\ seq' \in Numbers \cup {0} /\ seq <= seq'
  /\ \A n \in 0..seq : Ascending(toRobot, n, seq) => Ascending(toRobot', n, seq')
  /\ last' \in Outcomes
  /\ last'.code = 0 => last'.number \in arrived

LEMMA SendsOn ==
  ASSUME LineInv, NEW w \in WaitTable, NEW stage \in {"query", "cancel", "nav"}, Sent(stage, w),
         leg' = [at |-> stage, number |-> seq + 1], UNCHANGED last,
         seq + 1 <= 3 * MaxRuns + MaxExtras
  PROVE  Onward /\ seq' = seq + 1 /\ leg'.at = stage
<1>0. seq \in Nat /\ stage \in RequestTypes
  BY NumbersAre, LineTypes DEF LineInv, RequestTypes
<1>1. /\ seq' = seq + 1 /\ seq' \in Numbers /\ waits' \in WaitTable /\ waits'[seq'] = stage
      /\ toRobot' \in Seq(Requests)
      /\ \A n \in 0..seq : Ascending(toRobot, n, seq) => Ascending(toRobot', n, seq')
  BY <1>0, SentIs
<1>2. leg'.at = stage /\ leg'.number = seq' /\ leg' \in Legs
  BY <1>1
<1>3. LegWaits'
  BY <1>0, <1>1, <1>2 DEF LegWaits
<1>5. last' \in Outcomes /\ (last'.code = 0 => last'.number \in arrived)
  BY LineTypes DEF LineInv, LastIsTrue
<1>6. seq <= seq'
  BY <1>0, <1>1
<1> QED
  BY <1>1, <1>2, <1>3, <1>5, <1>6 DEF Onward

\* It goes on, or is at its end, without a request.
LEMMA RestsOn ==
  ASSUME LineInv, NEW w \in WaitTable, Rejected(w), NEW stage \in {"idle", "pause"},
         leg' = [at |-> stage, number |-> Nothing],
         last' \in Outcomes,
         last'.code = 0 => last'.number \in arrived
  PROVE  Onward /\ seq' = seq /\ leg'.at = stage
<1>0. seq \in Nat /\ seq \in Numbers \cup {0} /\ toRobot \in Seq(Requests)
  BY NumbersAre, LineTypes DEF LineInv
<1>1. waits' = w /\ seq' = seq /\ toRobot' = toRobot
  BY DEF Rejected
<1>2. leg'.at = stage /\ leg'.number = Nothing
      /\ leg' \in Legs
  OBVIOUS
<1>3. LegWaits'
  BY <1>2 DEF LegWaits
<1> QED
  BY <1>0, <1>1, <1>2, <1>3 DEF Onward

LEMMA AsksNavOn ==
  ASSUME LineInv, NEW w \in WaitTable, AsksNav(w), seq + 1 <= 3 * MaxRuns + MaxExtras
  PROVE  Onward /\ seq' \in {seq, seq + 1} /\ ToSend' = 0
<1>0. seq \in Nat
  BY NumbersAre, LineTypes DEF LineInv
<1>1. CASE connected
  <2>1. Onward /\ seq' = seq + 1 /\ leg'.at = "nav"
    BY <1>1, SendsOn DEF AsksNav
  <2> QED
    BY <1>0, <2>1 DEF ToSend
<1>2. CASE ~connected
  <2>1. last' = [number |-> Nothing, code |-> 1] /\ leg' = [at |-> "idle", number |-> Nothing]
        /\ Rejected(w)
    BY <1>2 DEF AsksNav, SettledAs
  <2>2. last' \in Outcomes /\ last'.code # 0
    BY <2>1
  <2>3. Onward /\ seq' = seq /\ leg'.at = "idle"
    BY <2>1, <2>2, RestsOn
  <2> QED
    BY <1>0, <2>3 DEF ToSend
<1> QED
  BY <1>1, <1>2

LEMMA AsksCancelOn ==
  ASSUME LineInv, NEW w \in WaitTable, AsksCancel(w), UNCHANGED last,
         seq + 1 <= 3 * MaxRuns + MaxExtras
  PROVE  Onward /\ seq' + ToSend' <= seq + 2
<1>0. seq \in Nat
  BY NumbersAre, LineTypes DEF LineInv
<1>1. CASE connected
  <2>1. Onward /\ seq' = seq + 1 /\ leg'.at = "cancel"
    BY <1>1, SendsOn DEF AsksCancel
  <2> QED
    BY <1>0, <2>1 DEF ToSend
<1>2. CASE ~connected
  <2>1. leg' = [at |-> "pause", number |-> Nothing] /\ Rejected(w)
    BY <1>2 DEF AsksCancel
  <2>2. last' \in Outcomes /\ (last'.code = 0 => last'.number \in arrived)
    BY LineTypes DEF LineInv, LastIsTrue
  <2>3. Onward /\ seq' = seq /\ leg'.at \in {"idle", "pause"}
    BY <2>1, <2>2, RestsOn
  <2> QED
    BY <1>0, <2>3 DEF ToSend
<1> QED
  BY <1>1, <1>2

\* There is a number for what a run has still to send.
LEMMA RoomToSend ==
  ASSUME LineInv, ToSend >= 1
  PROVE  seq + 1 <= 3 * MaxRuns + MaxExtras
<1>1. seq + ToSend <= 3 * counts.runs + counts.extras
  BY DEF LineInv, NumbersFit
<1>2. counts.runs \in 0..MaxRuns /\ counts.extras \in 0..MaxExtras /\ seq \in Nat
  BY LineTypes, NumbersAre DEF LineInv
<1>3. ToSend \in Int
  BY DEF ToSend
<1> QED
  BY <1>1, <1>2, <1>3, NumbersAre

LEMMA EndsOn ==
  ASSUME LineInv, NEW n \in Numbers, waits[n] # "none", NEW code \in 0..2, Ends(n, code),
         waits[n] = "nav" /\ code = 0 => n \in arrived
  PROVE  Onward /\ seq' + ToSend' <= seq + ToSend
<1>0. /\ seq \in Nat /\ seq \in Numbers \cup {0} /\ toRobot \in Seq(Requests) /\ waits \in WaitTable
      /\ leg \in Legs
      /\ last \in Outcomes
      /\ (last.code = 0 => last.number \in arrived)
      /\ LegWaits
  BY NumbersAre, LineTypes DEF LineInv, LastIsTrue
<1>1. PICK w : w = Freed(n)
  OBVIOUS
<1>2. w \in WaitTable /\ \A m \in Numbers : m # n => w[m] = waits[m]
  BY <1>0, <1>1 DEF Freed, WaitTable
<1>3. CASE leg.number # n
  <2>1. Rejected(w) /\ UNCHANGED <<leg, last>>
    BY <1>1, <1>3 DEF Ends
  <2>2. waits' = w /\ seq' = seq /\ toRobot' = toRobot
    BY <2>1 DEF Rejected
  <2>3. LegWaits'
    <3>1. CASE leg.at \in {"idle", "pause"}
      BY <1>0, <2>1, <3>1 DEF LegWaits
    <3>2. CASE leg.at \in {"query", "cancel", "nav"}
      <4>1. leg.number \in 1..seq /\ leg.number \in Numbers
        BY <1>0, <3>2, NumbersAre DEF LegWaits
      <4> QED
        BY <1>0, <1>2, <1>3, <2>1, <2>2, <3>2, <4>1 DEF LegWaits
    <3> QED
      BY <1>0, <3>1, <3>2
  <2>4. seq' + ToSend' <= seq + ToSend
    BY <1>0, <2>1, <2>2 DEF ToSend
  <2> QED
    BY <1>0, <1>2, <2>1, <2>2, <2>3, <2>4 DEF Onward
<1>4. CASE leg.number = n
  <2>1. leg.at \in {"query", "cancel", "nav"} /\ waits[n] = leg.at
    BY <1>0, <1>4, NumbersAre DEF LegWaits
  <2>2. CASE leg.at = "query" /\ code = 1
    <3>1. AsksCancel(w) /\ UNCHANGED last
      BY <1>1, <1>4, <2>2 DEF Ends
    <3>2. ToSend = 2
      BY <2>2 DEF ToSend
    <3>3. Onward /\ seq' + ToSend' <= seq + 2
      BY <1>2, <3>1, <3>2, RoomToSend, AsksCancelOn
    <3> QED
      BY <3>2, <3>3
  <2>3. CASE leg.at = "query" /\ code # 1
    <3>1. AsksNav(w)
      BY <1>1, <1>4, <2>3 DEF Ends
    <3>2. ToSend = 2
      BY <2>3 DEF ToSend
    <3>3. Onward /\ seq' \in {seq, seq + 1} /\ ToSend' = 0
      BY <1>2, <3>1, <3>2, RoomToSend, AsksNavOn
    <3>4. seq \in Nat
      BY <1>0
    <3>5. CASE seq' = seq
      BY <3>2, <3>3, <3>4, <3>5
    <3>6. CASE seq' = seq + 1
      BY <3>2, <3>3, <3>4, <3>6
    <3> QED
      BY <3>3, <3>5, <3>6
  <2>4. CASE leg.at = "cancel"
    <3>1. /\ Rejected(w) /\ leg' = [at |-> "pause", number |-> Nothing] /\ UNCHANGED last
      BY <1>1, <1>4, <2>4 DEF Ends
    <3>2. ToSend = 1
      BY <2>4 DEF ToSend
    <3>3. Onward /\ seq' = seq /\ leg'.at = "pause"
      BY <1>0, <1>2, <3>1, RestsOn
    <3> QED
      BY <1>0, <3>2, <3>3 DEF ToSend
  <2>5. CASE leg.at = "nav"
    <3>1. /\ Rejected(w) /\ leg' = [at |-> "idle", number |-> Nothing]
          /\ last' = [number |-> n, code |-> code]
      BY <1>1, <1>4, <2>5 DEF Ends, SettledAs
    <3>2. ToSend = 0
      BY <2>5 DEF ToSend
    <3>3. last' \in Outcomes /\ last'.number = n /\ last'.code = code
      BY <3>1
    <3>4. Onward /\ seq' = seq /\ leg'.at = "idle"
      BY <1>0, <1>2, <2>1, <2>5, <3>1, <3>3, RestsOn
    <3> QED
      BY <1>0, <3>2, <3>4 DEF ToSend
  <2> QED
    BY <2>1, <2>2, <2>3, <2>4, <2>5
<1> QED
  BY <1>3, <1>4

-----------------------------------------------------------------------------
(* The steps.                                                              *)

\* What runNav and the requests do, when the robot does nothing.
LEMMA OnwardKeeps ==
  ASSUME LineInv, Onward, NumbersFit',
         UNCHANGED <<connected, duty, arrived>>, torn' \in BOOLEAN,
         toAdapter' \in Seq(TrueReplies),
         counts' \in Tallies,
         confirmed' \in 0..seq, Past(confirmed')
  PROVE  LineInv'
<1>0. /\ connected \in BOOLEAN /\ arrived \subseteq Numbers
      /\ duty \in Numbers \cup {Nothing, OwnTask} /\ seq \in Numbers \cup {0}
      /\ seq \in Nat /\ seq' \in Nat
  <2>1. seq' \in Numbers \cup {0}
    BY DEF Onward
  <2>2. /\ connected \in BOOLEAN /\ arrived \subseteq Numbers /\ seq \in Numbers \cup {0}
        /\ duty \in Numbers \cup {Nothing, OwnTask}
    BY LineTypes DEF LineInv
  <2> QED
    BY <2>1, <2>2, NumbersAre
<1>1. \A n \in 0..seq : Past(n) => Past(n)'
  BY <1>0 DEF Onward, Past
<1>2. toAdapter' \in Seq(TrueReplies')
  BY <1>0, <1>1, RepliesStay DEF Onward
<1>3. Past(confirmed)'
  BY <1>1 DEF Past, Onward
<1>4. LineTypeOK'
  <2>1. toAdapter' \in Seq(Replies)
    <3>1. TrueReplies \subseteq Replies
      BY DEF TrueReplies
    <3> QED
      BY <3>1
  <2>2. confirmed' \in Numbers \cup {0}
    BY <1>0, NumbersAre
  <2> QED
    BY <1>0, <2>1, <2>2, LineTypes DEF Onward, WaitTable, Requests, Replies, RequestTypes, LineTypeOK
<1> QED
  BY <1>2, <1>3, <1>4 DEF LineInv, Onward, LastIsTrue

LEMMA ConfirmedIsPast ==
  ASSUME LineInv
  PROVE  confirmed \in 0..seq /\ Past(confirmed)
<1>1. confirmed \in Nat /\ seq \in Nat
  BY LineTypes, NumbersAre DEF LineInv
<1> QED
  BY <1>1 DEF LineInv, Past

LEMMA ThreeMore ==
  ASSUME NEW k \in Nat, NEW r \in Nat, NEW e \in Nat, NEW x \in Int, k <= 3 * r + e, x <= k + 3
  PROVE  x <= 3 * (r + 1) + e
OBVIOUS

LEMMA CountedIs ==
  ASSUME LineInv, NEW what \in {"runs", "extras", "troubles"},
         NEW most, most = (IF what = "runs" THEN MaxRuns ELSE IF what = "extras" THEN MaxExtras ELSE MaxUpsets),
         Counted(what, most)
  PROVE  /\ counts' \in Tallies
         /\ counts'.runs = IF what = "runs" THEN counts.runs + 1 ELSE counts.runs
         /\ counts'.extras = IF what = "extras" THEN counts.extras + 1 ELSE counts.extras
         /\ what = "runs" => counts.runs < MaxRuns
         /\ what = "extras" => counts.extras < MaxExtras
<1>1. counts \in Tallies
  BY LineTypes DEF LineInv
<1>2. CASE what = "runs"
  BY <1>1, <1>2, NumbersAre DEF Counted
<1>3. CASE what = "extras"
  BY <1>1, <1>3, NumbersAre DEF Counted
<1>4. CASE what = "troubles"
  BY <1>1, <1>4, NumbersAre DEF Counted
<1> QED
  BY <1>2, <1>3, <1>4

LEMMA LineNumbers ==
  ASSUME LineInv
  PROVE  /\ seq \in Nat /\ ToSend \in Nat /\ waits \in WaitTable /\ torn \in BOOLEAN
         /\ counts \in Tallies
         /\ counts.runs \in Nat /\ counts.extras \in Nat
         /\ seq + ToSend <= 3 * counts.runs + counts.extras
         /\ toAdapter \in Seq(TrueReplies)
<1>1. counts \in Tallies
  BY LineTypes DEF LineInv
<1>2. counts.runs \in Nat /\ counts.extras \in Nat
  BY <1>1, NumbersAre
<1> QED
  BY <1>1, <1>2, LineTypes, NumbersAre DEF LineInv, NumbersFit, ToSend

LEMMA OnwardFits ==
  ASSUME LineInv, Onward, seq' + ToSend' <= seq + ToSend, UNCHANGED counts
  PROVE  NumbersFit'
<1>1. seq' \in Int /\ ToSend' \in Int
  BY NumbersAre DEF Onward, ToSend
<1> QED
  BY <1>1, LineNumbers DEF NumbersFit

LEMMA TimeoutKeeps ==
  ASSUME LineInv, NEW n \in Numbers, Timeout(n)
  PROVE  LineInv'
<1>1. /\ waits[n] # "none" /\ Ends(n, NoAnswer(n))
      /\ UNCHANGED <<connected, toAdapter, torn, duty, arrived, confirmed, counts>>
  BY DEF Timeout, robotSide
<1>2. PICK code : code = NoAnswer(n)
  OBVIOUS
<1>3. code \in 0..2 /\ (waits[n] = "nav" => code = 1)
  BY <1>2 DEF NoAnswer
<1>4. Onward /\ seq' + ToSend' <= seq + ToSend
  BY <1>1, <1>2, <1>3, EndsOn
<1>5. NumbersFit'
  BY <1>1, <1>4, OnwardFits
<1> QED
  BY <1>1, <1>4, <1>5, LineNumbers, ConfirmedIsPast, OnwardKeeps

\* Nothing of runNav or of the requests changes.
LEMMA QuietOn ==
  ASSUME LineInv, UNCHANGED <<seq, waits, leg, toRobot, last>>
  PROVE  Onward /\ ToSend' = ToSend /\ seq' = seq
<1>1. seq \in Nat
  BY LineNumbers
<1>2. LegWaits' /\ ToSend' = ToSend
  BY DEF LineInv, LegWaits, ToSend
<1> QED
  BY <1>1, <1>2, LineTypes DEF LineInv, LastIsTrue, Onward

LEMMA HeadIsTrue ==
  ASSUME NEW S, NEW s \in Seq(S), s # <<>>
  PROVE  Head(s) \in S /\ Tail(s) \in Seq(S)
OBVIOUS

LEMMA ReceiveKeeps == ASSUME LineInv, Receive PROVE LineInv'
<1>1. /\ toAdapter # <<>> /\ toAdapter' = Tail(toAdapter)
      /\ UNCHANGED <<connected, duty, arrived, counts>>
  BY DEF Receive, robotSide
<1>2. PICK f : f = Head(toAdapter)
  OBVIOUS
<1>3. f \in TrueReplies /\ toAdapter' \in Seq(TrueReplies)
  BY <1>1, <1>2, LineNumbers, HeadIsTrue
<1>4. f \in Replies /\ f.number \in Numbers /\ f.code \in 0..2
  BY <1>3 DEF TrueReplies, Replies
<1>5. CASE Swallowed \/ (Routed(f) /\ Matched(f) = {})
  <2>1. torn' \in BOOLEAN /\ UNCHANGED <<seq, waits, leg, toRobot, last, confirmed>>
    BY <1>5, LineNumbers DEF Swallowed, Routed
  <2>2. Onward /\ ToSend' = ToSend /\ seq' = seq
    BY <2>1, QuietOn
  <2>3. NumbersFit'
    BY <1>1, <2>2 DEF LineInv, NumbersFit
  <2> QED
    BY <1>1, <1>3, <2>1, <2>2, <2>3, LineNumbers, ConfirmedIsPast, OnwardKeeps
<1>6. CASE Routed(f) /\ Matched(f) # {}
  <2>1. PICK n \in Matched(f) :
          /\ Ends(n, f.code)
          /\ confirmed' = IF f.type = "cancel" /\ f.code = 0 /\ n > confirmed THEN n ELSE confirmed
    BY <1>6 DEF Routed
  <2>2. UNCHANGED torn
    BY <1>6 DEF Routed
  <2>3. n \in Numbers /\ n = f.number /\ waits[n] = f.type
    BY DEF Matched
  <2>4. f.type \in RequestTypes /\ waits[n] # "none"
    BY <1>4, <2>3 DEF Replies, RequestTypes
  <2>5. waits[n] = "nav" /\ f.code = 0 => n \in arrived
    BY <1>3, <2>3 DEF TrueReplies
  <2>6. Onward /\ seq' + ToSend' <= seq + ToSend
    BY <1>4, <2>1, <2>3, <2>4, <2>5, EndsOn
  <2>7. NumbersFit'
    BY <1>1, <2>6, OnwardFits
  <2>8. confirmed' \in 0..seq /\ Past(confirmed')
    <3>1. CASE f.type = "cancel" /\ f.code = 0 /\ n > confirmed
      <4>1. Past(n)
        BY <1>3, <2>3, <3>1 DEF TrueReplies
      <4>2. confirmed' = n /\ n \in 0..seq
        BY <1>4, <2>1, <2>3, <3>1, <4>1, NumbersAre, LineNumbers DEF Past
      <4> QED
        BY <4>1, <4>2
    <3>2. CASE ~(f.type = "cancel" /\ f.code = 0 /\ n > confirmed)
      BY <2>1, <3>2, ConfirmedIsPast
    <3> QED
      BY <3>1, <3>2
  <2> QED
    BY <1>1, <1>3, <2>2, <2>6, <2>7, <2>8, LineNumbers, OnwardKeeps
<1> QED
  BY <1>2, <1>5, <1>6 DEF Receive

LEMMA RunNavKeeps == ASSUME LineInv, RunNav PROVE LineInv'
<1>1. /\ leg.at = "idle" /\ Counted("runs", MaxRuns)
      /\ UNCHANGED <<connected, toAdapter, torn, duty, arrived, confirmed>>
  BY DEF RunNav, robotSide
<1>2. /\ counts' \in Tallies
      /\ counts'.runs = counts.runs + 1 /\ counts'.extras = counts.extras
      /\ counts.runs < MaxRuns /\ counts.extras <= MaxExtras
  BY <1>1, CountedIs, LineNumbers
<1>3. ToSend = 0
  BY <1>1 DEF ToSend
<1>4. seq <= 3 * counts.runs + counts.extras /\ seq + 1 <= 3 * MaxRuns + MaxExtras
  BY <1>2, <1>3, LineNumbers, NumbersAre
<1>5. Onward /\ seq' \in {seq, seq + 1} /\ ToSend' \in {0, 2}
  <2>1. CASE connected
    <3>1. Sent("query", waits) /\ leg' = [at |-> "query", number |-> seq + 1] /\ UNCHANGED last
      BY <2>1 DEF RunNav
    <3>2. Onward /\ seq' = seq + 1 /\ leg'.at = "query"
      BY <1>4, <3>1, LineNumbers, SendsOn
    <3> QED
      BY <3>2 DEF ToSend
  <2>2. CASE ~connected
    <3>1. AsksNav(waits)
      BY <2>2 DEF RunNav
    <3> QED
      BY <1>4, <3>1, LineNumbers, AsksNavOn
  <2> QED
    BY <2>1, <2>2
<1>6. NumbersFit'
  <2>1. seq' + ToSend' <= seq + 3
    BY <1>5, LineNumbers
  <2>2. seq' \in Int /\ ToSend' \in Int
    BY <1>5, LineNumbers
  <2>3. PICK r \in Nat, e \in Nat : r = counts.runs /\ e = counts.extras
    BY LineNumbers
  <2>4. counts'.runs = r + 1 /\ counts'.extras = e
    BY <1>2, <2>3
  <2>5. seq \in Nat /\ seq <= 3 * r + e
    BY <1>4, <2>3, LineNumbers
  <2>6. seq' + ToSend' <= 3 * (r + 1) + e
    <3>1. seq' + ToSend' \in Int
      BY <2>2
    <3> QED
      BY <2>1, <2>5, <3>1, ThreeMore
  <2> QED
    BY <2>4, <2>6 DEF NumbersFit
<1> QED
  BY <1>1, <1>2, <1>5, <1>6, LineNumbers, ConfirmedIsPast, OnwardKeeps

LEMMA PausesKeep == ASSUME LineInv, Pauses PROVE LineInv'
<1>1. /\ leg.at = "pause" /\ AsksNav(waits)
      /\ UNCHANGED <<connected, toAdapter, torn, duty, arrived, confirmed, counts>>
  BY DEF Pauses, robotSide
<1>2. ToSend = 1
  BY <1>1 DEF ToSend
<1>3. Onward /\ seq' \in {seq, seq + 1} /\ ToSend' = 0
  BY <1>1, <1>2, LineNumbers, RoomToSend, AsksNavOn
<1>4. seq' + ToSend' <= seq + ToSend
  BY <1>2, <1>3, LineNumbers
<1>5. NumbersFit'
  BY <1>1, <1>3, <1>4, OnwardFits
<1> QED
  BY <1>1, <1>3, <1>5, LineNumbers, ConfirmedIsPast, OnwardKeeps

LEMMA ExtraKeeps == ASSUME LineInv, Extra PROVE LineInv'
<1>1. /\ Counted("extras", MaxExtras)
      /\ UNCHANGED <<connected, leg, toAdapter, torn, duty, arrived, last, confirmed>>
  BY DEF Extra, robotSide
<1>2. PICK type \in {"poll", "cancel"} : Sent(type, waits)
  BY DEF Extra
<1>3. /\ counts' \in Tallies
      /\ counts'.runs = counts.runs /\ counts'.extras = counts.extras + 1
      /\ counts.runs <= MaxRuns /\ counts.extras < MaxExtras
  BY <1>1, CountedIs, LineNumbers
<1>4. seq + 1 <= 3 * MaxRuns + MaxExtras
  BY <1>3, LineNumbers, NumbersAre
<1>5. /\ seq' = seq + 1 /\ seq' \in Numbers /\ waits' \in WaitTable
      /\ \A n \in Numbers : n # seq' => waits'[n] = waits[n]
      /\ toRobot' \in Seq(Requests)
      /\ \A n \in 0..seq : Ascending(toRobot, n, seq) => Ascending(toRobot', n, seq')
  BY <1>2, <1>4, LineNumbers, SentIs DEF RequestTypes
<1>6. LegWaits'
  <2>1. CASE leg.at \in {"idle", "pause"}
    BY <1>1, <2>1 DEF LineInv, LegWaits
  <2>2. CASE leg.at \in {"query", "cancel", "nav"}
    <3>1. leg.number \in 1..seq /\ waits[leg.number] = leg.at
      BY <2>2 DEF LineInv, LegWaits
    <3>2. leg.number \in Numbers /\ leg.number # seq' /\ leg.number \in 1..seq'
      BY <1>4, <1>5, <3>1, LineNumbers, NumbersAre
    <3> QED
      BY <1>1, <1>5, <2>2, <3>1, <3>2 DEF LegWaits
  <2>3. leg.at \in {"idle", "query", "cancel", "pause", "nav"}
    BY LineTypes DEF LineInv
  <2> QED
    BY <2>1, <2>2, <2>3
<1>7. Onward
  BY <1>1, <1>5, <1>6, LineNumbers, LineTypes DEF LineInv, LastIsTrue, Onward
<1>8. NumbersFit'
  <2>1. ToSend' = ToSend
    BY <1>1 DEF ToSend
  <2>2. PICK r \in Nat, e \in Nat, t \in Nat : r = counts.runs /\ e = counts.extras /\ t = ToSend
    BY LineNumbers
  <2>3. counts'.runs = r /\ counts'.extras = e + 1 /\ ToSend' = t /\ seq' = seq + 1
    BY <1>3, <1>5, <2>1, <2>2
  <2>4. seq \in Nat /\ seq + t <= 3 * r + e
    BY <2>2, LineNumbers
  <2>5. seq + 1 + t <= 3 * r + (e + 1)
    BY <2>4
  <2> QED
    BY <2>3, <2>5 DEF NumbersFit
<1> QED
  BY <1>1, <1>3, <1>7, <1>8, LineNumbers, ConfirmedIsPast, OnwardKeeps

\* The robot, or the line, while runNav and its requests stay as they are.
LEMMA RobotKeepsLine ==
  ASSUME LineInv, UNCHANGED <<seq, waits, leg, last, confirmed>>,
         connected' \in BOOLEAN, torn' \in BOOLEAN,
         duty' \in Numbers \cup {Nothing, OwnTask}, toRobot' \in Seq(Requests),
         arrived \subseteq arrived', arrived' \subseteq Numbers,
         counts' \in Tallies,
         counts'.runs = counts.runs, counts'.extras = counts.extras,
         \A n \in 0..seq : Past(n) => Past(n)',
         toAdapter' \in Seq(TrueReplies) \/ toAdapter' \in Seq(TrueReplies')
  PROVE  LineInv'
<1>1. LegWaits' /\ NumbersFit'
  BY DEF LineInv, LegWaits, NumbersFit, ToSend
<1>2. Past(confirmed)'
  BY ConfirmedIsPast DEF Past
<1>3. toAdapter' \in Seq(TrueReplies')
  <2>1. seq' \in Nat /\ seq <= seq'
    BY LineNumbers
  <2> QED
    BY <2>1, RepliesStay
<1>4. LastIsTrue'
  BY DEF LineInv, LastIsTrue
<1>5. LineTypeOK'
  <2>1. toAdapter' \in Seq(Replies)
    <3>1. TrueReplies' \subseteq Replies
      BY DEF TrueReplies
    <3> QED
      BY <1>3, <3>1
  <2> QED
    BY <2>1, LineTypes DEF LineInv, WaitTable, Requests, Replies, RequestTypes, LineTypeOK
<1> QED
  BY <1>1, <1>2, <1>3, <1>4, <1>5 DEF LineInv

LEMMA DropsKeep == ASSUME LineInv, Drops PROVE LineInv'
<1>1. /\ Counted("troubles", MaxUpsets) /\ connected' = FALSE
      /\ waits' = [n \in Numbers |-> "none"] /\ toRobot' = <<>> /\ toAdapter' = <<>>
      /\ leg' = [at |-> IF leg.at \in {"cancel", "pause"} THEN "pause" ELSE "idle",
                 number |-> Nothing]
      /\ IF leg.at \in {"query", "nav"} THEN SettledAs(leg.number, 1) ELSE UNCHANGED last
      /\ duty' \in {duty, IF duty = OwnTask THEN duty ELSE Nothing}
      /\ UNCHANGED <<seq, arrived, confirmed>>
  BY DEF Drops
<1>2. /\ counts' \in Tallies
      /\ counts'.runs = counts.runs /\ counts'.extras = counts.extras
  BY <1>1, CountedIs
<1>3. torn' \in BOOLEAN
  <2>1. torn' \in {torn, toAdapter # <<>> \/ torn}
    BY DEF Drops
  <2> QED
    BY <2>1, LineNumbers
<1>4. PICK stage \in {"idle", "pause"} :
        leg' = [at |-> stage, number |-> Nothing] /\ (stage = "pause" => leg.at \in {"cancel", "pause"})
  BY <1>1
<1>5. leg'.at = stage /\ leg'.number = Nothing
      /\ leg' \in Legs
  BY <1>4
<1>6. LegWaits' /\ ToSend' <= ToSend
  BY <1>4, <1>5 DEF LegWaits, ToSend
<1>7. NumbersFit'
  <2>1. ToSend' \in Int
    BY DEF ToSend
  <2> QED
    BY <1>1, <1>2, <1>6, <2>1, LineNumbers DEF NumbersFit
<1>8. /\ last' \in Outcomes
      /\ last'.code = 0 => last'.number \in arrived'
  <2>1. last \in Outcomes /\ leg.number \in Numbers \cup {Nothing}
    BY LineTypes DEF LineInv
  <2>2. CASE last' = [number |-> leg.number, code |-> 1]
    BY <2>1, <2>2
  <2>3. CASE UNCHANGED last
    BY <1>1, <2>1, <2>3 DEF LineInv, LastIsTrue
  <2> QED
    BY <1>1, <2>2, <2>3 DEF SettledAs
<1>9. duty' \in Numbers => duty' = duty
  BY <1>1, NumbersAre
<1>10. Len(<<>>) = 0 /\ \A i \in 1..0 : FALSE
  OBVIOUS
<1>11. Past(confirmed)'
  BY <1>1, <1>9, <1>10, ConfirmedIsPast DEF Past, Ascending
<1>12. duty' \in Numbers \cup {Nothing, OwnTask}
  BY <1>1, LineTypes DEF LineInv
<1>13. /\ waits' \in WaitTable /\ toRobot' \in Seq(Requests) /\ toAdapter' \in Seq(Replies)
       /\ toAdapter' \in Seq(TrueReplies')
  BY <1>1 DEF WaitTable
<1>14. seq' \in Numbers \cup {0} /\ arrived' \subseteq Numbers /\ confirmed' \in Numbers \cup {0}
  BY <1>1, LineTypes DEF LineInv
<1>15. LineTypeOK'
  BY <1>1, <1>2, <1>3, <1>5, <1>8, <1>12, <1>13, <1>14
     DEF WaitTable, Requests, Replies, RequestTypes, LineTypeOK
<1> QED
  BY <1>6, <1>7, <1>8, <1>11, <1>13, <1>15 DEF LineInv, LastIsTrue

LEMMA ServesKeep == ASSUME LineInv, RobotServes PROVE LineInv'
<1>0. /\ toRobot # <<>> /\ toRobot' = Tail(toRobot)
      /\ UNCHANGED <<connected, seq, waits, leg, torn, arrived, last, confirmed, counts>>
  BY DEF RobotServes
<1>1. PICK q, n : q = Head(toRobot) /\ n = q.number
  OBVIOUS
<1>2. toRobot \in Seq(Requests) /\ connected \in BOOLEAN /\ arrived \subseteq Numbers
      /\ duty \in Numbers \cup {Nothing, OwnTask}
  BY LineTypes DEF LineInv
<1>3. Past(confirmed) /\ confirmed \in Nat /\ seq \in Nat /\ confirmed \in 0..seq
  BY ConfirmedIsPast, LineNumbers
<1>4. /\ q \in Requests /\ n \in Numbers /\ n <= seq /\ toRobot' \in Seq(Requests)
      /\ Ascending(toRobot', n, seq)
  BY <1>0, <1>1, <1>2, <1>3, TailAscends DEF Past, Requests
<1>5. ASSUME NEW m \in 0..seq, Ascending(toRobot, m, seq)
      PROVE  m < n /\ Ascending(toRobot', m, seq)
  <2>1. m \in Nat
    OBVIOUS
  <2> QED
    BY <1>0, <1>1, <1>2, <1>3, <1>5, <2>1, TailAscends
<1>6. \/ duty' = duty \/ duty' = Nothing \/ duty' = n
  BY <1>1 DEF RobotServes
<1>7. \A m \in 0..seq : Past(m) => Past(m)'
  BY <1>0, <1>5, <1>6, NumbersAre DEF Past
<1>8. seq' \in Nat /\ TrueReplies \subseteq TrueReplies' /\ Seq(TrueReplies) \subseteq Seq(TrueReplies')
  <2>1. seq' \in Nat /\ seq <= seq' /\ arrived \subseteq arrived'
    BY <1>0, <1>3
  <2> QED
    BY <1>7, <2>1, RepliesStay
<1>9. toAdapter \in Seq(TrueReplies')
  BY <1>8, LineNumbers
<1>10. ASSUME NEW type \in {"poll", "query"}, NEW code \in 0..2
       PROVE  Answer(n, type, code) \in TrueReplies'
  BY <1>4, <1>10 DEF Answer, TrueReplies, Replies, RequestTypes
<1>11. ASSUME NEW code \in 1..2, NEW m \in Numbers
       PROVE  Answer(m, "nav", code) \in TrueReplies'
  BY <1>11 DEF Answer, TrueReplies, Replies, RequestTypes
<1>12. ASSUME NEW a \in TrueReplies' PROVE Append(toAdapter, a) \in Seq(TrueReplies')
  BY <1>9
<1>13. /\ toAdapter' \in Seq(TrueReplies')
       /\ duty' \in Numbers \cup {Nothing, OwnTask}
  <2>1. CASE /\ q.type = "poll" /\ UNCHANGED duty
             /\ toAdapter' = Append(toAdapter, Answer(n, "poll", 0))
    BY <1>2, <1>10, <1>12, <2>1
  <2>2. CASE /\ q.type = "query" /\ UNCHANGED duty
             /\ toAdapter' = Append(toAdapter,
                               Answer(n, "query", IF duty = Nothing THEN 0 ELSE 1))
    BY <1>2, <1>10, <1>12, <2>2
  <2>3. CASE /\ q.type = "cancel" /\ duty' = Nothing
             /\ toAdapter' = toAdapter \o <<Answer(n, "cancel", 0)>> \o Ending
    <3>1. Past(n)'
      BY <1>0, <1>4, <2>3, NumbersAre DEF Past
    <3>2. Answer(n, "cancel", 0) \in TrueReplies'
      BY <1>4, <3>1 DEF Answer, TrueReplies, Replies, RequestTypes
    <3>3. Ending \in Seq(TrueReplies')
      BY <1>11 DEF Ending
    <3> QED
      BY <1>9, <2>3, <3>2, <3>3
  <2>4. CASE /\ q.type = "nav" /\ UNCHANGED duty
             /\ toAdapter' = Append(toAdapter, Answer(n, "nav", 1))
    BY <1>2, <1>4, <1>11, <1>12, <2>4
  <2>5. CASE q.type = "nav" /\ duty' = n /\ UNCHANGED toAdapter
    BY <1>4, <1>9, <2>5
  <2> QED
    BY <1>1, <2>1, <2>2, <2>3, <2>4, <2>5 DEF RobotServes
<1> QED
  BY <1>0, <1>2, <1>4, <1>7, <1>13, LineNumbers, RobotKeepsLine

LEMMA TasksKeep ==
  ASSUME LineInv, TaskEnds \/ OwnTaskBegins \/ OwnTaskEnds \/ Connects
  PROVE  LineInv'
<1>0. /\ toRobot \in Seq(Requests) /\ connected \in BOOLEAN /\ arrived \subseteq Numbers
      /\ duty \in Numbers \cup {Nothing, OwnTask}
  BY LineTypes DEF LineInv
<1>1. /\ UNCHANGED <<seq, waits, leg, toRobot, last, confirmed, torn>>
      /\ duty' \in {duty, Nothing, OwnTask}
  BY DEF TaskEnds, OwnTaskBegins, OwnTaskEnds, Connects, robotSide
<1>2. /\ connected' \in BOOLEAN /\ torn' \in BOOLEAN /\ toRobot' \in Seq(Requests)
      /\ duty' \in Numbers \cup {Nothing, OwnTask}
  BY <1>0, <1>1, LineNumbers DEF TaskEnds, OwnTaskBegins, OwnTaskEnds, Connects
<1>3. \A n \in 0..seq : Past(n) => Past(n)'
  BY <1>1, NumbersAre DEF Past
<1>4. CASE TaskEnds
  <2>1. PICK code \in {0, 1} :
          /\ arrived' = IF code = 0 THEN arrived \cup {duty} ELSE arrived
          /\ toAdapter' = IF connected THEN Append(toAdapter, Answer(duty, "nav", code))
                                       ELSE toAdapter
    BY <1>4 DEF TaskEnds
  <2>2. duty \in Numbers /\ counts' = counts
    BY <1>4 DEF TaskEnds
  <2>3. arrived \subseteq arrived' /\ arrived' \subseteq Numbers
    BY <1>0, <2>1, <2>2
  <2>4. Answer(duty, "nav", code) \in TrueReplies'
    BY <2>1, <2>2 DEF Answer, TrueReplies, Replies, RequestTypes
  <2>5. toAdapter \in Seq(TrueReplies')
    <3>1. seq' \in Nat /\ seq <= seq'
      BY <1>1, LineNumbers
    <3> QED
      BY <1>3, <2>3, <3>1, LineNumbers, RepliesStay
  <2>6. toAdapter' \in Seq(TrueReplies')
    BY <2>1, <2>4, <2>5
  <2> QED
    BY <1>1, <1>2, <1>3, <2>2, <2>3, <2>6, LineNumbers, RobotKeepsLine
<1>5. CASE OwnTaskBegins \/ OwnTaskEnds \/ Connects
  <2>1. UNCHANGED <<toAdapter, arrived>>
    BY <1>5 DEF OwnTaskBegins, OwnTaskEnds, Connects, robotSide
  <2>2. /\ counts' \in Tallies
        /\ counts'.runs = counts.runs /\ counts'.extras = counts.extras
    <3>1. CASE OwnTaskBegins
      BY <3>1, CountedIs DEF OwnTaskBegins
    <3>2. CASE counts' = counts
      BY <3>2, LineNumbers
    <3> QED
      BY <1>5, <3>1, <3>2 DEF OwnTaskEnds, Connects
  <2> QED
    BY <1>0, <1>1, <1>2, <1>3, <2>1, <2>2, LineNumbers, RobotKeepsLine
<1> QED
  BY <1>4, <1>5

LEMMA LineStarts == LineInit => LineInv
<1> SUFFICES ASSUME LineInit PROVE LineInv
  OBVIOUS
<1>1. /\ 0 \in Nat /\ 0 \in 0..MaxRuns /\ 0 \in 0..MaxExtras /\ 0 \in 0..MaxUpsets
      /\ 3 * 0 + 0 = 0
  BY NumbersAre
<1>2. Len(<<>>) = 0 /\ \A i \in 1..0 : FALSE
  OBVIOUS
<1>3. LineTypeOK
  <2>1. /\ connected = FALSE /\ seq = 0 /\ torn = FALSE /\ duty = Nothing /\ arrived = {}
        /\ confirmed = 0 /\ toRobot = <<>> /\ toAdapter = <<>>
    BY DEF LineInit
  <2>2. waits \in WaitTable
    BY DEF LineInit, WaitTable
  <2>3. /\ leg \in Legs
        /\ last \in Outcomes
    BY DEF LineInit
  <2>4. counts \in Tallies
    BY <1>1 DEF LineInit
  <2>5. <<>> \in Seq(Requests) /\ <<>> \in Seq(Replies)
    OBVIOUS
  <2> QED
    BY <2>1, <2>2, <2>3, <2>4, <2>5, LineTypes
<1>4. LegWaits /\ NumbersFit
  BY <1>1 DEF LineInit, LegWaits, NumbersFit, ToSend
<1>5. Past(confirmed)
  BY <1>2, NumbersAre DEF LineInit, Past, Ascending
<1> QED
  BY <1>3, <1>4, <1>5 DEF LineInit, LineInv, LastIsTrue

LEMMA LineSteps == LineInv /\ [LineNext]_lineVars => LineInv'
<1>1. ASSUME LineInv, UNCHANGED lineVars PROVE LineInv'
  <2>1. UNCHANGED <<connected, seq, waits, leg, toRobot, toAdapter, torn, duty, arrived, last,
                    confirmed, counts>>
    BY <1>1 DEF lineVars
  <2>2. LineTypeOK' /\ LegWaits' /\ NumbersFit' /\ LastIsTrue'
    BY <1>1, <2>1 DEF LineInv, LineTypeOK, LegWaits, NumbersFit, ToSend, LastIsTrue
  <2>3. \A n \in 0..seq : Past(n) => Past(n)'
    BY <2>1 DEF Past
  <2>4. seq' \in Nat /\ seq <= seq'
    BY <1>1, <2>1, LineNumbers
  <2>5. toAdapter' \in Seq(TrueReplies')
    BY <1>1, <2>1, <2>3, <2>4, LineNumbers, RepliesStay
  <2> QED
    BY <1>1, <2>1, <2>2, <2>3, <2>5, ConfirmedIsPast DEF LineInv
<1> QED
  BY <1>1, TimeoutKeeps, ReceiveKeeps, RunNavKeeps, PausesKeep, ExtraKeeps, DropsKeep,
     ServesKeep, TasksKeep DEF LineNext

LEMMA LineIsTrue == LineInv => LineTypeOK /\ LineTellsTheTruth
<1> SUFFICES ASSUME LineInv PROVE LineTellsTheTruth
  BY DEF LineInv
<1>1. last.code = 0 => last.number \in arrived
  BY DEF LineInv, LastIsTrue
<1>2. ASSUME duty \in Numbers PROVE duty > confirmed
  <2>1. duty \in Nat /\ confirmed \in Nat /\ confirmed < duty
    BY <1>2, NumbersAre, LineTypes DEF LineInv, Past
  <2> QED
    BY <2>1
<1> QED
  BY <1>1, <1>2 DEF LineTellsTheTruth

\* An order is reported done only if the robot ended that very task well, and a
\* cancel only if no task sent before it goes on, for any number of requests,
\* late, torn or lost answers and lost connections (deeprobotics
\* main.ts:134-256).
THEOREM LinesTellTheTruth == LineSpec => []LineTellsTheTruth
BY LineStarts, LineSteps, LineIsTrue, PTL DEF LineSpec

-----------------------------------------------------------------------------
(* Panels: answers that overtake each other and the selection.             *)

Flight == [at : {"none", "sent", "read"}, value : 0..MaxEdits,
           view : Views \cup {NoView}, newest : BOOLEAN, poll : BOOLEAN]

PanelTypes == PanelTypeOK /\ flights \in [Flights -> Flight]

\* One request at most is the newest, requests are of a view, and those of the
\* panels that take every answer are of the view there is.
RequestsAre ==
  /\ \A f, g \in Flights : flights[f].newest /\ flights[g].newest => f = g
  /\ \A f \in Flights : flights[f].at # "none" =>
       /\ flights[f].view \in Views
       /\ panel \in {"cameras", "rules"} => flights[f].view = view

\* A list that was read or is shown was there, and the newest answer has all
\* that is shown.
AnswersWere ==
  \A f \in Flights : flights[f].at = "read" => flights[f].value <= edits[flights[f].view]
ShownWas == shown.view # NoView => shown.value <= edits[shown.view]
NewestHas ==
  panel \in {"recordings", "connectors", "missions"} =>
    \A f \in Flights :
      flights[f].at = "read" /\ flights[f].newest /\ flights[f].view = shown.view =>
        shown.value <= flights[f].value

\* A save that is under way is within the bound of changes.
SaveFits == saving # NoView => edits[saving] < MaxEdits

ShowsItsView == ~loading /\ ~error => shown.view = view

ListInv ==
  /\ PanelTypes /\ RequestsAre /\ AnswersWere /\ ShownWas /\ NewestHas
  /\ SaveFits /\ ShowsItsView

\* A request is sent: what it is, and what becomes of those before.
LEMMA AskedIs ==
  ASSUME flights \in [Flights -> Flight], NEW v \in Views, NEW poll \in BOOLEAN, Asks(v, poll)
  PROVE  /\ flights' \in [Flights -> Flight]
         /\ \E f \in Flights :
              /\ flights'[f].at = "sent" /\ flights'[f].view = v
              /\ \A g \in Flights \ {f} :
                   /\ ~flights'[g].newest /\ flights'[g].at = flights[g].at
                   /\ flights'[g].view = flights[g].view
                   /\ flights'[g].value = flights[g].value
<1>1. PICK r : r = [at |-> "sent", view |-> v, value |-> 0, newest |-> TRUE, poll |-> poll]
  OBVIOUS
<1>2. r \in Flight /\ r.at = "sent" /\ r.view = v
  BY <1>1, PanelsAssumption DEF Flight
<1>3. PICK O : O = Overtaken(flights)
  OBVIOUS
<1>4. O \in [Flights -> Flight] /\ \A g \in Flights : /\ ~O[g].newest /\ O[g].at = flights[g].at
                                                      /\ O[g].view = flights[g].view
                                                      /\ O[g].value = flights[g].value
  BY <1>3 DEF Overtaken, Flight
<1>5. PICK f \in Flights : flights' = [O EXCEPT ![f] = r]
  BY <1>1, <1>3 DEF Asks, Unused
<1> QED
  BY <1>2, <1>4, <1>5

\* Lists only get longer.
LEMMA ListsRise ==
  ASSUME PanelTypeOK, flights \in [Flights -> Flight], RequestsAre, AnswersWere, ShownWas,
         edits' \in [Views -> 0..MaxEdits], \A w \in Views : edits[w] <= edits'[w]
  PROVE  /\ shown.view # NoView => shown.value <= edits'[shown.view]
         /\ \A f \in Flights : flights[f].at = "read" =>
              flights[f].value <= edits'[flights[f].view]
<1>1. ASSUME NEW w \in Views, NEW n \in 0..MaxEdits, n <= edits[w] PROVE n <= edits'[w]
  <2>1. edits[w] \in Int /\ edits'[w] \in Int /\ edits[w] <= edits'[w] /\ n \in Int
    BY PanelsAssumption DEF PanelTypeOK
  <2> QED
    BY <1>1, <2>1
<1>2. shown.view \in Views \cup {NoView} /\ shown.value \in 0..MaxEdits
  BY DEF PanelTypeOK
<1>3. ASSUME NEW f \in Flights, flights[f].at = "read"
      PROVE  flights[f].value <= edits'[flights[f].view]
  <2>1. flights[f].view \in Views /\ flights[f].value \in 0..MaxEdits
    BY <1>3 DEF RequestsAre, Flight
  <2> QED
    BY <1>1, <1>3, <2>1 DEF AnswersWere
<1> QED
  BY <1>1, <1>2, <1>3 DEF ShownWas

\* A panel asks for what it shows, and the list stays as it is.
LEMMA AskKeeps ==
  ASSUME ListInv, NEW v \in Views, NEW poll \in BOOLEAN, Asks(v, poll),
         view' = v, panel \in {"cameras", "rules"} => v = view,
         UNCHANGED <<panel, shown>>, loading' \in BOOLEAN, error' \in BOOLEAN,
         loading' \/ (loading' = loading /\ error' = error /\ v = view),
         mishaps' \in 0..MaxMishaps,
         edits' \in [Views -> 0..MaxEdits], \A w \in Views : edits[w] <= edits'[w],
         saving' \in Views \cup {NoView}, SaveFits'
  PROVE  ListInv' /\ [NeverOlder]_panelVars
<1> USE DEF ListInv, PanelTypes
<1>1. flights' \in [Flights -> Flight]
  BY AskedIs
<1>2. PICK f \in Flights :
        /\ flights'[f].at = "sent" /\ flights'[f].view = v
        /\ \A g \in Flights \ {f} : /\ ~flights'[g].newest /\ flights'[g].at = flights[g].at
                                    /\ flights'[g].view = flights[g].view
                                    /\ flights'[g].value = flights[g].value
  BY AskedIs
<1>3. PanelTypes'
  BY <1>1 DEF PanelTypeOK, Flight
<1>4. RequestsAre'
  BY <1>2 DEF RequestsAre
<1>5. ShownWas'
  BY ListsRise DEF ShownWas
<1>6. AnswersWere' /\ NewestHas'
  <2>1. \A g \in Flights : flights'[g].at = "read" =>
          /\ g # f /\ ~flights'[g].newest
          /\ flights'[g].view = flights[g].view /\ flights'[g].value = flights[g].value
    BY <1>2
  <2> QED
    BY <1>2, <2>1, ListsRise DEF AnswersWere, NewestHas
<1>7. ShowsItsView'
  BY DEF ShowsItsView
<1>8. shown.value >= shown.value
  BY PanelsAssumption DEF PanelTypeOK
<1> QED
  BY <1>3, <1>4, <1>5, <1>6, <1>7, <1>8 DEF NeverOlder

LEMMA EditsRise ==
  ASSUME PanelTypeOK, NEW v \in Views, edits[v] < MaxEdits,
         edits' = [edits EXCEPT ![v] = @ + 1]
  PROVE  /\ edits' \in [Views -> 0..MaxEdits] /\ \A w \in Views : edits[w] <= edits'[w]
         /\ edits'[v] = edits[v] + 1 /\ \A w \in Views \ {v} : edits'[w] = edits[w]
BY PanelsAssumption DEF PanelTypeOK

\* Requests stay as they are, or one of them ends or is answered.
LEMMA ListsKeep ==
  ASSUME ListInv, UNCHANGED <<panel, view, shown>>,
         loading' \in BOOLEAN, error' \in BOOLEAN,
         ~loading' /\ ~error' => ~loading /\ ~error,
         mishaps' \in 0..MaxMishaps,
         edits' \in [Views -> 0..MaxEdits], \A w \in Views : edits[w] <= edits'[w],
         saving' \in Views \cup {NoView}, SaveFits',
         flights' = flights \/ \E f \in Flights : flights' = [flights EXCEPT ![f] = NoFlight]
  PROVE  ListInv' /\ [NeverOlder]_panelVars
<1> USE DEF ListInv, PanelTypes
<1>1. NoFlight \in Flight /\ NoFlight.at = "none" /\ ~NoFlight.newest
  BY PanelsAssumption DEF NoFlight, Flight
<1>2. /\ flights' \in [Flights -> Flight]
      /\ \A f \in Flights : \/ flights'[f] = flights[f]
                            \/ flights'[f].at = "none" /\ ~flights'[f].newest
  BY <1>1
<1>3. PanelTypes'
  BY <1>2 DEF PanelTypeOK, Flight
<1>4. RequestsAre'
  BY <1>2 DEF RequestsAre
<1>5. ShownWas'
  BY ListsRise DEF ShownWas
<1>6. AnswersWere' /\ NewestHas'
  BY <1>2, ListsRise DEF AnswersWere, NewestHas
<1>7. ShowsItsView'
  BY DEF ShowsItsView
<1>8. shown.value >= shown.value
  BY PanelsAssumption DEF PanelTypeOK
<1> QED
  BY <1>3, <1>4, <1>5, <1>6, <1>7, <1>8 DEF NeverOlder

LEMMA EditsStay ==
  ASSUME PanelTypeOK, edits' = edits
  PROVE  edits' \in [Views -> 0..MaxEdits] /\ \A w \in Views : edits[w] <= edits'[w]
BY PanelsAssumption DEF PanelTypeOK

LEMMA MishapFits ==
  ASSUME PanelTypeOK, mishaps < MaxMishaps, mishaps' = mishaps + 1
  PROVE  mishaps' \in 0..MaxMishaps
BY PanelsAssumption DEF PanelTypeOK

LEMMA RequestsKeep ==
  ASSUME ListInv, Tick \/ Refresh \/ \E v \in Views : Select(v)
  PROVE  ListInv' /\ [NeverOlder]_panelVars
<1>0. /\ view \in Views /\ loading \in BOOLEAN /\ error \in BOOLEAN
      /\ mishaps \in 0..MaxMishaps /\ saving \in Views \cup {NoView} /\ SaveFits /\ PanelTypeOK
  BY DEF ListInv, PanelTypes, PanelTypeOK
<1>1. CASE Tick
  <2>1. Asks(view, TRUE) /\ UNCHANGED <<panel, view, loading, error, shown, saving, edits, mishaps>>
    BY <1>1 DEF Tick
  <2>2. SaveFits'
    BY <1>0, <2>1 DEF SaveFits
  <2> QED
    BY <1>0, <2>1, <2>2, AskKeeps, EditsStay
<1>2. CASE Refresh
  <2>1. /\ mishaps < MaxMishaps /\ mishaps' = mishaps + 1 /\ Asks(view, FALSE)
        /\ UNCHANGED <<panel, view, shown, saving, edits>>
        /\ \/ UNCHANGED <<loading, error>>
           \/ loading' = TRUE /\ error' = FALSE
    BY <1>2 DEF Refresh
  <2>2. SaveFits' /\ mishaps' \in 0..MaxMishaps
    BY <1>0, <2>1, MishapFits DEF SaveFits
  <2>3. /\ loading' \in BOOLEAN /\ error' \in BOOLEAN
        /\ loading' \/ (loading' = loading /\ error' = error)
    BY <1>0, <2>1
  <2>4. edits' \in [Views -> 0..MaxEdits] /\ \A w \in Views : edits[w] <= edits'[w]
    BY <1>0, <2>1, EditsStay
  <2>5. view \in Views /\ view' = view /\ saving' \in Views \cup {NoView}
        /\ UNCHANGED <<panel, shown>> /\ Asks(view, FALSE)
    BY <1>0, <2>1
  <2> QED
    BY <2>2, <2>3, <2>4, <2>5, AskKeeps
<1>3. ASSUME NEW v \in Views, Select(v) PROVE ListInv' /\ [NeverOlder]_panelVars
  <2>1. /\ panel \in {"recordings", "missions"} /\ view' = v /\ loading' = TRUE
        /\ error' \in BOOLEAN /\ Asks(v, FALSE)
        /\ UNCHANGED <<panel, shown, saving, edits, mishaps>>
    BY <1>0, <1>3 DEF Select
  <2>2. SaveFits'
    BY <1>0, <2>1 DEF SaveFits
  <2>3. edits' \in [Views -> 0..MaxEdits] /\ \A w \in Views : edits[w] <= edits'[w]
    BY <1>0, <2>1, EditsStay
  <2>4. /\ loading' \in BOOLEAN /\ error' \in BOOLEAN /\ mishaps' \in 0..MaxMishaps
        /\ loading' \/ (loading' = loading /\ error' = error /\ v = view)
        /\ saving' \in Views \cup {NoView} /\ UNCHANGED <<panel, shown>>
        /\ (panel \in {"cameras", "rules"} => v = view)
    BY <1>0, <2>1
  <2> QED
    BY <2>1, <2>2, <2>3, <2>4, AskKeeps
<1> QED
  BY <1>1, <1>2, <1>3

LEMMA SavesKeep ==
  ASSUME ListInv, Save \/ Saved \/ \E v \in Views : Changes(v)
  PROVE  ListInv' /\ [NeverOlder]_panelVars
<1>0. /\ view \in Views /\ loading \in BOOLEAN /\ error \in BOOLEAN
      /\ mishaps \in 0..MaxMishaps /\ saving \in Views \cup {NoView} /\ SaveFits /\ PanelTypeOK
  BY DEF ListInv, PanelTypes, PanelTypeOK
<1>1. CASE Save
  <2>1. /\ edits[view] < MaxEdits /\ saving' = view
        /\ UNCHANGED <<panel, view, flights, loading, error, shown, edits, mishaps>>
    BY <1>1 DEF Save
  <2>2. SaveFits'
    BY <2>1 DEF SaveFits
  <2> QED
    BY <1>0, <2>1, <2>2, ListsKeep, EditsStay
<1>2. CASE Saved
  <2>1. /\ saving # NoView /\ saving' = NoView /\ edits' = [edits EXCEPT ![saving] = @ + 1]
        /\ IF saving = view THEN Asks(view, FALSE) ELSE flights' = flights
        /\ UNCHANGED <<panel, view, loading, error, shown, mishaps>>
    BY <1>2 DEF Saved
  <2>2. saving \in Views /\ edits[saving] < MaxEdits
    BY <1>0, <2>1 DEF SaveFits
  <2>3. edits' \in [Views -> 0..MaxEdits] /\ \A w \in Views : edits[w] <= edits'[w]
    BY <1>0, <2>1, <2>2, EditsRise
  <2>4. SaveFits'
    BY <2>1 DEF SaveFits
  <2> QED
    BY <1>0, <2>1, <2>3, <2>4, ListsKeep, AskKeeps
<1>3. ASSUME NEW v \in Views, Changes(v) PROVE ListInv' /\ [NeverOlder]_panelVars
  <2>1. /\ edits[v] + (IF saving = v THEN 1 ELSE 0) < MaxEdits
        /\ edits' = [edits EXCEPT ![v] = @ + 1]
        /\ UNCHANGED <<panel, view, flights, loading, error, shown, saving, mishaps>>
    BY <1>3 DEF Changes
  <2>2. edits[v] \in Int /\ MaxEdits \in Int
    BY <1>0, PanelsAssumption DEF PanelTypeOK
  <2>3. edits[v] < MaxEdits /\ (saving = v => edits[v] + 1 < MaxEdits)
    BY <2>1, <2>2
  <2>4. /\ edits' \in [Views -> 0..MaxEdits] /\ \A w \in Views : edits[w] <= edits'[w]
        /\ edits'[v] = edits[v] + 1 /\ \A w \in Views \ {v} : edits'[w] = edits[w]
    BY <1>0, <2>1, <2>3, EditsRise
  <2>5. SaveFits'
    BY <1>0, <2>1, <2>3, <2>4 DEF SaveFits
  <2> QED
    BY <1>0, <2>1, <2>4, <2>5, ListsKeep
<1> QED
  BY <1>1, <1>2, <1>3

LEMMA AnswersKeep ==
  ASSUME ListInv, NEW f \in Flights, Reads(f) \/ Shows(f) \/ Breaks(f)
  PROVE  ListInv' /\ [NeverOlder]_panelVars
<1>0. /\ view \in Views /\ loading \in BOOLEAN /\ error \in BOOLEAN
      /\ mishaps \in 0..MaxMishaps /\ saving \in Views \cup {NoView} /\ SaveFits /\ PanelTypeOK
      /\ flights \in [Flights -> Flight]
  BY DEF ListInv, PanelTypes, PanelTypeOK
<1>1. CASE Reads(f)
  <2>1. /\ flights[f].at = "sent"
        /\ flights' = [flights EXCEPT ![f].at = "read", ![f].value = edits[flights[f].view]]
        /\ UNCHANGED <<panel, view, loading, error, shown, saving, edits, mishaps>>
    BY <1>1 DEF Reads
  <2>2. PICK w \in Views : w = flights[f].view
    BY <2>1 DEF ListInv, RequestsAre
  <2>3. PICK n \in 0..MaxEdits : n = edits[w]
    BY <1>0 DEF PanelTypeOK
  <2>4. flights' = [flights EXCEPT ![f].at = "read", ![f].value = n]
    BY <2>1, <2>2, <2>3
  <2>5. /\ flights' \in [Flights -> Flight]
        /\ flights'[f].at = "read" /\ flights'[f].value = n /\ flights'[f].view = w
        /\ flights'[f].newest = flights[f].newest
        /\ \A g \in Flights \ {f} : flights'[g] = flights[g]
    BY <1>0, <2>2, <2>4 DEF Flight
  <2>6. PanelTypes'
    BY <1>0, <2>1, <2>5 DEF PanelTypes, PanelTypeOK, Flight
  <2>7. RequestsAre'
    BY <2>1, <2>2, <2>5 DEF ListInv, RequestsAre
  <2>8. AnswersWere' /\ ShownWas' /\ NewestHas'
    <3>1. shown.view = w => shown.value <= n
      BY <2>2, <2>3, PanelsAssumption DEF ListInv, ShownWas
    <3>2. n <= edits[w]
      BY <2>3
    <3>3. AnswersWere' /\ ShownWas'
      BY <2>1, <2>3, <2>5, <3>2 DEF ListInv, AnswersWere, ShownWas
    <3>4. NewestHas'
      BY <2>1, <2>5, <3>1 DEF ListInv, NewestHas
    <3> QED
      BY <3>3, <3>4
  <2>9. SaveFits' /\ ShowsItsView'
    BY <2>1 DEF ListInv, SaveFits, ShowsItsView
  <2>10. shown.value >= shown.value
    BY <1>0, PanelsAssumption DEF PanelTypeOK
  <2> QED
    BY <2>1, <2>6, <2>7, <2>8, <2>9, <2>10 DEF ListInv, NeverOlder
<1>2. CASE Breaks(f)
  <2>1. /\ mishaps < MaxMishaps /\ mishaps' = mishaps + 1
        /\ flights' = [flights EXCEPT ![f] = NoFlight]
        /\ \/ loading' = FALSE /\ error' = TRUE
           \/ UNCHANGED <<loading, error>>
        /\ UNCHANGED <<panel, view, shown, saving, edits>>
    BY <1>2 DEF Breaks
  <2>2. SaveFits' /\ mishaps' \in 0..MaxMishaps
    BY <1>0, <2>1, MishapFits DEF SaveFits
  <2>3. edits' \in [Views -> 0..MaxEdits] /\ \A w \in Views : edits[w] <= edits'[w]
    BY <1>0, <2>1, EditsStay
  <2>4. /\ loading' \in BOOLEAN /\ error' \in BOOLEAN
        /\ (~loading' /\ ~error' => ~loading /\ ~error)
    <3>1. CASE loading' = FALSE /\ error' = TRUE
      BY <3>1
    <3>2. CASE loading' = loading /\ error' = error
      BY <1>0, <3>2
    <3> QED
      BY <2>1, <3>1, <3>2
  <2>6. saving' \in Views \cup {NoView} /\ UNCHANGED <<panel, view, shown>>
    BY <1>0, <2>1
  <2>5. flights' = flights \/ \E g \in Flights : flights' = [flights EXCEPT ![g] = NoFlight]
    BY <2>1
  <2> QED
    BY <2>2, <2>3, <2>4, <2>5, <2>6, ListsKeep
<1>3. CASE Shows(f) /\ ~Takes(f)
  <2>1. /\ flights' = [flights EXCEPT ![f] = NoFlight]
        /\ UNCHANGED <<shown, loading, error, panel, view, saving, edits, mishaps>>
    BY <1>3 DEF Shows
  <2>2. SaveFits'
    BY <1>0, <2>1 DEF SaveFits
  <2> QED
    BY <1>0, <2>1, <2>2, ListsKeep, EditsStay
<1>4. CASE Shows(f) /\ Takes(f)
  <2>1. /\ flights[f].at = "read" /\ flights' = [flights EXCEPT ![f] = NoFlight]
        /\ shown' = [view |-> flights[f].view, value |-> flights[f].value]
        /\ loading' = FALSE /\ error' = FALSE
        /\ UNCHANGED <<panel, view, saving, edits, mishaps>>
    BY <1>4 DEF Shows
  <2>2. PICK w \in Views : w = flights[f].view
    BY <2>1 DEF ListInv, RequestsAre
  <2>3. PICK n \in 0..MaxEdits : n = flights[f].value
    BY <1>0 DEF Flight
  <2>4. NoFlight \in Flight /\ NoFlight.at = "none" /\ ~NoFlight.newest
    BY PanelsAssumption DEF NoFlight, Flight
  <2>5. /\ flights' \in [Flights -> Flight] /\ flights'[f].at = "none" /\ ~flights'[f].newest
        /\ \A g \in Flights \ {f} : flights'[g] = flights[g]
    BY <1>0, <2>1, <2>4
  <2>6. shown' = [view |-> w, value |-> n]
    BY <2>1, <2>2, <2>3
  <2>7. PanelTypes'
    <3>1. shown' \in [view : Views \cup {NoView}, value : 0..MaxEdits]
      BY <2>6
    <3>2. flights' \in [Flights -> [at : {"none", "sent", "read"}, value : 0..MaxEdits,
            view : Views \cup {NoView}, newest : BOOLEAN, poll : BOOLEAN]]
      BY <2>5 DEF Flight
    <3>3. /\ panel' \in PanelKinds /\ view' \in Views /\ loading' \in BOOLEAN
          /\ error' \in BOOLEAN /\ saving' \in Views \cup {NoView}
          /\ edits' \in [Views -> 0..MaxEdits] /\ mishaps' \in 0..MaxMishaps
      BY <1>0, <2>1 DEF PanelTypeOK
    <3> QED
      BY <2>5, <3>1, <3>2, <3>3 DEF PanelTypes, PanelTypeOK
  <2>8. RequestsAre'
    BY <2>1, <2>5 DEF ListInv, RequestsAre
  <2>9. ShowsItsView'
    BY <1>4, <2>1, <2>2, <2>6 DEF Takes, ListInv, RequestsAre, ShowsItsView
  <2>10. n <= edits[w]
    BY <2>1, <2>2, <2>3 DEF ListInv, AnswersWere
  <2>11. ShownWas' /\ AnswersWere'
    BY <2>1, <2>5, <2>6, <2>10 DEF ListInv, ShownWas, AnswersWere
  <2>12. NewestHas' /\ NeverOlder
    <3>1. CASE panel \notin {"recordings", "connectors", "missions"}
      BY <2>1, <3>1 DEF NewestHas, NeverOlder
    <3>2. CASE panel \in {"recordings", "connectors", "missions"}
      <4>1. flights[f].newest
        BY <1>4, <3>2 DEF Takes
      <4>2. \A g \in Flights : ~flights'[g].newest
        BY <2>5, <4>1 DEF ListInv, RequestsAre
      <4>3. shown.view = w => shown.value <= n
        BY <2>1, <2>2, <2>3, <3>2, <4>1 DEF ListInv, NewestHas
      <4>4. n \in Int /\ shown.value \in Int
        BY <1>0, PanelsAssumption DEF PanelTypeOK
      <4>5. shown'.view = w /\ shown'.value = n
        BY <2>6
      <4> QED
        BY <4>2, <4>3, <4>4, <4>5 DEF NewestHas, NeverOlder
    <3> QED
      BY <3>1, <3>2
  <2>13. SaveFits'
    BY <1>0, <2>1 DEF SaveFits
  <2> QED
    BY <2>7, <2>8, <2>9, <2>11, <2>12, <2>13 DEF ListInv
<1> QED
  BY <1>1, <1>2, <1>3, <1>4

LEMMA ListsStart == PanelInit => ListInv
<1> SUFFICES ASSUME PanelInit PROVE ListInv
  OBVIOUS
<1>1. 1 \in Flights /\ 0 \in 0..MaxEdits /\ 0 \in 0..MaxMishaps /\ view \in Views
  BY PanelsAssumption DEF PanelInit, PanelBlank, Flights
<1>2. PICK r : r = [at |-> "sent", view |-> view, value |-> 0, newest |-> TRUE, poll |-> TRUE]
  OBVIOUS
<1>3. r \in Flight /\ r.at = "sent" /\ r.view = view /\ NoFlight \in Flight
      /\ NoFlight.at = "none" /\ ~NoFlight.newest
  BY <1>1, <1>2 DEF Flight, NoFlight
<1>4. flights = [f \in Flights |-> IF f = 1 THEN r ELSE NoFlight]
  BY <1>2 DEF PanelInit
<1>5. flights \in [Flights -> Flight]
  BY <1>3, <1>4
<1>6. PanelTypes
  BY <1>1, <1>5 DEF PanelInit, PanelBlank, PanelTypes, PanelTypeOK, Flight
<1>7. RequestsAre /\ AnswersWere
  BY <1>1, <1>3, <1>4 DEF RequestsAre, AnswersWere
<1>8. NewestHas
  BY <1>3, <1>4 DEF NewestHas
<1>9. shown.view = NoView /\ saving = NoView /\ loading = TRUE
  BY DEF PanelInit, PanelBlank
<1>10. ShownWas /\ SaveFits /\ ShowsItsView
  BY <1>9 DEF ShownWas, SaveFits, ShowsItsView
<1> QED
  BY <1>6, <1>7, <1>8, <1>10 DEF ListInv

LEMMA ListStep == ListInv /\ [PanelNext]_panelVars => ListInv' /\ [NeverOlder]_panelVars
<1>1. ASSUME ListInv, UNCHANGED panelVars PROVE ListInv'
  <2>1. UNCHANGED <<panel, view, flights, loading, error, shown, saving, edits, mishaps>>
    BY <1>1 DEF panelVars
  <2> QED
    BY <1>1, <2>1 DEF ListInv, PanelTypes, PanelTypeOK, RequestsAre, AnswersWere, ShownWas,
       NewestHas, SaveFits, ShowsItsView
<1> QED
  BY <1>1, RequestsKeep, SavesKeep, AnswersKeep DEF PanelNext

\* Requests, lists and what is shown keep their types.
THEOREM PanelsTypeCorrect == PanelSpec => []PanelTypeOK
<1>1. ListInv => PanelTypeOK
  BY DEF ListInv, PanelTypes
<1> QED
  BY <1>1, ListsStart, ListStep, PTL DEF PanelSpec

\* A panel that no longer loads shows what is selected, and no list it shows is
\* replaced by an older one, for any number of views, requests, changes and
\* failures (RecordingArchive.tsx:66-73, MissionArchive.tsx:105-134,
\* Integrations.tsx:454-470).
THEOREM PanelsShowTheirView == PanelSpec => PanelsFollow
<1>1. ListInv => (~loading /\ ~error => shown.view = view)
  BY DEF ListInv, ShowsItsView
<1> QED
  BY <1>1, ListsStart, ListStep, PTL DEF PanelSpec, PanelsFollow

-----------------------------------------------------------------------------
(* The parties around the platform together.                               *)

LEMMA OnePartSteps ==
  ASSUME [AdaptersNext]_adapterVars
  PROVE  /\ [Next]_vars /\ [OrderNext]_orderVars /\ [LineNext]_lineVars
         /\ [SpotNext]_spotVars /\ [PanelNext]_panelVars /\ part' = part
         /\ part # "session" => UNCHANGED spotVars
<1>1. CASE UNCHANGED adapterVars
  BY <1>1 DEF adapterVars
<1>2. CASE AdaptersNext
  BY <1>2 DEF AdaptersNext
<1> QED
  BY <1>1, <1>2

\* A session that nobody started, and a panel that nobody opened, are as they
\* were at the start.
BlankInv ==
  /\ SpotTypeOK /\ (part = "session" => SpotInv)
  /\ "missions" \in PanelKinds => ListInv

LEMMA BlankPanel ==
  ASSUME PanelBlank, panel = "missions", "missions" \in PanelKinds,
         flights = [f \in Flights |-> NoFlight]
  PROVE  ListInv
<1>1. 0 \in 0..MaxEdits /\ 0 \in 0..MaxMishaps
  BY PanelsAssumption
<1>2. NoFlight \in Flight /\ NoFlight.at = "none" /\ ~NoFlight.newest
  BY <1>1 DEF Flight, NoFlight
<1>3. PanelTypes
  BY <1>1, <1>2 DEF PanelBlank, PanelTypes, PanelTypeOK, Flight
<1>4. RequestsAre /\ AnswersWere /\ NewestHas
  BY <1>2 DEF RequestsAre, AnswersWere, NewestHas
<1>5. shown.view = NoView /\ saving = NoView /\ loading = TRUE
  BY DEF PanelBlank
<1> QED
  BY <1>3, <1>4, <1>5 DEF ListInv, ShownWas, SaveFits, ShowsItsView

LEMMA BlankStarts == AdaptersInit => BlankInv
<1> SUFFICES ASSUME AdaptersInit PROVE BlankInv
  OBVIOUS
<1>1. ASSUME part = "session" PROVE SpotInv
  BY <1>1, SpotStarts DEF AdaptersInit
<1>2. ASSUME part # "session" PROVE SpotTypeOK
  <2>1. SpotBlank /\ dances = [d \in Dances |-> Idle]
    BY <1>2 DEF AdaptersInit
  <2>2. 0 \in 0..MaxLosses
    BY SpotSessionAssumption
  <2> QED
    BY <2>1, <2>2 DEF SpotBlank, SpotTypeOK, Idle, NoCall, Leases, KeepAlives
<1>3. SpotTypeOK /\ (part = "session" => SpotInv)
  BY <1>1, <1>2 DEF SpotInv
<1>4. ASSUME "missions" \in PanelKinds PROVE ListInv
  BY <1>4, ListsStart, BlankPanel DEF AdaptersInit
<1> QED
  BY <1>3, <1>4 DEF BlankInv

LEMMA BlankSteps == BlankInv /\ [AdaptersNext]_adapterVars => BlankInv'
<1> SUFFICES ASSUME BlankInv, [AdaptersNext]_adapterVars PROVE BlankInv'
  OBVIOUS
<1>1. "missions" \in PanelKinds => ListInv'
  BY OnePartSteps, ListStep DEF BlankInv
<1>2. CASE part = "session"
  <2>1. SpotInv'
    BY <1>2, OnePartSteps, SpotSteps DEF BlankInv
  <2> QED
    BY <1>1, <2>1 DEF BlankInv, SpotInv
<1>3. CASE part # "session"
  <2>1. UNCHANGED spotVars /\ part' = part
    BY <1>3, OnePartSteps
  <2>2. SpotTypeOK'
    BY <2>1 DEF BlankInv, SpotTypeOK, spotVars
  <2> QED
    BY <1>1, <1>3, <2>1, <2>2 DEF BlankInv
<1> QED
  BY <1>2, <1>3

\* In the graph they share, what the adapters of the Spot and of the DeepRobotics
\* say of their robots is true.
THEOREM LinksStayTrue == AdaptersSpec => []LinksAreTrue
<1>1. AdaptersInit => LineInit
  BY DEF AdaptersInit
<1>2. [AdaptersNext]_adapterVars => [LineNext]_lineVars
  BY OnePartSteps
<1>3. BlankInv /\ LineInv => LinksAreTrue
  BY TendedIs, LineIsTrue DEF BlankInv, LinksAreTrue
<1> QED
  BY <1>1, <1>2, <1>3, BlankStarts, BlankSteps, LineStarts, LineSteps, PTL DEF AdaptersSpec

\* Every table, line and list of the parties keeps its type.  (A panel that nobody
\* opened is the mission archive's, which never asks by itself.)
THEOREM AdaptersTypesHold ==
  "missions" \in PanelKinds => (AdaptersSpec => []AdaptersTypeOK)
<1>1. AdaptersInit => Init /\ OrderInit /\ LineInit
  BY DEF AdaptersInit
<1>2. [AdaptersNext]_adapterVars => [Next]_vars /\ [OrderNext]_orderVars /\ [LineNext]_lineVars
  BY OnePartSteps
<1>3. AdaptersSpec => Spec /\ OrderSpec /\ LineSpec /\ []BlankInv
  BY <1>1, <1>2, BlankStarts, BlankSteps, PTL DEF AdaptersSpec, Spec, OrderSpec, LineSpec
<1>4. LineInv => LineTypeOK
  BY DEF LineInv
<1>5. LineSpec => []LineTypeOK
  BY <1>4, LineStarts, LineSteps, PTL DEF LineSpec
<1> SUFFICES ASSUME "missions" \in PanelKinds PROVE AdaptersSpec => []AdaptersTypeOK
  OBVIOUS
<1>6. TypeOK /\ OrderTypeOK /\ LineTypeOK /\ BlankInv => AdaptersTypeOK
  BY DEF BlankInv, ListInv, PanelTypes, AdaptersTypeOK
<1> QED
  BY <1>3, <1>5, <1>6, ConnectorsTypeCorrect, OrderTypeCorrect, PTL
=============================================================================
