--------------------------- MODULE StartupProofs ---------------------------
(***************************************************************************)
(* Proofs about Startup, for any number of API and worker processes, any   *)
(* number of connection attempts and any outages, kills and signals.       *)
(***************************************************************************)
EXTENDS Startup, TLAPS

Phases == {"storage", "database", "redis", "group", "provider", "serving",
           "close_provider", "close_queue", "close_engine", "stopped", "failed"}

\* Only a worker builds a provider and closes it.
PhaseOK == /\ pc \in [Processes -> Phases]
           /\ \A p \in Apis : pc[p] \notin {"provider", "close_provider"}

\* Past ensure_group, which comes third in lifespan and in run_worker.
PastGroup(p) == \/ pc[p] \in {"provider", "serving"}
                \/ p \in Workers /\ pc[p] = "storage"

GroupCreated == \A p \in Processes : PastGroup(p) => group

\* What p holds and has not tried to close, by the close that comes next; only
\* a worker holds a provider.
ClosedBefore(p, q, h, u) == /\ p \in Apis => "provider" \notin h
                            /\ q = "close_queue" => "provider" \notin h \ u
                            /\ q = "close_engine" => h \ u \subseteq {"engine"}
                            /\ q = "stopped" => h \subseteq u

ClosedInOrder == \A p \in Processes : ClosedBefore(p, pc[p], held[p], unclosed[p])

\* The remaining variables of StartupTypeOK.
RestOK ==
    /\ attempt \in [Processes -> 0 .. MaxAttempts]
    /\ stop \in [Processes -> BOOLEAN]
    /\ probe \in [Processes -> {"idle", "up", "down"}]
    /\ answer \in [Processes -> {"none", "ready", "not_ready", "error"}]
    /\ db \in {"up", "down", "starting"} /\ redis \in {"up", "down", "hanging"}
    /\ faults \in 0 .. MaxFaults

StartupInv == PhaseOK /\ StartupTypeOK /\ GroupCreated /\ ClosedInOrder

-----------------------------------------------------------------------------
\* The steps of the startup follow one another as in lifespan and run_worker.
LEMMA AfterSteps ==
    ASSUME NEW p \in Processes
    PROVE  /\ p \in Apis => /\ p \notin Workers
                            /\ DOMAIN After(p) = {"storage", "database", "redis", "group"}
                            /\ After(p)["storage"] = "database"
                            /\ After(p)["database"] = "redis"
                            /\ After(p)["redis"] = "group"
                            /\ After(p)["group"] = "serving"
           /\ p \notin Apis => /\ p \in Workers
                               /\ DOMAIN After(p) = {"database", "redis", "group", "provider", "storage"}
                               /\ After(p)["database"] = "redis"
                               /\ After(p)["redis"] = "group"
                               /\ After(p)["group"] = "provider"
                               /\ After(p)["provider"] = "storage"
                               /\ After(p)["storage"] = "serving"
BY StartupAssumption DEF After, Processes

\* Every process begins with its first step and holds nothing.
LEMMA StartupInitial == StartupInit => StartupInv
<1> SUFFICES ASSUME StartupInit PROVE StartupInv
  OBVIOUS
<1> USE StartupAssumption DEF StartupInit
<1>1. \A p \in Processes : pc[p] = IF p \in Apis THEN "storage" ELSE "database"
  BY DEF First
<1>2. PhaseOK
  BY <1>1 DEF PhaseOK, Phases, Processes, First
<1>3. StartupTypeOK
  <2>1. \A p \in Processes : pc[p] \in DOMAIN After(p)
    BY <1>1, AfterSteps
  <2>2. /\ attempt \in [Processes -> 0 .. MaxAttempts] /\ faults \in 0 .. MaxFaults
        /\ held \in [Processes -> SUBSET {"engine", "queue", "provider"}]
        /\ unclosed \in [Processes -> SUBSET {"engine", "queue", "provider"}]
    OBVIOUS
  <2>3. /\ stop \in [Processes -> BOOLEAN] /\ probe \in [Processes -> {"idle", "up", "down"}]
        /\ answer \in [Processes -> {"none", "ready", "not_ready", "error"}] /\ group \in BOOLEAN
    OBVIOUS
  <2> QED BY <2>1, <2>2, <2>3 DEF StartupTypeOK
<1>4. GroupCreated
  BY <1>1, AfterSteps DEF GroupCreated, PastGroup
<1>5. ClosedInOrder
  BY <1>1 DEF ClosedInOrder, ClosedBefore, Processes
<1> QED BY <1>2, <1>3, <1>4, <1>5 DEF StartupInv

-----------------------------------------------------------------------------
EndPhases == {"serving", "close_provider", "close_queue", "close_engine", "stopped", "failed"}
Things == {"engine", "queue", "provider"}

\* One process moves to its next phase, maybe opening or closing something,
\* maybe creating the group; the others stay where they are.
LEMMA OneMoves ==
    ASSUME StartupInv, NEW p \in Processes, NEW q,
           NEW h \in SUBSET Things, NEW u \in SUBSET Things,
           q \in DOMAIN After(p) \cup EndPhases,
           q = "close_provider" => p \in Workers,
           pc' = [pc EXCEPT ![p] = q],
           held' = [held EXCEPT ![p] = h],
           unclosed' = [unclosed EXCEPT ![p] = u],
           ClosedBefore(p, q, h, u),
           group' \in BOOLEAN, group => group',
           q \in {"provider", "serving"} \/ (p \in Workers /\ q = "storage") => group',
           RestOK'
    PROVE  StartupInv'
<1> USE DEF Things
<1>1. \A r \in Processes : pc'[r] = IF r = p THEN q ELSE pc[r]
  BY DEF StartupInv, PhaseOK
<1>2. \A r \in Processes :
         /\ held'[r] = IF r = p THEN h ELSE held[r]
         /\ unclosed'[r] = IF r = p THEN u ELSE unclosed[r]
  BY DEF StartupInv, StartupTypeOK
<1>3. q \in Phases
  BY AfterSteps DEF EndPhases, Phases
<1>4. PhaseOK'
  <2>1. pc' \in [Processes -> Phases]
    BY <1>3 DEF StartupInv, PhaseOK
  <2>2. p \in Apis => q \notin {"provider", "close_provider"}
    BY AfterSteps DEF EndPhases
  <2> QED BY <1>1, <2>1, <2>2 DEF StartupInv, PhaseOK, Processes
<1>5. StartupTypeOK'
  <2>1. \A r \in Processes : pc'[r] \in DOMAIN After(r) \cup EndPhases
    BY <1>1 DEF StartupInv, StartupTypeOK, EndPhases
  <2>2. held' \in [Processes -> SUBSET Things] /\ unclosed' \in [Processes -> SUBSET Things]
    BY DEF StartupInv, StartupTypeOK
  <2> QED BY <2>1, <2>2 DEF StartupTypeOK, RestOK, EndPhases
<1>6. GroupCreated'
  BY <1>1 DEF StartupInv, GroupCreated, PastGroup
<1>7. ClosedInOrder'
  <2> SUFFICES ASSUME NEW r \in Processes PROVE ClosedBefore(r, pc'[r], held'[r], unclosed'[r])
    BY DEF ClosedInOrder
  <2>1. ClosedBefore(r, pc[r], held[r], unclosed[r])
    BY DEF StartupInv, ClosedInOrder
  <2>2. CASE r = p
    BY <1>1, <1>2, <2>2
  <2>3. CASE r # p
    BY <1>1, <1>2, <2>1, <2>3
  <2> QED BY <2>2, <2>3
<1> QED BY <1>4, <1>5, <1>6, <1>7 DEF StartupInv

\* A step that moves no process, opens nothing and leaves the group alone.
LEMMA NoneMoves ==
    ASSUME StartupInv, UNCHANGED <<pc, held, unclosed, group>>, RestOK'
    PROVE  StartupInv'
BY DEF StartupInv, PhaseOK, StartupTypeOK, RestOK, GroupCreated, PastGroup, ClosedInOrder

\* A completed step of the startup: the next one follows, the loop's count of
\* attempts begins anew.
LEMMA OpensKeeps ==
    ASSUME StartupInv, NEW p \in Processes, pc[p] \in DOMAIN After(p),
           NEW things \in SUBSET Things, Opens(p, things),
           "provider" \in things => pc[p] = "provider",
           group' \in BOOLEAN, group => group', pc[p] = "group" => group',
           UNCHANGED Environs
    PROVE  StartupInv'
<1>1. RestOK'
  BY StartupAssumption DEF Opens, StartupInv, StartupTypeOK, RestOK, Environs
<1>2. held[p] \cup things \in SUBSET Things /\ unclosed[p] \in SUBSET Things
  BY DEF StartupInv, StartupTypeOK, Things
<1>3. /\ pc' = [pc EXCEPT ![p] = After(p)[pc[p]]]
      /\ held' = [held EXCEPT ![p] = held[p] \cup things]
      /\ unclosed' = [unclosed EXCEPT ![p] = unclosed[p]]
  BY DEF Opens, StartupInv, StartupTypeOK
<1>4. /\ After(p)[pc[p]] \in DOMAIN After(p) \cup {"serving"}
      /\ After(p)[pc[p]] \in {"provider", "serving"} \/ (p \in Workers /\ After(p)[pc[p]] = "storage")
           => pc[p] = "group" \/ PastGroup(p)
  BY AfterSteps DEF PastGroup
<1>5. PastGroup(p) => group
  BY DEF StartupInv, GroupCreated
<1>6. /\ After(p)[pc[p]] \in DOMAIN After(p) \cup EndPhases
      /\ After(p)[pc[p]] \notin {"close_provider", "close_queue", "close_engine", "stopped"}
  BY <1>4, AfterSteps DEF EndPhases
<1>7. ClosedBefore(p, After(p)[pc[p]], held[p] \cup things, unclosed[p])
  <2>1. p \in Apis => "provider" \notin held[p] /\ pc[p] # "provider"
    BY DEF StartupInv, PhaseOK, ClosedInOrder, ClosedBefore
  <2> QED BY <1>6, <2>1 DEF ClosedBefore
<1> QED BY <1>1, <1>2, <1>3, <1>4, <1>5, <1>6, <1>7, OneMoves

\* An exception ends the process wherever it is.
LEMMA ExitKeeps ==
    ASSUME StartupInv, NEW p \in Processes, Exit(p), UNCHANGED <<Environs, group>>
    PROVE  StartupInv'
<1>1. RestOK'
  BY DEF Exit, StartupInv, StartupTypeOK, RestOK, Environs
<1>2. /\ pc' = [pc EXCEPT ![p] = "failed"]
      /\ held' = [held EXCEPT ![p] = held[p]] /\ held[p] \in SUBSET Things
      /\ unclosed' = [unclosed EXCEPT ![p] = unclosed[p]] /\ unclosed[p] \in SUBSET Things
      /\ group' \in BOOLEAN /\ group' = group
  BY DEF Exit, StartupInv, StartupTypeOK, Things
<1>3. "failed" \in DOMAIN After(p) \cup EndPhases /\ (group => group')
  BY <1>2 DEF EndPhases
<1>4. ClosedBefore(p, "failed", held[p], unclosed[p])
  BY DEF StartupInv, ClosedInOrder, ClosedBefore
<1> QED BY <1>1, <1>2, <1>3, <1>4, OneMoves

\* A refused connection is counted, up to the configured number of attempts.
LEMMA PauseKeeps ==
    ASSUME StartupInv, NEW p \in Processes, Pause(p), attempt[p] < MaxAttempts,
           UNCHANGED <<Environs, group>>
    PROVE  StartupInv'
<1>1. RestOK'
  BY StartupAssumption DEF Pause, StartupInv, StartupTypeOK, RestOK, Environs
<1> QED BY <1>1, NoneMoves DEF Pause

\* The steps of the startup.
LEMMA StartingKeeps ==
    ASSUME StartupInv, NEW p \in Processes,
           \/ get_file_storage(p) \/ wait_for_database(p) \/ connect(p)
           \/ ensure_group(p) \/ build_provider(p)
    PROVE  StartupInv'
<1>1. /\ pc[p] \in DOMAIN After(p) \cup EndPhases /\ group \in BOOLEAN
      /\ attempt[p] \in Nat /\ attempt[p] <= MaxAttempts /\ MaxAttempts \in Nat
      /\ db \in {"up", "down", "starting"} /\ redis \in {"up", "down", "hanging"}
  BY StartupAssumption DEF StartupInv, StartupTypeOK, EndPhases
<1>2. {} \in SUBSET Things /\ \A t \in Things : {t} \in SUBSET Things
  OBVIOUS
<1>3. CASE get_file_storage(p)
  <2>1. pc[p] \in DOMAIN After(p) /\ pc[p] # "group" /\ UNCHANGED <<Environs, group>>
    BY <1>1, <1>3 DEF get_file_storage, EndPhases
  <2>2. Exit(p) \/ Opens(p, {})
    BY <1>3 DEF get_file_storage
  <2> QED BY <1>1, <1>2, <2>1, <2>2, ExitKeeps, OpensKeeps
<1>4. CASE wait_for_database(p)
  <2>1. pc[p] \in DOMAIN After(p) /\ pc[p] # "group" /\ UNCHANGED <<Environs, group>>
    BY <1>1, <1>4 DEF wait_for_database, EndPhases
  <2>2. Exit(p) \/ Opens(p, {"engine"}) \/ (Pause(p) /\ attempt[p] < MaxAttempts)
    <3>1. CASE attempt[p] = MaxAttempts
      BY <1>1, <1>4, <3>1 DEF wait_for_database, Exit
    <3>2. CASE attempt[p] < MaxAttempts /\ db = "up"
      BY <1>1, <1>4, <3>2 DEF wait_for_database, Opens
    <3>3. CASE attempt[p] < MaxAttempts /\ db = "down"
      BY <1>1, <1>4, <3>3 DEF wait_for_database, Pause
    <3>4. CASE attempt[p] < MaxAttempts /\ db = "starting"
      BY <1>1, <1>4, <3>4 DEF wait_for_database, Pause, Exit
    <3> QED BY <1>1, <3>1, <3>2, <3>3, <3>4
  <2> QED BY <1>1, <1>2, <2>1, <2>2, ExitKeeps, OpensKeeps, PauseKeeps DEF Things
<1>5. CASE connect(p)
  <2>1. pc[p] \in DOMAIN After(p) /\ pc[p] # "group" /\ UNCHANGED <<Environs, group>>
    BY <1>1, <1>5 DEF connect, EndPhases
  <2>2. Exit(p) \/ Opens(p, {"queue"}) \/ (Pause(p) /\ attempt[p] < MaxAttempts)
    <3>1. CASE attempt[p] = MaxAttempts
      BY <1>1, <1>5, <3>1 DEF connect, Exit
    <3>2. CASE attempt[p] < MaxAttempts /\ redis = "up"
      BY <1>1, <1>5, <3>2 DEF connect, Opens
    <3>3. CASE attempt[p] < MaxAttempts /\ redis = "down"
      BY <1>1, <1>5, <3>3 DEF connect, Pause
    <3>4. CASE attempt[p] < MaxAttempts /\ redis = "hanging"
      BY <1>1, <1>5, <3>4 DEF connect, Exit
    <3> QED BY <1>1, <3>1, <3>2, <3>3, <3>4
  <2> QED BY <1>1, <1>2, <2>1, <2>2, ExitKeeps, OpensKeeps, PauseKeeps DEF Things
<1>6. CASE ensure_group(p)
  <2>1. pc[p] \in DOMAIN After(p) /\ UNCHANGED Environs
    BY <1>1, <1>6 DEF ensure_group, EndPhases
  <2>2. (Exit(p) /\ UNCHANGED group) \/ (Opens(p, {}) /\ group' = TRUE)
    BY <1>6 DEF ensure_group
  <2> QED BY <1>1, <1>2, <2>1, <2>2, ExitKeeps, OpensKeeps
<1>7. CASE build_provider(p)
  <2>1. pc[p] \in DOMAIN After(p) /\ pc[p] = "provider" /\ UNCHANGED <<Environs, group>>
    BY <1>1, <1>7 DEF build_provider, EndPhases
  <2>2. Exit(p) \/ Opens(p, {"provider"})
    BY <1>7 DEF build_provider
  <2> QED BY <1>1, <1>2, <2>1, <2>2, ExitKeeps, OpensKeeps DEF Things
<1> QED BY <1>3, <1>4, <1>5, <1>6, <1>7

\* One close is over, with or without success, and the next is due.
LEMMA ClosesOne ==
    ASSUME StartupInv, NEW p \in Processes,
           NEW thing \in Things, NEW next \in {"close_queue", "close_engine", "stopped"},
           NEW q \in {next, "failed"},
           \/ q = next /\ Closed(p, thing, q)
           \/ StaysOpen(p, thing, q),
           \/ pc[p] = "close_provider" /\ thing = "provider" /\ next = "close_queue"
           \/ pc[p] = "close_queue" /\ thing = "queue" /\ next = "close_engine"
           \/ pc[p] = "close_engine" /\ thing = "engine" /\ next = "stopped",
           RestOK', UNCHANGED group
    PROVE  StartupInv'
<1>1. /\ held[p] \in SUBSET Things /\ held = [held EXCEPT ![p] = held[p]]
      /\ unclosed[p] \in SUBSET Things /\ unclosed = [unclosed EXCEPT ![p] = unclosed[p]]
      /\ group \in BOOLEAN
  BY DEF StartupInv, StartupTypeOK, Things
<1>2. ClosedBefore(p, pc[p], held[p], unclosed[p])
  BY DEF StartupInv, ClosedInOrder
<1>3. q \in EndPhases /\ q \notin {"close_provider", "serving", "provider", "storage"}
  BY DEF EndPhases
<1>4. CASE q = next /\ Closed(p, thing, q)
  <2>1. ClosedBefore(p, q, held[p] \ {thing}, unclosed[p])
    BY <1>1, <1>2, <1>4 DEF ClosedBefore, Things
  <2>2. /\ pc' = [pc EXCEPT ![p] = q]
        /\ held' = [held EXCEPT ![p] = held[p] \ {thing}]
        /\ unclosed' = [unclosed EXCEPT ![p] = unclosed[p]]
        /\ held[p] \ {thing} \in SUBSET Things
    BY <1>1, <1>4 DEF Closed
  <2> QED BY <1>1, <1>3, <2>1, <2>2, OneMoves
<1>5. CASE StaysOpen(p, thing, q)
  <2>1. ClosedBefore(p, q, held[p], unclosed[p] \cup {thing})
    BY <1>1, <1>2, <1>5 DEF ClosedBefore, Things
  <2>2. /\ pc' = [pc EXCEPT ![p] = q]
        /\ held' = [held EXCEPT ![p] = held[p]]
        /\ unclosed' = [unclosed EXCEPT ![p] = unclosed[p] \cup {thing}]
        /\ unclosed[p] \cup {thing} \in SUBSET Things
    BY <1>1, <1>5 DEF StaysOpen
  <2> QED BY <1>1, <1>3, <2>1, <2>2, OneMoves
<1> QED BY <1>4, <1>5

\* The steps of the shutdown.
LEMMA ClosingKeeps ==
    ASSUME StartupInv, NEW p \in Processes, stop_serving(p) \/ close(p)
    PROVE  StartupInv'
<1>1. CASE stop_serving(p)
  <2>1. RestOK'
    BY <1>1 DEF stop_serving, StartupInv, StartupTypeOK, RestOK, Environs
  <2>2. PICK q \in {"close_provider", "close_queue"} :
          /\ pc' = [pc EXCEPT ![p] = q]
          /\ q = IF p \in Workers THEN "close_provider" ELSE "close_queue"
    BY <1>1 DEF stop_serving
  <2>3. /\ group \in BOOLEAN /\ group' = group
        /\ held[p] \in SUBSET Things /\ held' = [held EXCEPT ![p] = held[p]]
        /\ unclosed[p] \in SUBSET Things /\ unclosed' = [unclosed EXCEPT ![p] = unclosed[p]]
    BY <1>1 DEF stop_serving, StartupInv, StartupTypeOK, Things
  <2>4. ClosedBefore(p, q, held[p], unclosed[p])
    BY <2>2 DEF StartupInv, ClosedInOrder, ClosedBefore, Processes
  <2>5. q \in EndPhases /\ q \notin {"stopped", "serving", "provider", "storage"}
    BY DEF EndPhases
  <2> QED BY <2>1, <2>2, <2>3, <2>4, <2>5, OneMoves
<1>2. CASE close(p)
  <2>1. RestOK' /\ UNCHANGED group
    BY <1>2 DEF close, StartupInv, StartupTypeOK, RestOK, Environs
  <2>2. PICK thing \in Things, next \in {"close_queue", "close_engine", "stopped"},
             q \in {"close_queue", "close_engine", "stopped", "failed"} :
          /\ q \in {next, "failed"}
          /\ \/ q = next /\ Closed(p, thing, q)
             \/ StaysOpen(p, thing, q)
          /\ \/ pc[p] = "close_provider" /\ thing = "provider" /\ next = "close_queue"
             \/ pc[p] = "close_queue" /\ thing = "queue" /\ next = "close_engine"
             \/ pc[p] = "close_engine" /\ thing = "engine" /\ next = "stopped"
    BY <1>2 DEF close, AfterFailure, Things
  <2> QED BY <2>1, <2>2, ClosesOne
<1> QED BY <1>1, <1>2

\* Every step of the processes, the orchestrator and the dependencies keeps
\* the invariant.
LEMMA StartupStep == StartupInv /\ [StartupNext]_startupVars => StartupInv'
<1> SUFFICES ASSUME StartupInv, [StartupNext]_startupVars PROVE StartupInv'
  OBVIOUS
<1>1. ASSUME NEW p \in Processes, Run(p) PROVE StartupInv'
  BY <1>1, StartingKeeps, ClosingKeeps DEF Run
<1>2. ASSUME NEW p \in Processes, Probe(p) PROVE StartupInv'
  <2>1. RestOK'
    BY <1>2 DEF Probe, check_database, ready, StartupInv, StartupTypeOK, RestOK, Environs
  <2> QED BY <1>2, <2>1, NoneMoves DEF Probe, check_database, ready
<1>3. ASSUME NEW p \in Processes, restart(p) PROVE StartupInv'
  <2>1. RestOK'
    BY <1>3, StartupAssumption DEF restart, StartupInv, StartupTypeOK, RestOK, Environs
  <2>2. /\ First(p) \in DOMAIN After(p) \cup EndPhases
        /\ First(p) \notin {"close_provider", "close_queue", "close_engine", "stopped",
                            "provider", "serving"}
        /\ p \in Workers => First(p) # "storage"
    BY AfterSteps DEF First
  <2>3. group \in BOOLEAN /\ {} \in SUBSET Things
    BY DEF StartupInv, StartupTypeOK
  <2>4. ClosedBefore(p, First(p), {}, {})
    BY <2>2 DEF ClosedBefore
  <2> QED BY <1>3, <2>1, <2>2, <2>3, <2>4, OneMoves DEF restart
<1>4. ASSUME NEW p \in Processes, signal(p) PROVE StartupInv'
  <2>1. RestOK'
    BY <1>4, StartupAssumption DEF signal, StartupInv, StartupTypeOK, RestOK
  <2> QED BY <1>4, <2>1, NoneMoves DEF signal
<1>5. ASSUME NEW p \in Processes, kill(p) PROVE StartupInv'
  <2>1. RestOK'
    BY <1>5, StartupAssumption DEF kill, StartupInv, StartupTypeOK, RestOK
  <2>2. /\ group \in BOOLEAN /\ group' = group
        /\ held[p] \in SUBSET Things /\ held' = [held EXCEPT ![p] = held[p]]
        /\ unclosed[p] \in SUBSET Things /\ unclosed' = [unclosed EXCEPT ![p] = unclosed[p]]
    BY <1>5 DEF kill, StartupInv, StartupTypeOK, Things
  <2>3. "failed" \in DOMAIN After(p) \cup EndPhases
    BY DEF EndPhases
  <2>4. ClosedBefore(p, "failed", held[p], unclosed[p])
    BY DEF StartupInv, ClosedInOrder, ClosedBefore
  <2>5. pc' = [pc EXCEPT ![p] = "failed"]
    BY <1>5 DEF kill
  <2> QED BY <2>1, <2>2, <2>3, <2>4, <2>5, OneMoves
<1>6. CASE Outage \/ Recovery
  <2>1. RestOK'
    BY <1>6, StartupAssumption
    DEF Outage, Recovery, processVars, StartupInv, StartupTypeOK, RestOK
  <2> QED BY <1>6, <2>1, NoneMoves DEF Outage, Recovery, processVars
<1>7. CASE UNCHANGED startupVars
  <2>1. RestOK'
    BY <1>7 DEF startupVars, processVars, StartupInv, StartupTypeOK, RestOK
  <2> QED BY <1>7, <2>1, NoneMoves DEF startupVars, processVars
<1> QED BY <1>1, <1>2, <1>3, <1>4, <1>5, <1>6, <1>7 DEF StartupNext

\* The inductive invariant of the processes holds throughout.
THEOREM StartupInvariant == StartupSpec => []StartupInv
<1>1. StartupInit => StartupInv
  BY StartupInitial
<1>2. StartupInv /\ [StartupNext]_startupVars => StartupInv'
  BY StartupStep
<1> QED BY <1>1, <1>2, PTL DEF StartupSpec

-----------------------------------------------------------------------------
\* Every process is in a phase it has, and never exceeds its attempts.
THEOREM StartupTypeCorrect == StartupSpec => []StartupTypeOK
<1>1. StartupInv => StartupTypeOK
  BY DEF StartupInv
<1> QED BY <1>1, StartupInvariant, PTL

\* Whichever process starts first, and however often they are restarted, none
\* serves before ensure_group has succeeded in one of them.
THEOREM GroupExistsFirst == StartupSpec => []GroupBeforeServing
<1>1. StartupInv => GroupBeforeServing
  BY DEF StartupInv, GroupCreated, PastGroup, GroupBeforeServing
<1> QED BY <1>1, StartupInvariant, PTL

\* _shutdown of a worker closes each of the three, whichever of them fails; the
\* API stops only when both of its closes have succeeded.
THEOREM StoppedHasReleased == StartupSpec => []StoppedReleases
<1>1. StartupInv => StoppedReleases
  BY DEF StartupInv, ClosedInOrder, ClosedBefore, StoppedReleases
<1> QED BY <1>1, StartupInvariant, PTL
=============================================================================
