------------------------- MODULE ExecutorRunnerProofs -------------------------
(***************************************************************************)
(* Safety of the scenario loop for any number and any kinds of scenarios.  *)
(***************************************************************************)
EXTENDS ExecutorRunner, TLAPS

(* Before the first scenario no process exists.                            *)
LEMMA RunnerInitInv == Init => RunnerInv
BY RunnerAssumption
   DEF Init, RunnerInv, TypeOK, OneResultEach, Phases, OwnSlots, AliveAccounted,
       PortsHeld, StartedInTurn, ClientKnown, Alive, Procs, Pcs

(* A result pushed while all earlier scenarios have theirs.                *)
LEMMA PushOnce ==
    ASSUME TypeOK, OneResultEach, n \in 1..N, Len(results) = n - 1,
           NEW v \in Verdicts, Push(v)
    PROVE  /\ results' \in Seq([scenario : 1..N, verdict : Verdicts])
           /\ Len(results') = n
           /\ \A i \in 1..Len(results') : results'[i].scenario = i
<1> DEFINE r == [scenario |-> n, verdict |-> v]
<1>1. r \in [scenario : 1..N, verdict : Verdicts]
  OBVIOUS
<1>2. results' = Append(results, r) /\ results \in Seq([scenario : 1..N, verdict : Verdicts])
  BY DEF Push, TypeOK
<1>3. results' \in Seq([scenario : 1..N, verdict : Verdicts])
  BY <1>1, <1>2
<1>4. Len(results') = n
  BY <1>2, RunnerAssumption
<1>5. \A i \in 1..Len(results') : results'[i] = IF i = n THEN r ELSE results[i]
  BY <1>2, <1>4
<1>6. \A i \in 1..Len(results') : results'[i].scenario = i
  BY <1>4, <1>5 DEF OneResultEach
<1> QED BY <1>3, <1>4, <1>6

(* stopExecutor: whoever is told to stop and is alive is in killed.        *)
LEMMA StopFacts ==
    ASSUME TypeOK, NEW ps \in SUBSET (Procs \cup {NoProc}), StopExecutors(ps)
    PROVE  /\ killed \subseteq killed' /\ killed' \subseteq Procs /\ timers' \subseteq Procs
           /\ \A p \in ps : p # NoProc /\ Alive(p) => p \in killed'
BY DEF StopExecutors, TypeOK

(* The steps of the runner that do not touch processes or ports.           *)
LEMMA LocalInv ==
    ASSUME RunnerInv, UNCHANGED system,
           RunOwn \/ InitFails \/ Healthy \/ HealthTimesOut \/ SecondHealthy
             \/ Connect \/ Run \/ Disconnect \/ CleanupThrows \/ NextScenario \/ Finish
    PROVE  RunnerInv'
<1> USE RunnerAssumption DEF RunnerInv
<1>a. n \in 1..(N+1) /\ N \in Nat /\ n \in Nat
  BY DEF TypeOK
<1>b. /\ pc \notin {"begin", "done"} \/ n <= N => n \in 1..N
      /\ pc \notin {"disconnect", "stop", "sleep", "thrown"} => Len(results) = n - 1
  BY <1>a DEF Phases, OneResultEach
<1>0. \A p \in Procs : Alive(p)' <=> Alive(p)
  BY DEF Alive, system
<1>1. CASE RunOwn
  <2>1. PICK v \in Verdicts : Push(v)
    BY <1>1 DEF RunOwn, Verdicts
  <2>2. n \in 1..N /\ Len(results) = n - 1 /\ n' = n + 1
    BY <1>1, <1>b DEF RunOwn
  <2>3. TypeOK' /\ OneResultEach'
    <3>1. /\ results' \in Seq([scenario : 1..N, verdict : Verdicts])
          /\ Len(results') = n
          /\ \A i \in 1..Len(results') : results'[i].scenario = i
      BY <2>1, <2>2, PushOnce
    <3>2. n' \in 1..(N + 1) /\ n' - 1 = n /\ pc' = "begin" /\ pc = "begin"
      BY <1>1, <2>2 DEF RunOwn
    <3> QED BY <1>1, <3>1, <3>2 DEF RunOwn, TypeOK, OneResultEach, system
  <2>4. Phases' /\ OwnSlots' /\ ClientKnown'
    BY <1>1, <1>a, <2>2 DEF RunOwn, Phases, OwnSlots, ClientKnown, system
  <2>5. AliveAccounted' /\ PortsHeld'
    BY <1>1, <1>0, <2>2 DEF RunOwn, AliveAccounted, PortsHeld, OwnSlots, system
  <2>6. StartedInTurn'
    BY <1>1, <1>a, <2>2 DEF RunOwn, StartedInTurn, Procs, system
  <2> QED BY <2>3, <2>4, <2>5, <2>6
<1>2. CASE InitFails
  <2>1. Push("EXECUTOR FAILED") /\ "EXECUTOR FAILED" \in Verdicts
    BY <1>2 DEF InitFails, Verdicts
  <2>2. n \in 1..N /\ Len(results) = n - 1
    BY <1>2, <1>b DEF InitFails
  <2>3. TypeOK' /\ OneResultEach'
    BY <1>2, <2>1, <2>2, PushOnce DEF InitFails, TypeOK, OneResultEach, system, Pcs
  <2>4. Phases' /\ OwnSlots' /\ ClientKnown'
    <3>1. pc' = "stop" /\ n' = n /\ slot' = slot /\ n <= N /\ Kind[n] # "own"
      BY <1>2 DEF InitFails
    <3>2. Phases'
      BY <1>a, <3>1 DEF Phases
    <3>3. OwnSlots' /\ ClientKnown'
      BY <3>1 DEF OwnSlots, ClientKnown
    <3> QED BY <3>2, <3>3
  <2>5. AliveAccounted' /\ PortsHeld'
    BY <1>2, <1>0 DEF InitFails, AliveAccounted, PortsHeld, OwnSlots, system
  <2>6. StartedInTurn'
    BY <1>2, <1>a DEF InitFails, StartedInTurn, Procs, system
  <2> QED BY <2>3, <2>4, <2>5, <2>6
<1>3. CASE Healthy
  <2>1. TypeOK' /\ OneResultEach'
    BY <1>3 DEF Healthy, TypeOK, OneResultEach, system, Pcs
  <2>2. Phases' /\ OwnSlots'
    BY <1>3, <1>a DEF Healthy, Phases, OwnSlots
  <2>3. AliveAccounted' /\ PortsHeld'
         /\ StartedInTurn' /\ ClientKnown'
    BY <1>3, <1>0 DEF Healthy, AliveAccounted, PortsHeld, StartedInTurn, ClientKnown, Alive, system
  <2> QED BY <2>1, <2>2, <2>3
<1>4. CASE HealthTimesOut
  <2>1. Push("EXECUTOR FAILED") /\ "EXECUTOR FAILED" \in Verdicts
    BY <1>4 DEF HealthTimesOut, Verdicts
  <2>2. n \in 1..N /\ Len(results) = n - 1
    BY <1>4, <1>b DEF HealthTimesOut
  <2>3. TypeOK' /\ OneResultEach'
    BY <1>4, <2>1, <2>2, PushOnce DEF HealthTimesOut, TypeOK, OneResultEach, system, Pcs
  <2>4. Phases' /\ OwnSlots' /\ AliveAccounted' /\ PortsHeld'
         /\ StartedInTurn' /\ ClientKnown'
    BY <1>4, <1>a, <1>0
       DEF HealthTimesOut, TypeOK, Phases, OwnSlots, AliveAccounted, PortsHeld,
           StartedInTurn, ClientKnown, Alive, system
  <2> QED BY <2>3, <2>4
<1>5. CASE SecondHealthy
  <2>1. TypeOK' /\ OneResultEach'
    BY <1>5 DEF SecondHealthy, TypeOK, OneResultEach, system, Pcs
  <2>2. Phases' /\ OwnSlots' /\ AliveAccounted' /\ PortsHeld'
         /\ StartedInTurn' /\ ClientKnown'
    BY <1>5, <1>a, <1>0
       DEF SecondHealthy, Phases, OwnSlots, AliveAccounted, PortsHeld,
           StartedInTurn, ClientKnown, Alive, system
  <2> QED BY <2>1, <2>2
<1>6. CASE Connect
  <2>0. n \in 1..N /\ pc = "connect" /\ Len(results) = n - 1 /\ n' = n /\ slot' = slot
    BY <1>6, <1>b DEF Connect
  <2>1. CASE port[1] # NoProc /\ client' = port[1] /\ pc' = "run" /\ UNCHANGED results
    <3>1. port[1] \in Procs /\ Alive(port[1]) /\ port[1][2] = 1
      BY <2>1 DEF TypeOK, PortsHeld, Alive
    <3>2. port[1] = <<n, 1>> \/ port[1] \in killed
      <4>1. SUFFICES ASSUME port[1] \notin killed PROVE port[1] = <<n, 1>>
        OBVIOUS
      <4>2. PICK j \in {1, 2} : slot[j] = port[1]
        BY <3>1, <4>1 DEF AliveAccounted
      <4>3. port[1] = <<n, j>>
        BY <4>2, <2>1 DEF OwnSlots
      <4> QED BY <3>1, <4>3
    <3>3. TypeOK' /\ OneResultEach'
      BY <2>0, <2>1, <3>1, <1>6 DEF TypeOK, OneResultEach, system, Pcs
    <3>4. Phases' /\ OwnSlots' /\ AliveAccounted' /\ PortsHeld'
         /\ StartedInTurn' /\ ClientKnown'
      BY <2>0, <2>1, <3>2, <1>0
         DEF Phases, OwnSlots, AliveAccounted, PortsHeld,
           StartedInTurn, ClientKnown, Alive, system
    <3> QED BY <3>3, <3>4
  <2>2. CASE Push("EXECUTOR FAILED") /\ pc' = "stop" /\ UNCHANGED client
    <3>1. "EXECUTOR FAILED" \in Verdicts
      BY DEF Verdicts
    <3>2. TypeOK' /\ OneResultEach'
      BY <2>0, <2>2, <3>1, PushOnce DEF TypeOK, OneResultEach, system, Pcs
    <3>3. Phases' /\ OwnSlots' /\ AliveAccounted' /\ PortsHeld'
         /\ StartedInTurn' /\ ClientKnown'
      BY <2>0, <2>2, <1>0
         DEF Phases, OwnSlots, AliveAccounted, PortsHeld,
           StartedInTurn, ClientKnown, Alive, system
    <3> QED BY <3>2, <3>3
  <2> QED BY <1>6, <2>1, <2>2 DEF Connect
<1>7. CASE Run
  <2>1. PICK v \in Verdicts : Push(v)
    BY <1>7 DEF Run, Verdicts
  <2>2. n \in 1..N /\ Len(results) = n - 1
    BY <1>7, <1>b DEF Run
  <2>3. TypeOK' /\ OneResultEach'
    BY <1>7, <2>1, <2>2, PushOnce DEF Run, TypeOK, OneResultEach, system, Pcs
  <2>4. Phases' /\ OwnSlots' /\ AliveAccounted' /\ PortsHeld'
         /\ StartedInTurn' /\ ClientKnown'
    BY <1>7, <1>a, <1>0
       DEF Run, Phases, OwnSlots, AliveAccounted, PortsHeld,
           StartedInTurn, ClientKnown, Alive, system
  <2> QED BY <2>3, <2>4
<1>8. CASE Disconnect
  <2>1. TypeOK' /\ OneResultEach'
    BY <1>8 DEF Disconnect, TypeOK, OneResultEach, system, Pcs
  <2>2. Phases' /\ OwnSlots' /\ AliveAccounted' /\ PortsHeld'
         /\ StartedInTurn' /\ ClientKnown'
    BY <1>8, <1>a, <1>0
       DEF Disconnect, Phases, OwnSlots, AliveAccounted, PortsHeld,
           StartedInTurn, ClientKnown, Alive, system
  <2> QED BY <2>1, <2>2
<1>9. CASE NextScenario
  <2>1. n \in 1..N
    BY <1>9, <1>a DEF NextScenario, Phases
  <2>2. TypeOK' /\ OneResultEach'
    BY <1>9, <1>a, <2>1 DEF NextScenario, TypeOK, OneResultEach, system, Pcs
  <2>3. Phases' /\ OwnSlots' /\ ClientKnown'
    BY <1>9, <1>a, <2>1 DEF NextScenario, Phases, OwnSlots, ClientKnown, system
  <2>4. AliveAccounted' /\ PortsHeld'
    BY <1>9, <1>0, <2>1 DEF NextScenario, AliveAccounted, PortsHeld, OwnSlots, system
  <2>5. StartedInTurn'
    BY <1>9, <1>a, <2>1 DEF NextScenario, StartedInTurn, Procs, system
  <2> QED BY <2>2, <2>3, <2>4, <2>5
<1>10. CASE Finish
  <2>1. TypeOK' /\ OneResultEach'
    BY <1>10, <1>a DEF Finish, TypeOK, OneResultEach, system, Pcs
  <2>2. Phases' /\ OwnSlots' /\ AliveAccounted' /\ PortsHeld'
         /\ StartedInTurn' /\ ClientKnown'
    BY <1>10, <1>a, <1>0
       DEF Finish, Phases, OwnSlots, AliveAccounted, PortsHeld,
           StartedInTurn, ClientKnown, Alive, system
  <2> QED BY <2>1, <2>2
<1>11. CASE CleanupThrows
  <2>1. TypeOK' /\ OneResultEach'
    BY <1>11, <1>a DEF CleanupThrows, TypeOK, OneResultEach, system, Pcs
  <2>2. Phases' /\ OwnSlots' /\ AliveAccounted' /\ PortsHeld'
         /\ StartedInTurn' /\ ClientKnown'
    BY <1>11, <1>a, <1>0
       DEF CleanupThrows, Phases, OwnSlots, AliveAccounted, PortsHeld,
           StartedInTurn, ClientKnown, Alive, system
  <2> QED BY <2>1, <2>2
<1> QED BY <1>1, <1>2, <1>3, <1>4, <1>5, <1>6, <1>7, <1>8, <1>9, <1>10, <1>11

(* The runner starts processes: the new one is in the runner's variable.   *)
LEMMA SpawnInv ==
    ASSUME RunnerInv, Spawn \/ SpawnSecond
    PROVE  RunnerInv'
<1> USE RunnerAssumption DEF RunnerInv
<1>a. n \in 1..(N+1) /\ N \in Nat /\ n \in Nat
  BY DEF TypeOK
<1>1. CASE Spawn
  <2>0. n \in 1..N /\ <<n, 1>> \in Procs /\ <<n, 1>> # NoProc
    BY <1>1, <1>a DEF Spawn, Procs
  <2>1. TypeOK' /\ OneResultEach'
    BY <1>1, <2>0 DEF Spawn, TypeOK, OneResultEach, Pcs
  <2>2. Phases' /\ OwnSlots' /\ ClientKnown'
    BY <1>1, <1>a, <2>0 DEF Spawn, TypeOK, Phases, OwnSlots, ClientKnown
  <2>3. \A p \in Procs : Alive(p)' <=> (Alive(p) \/ p = <<n, 1>>)
    BY <1>1 DEF Spawn, TypeOK, Alive
  <2>4. slot'[1] = <<n, 1>> /\ pc' = "health" /\ slot[1] = NoProc /\ slot[2] = NoProc
    BY <1>1 DEF Spawn, TypeOK, OwnSlots
  <2>5. AliveAccounted'
    BY <1>1, <2>0, <2>3, <2>4 DEF Spawn, AliveAccounted
  <2>6. PortsHeld'
    BY <1>1, <1>a, <2>0 DEF Spawn, PortsHeld, TypeOK, StartedInTurn
  <2>7. StartedInTurn'
    BY <1>1, <1>a, <2>0 DEF Spawn, StartedInTurn, TypeOK
  <2> QED BY <2>1, <2>2, <2>5, <2>6, <2>7
<1>2. CASE SpawnSecond
  <2>0. n \in 1..N /\ <<n, 2>> \in Procs /\ <<n, 2>> # NoProc /\ slot[2] = NoProc
    BY <1>2, <1>a DEF SpawnSecond, Procs, Phases, OwnSlots
  <2>1. CASE pc' = "connect" /\ UNCHANGED <<slot, proc>>
    <3>1. TypeOK' /\ OneResultEach'
      BY <1>2, <2>1 DEF SpawnSecond, TypeOK, OneResultEach, Pcs
    <3>2. Phases' /\ OwnSlots' /\ ClientKnown'
      BY <1>2, <1>a, <2>0, <2>1 DEF SpawnSecond, Phases, OwnSlots, ClientKnown
    <3>3. AliveAccounted' /\ PortsHeld' /\ StartedInTurn'
      BY <1>2, <2>1 DEF SpawnSecond, AliveAccounted, PortsHeld, StartedInTurn, Alive
    <3> QED BY <3>1, <3>2, <3>3
  <2>2. CASE /\ slot' = [slot EXCEPT ![2] = <<n, 2>>]
             /\ proc' = [proc EXCEPT ![<<n, 2>>] = "booting"]
             /\ pc' = "health2"
    <3>1. TypeOK' /\ OneResultEach'
      BY <1>2, <2>0, <2>2 DEF SpawnSecond, TypeOK, OneResultEach, Pcs
    <3>2. Phases' /\ OwnSlots' /\ ClientKnown'
      BY <1>2, <1>a, <2>0, <2>2 DEF SpawnSecond, TypeOK, Phases, OwnSlots, ClientKnown
    <3>3. \A p \in Procs : Alive(p)' <=> (Alive(p) \/ p = <<n, 2>>)
      BY <2>2 DEF TypeOK, Alive
    <3>4. slot'[1] = slot[1] /\ slot'[2] = <<n, 2>>
      BY <2>2 DEF TypeOK
    <3>5. AliveAccounted'
      BY <1>2, <2>0, <2>2, <3>3, <3>4 DEF SpawnSecond, AliveAccounted
    <3>6. PortsHeld'
      BY <1>2, <1>a, <2>0, <2>2 DEF SpawnSecond, PortsHeld, TypeOK, StartedInTurn
    <3>7. StartedInTurn'
      BY <1>2, <1>a, <2>0, <2>2 DEF SpawnSecond, StartedInTurn, TypeOK
    <3> QED BY <3>1, <3>2, <3>5, <3>6, <3>7
  <2> QED BY <1>2, <2>1, <2>2 DEF SpawnSecond
<1> QED BY <1>1, <1>2

(* The runner stops processes: a variable is cleared only after that.      *)
LEMMA StopInv ==
    ASSUME RunnerInv, SecondTimesOut \/ Stop
    PROVE  RunnerInv'
<1> USE RunnerAssumption DEF RunnerInv
<1>a. n \in 1..(N+1) /\ N \in Nat /\ n \in Nat /\ slot[1] \in Procs \cup {NoProc}
      /\ slot[2] \in Procs \cup {NoProc}
  BY DEF TypeOK
<1>b. \A p \in Procs : p # NoProc
  BY DEF Procs
<1>1. CASE SecondTimesOut
  <2>1. /\ killed \subseteq killed' /\ killed' \subseteq Procs /\ timers' \subseteq Procs
        /\ slot[2] # NoProc /\ Alive(slot[2]) => slot[2] \in killed'
    BY <1>1, <1>a, StopFacts DEF SecondTimesOut
  <2>2. slot'[1] = slot[1] /\ slot'[2] = NoProc
    BY <1>1 DEF SecondTimesOut, TypeOK
  <2>3. TypeOK' /\ OneResultEach'
    BY <1>1, <2>1 DEF SecondTimesOut, TypeOK, OneResultEach, Pcs
  <2>4. Phases' /\ OwnSlots' /\ ClientKnown'
    BY <1>1, <1>a, <2>2 DEF SecondTimesOut, Phases, OwnSlots, ClientKnown
  <2>5. AliveAccounted' /\ PortsHeld' /\ StartedInTurn'
    BY <1>1, <1>b, <2>1, <2>2
       DEF SecondTimesOut, AliveAccounted, PortsHeld, StartedInTurn, Alive
  <2> QED BY <2>3, <2>4, <2>5
<1>2. CASE Stop
  <2>1. /\ killed \subseteq killed' /\ killed' \subseteq Procs /\ timers' \subseteq Procs
        /\ \A j \in {1, 2} : slot[j] # NoProc /\ Alive(slot[j]) => slot[j] \in killed'
    BY <1>2, <1>a, StopFacts DEF Stop
  <2>2. TypeOK' /\ OneResultEach'
    BY <1>2, <2>1 DEF Stop, TypeOK, OneResultEach, Pcs
  <2>3. Phases' /\ OwnSlots' /\ ClientKnown'
    BY <1>2, <1>a DEF Stop, Phases, OwnSlots, ClientKnown
  <2>4. AliveAccounted' /\ PortsHeld' /\ StartedInTurn'
    BY <1>2, <1>b, <2>1 DEF Stop, AliveAccounted, PortsHeld, StartedInTurn, Alive
  <2> QED BY <2>2, <2>3, <2>4
<1> QED BY <1>1, <1>2

(* A process boots, ends, or is escalated; the runner does not move.       *)
LEMMA ProcessInv ==
    ASSUME RunnerInv, NEW p \in Procs, Boot(p) \/ Exit(p) \/ Escalate(p)
    PROVE  RunnerInv'
<1> USE DEF RunnerInv
<1>1. UNCHANGED runner /\ killed' = killed /\ timers' \subseteq timers
  BY DEF Boot, Exit, Escalate
<1>2. proc' \in [Procs -> {"none", "booting", "serving", "dead"}]
      /\ port' \in [{1, 2} -> Procs \cup {NoProc}]
  BY DEF Boot, Exit, Escalate, Die, TypeOK
<1>3. \A q \in Procs : Alive(q)' => Alive(q)
  BY DEF Boot, Exit, Escalate, Die, Alive, TypeOK
<1>4. TypeOK'
  BY <1>1, <1>2 DEF TypeOK, runner
<1>5. OneResultEach' /\ Phases' /\ OwnSlots' /\ ClientKnown'
  BY <1>1 DEF OneResultEach, Phases, OwnSlots, ClientKnown, runner
<1>6. AliveAccounted'
  BY <1>1, <1>3 DEF AliveAccounted, runner
<1>7. StartedInTurn'
  <2>1. \A q \in Procs : proc'[q] # "none" => proc[q] # "none"
    BY RunnerAssumption DEF Boot, Exit, Escalate, Die, Alive, TypeOK
  <2> QED BY <1>1, <2>1 DEF StartedInTurn, runner
<1>8. PortsHeld'
  <2>1. CASE Boot(p)
    <3>1. p[2] \in {1, 2} /\ p # NoProc
      BY RunnerAssumption DEF Procs
    <3>2. \A q \in Procs : q # p => proc'[q] = proc[q]
      BY <2>1 DEF Boot, TypeOK
    <3>3. CASE port[p[2]] = NoProc
      <4>1. proc'[p] = "serving"
        BY <2>1, <3>3 DEF Boot, TypeOK
      <4>2. \A j \in {1, 2} : port'[j] = IF j = p[2] THEN p ELSE port[j]
        BY <2>1, <3>1, <3>3 DEF Boot, TypeOK
      <4> QED BY <3>2, <4>1, <4>2 DEF PortsHeld, TypeOK
    <3>4. CASE port[p[2]] # NoProc
      <4>1. port' = port /\ proc[p] = "booting"
        BY <2>1, <3>4 DEF Boot
      <4>2. \A j \in {1, 2} : port[j] # p
        BY <3>1, <4>1 DEF PortsHeld
      <4> QED BY <3>2, <4>1, <4>2 DEF PortsHeld, TypeOK
    <3> QED BY <3>3, <3>4
  <2>2. CASE Die(p)
    <3>1. \A q \in Procs : q # p => proc'[q] = proc[q]
      BY <2>2 DEF Die, TypeOK
    <3> QED BY <2>2, <3>1 DEF Die, PortsHeld, TypeOK
  <2>3. CASE UNCHANGED <<proc, port>>
    BY <2>3 DEF PortsHeld
  <2> QED BY <2>1, <2>2, <2>3 DEF Exit, Escalate
<1> QED BY <1>4, <1>5, <1>6, <1>7, <1>8

(* The strengthening is inductive: it holds initially and every step of    *)
(* the runner and of the processes keeps it.                               *)
THEOREM RunnerInductive == Spec => []RunnerInv
<1>1. RunnerInv /\ [Next]_vars => RunnerInv'
  <2> SUFFICES ASSUME RunnerInv, [Next]_vars PROVE RunnerInv'
    OBVIOUS
  <2>1. CASE UNCHANGED vars
    BY <2>1 DEF vars, runner, system, RunnerInv, TypeOK, OneResultEach, Phases, OwnSlots,
                AliveAccounted, PortsHeld, StartedInTurn, ClientKnown, Alive
  <2>2. CASE RunnerStep
    <3>1. CASE RunOwn \/ InitFails \/ Healthy \/ HealthTimesOut \/ SecondHealthy
                 \/ Connect \/ Run \/ Disconnect \/ CleanupThrows \/ NextScenario \/ Finish
      <4>1. UNCHANGED system
        BY <3>1 DEF RunOwn, InitFails, Healthy, HealthTimesOut, SecondHealthy,
                    Connect, Run, Disconnect, CleanupThrows, NextScenario, Finish
      <4> QED BY <3>1, <4>1, LocalInv
    <3> QED BY <2>2, <3>1, SpawnInv, StopInv DEF RunnerStep
  <2>3. CASE \E p \in Procs : Boot(p) \/ Exit(p) \/ Escalate(p)
    BY <2>3, ProcessInv
  <2> QED BY <2>1, <2>2, <2>3 DEF Next
<1> QED BY <1>1, RunnerInitInv, PTL DEF Spec

(* Whichever of the nested try blocks of runScenariosForBranch fails, a    *)
(* scenario ends with exactly one result, in order.                        *)
THEOREM RunnerOneResultEach == Spec => []OneResultEach
<1>1. RunnerInv => OneResultEach
  BY DEF RunnerInv
<1> QED BY <1>1, RunnerInductive, PTL

(* Between scenarios and at either end of the run, whatever executor is    *)
(* still alive was told to stop.                                           *)
THEOREM RunnerNothingLeftRunning == Spec => []NothingLeftRunning
<1>1. RunnerInv => NothingLeftRunning
  <2> SUFFICES ASSUME RunnerInv, pc \in {"begin", "done", "thrown"}, NEW p \in Procs, Alive(p)
               PROVE  p \in killed
    BY DEF NothingLeftRunning
  <2>1. pc # "thrown" => slot[1] = NoProc /\ slot[2] = NoProc
    BY DEF RunnerInv, OwnSlots
  <2> QED BY <2>1, RunnerAssumption DEF RunnerInv, AliveAccounted
<1> QED BY <1>1, RunnerInductive, PTL

(* A scenario that is connected to somebody else's executor is connected   *)
(* to one that stopExecutor had already signalled.                         *)
THEOREM RunnerOnlyLingerersConfuse == Spec => []OnlyLingerersConfuse
<1>1. RunnerInv => OnlyLingerersConfuse
  BY DEF RunnerInv, ClientKnown, OnlyLingerersConfuse
<1> QED BY <1>1, RunnerInductive, PTL
=============================================================================
