--------------------------- MODULE ExecutorRunner ---------------------------
(***************************************************************************)
(* runScenariosForBranch of src/main.ts with startExecutor, waitForHealth  *)
(* and stopExecutor of src/executor.ts: one executor process per scenario  *)
(* (two for m1), all on the same two ports, each told to stop by SIGTERM   *)
(* when its scenario is over.  The executor is an operating-system process *)
(* outside the repository: it may boot, crash or react to SIGTERM whenever *)
(* it likes, and it takes a port only while nobody else holds it.          *)
(***************************************************************************)
EXTENDS Naturals, Sequences

CONSTANTS
    N,          \* the number of scenarios selected
    Kind,       \* Kind[i]: "native", "paired" (m1) or "own" (managesOwnEnvironment)
    NoProc      \* a null process variable, a free port, no client

Procs == (1..N) \X {1, 2}       \* <<i, j>>: scenario i's executor on port j

ASSUME RunnerAssumption ==
    /\ N \in Nat
    /\ Kind \in [1..N -> {"native", "paired", "own"}]
    /\ NoProc \notin Procs

VARIABLES
    pc,         \* where the runner stands
    n,          \* the scenario it is on
    slot,       \* slot[1], slot[2]: the variables proc and proc2
    client,     \* the process the scenario's client is connected to
    results,    \* what was pushed on `results`
    proc,       \* proc[p]: the life of process p
    port,       \* port[j]: the process listening on it
    killed,     \* processes with ChildProcess.killed: a signal was delivered
    timers      \* processes whose 5 s escalation timer is armed

runner == <<pc, n, slot, client, results>>
system == <<proc, port, killed, timers>>
vars == <<runner, system>>

Init ==
    /\ pc = "begin"
    /\ n = 1
    /\ slot = [j \in {1, 2} |-> NoProc]
    /\ client = NoProc
    /\ results = <<>>
    /\ proc = [p \in Procs |-> "none"]
    /\ port = [j \in {1, 2} |-> NoProc]
    /\ killed = {}
    /\ timers = {}

Alive(p) == proc[p] \in {"booting", "serving"}
Push(verdict) == results' = Append(results, [scenario |-> n, verdict |-> verdict])

(* stopExecutor on those of ps that are set and not yet killed; `killed`   *)
(* becomes true for a process that was there to receive the signal.        *)
StopExecutors(ps) ==
    LET told == ps \ (killed \cup {NoProc})
    IN  /\ killed' = killed \cup {p \in told : Alive(p)}
        /\ timers' = timers \cup told
-----------------------------------------------------------------------------
(* Mutant: a scenario that crashes is logged but leaves no result.         *)
RunOwnLogsCrash ==
    /\ pc = "begin" /\ n <= N /\ Kind[n] = "own"
    /\ \E verdict \in {"PASS", "FAIL", "CRASHED"} :
          IF verdict = "CRASHED" THEN UNCHANGED results ELSE Push(verdict)
    /\ n' = n + 1
    /\ UNCHANGED <<pc, slot, client, system>>

(* A scenario with its own environment: no executor, no client, no pause.  *)
RunOwn ==
    /\ pc = "begin" /\ n <= N /\ Kind[n] = "own"
    /\ \E verdict \in {"PASS", "FAIL", "CRASHED"} : Push(verdict)
    /\ n' = n + 1
    /\ UNCHANGED <<pc, slot, client, system>>

(* startExecutor: `init` fails and throws, or the process is spawned.      *)
InitFails ==
    /\ pc = "begin" /\ n <= N /\ Kind[n] # "own"
    /\ Push("EXECUTOR FAILED")
    /\ pc' = "stop"
    /\ UNCHANGED <<n, slot, client, system>>

Spawn ==
    /\ pc = "begin" /\ n <= N /\ Kind[n] # "own"
    /\ slot' = [slot EXCEPT ![1] = <<n, 1>>]
    /\ proc' = [proc EXCEPT ![<<n, 1>>] = "booting"]
    /\ pc' = "health"
    /\ UNCHANGED <<n, client, results, port, killed, timers>>

(* waitForHealth asks the port, not the process.                           *)
Healthy ==
    /\ pc = "health"
    /\ port[1] # NoProc
    /\ pc' = IF Kind[n] = "paired" THEN "second" ELSE "connect"
    /\ UNCHANGED <<n, slot, client, results, system>>

(* Mutant: waitForHealth polls on past its deadline.                       *)
HealthPollsForever ==
    /\ pc = "health"
    /\ port[1] = NoProc
    /\ UNCHANGED vars

HealthTimesOut ==
    /\ pc = "health"
    /\ Push("EXECUTOR FAILED")
    /\ pc' = "stop"
    /\ UNCHANGED <<n, slot, client, system>>

(* m1's second executor: a failure is survived, with proc2 null.           *)
SpawnSecond ==
    /\ pc = "second"
    /\ \/ /\ slot' = [slot EXCEPT ![2] = <<n, 2>>]
          /\ proc' = [proc EXCEPT ![<<n, 2>>] = "booting"]
          /\ pc' = "health2"
       \/ pc' = "connect" /\ UNCHANGED <<slot, proc>>
    /\ UNCHANGED <<n, client, results, port, killed, timers>>

SecondHealthy ==
    /\ pc = "health2"
    /\ port[2] # NoProc
    /\ pc' = "connect"
    /\ UNCHANGED <<n, slot, client, results, system>>

(* Mutant: proc2 is set to null without being stopped.                     *)
SecondForgotten ==
    /\ pc = "health2"
    /\ slot' = [slot EXCEPT ![2] = NoProc]
    /\ pc' = "connect"
    /\ UNCHANGED <<n, client, results, system>>

SecondTimesOut ==
    /\ pc = "health2"
    /\ StopExecutors({slot[2]})
    /\ slot' = [slot EXCEPT ![2] = NoProc]
    /\ pc' = "connect"
    /\ UNCHANGED <<n, client, results, proc, port>>

(* The client connects to whatever listens on the port.                    *)
Connect ==
    /\ pc = "connect"
    /\ \/ port[1] # NoProc /\ client' = port[1] /\ pc' = "run" /\ UNCHANGED results
       \/ Push("EXECUTOR FAILED") /\ pc' = "stop" /\ UNCHANGED client
    /\ UNCHANGED <<n, slot, system>>

(* scenario.run returns a verdict or throws; the scenario is over.         *)
Run ==
    /\ pc = "run"
    /\ \E verdict \in {"PASS", "FAIL", "CRASHED"} : Push(verdict)
    /\ pc' = "disconnect"
    /\ UNCHANGED <<n, slot, client, system>>

Disconnect ==
    /\ pc = "disconnect"
    /\ client' = NoProc
    /\ pc' = "stop"
    /\ UNCHANGED <<n, slot, results, system>>

(* Mutant: the executor is stopped only when the scenario got to run.      *)
StopAfterRunOnly ==
    /\ pc = "stop"
    /\ IF results[n].verdict = "EXECUTOR FAILED" THEN UNCHANGED <<killed, timers>>
                                               ELSE StopExecutors({slot[1], slot[2]})
    /\ pc' = "sleep"
    /\ UNCHANGED <<n, slot, client, results, proc, port>>

(* The outer finally block.                                                *)
Stop ==
    /\ pc = "stop"
    /\ StopExecutors({slot[1], slot[2]})
    /\ pc' = "sleep"
    /\ UNCHANGED <<n, slot, client, results, proc, port>>

(* Two seconds later the data directory is removed.  Nothing has waited for *)
(* the executor, which may still write there: rmSync can throw, outside    *)
(* every try, and the exception leaves runScenariosForBranch.              *)
CleanupThrows ==
    /\ pc = "sleep"
    /\ pc' = "thrown"
    /\ UNCHANGED <<n, slot, client, results, system>>

NextScenario ==
    /\ pc = "sleep"
    /\ n' = n + 1
    /\ slot' = [j \in {1, 2} |-> NoProc]
    /\ pc' = "begin"
    /\ UNCHANGED <<client, results, system>>

Finish ==
    /\ pc = "begin" /\ n = N + 1
    /\ pc' = "done"
    /\ UNCHANGED <<n, slot, client, results, system>>
-----------------------------------------------------------------------------
(* The executor binds its port, or finds it taken and gives up.            *)
Boot(p) ==
    /\ proc[p] = "booting"
    /\ IF port[p[2]] = NoProc
       THEN /\ proc' = [proc EXCEPT ![p] = "serving"]
            /\ port' = [port EXCEPT ![p[2]] = p]
       ELSE /\ proc' = [proc EXCEPT ![p] = "dead"]
            /\ UNCHANGED port
    /\ UNCHANGED <<runner, killed, timers>>

Die(p) ==
    /\ proc' = [proc EXCEPT ![p] = "dead"]
    /\ port' = [j \in {1, 2} |-> IF port[j] = p THEN NoProc ELSE port[j]]

(* It crashes, or exits in its own time after SIGTERM.                     *)
Exit(p) ==
    /\ Alive(p)
    /\ Die(p)
    /\ UNCHANGED <<runner, killed, timers>>

(* The escalation of stopExecutor, 5 s later: SIGKILL unless `killed`,     *)
(* which the SIGTERM has already set.                                      *)
Escalate(p) ==
    /\ p \in timers
    /\ timers' = timers \ {p}
    /\ IF p \notin killed /\ Alive(p) THEN Die(p) ELSE UNCHANGED <<proc, port>>
    /\ UNCHANGED <<runner, killed>>

RunnerStep ==
    \/ RunOwn \/ InitFails \/ Spawn \/ Healthy \/ HealthTimesOut
    \/ SpawnSecond \/ SecondHealthy \/ SecondTimesOut
    \/ Connect \/ Run \/ Disconnect \/ Stop \/ CleanupThrows \/ NextScenario \/ Finish

Next ==
    \/ RunnerStep
    \/ \E p \in Procs : Boot(p) \/ Exit(p) \/ Escalate(p)

Spec == Init /\ [][Next]_vars

(* The runner goes on: health checks and RPC have time limits, and a       *)
(* scenario is taken to end.  connect() has no limit: an executor that     *)
(* never completes the handshake holds it.  Nothing is assumed of the      *)
(* executors.                                                              *)
FairSpec == Spec /\ WF_vars(pc # "connect" /\ RunnerStep)
-----------------------------------------------------------------------------
Pcs == {"begin", "health", "second", "health2", "connect", "run", "disconnect",
        "stop", "sleep", "done", "thrown"}
Verdicts == {"PASS", "FAIL", "CRASHED", "EXECUTOR FAILED"}

TypeOK ==
    /\ pc \in Pcs
    /\ n \in 1..(N + 1)
    /\ slot \in [{1, 2} -> Procs \cup {NoProc}]
    /\ client \in Procs \cup {NoProc}
    /\ results \in Seq([scenario : 1..N, verdict : Verdicts])
    /\ proc \in [Procs -> {"none", "booting", "serving", "dead"}]
    /\ port \in [{1, 2} -> Procs \cup {NoProc}]
    /\ killed \subseteq Procs
    /\ timers \subseteq Procs

(* Every scenario gets exactly one result, in order, on every path through *)
(* the nested try blocks: init, health, second executor, connect, run.     *)
OneResultEach ==
    /\ Len(results) = IF pc \in {"disconnect", "stop", "sleep", "thrown"} THEN n ELSE n - 1
    /\ \A i \in 1..Len(results) : results[i].scenario = i

(* Between scenarios, and however the run ends, no executor of an earlier  *)
(* scenario is left that was not told to stop.                             *)
NothingLeftRunning ==
    pc \in {"begin", "done", "thrown"} => \A p \in Procs : Alive(p) => p \in killed

(* If a scenario talks to an executor that is not its own, that executor   *)
(* is one that was told to stop and has not gone yet.                      *)
OnlyLingerersConfuse ==
    pc \in {"run", "disconnect"} /\ client # <<n, 1>> => client \in killed

(* The parts of the strengthening: where the runner can stand, whose       *)
(* processes its variables hold, who may be alive, who holds a port.       *)
Phases ==
    /\ n > N => pc \in {"begin", "done"}
    /\ pc = "done" => n = N + 1
    /\ (n <= N /\ Kind[n] = "own") => pc = "begin"

OwnSlots ==
    /\ \A j \in {1, 2} : slot[j] # NoProc => slot[j] = <<n, j>>
    /\ pc \in {"begin", "done"} => slot[1] = NoProc
    /\ pc \in {"begin", "done", "health", "second"} => slot[2] = NoProc
    /\ pc = "health2" => slot[2] # NoProc

AliveAccounted ==
    \A p \in Procs : Alive(p) =>
        p \in killed \/ (pc \notin {"sleep", "thrown"} /\ \E j \in {1, 2} : slot[j] = p)

PortsHeld ==
    \A j \in {1, 2} : port[j] # NoProc => proc[port[j]] = "serving" /\ port[j][2] = j

StartedInTurn ==
    \A p \in Procs : proc[p] # "none" =>
        /\ p[1] <= n
        /\ p[1] = n => pc # "begin" /\ (p[2] = 2 => pc \notin {"health", "second"})

ClientKnown ==
    pc \in {"run", "disconnect"} => client = <<n, 1>> \/ client \in killed

RunnerInv ==
    /\ TypeOK /\ OneResultEach /\ Phases
    /\ OwnSlots /\ AliveAccounted /\ PortsHeld /\ StartedInTurn
    /\ ClientKnown

(* The run reaches its end with all results, although any executor may     *)
(* hang at boot, crash, or ignore the signal.  Two things alone keep it    *)
(* from that: a data directory that cannot be removed, which ends the run  *)
(* without the results it has, and connect(), which can hold it for ever.  *)
EveryRunEnds ==
    \/ <>(pc = "done" /\ Len(results) = N)
    \/ <>(pc = "thrown")
    \/ <>[](pc = "connect")

(* "Fresh executor for each scenario" (main.ts): while it runs, a scenario *)
(* is connected to the executor that was started for it.                   *)
FreshExecutor ==
    pc = "run" => client = <<n, 1>>
=============================================================================
