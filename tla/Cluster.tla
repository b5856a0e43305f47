------------------------------ MODULE Cluster ------------------------------
(***************************************************************************)
(* The cascade harness (src/cascade.ts): clusters of executors started and *)
(* shut down one after the other, by a driver that may be interrupted, or  *)
(* thrown out of startCluster, and then leaves its executors behind.  The  *)
(* data directories are the same for all clusters; the ports depend on the *)
(* scenario (t3 and t4 share the gossip ports, t6 and t7 all, and so on).  *)
(*                                                                         *)
(* Executors are outside the repository: processes that take any time to   *)
(* bind their two ports, exit when their WebSocket port is taken, may end  *)
(* at any time and hold what they bound until then.  A killed process is   *)
(* gone within the half second the code sleeps.                            *)
(***************************************************************************)
EXTENDS Naturals

CONSTANTS NodeCount,    \* nodes of every cluster
          MaxStarts,    \* how often startCluster is called
          Layouts       \* wsBasePort and gossipBasePort of the scenarios

Kinds == {"ws", "gossip"}

ASSUME ClusterAssumption == NodeCount \in Nat \ {0} /\ MaxStarts \in Nat

Nodes == 1..NodeCount
Executors == (1..MaxStarts) \X Nodes    \* the call that spawned it, its node
None == <<0, 0>>

VARIABLES
    pc,         \* where the driver is
    round,      \* calls of startCluster so far
    layout,     \* the ports of each call
    k,          \* the node a loop is at
    ready,      \* nodes whose health endpoint has answered
    server,     \* the executor the client of a node talks to
    proc,       \* state of the process of an executor
    bound,      \* which of its two ports it holds
    exited,     \* executors with an exitCode; null after a signal
    data,       \* the executor a data directory was set up for
    hidden      \* executors that lived when round began and held none of the
                \* ports it sweeps (history)

driver == <<pc, round, layout, k, ready, server>>
vars == <<driver, proc, bound, exited, data, hidden>>

Own(i) == <<round, i>>
Living(e) == proc[e] \in {"alive", "term", "killed"}
\* Those that hold the port of a kind of node i of the call r.
Holders(r, i, kind) ==
    {e \in Executors :
        e[2] = i /\ kind \in bound[e] /\ layout[e[1]][kind] = layout[r][kind]}

Init ==
    /\ pc = "idle" /\ round = 0 /\ k = 1 /\ ready = {}
    /\ layout \in [1..MaxStarts -> Layouts]
    /\ server = [i \in Nodes |-> None]
    /\ proc = [e \in Executors |-> "unborn"]
    /\ bound = [e \in Executors |-> {}]
    /\ exited = {}
    /\ data = [i \in Nodes |-> None]
    /\ hidden = {}

(***************************************************************************)
(* startCluster.                                                           *)
(***************************************************************************)
Start ==
    /\ pc = "idle" /\ round < MaxStarts
    /\ pc' = "sweep ws" /\ round' = round + 1 /\ k' = 1
    /\ ready' = {} /\ server' = [i \in Nodes |-> None]
    /\ hidden' = {e \in Executors :
                    Living(e) /\ \A kind \in bound[e] :
                                    layout[e[1]][kind] # layout[round'][kind]}
    /\ UNCHANGED <<layout, proc, bound, exited, data>>

\* fuser -k -KILL on a port.
Kill(es) == proc' = [e \in Executors |-> IF e \in es THEN "killed" ELSE proc[e]]

SweepWs ==
    /\ pc = "sweep ws"
    /\ Kill(Holders(round, k, "ws"))
    /\ pc' = "sweep gossip"
    /\ UNCHANGED <<round, layout, k, ready, server, bound, exited, data, hidden>>

\* (mutant) As if only the WebSocket ports were swept.
SweepGossipSpares ==
    /\ pc = "sweep gossip"
    /\ k' = k + 1
    /\ pc' = IF k = NodeCount THEN "pause" ELSE "sweep ws"
    /\ UNCHANGED <<round, layout, ready, server, proc, bound, exited, data, hidden>>

SweepGossip ==
    /\ pc = "sweep gossip"
    /\ Kill(Holders(round, k, "gossip"))
    /\ k' = k + 1
    /\ pc' = IF k = NodeCount THEN "pause" ELSE "sweep ws"
    /\ UNCHANGED <<round, layout, ready, server, bound, exited, data, hidden>>

Slept == \A e \in Executors : proc[e] # "killed"

EndPause ==
    /\ pc = "pause" /\ Slept
    /\ pc' = "spawn" /\ k' = 1
    /\ UNCHANGED <<round, layout, ready, server, proc, bound, exited, data, hidden>>

\* What was in the directory of node i is removed, and e starts in an empty one.
InitDataDir(i, e) == data' = [data EXCEPT ![i] = e]

SpawnNode ==
    /\ pc = "spawn"
    /\ InitDataDir(k, Own(k))
    /\ proc' = [proc EXCEPT ![Own(k)] = "alive"]
    /\ k' = k + 1
    /\ pc' = IF k = NodeCount THEN "health" ELSE "spawn"
    /\ UNCHANGED <<round, layout, ready, server, bound, exited, hidden>>

\* Whoever holds the port answers.
Answer(i) ==
    /\ pc = "health" /\ i \notin ready
    /\ Holders(round, i, "ws") # {}
    /\ ready' = ready \cup {i}
    /\ pc' = IF ready' = Nodes THEN "connect" ELSE "health"
    /\ UNCHANGED <<round, layout, k, server, proc, bound, exited, data, hidden>>

Connect(i) ==
    /\ pc = "connect" /\ server[i] = None
    /\ \E e \in Holders(round, i, "ws") : server' = [server EXCEPT ![i] = e]
    /\ pc' = IF \A j \in Nodes : server'[j] # None THEN "generate" ELSE "connect"
    /\ UNCHANGED <<round, layout, k, ready, proc, bound, exited, data, hidden>>

Generate ==
    /\ pc = "generate"
    /\ pc' = "running"
    /\ UNCHANGED <<round, layout, k, ready, server, proc, bound, exited, data, hidden>>

\* init fails, a node does not get healthy in a minute, refuses the connection
\* or does not generate its agent: nobody stops what has been spawned.
StartThrows ==
    /\ pc \in {"spawn", "health", "connect", "generate"}
    /\ pc' = "idle"
    /\ UNCHANGED <<round, layout, k, ready, server, proc, bound, exited, data, hidden>>

(***************************************************************************)
(* A scenario uses the cluster and shuts it down.                          *)
(***************************************************************************)
\* nodes[i].process.kill("SIGKILL") of f9 and m3-cascade-failover.
KillNode(i) ==
    /\ pc = "running" /\ proc[Own(i)] = "alive"
    /\ proc' = [proc EXCEPT ![Own(i)] = "killed"]
    /\ UNCHANGED <<driver, bound, exited, data, hidden>>

Mine(e) == e[1] = round

Shutdown ==
    /\ pc = "running"
    /\ proc' = [e \in Executors |->
                  IF Mine(e) /\ proc[e] = "alive" THEN "term" ELSE proc[e]]
    /\ pc' = "settle"
    /\ UNCHANGED <<round, layout, k, ready, server, bound, exited, data, hidden>>

\* (mutant) As if `killed` were asked, as stopExecutor does, and not `exitCode`.
EndSettleAsksKilled ==
    /\ pc = "settle"
    /\ pc' = "reap"
    /\ UNCHANGED <<round, layout, k, ready, server, proc, bound, exited, data, hidden>>

\* (mutant) As if the loop had no deadline.
EndSettleWaits ==
    /\ pc = "settle"
    /\ \A e \in Executors : Mine(e) => e \in exited
    /\ pc' = "reap"
    /\ UNCHANGED <<round, layout, k, ready, server, proc, bound, exited, data, hidden>>

\* All have an exitCode, or three seconds are over; who has none is killed.
EndSettle ==
    /\ pc = "settle"
    /\ Kill({e \in Executors : Mine(e) /\ e \notin exited /\ Living(e)})
    /\ pc' = "reap"
    /\ UNCHANGED <<round, layout, k, ready, server, bound, exited, data, hidden>>

EndShutdown ==
    /\ pc = "reap" /\ Slept
    /\ data' = [i \in Nodes |-> None]
    /\ pc' = "idle"
    /\ UNCHANGED <<round, layout, k, ready, server, proc, bound, exited, hidden>>

\* The driver itself is killed, or a scenario never gets to its shutdown.
Interrupted ==
    /\ pc # "idle"
    /\ pc' = "idle"
    /\ UNCHANGED <<round, layout, k, ready, server, proc, bound, exited, data, hidden>>

(***************************************************************************)
(* Executors.                                                              *)
(***************************************************************************)
Bind(e, kind) ==
    /\ proc[e] = "alive" /\ kind \notin bound[e]
    /\ Holders(e[1], e[2], kind) = {}
    /\ bound' = [bound EXCEPT ![e] = @ \cup {kind}]
    /\ UNCHANGED <<driver, proc, exited, data, hidden>>

Gone(e) ==
    /\ proc' = [proc EXCEPT ![e] = "dead"]
    /\ bound' = [bound EXCEPT ![e] = {}]
    /\ UNCHANGED <<driver, data, hidden>>

PortTaken(e) ==
    /\ proc[e] = "alive" /\ "ws" \notin bound[e]
    /\ Holders(e[1], e[2], "ws") # {}
    /\ Gone(e)
    /\ exited' = exited \cup {e}

\* It exits, by itself or told to, or a signal ends it.
Exits(e) ==
    /\ proc[e] \in {"alive", "term"}
    /\ Gone(e)
    /\ exited' = exited \cup {e}

Signalled(e) ==
    /\ proc[e] \in {"term", "killed"}
    /\ Gone(e)
    /\ UNCHANGED exited

Driver ==
    \/ Start \/ SweepWs \/ SweepGossip \/ EndPause \/ SpawnNode
    \/ \E i \in Nodes : Answer(i) \/ Connect(i) \/ KillNode(i)
    \/ Generate \/ StartThrows \/ Shutdown \/ EndSettle \/ EndShutdown \/ Interrupted

Executor(e) ==
    \/ \E kind \in Kinds : Bind(e, kind)
    \/ PortTaken(e) \/ Exits(e) \/ Signalled(e)

Next == Driver \/ \E e \in Executors : Executor(e)

Spec == Init /\ [][Next]_vars

\* shutdown goes on, and a killed process is gone in time.
FairSpec ==
    /\ Spec
    /\ WF_vars(EndSettle) /\ WF_vars(EndShutdown)
    /\ \A e \in Executors : WF_vars(proc[e] = "killed" /\ Signalled(e))

-----------------------------------------------------------------------------
(***************************************************************************)
(* Properties.                                                             *)
(***************************************************************************)
\* The sweep is there so that no client is connected to an executor left over
\* from an earlier cluster (cascade.ts 86-90).  It can miss only those that
\* lived and held none of these ports when it began: one that booted too
\* slowly, made an earlier startCluster throw and binds its port only now.
OnlyLateBindersServe ==
    \A i \in Nodes : server[i] \in {None, Own(i)} \cup hidden

\* A data directory is wiped, by a new cluster or a shutdown, only when the
\* executor it was set up for has ended, unless the sweep could not see it:
\* it had no port yet, or its ports are those of another scenario
\* (cascade.ts 228-234).
WipedUnderNobody ==
    [][\A i \in Nodes :
        data'[i] # data[i] /\ data[i] # None =>
            data[i] \in hidden \/ proc[data[i]] = "dead"]_vars

\* shutdown returns, although exitCode stays null for the nodes that a signal
\* ended (cascade.ts 236-240).
ShutdownEnds == pc = "settle" ~> pc = "idle"

\* What makes these two inductive: while the ports are swept, an executor that
\* the sweep can see and has not killed holds a port still to be swept; after
\* it nothing lives but the hidden ones and the executors of this call.
TypeOK ==
    /\ pc \in {"idle", "sweep ws", "sweep gossip", "pause", "spawn", "health",
               "connect", "generate", "running", "settle", "reap"}
    /\ round \in 0..MaxStarts /\ k \in 1..(NodeCount + 1)
    /\ server \in [Nodes -> Executors \cup {None}]
    /\ data \in [Nodes -> Executors \cup {None}]
    /\ proc \in [Executors -> {"unborn", "alive", "term", "killed", "dead"}]
    /\ bound \in [Executors -> SUBSET Kinds]
    /\ exited \subseteq Executors /\ hidden \subseteq Executors

Sweeping == pc \in {"sweep ws", "sweep gossip"}

StillToSweep(e) ==
    \E kind \in bound[e] :
        /\ layout[e[1]][kind] = layout[round][kind]
        /\ e[2] > k \/ (e[2] = k /\ (kind = "gossip" \/ pc = "sweep ws"))

LifeIsOrdered ==
    \A e \in Executors :
        /\ e[1] > round => proc[e] = "unborn"
        /\ e \in exited => proc[e] = "dead"
        /\ bound[e] # {} => Living(e)
        /\ e[1] = round /\ (Sweeping \/ pc = "pause" \/ (pc = "spawn" /\ e[2] >= k)) =>
              proc[e] = "unborn"
        /\ e[1] = round /\ pc = "reap" => proc[e] \in {"unborn", "killed", "dead"}

SweepSees ==
    \A e \in Executors \ hidden :
        /\ Sweeping /\ proc[e] \in {"alive", "term"} => StillToSweep(e)
        /\ pc = "pause" => proc[e] \notin {"alive", "term"}
        /\ ~Sweeping /\ pc \notin {"idle", "pause"} /\ Living(e) => e[1] = round

DataIsOf ==
    \A i \in Nodes :
        data[i] # None => data[i][2] = i /\ proc[data[i]] # "unborn"

ClusterInv ==
    /\ TypeOK
    /\ pc # "idle" => round > 0
    /\ Sweeping \/ pc = "spawn" => k <= NodeCount
    /\ LifeIsOrdered /\ SweepSees /\ DataIsOf
    /\ OnlyLateBindersServe
=============================================================================
