--------------------------- MODULE ClusterProofs ---------------------------
(***************************************************************************)
(* The clusters of the cascade harness, for any number of nodes, of calls  *)
(* of startCluster and of port layouts.                                    *)
(***************************************************************************)
EXTENDS Cluster, TLAPS

(* An executor is the call that spawned it and its node. *)
LEMMA ExecutorFacts ==
    /\ \A e \in Executors : /\ e[1] \in 1..MaxStarts /\ e[2] \in Nodes
                            /\ e = <<e[1], e[2]>>
    /\ \A r \in 1..MaxStarts, i \in Nodes :
          <<r, i>> \in Executors /\ <<r, i>>[1] = r /\ <<r, i>>[2] = i
    /\ None \notin Executors
    /\ \A i \in Nodes : i \in Nat /\ i >= 1 /\ i <= NodeCount
BY DEF Executors, Nodes, None

(* What the types say of an executor and of the loop counter.              *)
LEMMA TypeFacts ==
    ASSUME TypeOK
    PROVE  /\ round \in Nat /\ round <= MaxStarts /\ MaxStarts \in Nat
           /\ k \in Nat /\ k >= 1 /\ k <= NodeCount + 1 /\ NodeCount \in Nat /\ NodeCount >= 1
           /\ \A e \in Executors : bound[e] \subseteq Kinds
           /\ \A i \in Nodes : data[i] \in Executors \cup {None}
<1>1. /\ round \in 0..MaxStarts /\ k \in 1..(NodeCount + 1)
      /\ bound \in [Executors -> SUBSET Kinds]
      /\ data \in [Nodes -> Executors \cup {None}]
  BY DEF TypeOK
<1>2. MaxStarts \in Nat /\ NodeCount \in Nat /\ NodeCount >= 1
  BY ClusterAssumption
<1>3. round \in Nat /\ round <= MaxStarts
  BY <1>1, <1>2
<1>4. k \in Nat /\ k >= 1 /\ k <= NodeCount + 1
  BY <1>1, <1>2
<1> QED BY <1>1, <1>2, <1>3, <1>4

(* Nothing has been started: there is nobody to sweep.                     *)
LEMMA InitInv == Init => ClusterInv
<1> SUFFICES ASSUME Init PROVE ClusterInv
  OBVIOUS
<1>1. TypeOK
  BY ClusterAssumption DEF Init, TypeOK
<1>2. LifeIsOrdered
  BY DEF Init, LifeIsOrdered, Sweeping, Living
<1>3. SweepSees /\ DataIsOf /\ OnlyLateBindersServe
  BY DEF Init, SweepSees, DataIsOf, OnlyLateBindersServe, Sweeping
<1> QED BY <1>1, <1>2, <1>3 DEF Init, ClusterInv, Sweeping

(* A new call hides what lives and holds none of its ports.                *)
LEMMA StartInv ==
    ASSUME ClusterInv, Start
    PROVE  ClusterInv'
<1>1. /\ round \in Nat /\ round' = round + 1 /\ round' \in 0..MaxStarts
      /\ round' > 0 /\ k' \in 1..(NodeCount + 1) /\ k' <= NodeCount
  <2>1. round < MaxStarts /\ round' = round + 1 /\ k' = 1
    BY DEF Start
  <2>2. round \in Nat /\ MaxStarts \in Nat /\ NodeCount \in Nat /\ NodeCount >= 1
    BY TypeFacts DEF ClusterInv
  <2> QED BY <2>1, <2>2
<1>2. TypeOK'
  <2>1. server' \in [Nodes -> Executors \cup {None}]
    BY DEF Start
  <2>2. hidden' \subseteq Executors
    BY DEF Start
  <2> QED BY <1>1, <2>1, <2>2 DEF Start, ClusterInv, TypeOK
<1>3. LifeIsOrdered'
  <2> SUFFICES ASSUME NEW e \in Executors
               PROVE  /\ e[1] > round' => proc[e] = "unborn"
                      /\ e[1] = round' => proc[e] = "unborn"
    BY DEF Start, ClusterInv, LifeIsOrdered, Living, Sweeping
  <2>1. e[1] \in Nat
    BY ExecutorFacts
  <2>2. e[1] > round => proc[e] = "unborn"
    BY DEF ClusterInv, LifeIsOrdered
  <2>3. e[1] >= round' => e[1] > round
    BY <1>1, <2>1
  <2>4. e[1] > round' \/ e[1] = round' => e[1] >= round'
    BY <1>1, <2>1
  <2> QED BY <2>2, <2>3, <2>4
<1>4. SweepSees'
  <2> SUFFICES ASSUME NEW e \in Executors, e \notin hidden', Living(e)
               PROVE  StillToSweep(e)'
    BY DEF Start, SweepSees, Sweeping, Living
  <2>1. PICK kind \in bound[e] : layout[e[1]][kind] = layout[round'][kind]
    BY DEF Start
  <2>2. e[2] > 1 \/ e[2] = 1
    BY ExecutorFacts
  <2> QED BY <2>1, <2>2 DEF Start, StillToSweep
<1>5. DataIsOf' /\ OnlyLateBindersServe'
  BY DEF Start, ClusterInv, DataIsOf, OnlyLateBindersServe
<1> QED BY <1>1, <1>2, <1>3, <1>4, <1>5 DEF ClusterInv

(* fuser kills only executors that live: those that hold a port. *)
LEMMA KillFacts ==
    ASSUME ClusterInv, NEW r, NEW i, NEW kind, Kill(Holders(r, i, kind))
    PROVE  /\ proc' \in [Executors -> {"unborn", "alive", "term", "killed", "dead"}]
           /\ \A e \in Executors :
                 /\ e \in Holders(r, i, kind) => Living(e) /\ proc'[e] = "killed"
                 /\ e \notin Holders(r, i, kind) => proc'[e] = proc[e]
BY DEF Kill, Holders, ClusterInv, TypeOK, LifeIsOrdered

(* The holders of a WebSocket port are killed before the sweep goes on.    *)
LEMMA SweepWsInv ==
    ASSUME ClusterInv, SweepWs
    PROVE  ClusterInv'
<1>1. /\ round \in Nat /\ k \in Nat /\ NodeCount \in Nat
      /\ round > 0 /\ k >= 1 /\ k <= NodeCount
  BY TypeFacts DEF SweepWs, ClusterInv, Sweeping
<1>2. TypeOK'
  <2>1. k' \in 1..(NodeCount + 1)
    <3>1. k' = k
      BY DEF SweepWs
    <3> QED BY <1>1, <3>1
  <2>2. proc' \in [Executors -> {"unborn", "alive", "term", "killed", "dead"}]
    BY KillFacts DEF SweepWs
  <2> QED BY <2>1, <2>2 DEF SweepWs, ClusterInv, TypeOK
<1>3. (pc # "idle" => round > 0)' /\ (Sweeping \/ pc = "spawn" => k <= NodeCount)'
  BY <1>1 DEF SweepWs, Sweeping
<1>4. LifeIsOrdered'
  <2> SUFFICES ASSUME NEW e \in Executors
               PROVE  /\ e[1] > round => proc'[e] = "unborn"
                      /\ e \in exited => proc'[e] = "dead"
                      /\ bound[e] # {} => proc'[e] \in {"alive", "term", "killed"}
                      /\ e[1] = round => proc'[e] = "unborn"
    BY DEF SweepWs, LifeIsOrdered, Living, Sweeping
  <2>1. proc'[e] = proc[e] \/ (Living(e) /\ proc'[e] = "killed")
    BY KillFacts DEF SweepWs
  <2> QED BY <2>1 DEF SweepWs, ClusterInv, LifeIsOrdered, Living, Sweeping
<1>5. SweepSees'
  <2> SUFFICES ASSUME NEW e \in Executors \ hidden, proc'[e] \in {"alive", "term"}
               PROVE  StillToSweep(e)'
    BY DEF SweepWs, SweepSees, Sweeping
  <2>1. e \notin Holders(round, k, "ws") /\ proc[e] \in {"alive", "term"}
    BY KillFacts DEF SweepWs
  <2>2. PICK port \in bound[e] :
            /\ layout[e[1]][port] = layout[round][port]
            /\ e[2] > k \/ (e[2] = k /\ (port = "gossip" \/ pc = "sweep ws"))
    BY <2>1 DEF SweepWs, ClusterInv, SweepSees, Sweeping, StillToSweep
  <2>3. e[2] \in Nat /\ e[2] <= NodeCount /\ port \in {"ws", "gossip"}
    BY ExecutorFacts, TypeFacts DEF ClusterInv, Kinds
  <2>4. e[2] > k \/ (e[2] = k /\ port = "gossip")
    BY <2>1, <2>2, <2>3 DEF SweepWs, Holders
  <2> QED BY <1>1, <2>2, <2>3, <2>4 DEF SweepWs, StillToSweep
<1>6. DataIsOf'
  <2> SUFFICES ASSUME NEW i \in Nodes, data[i] # None
               PROVE  data[i][2] = i /\ proc'[data[i]] # "unborn"
    BY DEF SweepWs, DataIsOf
  <2>1. data[i] \in Executors /\ data[i][2] = i /\ proc[data[i]] # "unborn"
    BY TypeFacts DEF ClusterInv, DataIsOf
  <2> QED BY <2>1, KillFacts DEF SweepWs
<1>7. OnlyLateBindersServe'
  BY DEF SweepWs, ClusterInv, OnlyLateBindersServe, Own
<1> QED BY <1>2, <1>3, <1>4, <1>5, <1>6, <1>7 DEF ClusterInv

(* With the gossip port of the last node swept, nothing visible lives.     *)
LEMMA SweepGossipInv ==
    ASSUME ClusterInv, SweepGossip
    PROVE  ClusterInv'
<1>1. /\ round \in Nat /\ k \in Nat /\ NodeCount \in Nat
      /\ round > 0 /\ k >= 1 /\ k <= NodeCount
  BY TypeFacts DEF SweepGossip, ClusterInv, Sweeping
<1>2. TypeOK'
  <2>1. k' \in 1..(NodeCount + 1)
    <3>1. k' = k + 1
      BY DEF SweepGossip
    <3> QED BY <1>1, <3>1
  <2>2. proc' \in [Executors -> {"unborn", "alive", "term", "killed", "dead"}]
    BY KillFacts DEF SweepGossip
  <2> QED BY <2>1, <2>2 DEF SweepGossip, ClusterInv, TypeOK
<1>3. (pc # "idle" => round > 0)' /\ (Sweeping \/ pc = "spawn" => k <= NodeCount)'
  <2>1. k # NodeCount => k + 1 <= NodeCount
    BY <1>1
  <2> QED BY <1>1, <2>1 DEF SweepGossip, Sweeping
<1>4. LifeIsOrdered'
  <2> SUFFICES ASSUME NEW e \in Executors
               PROVE  /\ e[1] > round => proc'[e] = "unborn"
                      /\ e \in exited => proc'[e] = "dead"
                      /\ bound[e] # {} => proc'[e] \in {"alive", "term", "killed"}
                      /\ e[1] = round => proc'[e] = "unborn"
    BY DEF SweepGossip, LifeIsOrdered, Living, Sweeping
  <2>1. proc'[e] = proc[e] \/ (Living(e) /\ proc'[e] = "killed")
    BY KillFacts DEF SweepGossip
  <2> QED BY <2>1 DEF SweepGossip, ClusterInv, LifeIsOrdered, Living, Sweeping
<1>5. SweepSees'
  <2> SUFFICES ASSUME NEW e \in Executors \ hidden, proc'[e] \in {"alive", "term"}
               PROVE  k # NodeCount /\ StillToSweep(e)'
    BY DEF SweepGossip, SweepSees, Sweeping
  <2>1. e \notin Holders(round, k, "gossip") /\ proc[e] \in {"alive", "term"}
    BY KillFacts DEF SweepGossip
  <2>2. PICK port \in bound[e] :
            /\ layout[e[1]][port] = layout[round][port]
            /\ e[2] > k \/ (e[2] = k /\ (port = "gossip" \/ pc = "sweep ws"))
    BY <2>1 DEF SweepGossip, ClusterInv, SweepSees, Sweeping, StillToSweep
  <2>3. e[2] \in Nat /\ e[2] <= NodeCount /\ port \in {"ws", "gossip"}
    BY ExecutorFacts, TypeFacts DEF ClusterInv, Kinds
  <2>4. e[2] > k
    BY <2>1, <2>2, <2>3 DEF SweepGossip, Holders
  <2>5. k # NodeCount /\ (e[2] > k + 1 \/ e[2] = k + 1)
    BY <1>1, <2>3, <2>4
  <2>6. k' = k + 1 /\ UNCHANGED <<bound, layout, round>> /\ (k # NodeCount => pc' = "sweep ws")
    BY DEF SweepGossip
  <2> QED BY <2>2, <2>5, <2>6 DEF StillToSweep
<1>6. DataIsOf'
  <2> SUFFICES ASSUME NEW i \in Nodes, data[i] # None
               PROVE  data[i][2] = i /\ proc'[data[i]] # "unborn"
    BY DEF SweepGossip, DataIsOf
  <2>1. data[i] \in Executors /\ data[i][2] = i /\ proc[data[i]] # "unborn"
    BY TypeFacts DEF ClusterInv, DataIsOf
  <2> QED BY <2>1, KillFacts DEF SweepGossip
<1>7. OnlyLateBindersServe'
  BY DEF SweepGossip, ClusterInv, OnlyLateBindersServe, Own
<1> QED BY <1>2, <1>3, <1>4, <1>5, <1>6, <1>7 DEF ClusterInv

(* Whoever was killed has gone before the first node is spawned.           *)
LEMMA EndPauseInv ==
    ASSUME ClusterInv, EndPause
    PROVE  ClusterInv'
<1>1. TypeOK'
  BY ClusterAssumption DEF EndPause, Slept, ClusterInv, TypeOK, Sweeping, Nodes
<1>2. (pc # "idle" => round > 0)' /\ (Sweeping \/ pc = "spawn" => k <= NodeCount)'
  BY ClusterAssumption DEF EndPause, Slept, ClusterInv, Sweeping
<1>3. LifeIsOrdered'
  BY DEF EndPause, Slept, ClusterInv, LifeIsOrdered, Sweeping, Living
<1>4. SweepSees'
  BY DEF EndPause, Slept, ClusterInv, LifeIsOrdered, SweepSees, Sweeping, StillToSweep, Living
<1>5. DataIsOf'
  BY DEF EndPause, Slept, ClusterInv, DataIsOf
<1>6. OnlyLateBindersServe'
  BY DEF EndPause, Slept, ClusterInv, OnlyLateBindersServe, Own
<1> QED BY <1>1, <1>2, <1>3, <1>4, <1>5, <1>6 DEF ClusterInv

(* The directory wiped is of an executor that is dead or hidden.           *)
LEMMA SpawnNodeInv ==
    ASSUME ClusterInv, SpawnNode
    PROVE  ClusterInv'
<1>1. TypeOK'
  <2>1. k \in Nodes /\ round \in 1..MaxStarts /\ k' \in 1..(NodeCount + 1)
    BY TypeFacts DEF SpawnNode, InitDataDir, ClusterInv, Nodes
  <2>2. Own(k) \in Executors
    BY <2>1, ExecutorFacts DEF Own
  <2> QED BY <2>1, <2>2 DEF SpawnNode, InitDataDir, ClusterInv, TypeOK
<1>2. (pc # "idle" => round > 0)' /\ (Sweeping \/ pc = "spawn" => k <= NodeCount)'
  BY ClusterAssumption DEF SpawnNode, InitDataDir, Own, ClusterInv, TypeOK, Sweeping
<1>3. LifeIsOrdered'
  BY ExecutorFacts
     DEF SpawnNode, InitDataDir, Own, ClusterInv, TypeOK, LifeIsOrdered, Sweeping, Living
<1>4. SweepSees'
  BY DEF SpawnNode, InitDataDir, Own, ClusterInv, LifeIsOrdered, SweepSees, Sweeping,
         StillToSweep, Living
<1>5. DataIsOf'
  BY ExecutorFacts DEF SpawnNode, InitDataDir, Own, ClusterInv, TypeOK, DataIsOf
<1>6. OnlyLateBindersServe'
  BY DEF SpawnNode, InitDataDir, Own, ClusterInv, OnlyLateBindersServe, Own
<1> QED BY <1>1, <1>2, <1>3, <1>4, <1>5, <1>6 DEF ClusterInv

(* A health check changes who is ready, no process.                        *)
LEMMA AnswerInv ==
    ASSUME ClusterInv, NEW i \in Nodes, Answer(i)
    PROVE  ClusterInv'
<1>1. TypeOK'
  BY DEF Answer, ClusterInv, TypeOK, Sweeping, Nodes
<1>2. (pc # "idle" => round > 0)' /\ (Sweeping \/ pc = "spawn" => k <= NodeCount)'
  BY DEF Answer, ClusterInv, Sweeping
<1>3. LifeIsOrdered'
  BY DEF Answer, ClusterInv, LifeIsOrdered, Sweeping, Living
<1>4. SweepSees'
  BY DEF Answer, ClusterInv, LifeIsOrdered, SweepSees, Sweeping, StillToSweep, Living
<1>5. DataIsOf'
  BY DEF Answer, ClusterInv, DataIsOf
<1>6. OnlyLateBindersServe'
  BY DEF Answer, ClusterInv, OnlyLateBindersServe, Own
<1> QED BY <1>1, <1>2, <1>3, <1>4, <1>5, <1>6 DEF ClusterInv

(* Whoever holds the port is of this call or hidden.                       *)
LEMMA ConnectInv ==
    ASSUME ClusterInv, NEW i \in Nodes, Connect(i)
    PROVE  ClusterInv'
<1>1. TypeOK'
  BY DEF Connect, Holders, ClusterInv, TypeOK, Sweeping, Nodes
<1>2. (pc # "idle" => round > 0)' /\ (Sweeping \/ pc = "spawn" => k <= NodeCount)'
  BY DEF Connect, Holders, ClusterInv, Sweeping
<1>3. LifeIsOrdered'
  BY DEF Connect, Holders, ClusterInv, LifeIsOrdered, Sweeping, Living
<1>4. SweepSees'
  BY DEF Connect, Holders, ClusterInv, LifeIsOrdered, SweepSees, Sweeping, StillToSweep, Living
<1>5. DataIsOf'
  BY DEF Connect, Holders, ClusterInv, DataIsOf
<1>6. OnlyLateBindersServe'
  <2>1. PICK e \in Holders(round, i, "ws") : server' = [server EXCEPT ![i] = e]
    BY DEF Connect
  <2>2. e \in Executors /\ e[2] = i /\ Living(e)
    BY <2>1 DEF Holders, ClusterInv, LifeIsOrdered
  <2>3. e \in hidden \/ e[1] = round
    BY <2>2 DEF Connect, ClusterInv, SweepSees, Sweeping
  <2>4. e \in hidden \cup {Own(i)}
    BY <2>2, <2>3, ExecutorFacts DEF Own
  <2> QED BY <2>1, <2>4 DEF Connect, ClusterInv, TypeOK, OnlyLateBindersServe, Own
<1> QED BY <1>1, <1>2, <1>3, <1>4, <1>5, <1>6 DEF ClusterInv

(* f9 kills a node of the running cluster.                                 *)
LEMMA KillNodeInv ==
    ASSUME ClusterInv, NEW i \in Nodes, KillNode(i)
    PROVE  ClusterInv'
<1>1. TypeOK'
  BY DEF KillNode, Own, driver, ClusterInv, TypeOK, Sweeping, Nodes
<1>2. (pc # "idle" => round > 0)' /\ (Sweeping \/ pc = "spawn" => k <= NodeCount)'
  BY DEF KillNode, Own, driver, ClusterInv, Sweeping
<1>3. LifeIsOrdered'
  BY DEF KillNode, Own, driver, ClusterInv, LifeIsOrdered, Sweeping, Living
<1>4. SweepSees'
  BY DEF KillNode, Own, driver, ClusterInv, LifeIsOrdered, SweepSees, Sweeping, StillToSweep, Living
<1>5. DataIsOf'
  BY DEF KillNode, Own, driver, ClusterInv, DataIsOf
<1>6. OnlyLateBindersServe'
  BY DEF KillNode, Own, driver, ClusterInv, OnlyLateBindersServe, Own
<1> QED BY <1>1, <1>2, <1>3, <1>4, <1>5, <1>6 DEF ClusterInv

(* The agents are generated: no process changes.                           *)
LEMMA GenerateInv ==
    ASSUME ClusterInv, Generate
    PROVE  ClusterInv'
<1>1. TypeOK'
  BY DEF Generate, ClusterInv, TypeOK, Sweeping, Nodes
<1>2. (pc # "idle" => round > 0)' /\ (Sweeping \/ pc = "spawn" => k <= NodeCount)'
  BY DEF Generate, ClusterInv, Sweeping
<1>3. LifeIsOrdered'
  BY DEF Generate, ClusterInv, LifeIsOrdered, Sweeping, Living
<1>4. SweepSees'
  BY DEF Generate, ClusterInv, LifeIsOrdered, SweepSees, Sweeping, StillToSweep, Living
<1>5. DataIsOf'
  BY DEF Generate, ClusterInv, DataIsOf
<1>6. OnlyLateBindersServe'
  BY DEF Generate, ClusterInv, OnlyLateBindersServe, Own
<1> QED BY <1>1, <1>2, <1>3, <1>4, <1>5, <1>6 DEF ClusterInv

(* startCluster throws: the driver leaves, the executors stay.             *)
LEMMA StartThrowsInv ==
    ASSUME ClusterInv, StartThrows
    PROVE  ClusterInv'
<1>1. TypeOK'
  BY DEF StartThrows, ClusterInv, TypeOK, Sweeping, Nodes
<1>2. (pc # "idle" => round > 0)' /\ (Sweeping \/ pc = "spawn" => k <= NodeCount)'
  BY DEF StartThrows, ClusterInv, Sweeping
<1>3. LifeIsOrdered'
  BY DEF StartThrows, ClusterInv, LifeIsOrdered, Sweeping, Living
<1>4. SweepSees'
  BY DEF StartThrows, ClusterInv, LifeIsOrdered, SweepSees, Sweeping, StillToSweep, Living
<1>5. DataIsOf'
  BY DEF StartThrows, ClusterInv, DataIsOf
<1>6. OnlyLateBindersServe'
  BY DEF StartThrows, ClusterInv, OnlyLateBindersServe, Own
<1> QED BY <1>1, <1>2, <1>3, <1>4, <1>5, <1>6 DEF ClusterInv

(* Every node of this call is asked to end.                                *)
LEMMA ShutdownInv ==
    ASSUME ClusterInv, Shutdown
    PROVE  ClusterInv'
<1>1. TypeOK'
  BY DEF Shutdown, Mine, ClusterInv, TypeOK, Sweeping, Nodes
<1>2. (pc # "idle" => round > 0)' /\ (Sweeping \/ pc = "spawn" => k <= NodeCount)'
  BY DEF Shutdown, Mine, ClusterInv, Sweeping
<1>3. LifeIsOrdered'
  BY DEF Shutdown, Mine, ClusterInv, LifeIsOrdered, Sweeping, Living
<1>4. SweepSees'
  BY DEF Shutdown, Mine, ClusterInv, LifeIsOrdered, SweepSees, Sweeping, StillToSweep, Living
<1>5. DataIsOf'
  BY DEF Shutdown, Mine, ClusterInv, TypeOK, DataIsOf
<1>6. OnlyLateBindersServe'
  BY DEF Shutdown, Mine, ClusterInv, OnlyLateBindersServe, Own
<1> QED BY <1>1, <1>2, <1>3, <1>4, <1>5, <1>6 DEF ClusterInv

(* Who has not exited by now is killed.                                    *)
LEMMA EndSettleInv ==
    ASSUME ClusterInv, EndSettle
    PROVE  ClusterInv'
<1>1. TypeOK'
  BY DEF EndSettle, Kill, Mine, ClusterInv, TypeOK, Sweeping, Nodes
<1>2. (pc # "idle" => round > 0)' /\ (Sweeping \/ pc = "spawn" => k <= NodeCount)'
  BY DEF EndSettle, Kill, Mine, ClusterInv, Sweeping
<1>3. LifeIsOrdered'
  BY DEF EndSettle, Kill, Mine, ClusterInv, TypeOK, LifeIsOrdered, Sweeping, Living
<1>4. SweepSees'
  BY DEF EndSettle, Kill, Mine, ClusterInv, LifeIsOrdered, SweepSees, Sweeping, StillToSweep, Living
<1>5. DataIsOf'
  BY DEF EndSettle, Kill, Mine, ClusterInv, TypeOK, DataIsOf
<1>6. OnlyLateBindersServe'
  BY DEF EndSettle, Kill, Mine, ClusterInv, OnlyLateBindersServe, Own
<1> QED BY <1>1, <1>2, <1>3, <1>4, <1>5, <1>6 DEF ClusterInv

(* The directories are wiped of nodes that were killed or are dead.        *)
LEMMA EndShutdownInv ==
    ASSUME ClusterInv, EndShutdown
    PROVE  ClusterInv'
<1>1. TypeOK'
  BY DEF EndShutdown, ClusterInv, TypeOK, Sweeping, Nodes
<1>2. (pc # "idle" => round > 0)' /\ (Sweeping \/ pc = "spawn" => k <= NodeCount)'
  BY DEF EndShutdown, ClusterInv, Sweeping
<1>3. LifeIsOrdered'
  BY DEF EndShutdown, ClusterInv, LifeIsOrdered, Sweeping, Living
<1>4. SweepSees'
  BY DEF EndShutdown, ClusterInv, LifeIsOrdered, SweepSees, Sweeping, StillToSweep, Living
<1>5. DataIsOf'
  BY DEF EndShutdown, ClusterInv, DataIsOf
<1>6. OnlyLateBindersServe'
  BY DEF EndShutdown, ClusterInv, OnlyLateBindersServe, Own
<1> QED BY <1>1, <1>2, <1>3, <1>4, <1>5, <1>6 DEF ClusterInv

(* The driver is gone, its executors stay.                                 *)
LEMMA InterruptedInv ==
    ASSUME ClusterInv, Interrupted
    PROVE  ClusterInv'
<1>1. TypeOK'
  BY DEF Interrupted, ClusterInv, TypeOK, Sweeping, Nodes
<1>2. (pc # "idle" => round > 0)' /\ (Sweeping \/ pc = "spawn" => k <= NodeCount)'
  BY DEF Interrupted, ClusterInv, Sweeping
<1>3. LifeIsOrdered'
  BY DEF Interrupted, ClusterInv, LifeIsOrdered, Sweeping, Living
<1>4. SweepSees'
  BY DEF Interrupted, ClusterInv, LifeIsOrdered, SweepSees, Sweeping, StillToSweep, Living
<1>5. DataIsOf'
  BY DEF Interrupted, ClusterInv, DataIsOf
<1>6. OnlyLateBindersServe'
  BY DEF Interrupted, ClusterInv, OnlyLateBindersServe, Own
<1> QED BY <1>1, <1>2, <1>3, <1>4, <1>5, <1>6 DEF ClusterInv

(* Who binds one more port keeps those the sweep has still before it.      *)
LEMMA BindInv ==
    ASSUME ClusterInv, NEW e \in Executors, NEW kind \in Kinds, Bind(e, kind)
    PROVE  ClusterInv'
<1>1. TypeOK'
  <2>1. bound' \in [Executors -> SUBSET Kinds]
    BY DEF Bind, ClusterInv, TypeOK
  <2> QED BY <2>1 DEF Bind, driver, ClusterInv, TypeOK
<1>2. (pc # "idle" => round > 0)' /\ (Sweeping \/ pc = "spawn" => k <= NodeCount)'
  BY DEF Bind, driver, ClusterInv, Sweeping
<1>3. LifeIsOrdered'
  <2>1. \A f \in Executors : bound'[f] = bound[f] \/ (f = e /\ Living(f))
    BY DEF Bind, Living, ClusterInv
  <2> QED BY <2>1 DEF Bind, driver, ClusterInv, LifeIsOrdered, Sweeping, Living
<1>4. SweepSees'
  BY DEF Bind, driver, ClusterInv, TypeOK, LifeIsOrdered, SweepSees, Sweeping, StillToSweep, Living
<1>5. DataIsOf'
  BY DEF Bind, driver, ClusterInv, DataIsOf
<1>6. OnlyLateBindersServe'
  BY DEF Bind, driver, ClusterInv, OnlyLateBindersServe, Own
<1> QED BY <1>1, <1>2, <1>3, <1>4, <1>5, <1>6 DEF ClusterInv

(* An executor ends in one of three ways, with its exit code set or not. *)
LEMMA GoneInv ==
    ASSUME ClusterInv, NEW e \in Executors, proc[e] # "unborn", Gone(e),
           exited' \in {exited, exited \cup {e}}
    PROVE  ClusterInv'
<1>1. /\ proc' = [proc EXCEPT ![e] = "dead"] /\ bound' = [bound EXCEPT ![e] = {}]
      /\ UNCHANGED <<pc, round, layout, k, server, data, hidden>>
  BY DEF Gone, driver
<1>2. TypeOK'
  BY <1>1 DEF ClusterInv, TypeOK
<1>3. /\ \A f \in Executors : proc'[f] = IF f = e THEN "dead" ELSE proc[f]
      /\ \A f \in Executors : bound'[f] = IF f = e THEN {} ELSE bound[f]
  BY <1>1 DEF ClusterInv, TypeOK
<1>4. (pc # "idle" => round > 0)' /\ (Sweeping \/ pc = "spawn" => k <= NodeCount)'
  BY <1>1 DEF ClusterInv, Sweeping
<1>5. LifeIsOrdered'
  BY <1>1, <1>3 DEF ClusterInv, LifeIsOrdered, Sweeping, Living
<1>6. SweepSees'
  <2>1. \A f \in Executors : f # e /\ StillToSweep(f) => StillToSweep(f)'
    BY <1>1, <1>3 DEF StillToSweep
  <2>2. SweepSees /\ UNCHANGED <<pc, round, hidden>>
    BY <1>1 DEF ClusterInv
  <2>3. ASSUME NEW f \in Executors \ hidden
        PROVE  /\ Sweeping' /\ proc'[f] \in {"alive", "term"} => StillToSweep(f)'
               /\ pc' = "pause" => proc'[f] \notin {"alive", "term"}
               /\ ~Sweeping' /\ pc' \notin {"idle", "pause"} /\ Living(f)' => f[1] = round'
    BY <1>3, <2>1, <2>2 DEF SweepSees, Sweeping, Living
  <2> QED BY <2>2, <2>3 DEF SweepSees
<1>7. DataIsOf'
  <2> SUFFICES ASSUME NEW i \in Nodes, data[i] # None
               PROVE  data[i][2] = i /\ proc'[data[i]] # "unborn"
    BY <1>1 DEF DataIsOf
  <2>1. data[i] \in Executors /\ data[i][2] = i /\ proc[data[i]] # "unborn"
    BY TypeFacts DEF ClusterInv, DataIsOf
  <2> QED BY <2>1, <1>3
<1>8. OnlyLateBindersServe'
  BY <1>1 DEF ClusterInv, OnlyLateBindersServe, Own
<1> QED BY <1>2, <1>4, <1>5, <1>6, <1>7, <1>8 DEF ClusterInv

(* Steps that change nothing.                                              *)
LEMMA StutterInv ==
    ASSUME ClusterInv, UNCHANGED vars
    PROVE  ClusterInv'
BY DEF vars, driver, ClusterInv, TypeOK, Sweeping, LifeIsOrdered, SweepSees, StillToSweep,
       Living, DataIsOf, OnlyLateBindersServe, Own

(* Every step of the driver and of the executors keeps the invariant.      *)
LEMMA NextInv ==
    ASSUME ClusterInv, [Next]_vars
    PROVE  ClusterInv'
<1>1. CASE Driver
  BY <1>1, StartInv, SweepWsInv, SweepGossipInv, EndPauseInv, SpawnNodeInv, AnswerInv,
     ConnectInv, KillNodeInv, GenerateInv, StartThrowsInv, ShutdownInv, EndSettleInv,
     EndShutdownInv, InterruptedInv DEF Driver
<1>2. ASSUME NEW e \in Executors, NEW kind \in Kinds, Bind(e, kind)
      PROVE  ClusterInv'
  BY <1>2, BindInv
<1>3. ASSUME NEW e \in Executors, PortTaken(e) \/ Exits(e) \/ Signalled(e)
      PROVE  ClusterInv'
  BY <1>3, GoneInv DEF PortTaken, Exits, Signalled
<1>4. CASE UNCHANGED vars
  BY <1>4, StutterInv
<1> QED BY <1>1, <1>2, <1>3, <1>4 DEF Next, Executor

(* Every behaviour of the harness keeps the inductive invariant: the sweep has *)
(* killed, or still has before it, whatever it can see of earlier clusters.    *)
THEOREM Inductive == Spec => []ClusterInv
BY InitInv, NextInv, PTL DEF Spec

(* A client of a cluster talks to its own node or to an executor the sweep *)
(* could not see.                                                          *)
THEOREM SweepProtectsClients == Spec => []OnlyLateBindersServe
<1>1. ClusterInv => OnlyLateBindersServe
  BY DEF ClusterInv
<1> QED BY <1>1, Inductive, PTL

(* When a data directory changes hands, its executor has ended or is hidden. *)
LEMMA WipeStep ==
    ASSUME ClusterInv, [Next]_vars, NEW i \in Nodes, data'[i] # data[i], data[i] # None
    PROVE  data[i] \in hidden \/ proc[data[i]] = "dead"
<1>1. data[i] \in Executors /\ data[i][2] = i /\ proc[data[i]] # "unborn"
  BY TypeFacts DEF ClusterInv, DataIsOf
<1>2. (SpawnNode /\ k = i) \/ EndShutdown
  <2>1. SpawnNode => k = i
    BY TypeFacts DEF SpawnNode, InitDataDir, ClusterInv
  <2>2. SpawnNode \/ EndShutdown
    BY DEF Next, vars, driver, Driver, Executor, Start, SweepWs, SweepGossip, EndPause, Answer,
           Connect, KillNode, Generate, StartThrows, Shutdown, EndSettle, Interrupted,
           Bind, PortTaken, Exits, Signalled, Gone
  <2> QED BY <2>1, <2>2
<1>3. CASE SpawnNode /\ k = i
  <2>1. data[i][1] # round
    BY <1>1, <1>3, TypeFacts DEF SpawnNode, InitDataDir, ClusterInv, LifeIsOrdered
  <2> QED BY <1>1, <1>3, <2>1
            DEF SpawnNode, InitDataDir, ClusterInv, TypeOK, SweepSees, Sweeping, Living
<1>4. CASE EndShutdown
  <2>1. data[i] \in hidden \/ ~Living(data[i]) \/ data[i][1] = round
    BY <1>1, <1>4 DEF EndShutdown, ClusterInv, SweepSees, Sweeping
  <2>2. proc[data[i]] # "killed"
    BY <1>1, <1>4 DEF EndShutdown, Slept
  <2> QED BY <1>1, <1>4, <2>1, <2>2 DEF EndShutdown, ClusterInv, TypeOK, LifeIsOrdered, Living
<1> QED BY <1>2, <1>3, <1>4

(* Neither a new cluster nor a shutdown wipes the data directory of an      *)
(* executor that still runs, unless the sweep could not see that executor. *)
THEOREM DataIsSafe == Spec => WipedUnderNobody
<1>1. ClusterInv /\ [Next]_vars =>
        [\A i \in Nodes :
            data'[i] # data[i] /\ data[i] # None =>
                data[i] \in hidden \/ proc[data[i]] = "dead"]_vars
  BY WipeStep
<1> QED BY <1>1, Inductive, PTL DEF Spec, WipedUnderNobody
=============================================================================
