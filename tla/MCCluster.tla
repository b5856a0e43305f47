----------------------------- MODULE MCCluster -----------------------------
(* Cluster with the ports of three scenarios (t3 62, t4 51, t7 34-35). *)
EXTENDS Cluster
Ports(ws, gossip) == [kind \in Kinds |-> IF kind = "ws" THEN ws ELSE gossip]
T3T4T7 == {Ports(16000, 24000), Ports(16100, 24000), Ports(16200, 26200)}
=============================================================================
