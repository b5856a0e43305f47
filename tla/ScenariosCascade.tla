-------------------------- MODULE ScenariosCascade --------------------------
(***************************************************************************)
(* The scenarios that start a cluster of SFU nodes of their own.  A        *)
(* session stands for the clients a user has, one for each node; what is   *)
(* called through it goes to a node, and fails when that node is gone.     *)
(***************************************************************************)
EXTENDS ScenariosSfu

Node(k) == <<"node", k>>
Last == Width
AllNodes == All("node")

(***************************************************************************)
(* What the scenarios have in common.                                      *)
(***************************************************************************)
\* cascade.ts startCluster: the handle exists only when all nodes are up, and
\* nobody stops the nodes of a cluster that did not come up.
StartCluster == Iterate(LAMBDA k : Dial(Node(k), {})) \o Keep(AllNodes)
ClusterShutdown == Close(AllNodes)

StartRooms == Iterate(LAMBDA k : Call({Node(k)}))
\* (mutant) As if the calls were sent first and awaited one after the other.
StartRoomsInTurn ==
    Start({Task(<<"room", k>>, {Node(k)}) : k \in 1..Width}) \o Iterate(LAMBDA k : Join({<<"room", k>>}))
StartRoomsAtOnce == AllOf({Task(<<"room", k>>, {Node(k)}) : k \in 1..Width})

\* users.ts: a user and a client on every node for each peer.
ProvisionClusterPeers ==
    Iterate(LAMBDA i : Call(AllNodes) \o Call(AllNodes) \o Dial(Session(i), AllNodes))
      \o Keep(All("session"))
RegisterClusterSfuMembers == Iterate(LAMBDA i : Call(AllNodes))

ClusterSetUp(rooms) ==
    StartCluster \o rooms \o ProvisionClusterPeers \o RegisterClusterSfuMembers

JoinOn(i, k) == Call({Session(i), Node(k)})
WireOn(i, k) == Dial(Wire(i), {Peer(i), Session(i), Node(k)}) \o Keep({Wire(i)})

\* Follow redirectTo from node to node; a DID that is unknown or met before,
\* or more hops than nodes, is an error.
FollowRedirects(i) ==
    JoinOn(i, 1)
      \o Iterate(LAMBDA hop : Observe("redirected")
           \o When("redirected", Expect("known target") \o Call({Session(i)})))
      \o Expect("landed")

LeaveOn(i, k) == AttemptFor(Peer(i), {Session(i), Node(k)}) \o Close({Peer(i)})
LeaveSomewhere(i) == AttemptFor(Peer(i), {Session(i)}) \o Close({Peer(i)})

\* A peer that is in the list of the cleanup only once it has landed.
LandPeer(i) ==
    Make(Peer(i)) \o Call({Peer(i)}) \o CreateOffer(i) \o FollowRedirects(i)
      \o AcceptAnswer(i) \o Keep({Peer(i)})

\* A peer of a node of its own, with its wire, that must not be redirected.
SettlePeer(i, k) ==
    Make(Peer(i)) \o Call({Peer(i)}) \o Keep({Peer(i)}) \o WireOn(i, k)
      \o CreateOffer(i) \o JoinOn(i, k) \o Expect("not redirected") \o AcceptAnswer(i)

CascadeTeardown ==
    Iterate(LeaveSomewhere) \o DisconnectPeers \o ClusterShutdown
RoomsOf(k) == Call({Node(k)})
\* cascadeStatus polled on both nodes, each under .catch.
WaitForPipes == WaitUntil("pipes")

(***************************************************************************)
(* Redirects.                                                              *)
(***************************************************************************)
T3Cascade2Node ==
    TryFinally(
        ClusterSetUp(StartRooms) \o Iterate(LandPeer) \o Iterate(RoomsOf)
          \o Observe("total matches") \o Observe("no node empty")
          \o Judge({"total matches", "no node empty"}),
        CascadeTeardown)

T4Cascade3Node ==
    TryFinally(
        ClusterSetUp(StartRooms) \o Iterate(LandPeer) \o Iterate(RoomsOf)
          \o Observe("total matches") \o Observe("within limit")
          \o Judge({"total matches", "within limit"}),
        CascadeTeardown)

\* Here the wire goes up when the peer has landed, before it is in the list.
S2Cascade4Node ==
    TryFinally(
        ClusterSetUp(StartRooms)
          \o Iterate(LAMBDA i :
               Make(Peer(i)) \o Call({Peer(i)}) \o CreateOffer(i) \o FollowRedirects(i)
                 \o AcceptAnswer(i) \o Dial(Wire(i), {Peer(i), Session(i)})
                 \o Keep({Peer(i), Wire(i)}))
          \o Observe("distribution") \o Judge({"distribution"}),
        DetachAll \o CascadeTeardown)

\* A full node sends on; who finds no node is counted and closed.
S3MaxParticipants ==
    LET Overflow(i) == Keep({Peer(i)}) \o Close({Peer(i)}) \o Note("overflow")
        Hop(i) == Unless("overflow", Observe("redirected")
                    \o When("redirected", Observe("known target")
                         \o Unless("known target", Overflow(i))
                         \o When("known target", Call({Session(i)}))))
    IN  TryFinally(
          ClusterSetUp(StartRooms)
            \o Iterate(LAMBDA i :
                 Make(Peer(i)) \o Call({Peer(i)}) \o CreateOffer(i) \o JoinOn(i, 1)
                   \o Forget("overflow") \o Iterate(LAMBDA hop : Hop(i))
                   \o Unless("overflow", Observe("redirected") \o When("redirected", Overflow(i)))
                   \o Unless("overflow", AcceptAnswer(i) \o Keep({Peer(i)})))
            \o Iterate(RoomsOf) \o Observe("within limit") \o Judge({"within limit"}),
          CascadeTeardown)

(***************************************************************************)
(* Pipes between nodes.                                                    *)
(***************************************************************************)
\* The peers are let go of at the end of the body, so only if nothing throws;
\* the cleanup stops the cluster alone.
T6PipeHandshake ==
    StartCluster \o TryFinally(
        StartRoomsAtOnce \o ProvisionClusterPeers \o RegisterClusterSfuMembers
          \o Iterate(LAMBDA i : SettlePeer(i, i)) \o WaitForPipes
          \o AllOf({Task(<<"status", k>>, {Node(k)}) : k \in 1..Width})
          \o Observe("links") \o Observe("media")
          \o DetachAll \o Iterate(LAMBDA i : LeaveOn(i, i)) \o DisconnectPeers
          \o Judge({"pipes", "links", "media"}),
        ClusterShutdown)

T7CascadeMedia ==
    StartCluster \o TryFinally(
        StartRoomsAtOnce \o ProvisionClusterPeers \o RegisterClusterSfuMembers
          \o Iterate(LAMBDA i : SettlePeer(i, i)) \o WaitForPipes
          \o Observe("media") \o Observe("routing") \o Judge({"pipes", "media", "routing"}),
        DetachAll \o Iterate(LAMBDA i : LeaveOn(i, i)) \o DisconnectPeers \o ClusterShutdown)

\* Every peer is on the first node and subscribes to its events; nobody waits
\* for those sockets to open, nor handles that they do not.
T11CascadeRebalance ==
    LET Events(i) == <<"events", i>>
    IN  StartCluster \o TryFinally(
          StartRoomsAtOnce \o ProvisionClusterPeers \o RegisterClusterSfuMembers
            \o Iterate(LAMBDA i : SettlePeer(i, 1))
            \o Iterate(LAMBDA i : Make(Events(i)) \o Keep({Events(i)}))
            \o Start({Task(<<"connect", i>>, {Events(i)}) : i \in 1..Width})
            \o Observe("migrated") \o OrFail("migrated")
            \o Observe("to node 1") \o Observe("its room") \o Judge({"to node 1", "its room"}),
          DetachAll \o Close(All("events")) \o Close(All("peer"))
            \o DisconnectPeers \o ClusterShutdown)

\* Peers, wires and sessions are constants of the body: the cleanup knows the
\* cluster alone.
T15SimulcastCascade ==
    LET B == Last
        JoinB == JoinOn(B, 1) \o Observe("redirected") \o When("redirected", Call({Session(B)}))
    IN  TryFinally(
          StartCluster \o StartRooms
            \o Iterate(LAMBDA i : Call(AllNodes) \o Dial(Session(i), AllNodes))
            \o RegisterClusterSfuMembers
            \o Make(Peer(1)) \o Call({Peer(1)}) \o Dial(Wire(1), {Peer(1), Session(1)})
            \o CreateOffer(1) \o JoinOn(1, 1) \o Expect("not redirected") \o AcceptAnswer(1)
            \o Make(Peer(B)) \o Call({Peer(B)}) \o CreateOffer(B) \o JoinB \o AcceptAnswer(B)
            \o Dial(Wire(B), {Peer(B), Session(B)})
            \o WaitForPipes \o Observe("layer or bytes") \o Observe("media")
            \o Measure("preferences", {Session(B)})
            \o Measure("propagated", {Session(B), Node(1)}) \o Observe("tones")
            \o Judge({"pipes", "layer or bytes", "media", "tones", "preferences", "propagated"}),
          ClusterShutdown)

(***************************************************************************)
(* Nodes that die.                                                         *)
(***************************************************************************)
\* The peers of the node that is killed lose their wires at once; the cleanup
\* leaves no room, it only closes.
F9NodeCrash ==
    LET Doomed(i) == i = Last
        Enter(i) == LET k == IF Doomed(i) THEN Last ELSE 1
                    IN  Make(Peer(i)) \o Call({Peer(i)})
                          \o Dial(Wire(i), {Peer(i), Session(i), Node(k)})
                          \o CreateOffer(i) \o JoinOn(i, k) \o Expect("not redirected")
                          \o AcceptAnswer(i) \o Keep({Peer(i), Wire(i)})
    IN  StartCluster \o TryFinally(
          StartRoomsAtOnce \o ProvisionClusterPeers \o RegisterClusterSfuMembers
            \o Iterate(Enter) \o WaitForPipes \o Attempt({Node(1)})
            \o Close({Node(Last)}) \o Close({Wire(i) : i \in {j \in 1..Width : Doomed(j)}})
            \o Measure("evicted", {Node(1)}) \o Measure("responsive", {Node(1)})
            \o Judge({"evicted", "responsive"}),
          Close({Wire(i) : i \in {j \in 1..Width : ~Doomed(j)}})
            \o Close(All("peer")) \o DisconnectPeers \o ClusterShutdown)

\* Those who were on the dead node join the other with a fresh peer, which takes
\* their place in the list when it has joined.  The cleanup passes over all that
\* are still listed with the first node.
M3CascadeFailover ==
    LET Fresh(i) == <<"fresh peer", i>>
        OnA(i) == <<"on A", i>>
        GivesUp(i) == Forget(<<"all reconnected">>) \o Keep({Fresh(i)}) \o Close({Fresh(i)})
        Reconnect(i) ==
            Close({Peer(i)}) \o Make(Fresh(i)) \o Call({Fresh(i)}) \o Call({Fresh(i)})
              \o TryCatch(Call({Session(i), Node(Last)}) \o Observe(<<"redirected">>)
                            \o Branch(<<"redirected">>, GivesUp(i),
                                      Call({Fresh(i)}) \o Keep({Fresh(i)}) \o Forget(OnA(i))),
                          GivesUp(i))
              \o Note(<<"attempted">>)
        LeaveFresh(i) == AttemptFor(Fresh(i), {Session(i)}) \o Close({Fresh(i)})
    IN  Note(<<"all reconnected">>) \o TryFinally(
          ClusterSetUp(StartRooms)
            \o Iterate(LAMBDA i :
                 Make(Peer(i)) \o Call({Peer(i)}) \o CreateOffer(i) \o JoinOn(i, 1)
                   \o Note(OnA(i)) \o Observe(<<"redirected">>)
                   \o When(<<"redirected">>, Expect(<<"known target">>) \o Forget(OnA(i))
                                           \o Call({Session(i)}))
                   \o AcceptAnswer(i) \o Keep({Peer(i)}))
            \o Close({Node(1)})
            \o Iterate(LAMBDA i : When(OnA(i), Reconnect(i)))
            \o RoomsOf(Last) \o Judge({<<"attempted">>, <<"all reconnected">>}),
          Iterate(LAMBDA i : Unless(OnA(i), LeaveSomewhere(i) \o LeaveFresh(i)))
            \o DisconnectPeers \o ClusterShutdown)

\* A partition between the nodes, then one more peer at the first node.  The
\* verdict does not depend on where it lands.
F4NetworkPartition ==
    LET Partition == <<"partition", 1>>
        Probe == Peer(Width + 1)
        ProbeSession == Session(Width + 1)
        LandOnce(i) ==
            Make(Peer(i)) \o Call({Peer(i)}) \o CreateOffer(i) \o JoinOn(i, 1)
              \o Observe("redirected") \o When("redirected", Call({Session(i)}))
              \o AcceptAnswer(i) \o Keep({Peer(i)})
    IN  Observe("iptables") \o OrSkip("iptables")
          \o TryFinally(
            ClusterSetUp(StartRooms) \o Iterate(LandOnce)
              \o Make(Partition) \o Keep({Partition}) \o Expect("partitioned")
              \o Call(AllNodes) \o Call(AllNodes) \o Dial(ProbeSession, AllNodes)
              \o Call(AllNodes) \o Keep({ProbeSession})
              \o Make(Probe) \o Call({Probe}) \o Call({Probe}) \o Call({ProbeSession, Node(1)})
              \o Observe("probe stays")
              \o When("probe stays", Attempt({Probe}) \o Attempt({ProbeSession}))
              \o Keep({Probe}) \o Close({Probe}) \o Iterate(RoomsOf) \o Note("responsive"),
            Close({Partition}) \o Iterate(LeaveSomewhere) \o Close(All("session"))
              \o Close({ProbeSession}) \o ClusterShutdown)
          \o Judge({})
=============================================================================
