---------------------------- MODULE ScenariosMesh ----------------------------
(***************************************************************************)
(* The scenarios in which peers connect to each other: two WebRtcPeers, or *)
(* MeshHosts with a peer for every other host, some of them with a fault   *)
(* set in the network, some before or after a room of an SFU.              *)
(***************************************************************************)
EXTENDS ScenariosSfu

Host(i) == <<"host", i>>
Netem == <<"netem", 1>>
Remote == <<"remote", 1>>

(***************************************************************************)
(* What the scenarios have in common.                                      *)
(***************************************************************************)
MakeHosts == Iterate(LAMBDA i : Make(Host(i)) \o Keep({Host(i)}))
ConnectAll == Call(All("host"))
CloseHosts == Close(All("host"))

\* Two peers made one after the other and then fed, outside of any block.
TwoPeers ==
    Make(Peer(1)) \o Make(Peer(2)) \o Call({Peer(1)}) \o Call({Peer(2)})
      \o Keep({Peer(1), Peer(2)})
PairPeers == Call({Peer(1), Peer(2)})
CloseBoth == Close({Peer(1)}) \o Close({Peer(2)})

\* net.ts setNetem says whether the rule is in place; clearNet removes it.
SetNetem == Make(Netem) \o Keep({Netem}) \o Expect("applied")

(***************************************************************************)
(* The w series.                                                           *)
(***************************************************************************)
\* Media must flow both ways by a deadline that throws.
W1Mesh2Peer ==
    TryFinally(
        Make(Peer(1)) \o Keep({Peer(1)}) \o Make(Peer(2)) \o Keep({Peer(2)})
          \o Call({Peer(1)}) \o Call({Peer(2)}) \o PairPeers \o Call({Peer(1), Peer(2)})
          \o Observe("media") \o Judge({"media"}),
        CloseBoth)

\* (mutant) As if the poller were awaited before it is told to stop.
W1mStopsLate ==
    LET Poller == <<"ice poller", 1>>
    IN  TryFinally(
          Open(Remote, {}) \o Keep({Remote}) \o Make(Peer(1)) \o Keep({Peer(1)})
            \o Start({Loop(Poller, {})}) \o Settle({Poller}) \o Stop({Poller}),
          Close({Peer(1)}) \o Close({Remote}))
\* The peer-server on another machine; candidates are polled beside the
\* exchange, until a flag is set that a failure on the way never sets.
W1mMultiMachine ==
    LET Poller == <<"ice poller", 1>>
        Timer == <<"stats timer", 1>>
    IN  Observe("remote url") \o OrSkip("remote url") \o TryFinally(
          Open(Remote, {}) \o Keep({Remote}) \o Make(Peer(1)) \o Keep({Peer(1)})
            \o Call({Peer(1)})
            \o Start({Loop(Poller, {})})
            \o CreateOffer(1) \o Call({Remote}) \o AcceptAnswer(1) \o Call({Remote})
            \o Start({Loop(Timer, {})}) \o Stop({Timer}) \o Stop({Poller}) \o Settle({Poller})
            \o Observe("media") \o Judge({"media"}),
          Close({Peer(1)}) \o Close({Remote}))

W2Mesh4Peer == MakeHosts \o TryFinally(ConnectAll \o Observe("media") \o Judge({"media"}), CloseHosts)
W3MeshRtt == MakeHosts \o TryFinally(ConnectAll \o Observe("rtts") \o Judge({"rtts"}), CloseHosts)

\* A mesh for each size, one after the other.
W4BandwidthScaling ==
    Iterate(LAMBDA size : TryFinally(MakeHosts \o ConnectAll, CloseHosts)) \o Judge({})

W5TurnFallback ==
    Observe("turn url") \o OrSkip("turn url") \o TwoPeers
      \o TryFinally(PairPeers \o Observe("relayed") \o Observe("media") \o Judge({"media"}), CloseBoth)

(***************************************************************************)
(* Faults.                                                                 *)
(***************************************************************************)
F1MeshPacketLoss ==
    Observe("tc") \o OrSkip("tc") \o MakeHosts
      \o TryFinally(ConnectAll \o SetNetem \o Observe("media") \o Judge({"media"}),
                    Close({Netem}) \o CloseHosts)

F2SfuPacketLoss ==
    Observe("tc") \o OrSkip("tc")
      \o StartRoomOrSkip \o ProvisionPeers \o RegisterSfuMembers
      \o TryFinally(Iterate(Join1) \o SetNetem \o Observe("media") \o Judge({"media"}),
                    Close({Netem}) \o Teardown)

F3OneWayNat ==
    Observe("turn url") \o OrSkip("turn url") \o TwoPeers
      \o TryFinally(PairPeers \o Observe("relayed") \o Observe("media") \o Judge({"media"}), CloseBoth)

(***************************************************************************)
(* From mesh to SFU and back.                                              *)
(***************************************************************************)
\* The mesh is let go of outside of any block, when its media has been seen.
M1MeshToSfu ==
    TryCatch(Call({}), Observe("sfu there") \o OrSkip("sfu there"))
      \o MakeHosts \o ConnectAll \o CloseHosts
      \o SetUp \o TryFinally(
           Iterate(JoinHere) \o Observe("media") \o Judge({"media"}), Teardown)

\* Some peers leave the room, and their entries the three lists; then the rest
\* leave, and two hosts take over.  The cleanup of the whole stops the room and
\* disconnects the sessions that are in the list then, and knows no peer.
M2SfuToMesh ==
    LET FinalMeshCount == 2
        Leavers == {i \in 1..Width : i + FinalMeshCount <= Width}
        Enter(i) == Make(Peer(i)) \o Call({Peer(i)}) \o Dial(Wire(i), {Peer(i), Session(i)})
                      \o CreateOffer(i) \o CallJoin(i) \o AcceptAnswer(i)
        Goes(i) == Keep({Peer(i), Wire(i)}) \o AttemptFor(Peer(i), {Session(i)})
                     \o Close({Wire(i)}) \o Close({Peer(i)})
        Among(is) == Iterate(LAMBDA i : IF i \in is THEN Goes(i) ELSE <<>>)
    IN  StartRoomOrSkip \o ProvisionPeers \o RegisterSfuMembers \o TryFinally(
          Iterate(Enter) \o Note("spliced") \o Among(Leavers) \o ListRooms
            \o Among((1..Width) \ Leavers) \o MakeHosts
            \o TryFinally(ConnectAll \o Observe("media") \o Judge({"media"}), CloseHosts),
          StopRoom \o Unless("spliced", Close({Session(i) : i \in Leavers}))
            \o Close({Session(i) : i \in (1..Width) \ Leavers}))

\* There is no room to join: the call must fail, and a mesh must do.
M4SfuOffline ==
    Call({}) \o Call({}) \o TryCatch(Call({}), Note("rejected")) \o MakeHosts
      \o TryFinally(ConnectAll \o Observe("media") \o Judge({"rejected", "media"}), CloseHosts)
=============================================================================
