---------------------------- MODULE ScenariosSfu ----------------------------
(***************************************************************************)
(* The scenarios in which peers join a room of one SFU: sessions are       *)
(* clients of users made for the run, a peer is a WebRtcPeer with its      *)
(* timers, a wire the renegotiation handler that listens for it.           *)
(***************************************************************************)
EXTENDS ScenarioSteps

Session(i) == <<"session", i>>
Peer(i) == <<"peer", i>>
Wire(i) == <<"wire", i>>
Room == <<"room", 1>>

(***************************************************************************)
(* What the scenarios have in common.                                      *)
(***************************************************************************)
\* users.ts provisionPeers: the list exists only when all are there.
ProvisionPeers ==
    Iterate(LAMBDA i : Call({}) \o Call({}) \o Dial(Session(i), {})) \o Keep(All("session"))

RegisterSfuMembers == Iterate(LAMBDA i : Call({}))
DisconnectPeers == Close(All("session"))

StartRoom == Open(Room, {}) \o Keep({Room})
StopRoom == Close({Room})
SetUp == StartRoom \o ProvisionPeers \o RegisterSfuMembers

\* A branch without an SFU answers startRoom with an error that is let pass.
StartRoomOrSkip ==
    TryCatch(StartRoom,
             Observe("sfu missing") \o Demand("sfu missing") \o Return(TRUE))

MakePeer(i) == Make(Peer(i)) \o Call({Peer(i)}) \o Keep({Peer(i)})
WireUp(i) == Dial(Wire(i), {Peer(i), Session(i)}) \o Keep({Wire(i)})
CreateOffer(i) == Call({Peer(i)})
CallJoin(i) == Call({Session(i)})
AcceptAnswer(i) == Call({Peer(i)})

Join1(i) == MakePeer(i) \o WireUp(i) \o CreateOffer(i) \o CallJoin(i) \o AcceptAnswer(i)
\* A room of one node must not send anybody elsewhere.
JoinHere(i) == MakePeer(i) \o WireUp(i) \o CreateOffer(i) \o CallJoin(i)
                 \o Expect("not redirected") \o AcceptAnswer(i)

LeaveAndClose(i) == AttemptFor(Peer(i), {Session(i)}) \o Close({Peer(i)})
DetachAll == Close(All("wire"))
\* (mutant) As if the sessions were gone before the room is left.
TeardownDisconnectsFirst == DetachAll \o DisconnectPeers \o Iterate(LeaveAndClose) \o StopRoom
\* (mutant) As if the peers were closed while their wires listen.
TeardownClosesFirst == Iterate(LeaveAndClose) \o DetachAll \o StopRoom \o DisconnectPeers
\* (mutant) As if the loop over the peers began with the second.
TeardownSkipsFirst ==
    DetachAll \o Iterate(LAMBDA i : IF i = 1 THEN <<>> ELSE LeaveAndClose(i))
      \o StopRoom \o DisconnectPeers
Teardown == DetachAll \o Iterate(LeaveAndClose) \o StopRoom \o DisconnectPeers

\* Polls that throw at their deadline, and polls that just end.
WaitForServerParticipantCount == Call({})
ListRooms == Call({})
WaitUntil(c) == Observe(c)

(***************************************************************************)
(* The t series on one node.                                               *)
(***************************************************************************)
FullRoom ==
    TryFinally(
        Iterate(JoinHere) \o WaitForServerParticipantCount \o ListRooms
          \o Observe("media received") \o Observe("participants match") \o Observe("routing")
          \o Judge({"media received", "participants match", "routing"}),
        Teardown)

T1Sfu5Peer == SetUp \o FullRoom
T2Sfu10Peer == SetUp \o FullRoom
S1Sfu20Peer == StartRoomOrSkip \o ProvisionPeers \o RegisterSfuMembers \o FullRoom

\* (mutant) As if the verdict were reached before the routing is looked at.
T14JudgesEarly ==
    SetUp \o TryFinally(
        Iterate(JoinHere) \o WaitForServerParticipantCount
          \o Observe("tones") \o Attempt({}) \o Observe("participants match")
          \o Judge({"tones", "participants match"}) \o Observe("routing"),
        Teardown)
\* The room list is asked for under .catch.
T14MediaRouting ==
    SetUp \o TryFinally(
        Iterate(JoinHere) \o WaitForServerParticipantCount
          \o Observe("tones") \o Observe("routing") \o Attempt({})
          \o Observe("participants match")
          \o Judge({"tones", "routing", "participants match"}),
        Teardown)

T9TrackAttribution ==
    SetUp \o TryFinally(
        Iterate(Join1) \o WaitUntil("settled")
          \o Observe("attributed") \o Judge({"attributed"}),
        Teardown)

\* B asks A's layers through every preference, one of them unknown.
T10SimulcastLayers ==
    SetUp \o TryFinally(
        Iterate(Join1) \o Call({Peer(1)})
          \o Observe("layers") \o Observe("distinct resolutions")
          \o Measure("preferences", {Session(Width)})
          \o Forget("invalid rejected")
          \o TryCatch(Call({Session(Width)}), Note("invalid rejected"))
          \o Call({Session(Width)}) \o Call({Peer(Width)})
          \o Call({Session(Width)}) \o Call({Peer(Width)}) \o Observe("ratio")
          \o Judge({"layers", "preferences", "invalid rejected"}),
        Teardown)

\* Every peer is ready with an offer, then all join at once; who fails is left
\* out and decides the verdict.
JoinAtOnce ==
    Iterate(LAMBDA i : MakePeer(i) \o WireUp(i) \o CreateOffer(i))
      \o AllOf({CatchingTask(<<"join", i>>, {Session(i)}) : i \in 1..Width})
      \o Note("all joined")
      \o Iterate(LAMBDA i : Observe("joined") \o When("joined", AcceptAnswer(i))
                                             \o Unless("joined", Forget("all joined")))

T8ConcurrentJoin ==
    SetUp \o TryFinally(
        JoinAtOnce \o Attempt({}) \o WaitUntil("settled") \o Observe("routing")
          \o Judge({"all joined", "settled", "routing"}),
        Teardown)

T12DeferredTracks ==
    SetUp \o TryFinally(
        JoinAtOnce \o WaitUntil("settled") \o Observe("tones")
          \o Judge({"all joined", "tones"}),
        Teardown)

\* One peer leaves in the middle; the cleanup passes over it either way.
T13PeerDeparture ==
    LET Remaining == 2..Width
        Departs == Close({Wire(1)}) \o LeaveAndClose(1)
        Skipping(i) == IF i = 1 THEN <<>> ELSE LeaveAndClose(i)
        Checks == {"received before", "received after", "nothing stale", "participants match"}
    IN  SetUp \o TryFinally(
          Iterate(JoinHere) \o WaitForServerParticipantCount
            \o Observe("received before") \o Departs
            \o Observe("received after") \o Observe("nothing stale")
            \o Attempt({}) \o Observe("participants match") \o Judge(Checks),
          Close({Wire(i) : i \in Remaining}) \o Iterate(Skipping) \o StopRoom \o DisconnectPeers)

\* A table of topologies against thresholds; no system is involved.
T5TopologyTable == Note("row holds") \o Judge({"row holds"})

(***************************************************************************)
(* Churn: peers that come and go, each with a session of its own.          *)
(***************************************************************************)
\* The three are in the list of the cleanup only when the join has succeeded.
ChurnJoin(i) ==
    Call({}) \o Call({}) \o Dial(Session(i), {}) \o Call({})
      \o Make(Peer(i)) \o Call({Peer(i)})
      \o Dial(Wire(i), {Peer(i), Session(i)})
      \o CreateOffer(i) \o CallJoin(i) \o AcceptAnswer(i)
      \o Keep({Session(i), Peer(i), Wire(i)})

ChurnLeave(i) ==
    AttemptFor(Peer(i), {Session(i)}) \o Close({Wire(i)}) \o Close({Peer(i)})
      \o Close({Session(i)})

\* The memory of the executor is read from the operating system.
S4SfuMemoryChurn ==
    StartRoom \o Observe("pid") \o TryFinally(
        Iterate(LAMBDA i : (IF i > 1 THEN ChurnLeave(i - 1) ELSE <<>>) \o ChurnJoin(i))
          \o Observe("rss within budget")
          \o Unless("pid", Forget("rss within budget")) \o Judge({"rss within budget"}),
        Iterate(ChurnLeave) \o StopRoom)

\* A first room full, then one out and one in for each cycle.
F5RenegotiationFlood ==
    StartRoomOrSkip \o TryFinally(
        Iterate(ChurnJoin) \o ListRooms
          \o Iterate(LAMBDA i : ChurnLeave(i) \o ChurnJoin(i + Width)) \o ListRooms
          \o Observe("participants match") \o Judge({"participants match"}),
        Iterate(LAMBDA i : ChurnLeave(i) \o ChurnLeave(i + Width)) \o StopRoom)

(***************************************************************************)
(* Faults on one node.                                                     *)
(***************************************************************************)
\* The second peer does not listen for offers, and the room must go on.
F8StuckRenegotiation ==
    LET Stuck(i) == i = 2
        Joins(i) == MakePeer(i) \o (IF Stuck(i) THEN <<>> ELSE WireUp(i))
                      \o CreateOffer(i) \o CallJoin(i) \o AcceptAnswer(i)
    IN  SetUp \o TryFinally(
          Iterate(Joins) \o WaitUntil("renegotiated again") \o ListRooms
            \o Judge({"renegotiated again"}),
          Teardown)

\* A user that nobody made a member must be turned away.
F6NonMemberJoin ==
    TryFinally(
        StartRoom \o ProvisionPeers
          \o Make(Peer(1)) \o Keep({Peer(1)}) \o Call({Peer(1)}) \o CreateOffer(1)
          \o TryCatch(CallJoin(1), Note("rejected"))
          \o Unless("rejected", Attempt({Session(1)}))
          \o Measure("responsive", {}) \o Judge({"rejected"}),
        Close({Peer(1)}) \o StopRoom \o DisconnectPeers)

\* A client with a bad token, refused when it connects or when it calls; a
\* room it is allowed to start is never stopped.
F7BadCapability ==
    LET Bad == <<"client", 1>>
    IN  Note("guarded")
          \o TryCatch(Dial(Bad, {}) \o Keep({Bad}) \o Note("connected"), <<>>)
          \o When("connected",
                  Forget("guarded")
                    \o TryCatch(Open(Room, {Bad}), Note("guarded")) \o Close({Bad}))
          \o Measure("responsive", {}) \o Judge({"guarded", "responsive"})
=============================================================================
