---------------------------- MODULE MCScenarios ----------------------------
EXTENDS ScenarioRun, ScenariosLoad, ScenariosSfu, ScenariosCascade, ScenariosMesh, ScenariosSync, TLC

\* By the module that has their steps.
AllScenarios ==
    LET load == [
            s1 |-> S1ColdStart, s2 |-> S2LinkThroughput, s2b |-> S2bMillionLinks,
            s3 |-> S3PerspectiveScaling, s4 |-> S4LanguageInstallStorm,
            s5 |-> S5QueryScaling, s6 |-> S6ApiConcurrency, s7 |-> S7MemoryStability,
            s8 |-> S8SubjectClassQueries, s9 |-> S9MemoryLeak,
            s10 |-> S10SubscriptionFanout, s12 |-> S12Persistence,
            s13 |-> S13ReadWriteMix, s14 |-> S14MultiPerspective,
            s15 |-> S15LeakAttribution]
        sfu == [
            t1 |-> T1Sfu5Peer, t2 |-> T2Sfu10Peer, sfu20 |-> S1Sfu20Peer,
            t5 |-> T5TopologyTable, t8 |-> T8ConcurrentJoin, t9 |-> T9TrackAttribution,
            t10 |-> T10SimulcastLayers, t12 |-> T12DeferredTracks,
            t13 |-> T13PeerDeparture, t14 |-> T14MediaRouting,
            churn |-> S4SfuMemoryChurn, f5 |-> F5RenegotiationFlood,
            f6 |-> F6NonMemberJoin, f7 |-> F7BadCapability,
            f8 |-> F8StuckRenegotiation]
        cascade == [
            t3 |-> T3Cascade2Node, t4 |-> T4Cascade3Node, sfu4 |-> S2Cascade4Node,
            max |-> S3MaxParticipants, t6 |-> T6PipeHandshake, t7 |-> T7CascadeMedia,
            t11 |-> T11CascadeRebalance, t15 |-> T15SimulcastCascade,
            f9 |-> F9NodeCrash, failover |-> M3CascadeFailover,
            f4 |-> F4NetworkPartition]
        mesh == [
            w1 |-> W1Mesh2Peer, w1m |-> W1mMultiMachine, w2 |-> W2Mesh4Peer,
            w3 |-> W3MeshRtt, w4 |-> W4BandwidthScaling, w5 |-> W5TurnFallback,
            f1 |-> F1MeshPacketLoss, f2 |-> F2SfuPacketLoss, f3 |-> F3OneWayNat,
            tosfu |-> M1MeshToSfu, tomesh |-> M2SfuToMesh, offline |-> M4SfuOffline]
        sync == [
            m1 |-> M1NeighbourhoodSync, m2 |-> M2MultiExecutor, m3 |-> M3LinkLanguages,
            m4 |-> M4WriteLoad, m5 |-> M5ConcurrentNeighbourhoods,
            c1 |-> C1Convergence, a2 |-> A2ProvisionConnect, a3 |-> A3McpThroughput,
            a4 |-> A4Waker, a5 |-> A5AvLoop]
    IN  load @@ sfu @@ cascade @@ mesh @@ sync

\* README.md says, for each of these, what the scenario does.
KnownExceptions == [
    CleanupReleases |-> {"t13", "failover", "t6", "tomesh"},
    WiresHaveTheirPeer |-> {"t13", "f9", "tomesh"},
    PassLeavesNothing |-> {"s9", "s10", "t15", "m2", "tomesh"},
    NoRejectionUnheard |-> {"t11"},
    InUseIsHeld |-> {"s13", "t11"},
    NothingRunsOn |-> {"s13", "t11", "w1m"}]

Claimed(table) ==
    [i \in DOMAIN AllScenarios |-> IF i \in DOMAIN table THEN table[i] ELSE {}]

\* Each assertion of the headers, by scenario: what one says it asserts,
\* verifies, validates or confirms.  README.md has the lines.
HeaderClaims ==
    LET load == [
            s9 |-> {"no leak"}]
        sfu == [
            t1 |-> {"time to media", "upload independent of n", "participants match"},
            t5 |-> {"row holds"},
            t8 |-> {"participants match", "offers of all others"},
            t9 |-> {"attributed", "settled"},
            t10 |-> {"layers", "distinct resolutions", "preferences", "invalid rejected", "ratio"},
            t12 |-> {"all joined", "tones"},
            t13 |-> {"received before", "received after", "nothing stale"},
            t14 |-> {"tones", "routing"},
            churn |-> {"rss within budget"},
            f5 |-> {"participants match", "participants match throughout", "joins bounded"},
            f6 |-> {"rejected", "by membership", "responsive"},
            f7 |-> {"guarded", "auth error", "responsive"},
            f8 |-> {"renegotiated again", "tracks of C", "stale offer cleared"}]
        cascade == [
            t4 |-> {"total matches", "within limit"},
            sfu4 |-> {"distribution"},
            max |-> {"within limit", "overflow"},
            t6 |-> {"pipes", "links", "media"},
            t7 |-> {"media"},
            t11 |-> {"migrated", "targets a participant", "to node 1"},
            t15 |-> {"two layers", "media", "preferences"},
            f9 |-> {"pipes", "evicted", "own peers connected", "responsive"},
            f4 |-> {"existing peers stay", "probe stays", "responsive"}]
        mesh == [
            w5 |-> {"relayed", "media"},
            f3 |-> {"relayed", "media"},
            tomesh |-> {"media"},
            offline |-> {"rejected", "media"}]
        sync == [
            c1 |-> {"converged", "removal converged"},
            a2 |-> {"none failed"}, a3 |-> {"no errors"},
            a4 |-> {"none failed"}, a5 |-> {"none failed"}]
    IN  Claimed(load @@ sfu @@ cascade @@ mesh @@ sync)

\* Those that the scenario records, weakens or never looks at, and passes without.
HeaderUnchecked == Claimed([
    s9 |-> {"no leak"},
    t1 |-> {"time to media", "upload independent of n"},
    t8 |-> {"participants match", "offers of all others"},
    t9 |-> {"settled"},
    t10 |-> {"distinct resolutions", "ratio"},
    t11 |-> {"targets a participant"},
    t15 |-> {"two layers"},
    f3 |-> {"relayed"},
    f4 |-> {"existing peers stay", "probe stays"},
    f5 |-> {"participants match throughout", "joins bounded"},
    f6 |-> {"by membership", "responsive"},
    f7 |-> {"auth error"},
    f8 |-> {"tracks of C", "stale offer cleared"},
    f9 |-> {"pipes", "own peers connected"},
    w5 |-> {"relayed"},
    max |-> {"overflow"},
    c1 |-> {"removal converged"}])

\* t13 alone, with nothing excepted.
OnlyT13 == [t13 |-> T13PeerDeparture]
NoExceptions == [property \in DOMAIN KnownExceptions |-> {}]
=============================================================================
