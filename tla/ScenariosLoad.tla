--------------------------- MODULE ScenariosLoad ---------------------------
(***************************************************************************)
(* The s series: load on one executor through the client of the runner,    *)
(* whose typed calls never throw (client.ts 113-130), and through clients, *)
(* subscribers and executors of the scenario's own.                        *)
(***************************************************************************)
EXTENDS ScenarioSteps

Client(i) == <<"client", i>>
Subscriber(i) == <<"subscriber", i>>
Executor(i) == <<"executor", i>>

Agent == Measure("agent", {})
Perspective == Measure("perspective", {}) \o OrFail("perspective")

S1ColdStart ==
    Measure("health", {}) \o Agent \o OrFail("agent") \o Perspective
      \o Measure("first link", {}) \o Measure("first query", {}) \o Judge({})

S2LinkThroughput ==
    Agent \o Perspective \o Measure("links", {}) \o Measure("queries", {}) \o Judge({})

\* Batches until a ceiling is hit; what was added until then is the result.
S2bMillionLinks ==
    Agent \o Perspective \o Forget("ceiling")
      \o Iterate(LAMBDA tier : Unless("ceiling",
             Measure("links", {}) \o Observe("ceiling") \o Measure("queries", {})))
      \o Judge({})

S3PerspectiveScaling ==
    Agent \o Iterate(LAMBDA i :
        Measure("perspective", {}) \o When("perspective", Measure("links", {})))
      \o Judge({})

\* A burst of perspectives, then a burst of links on those that exist.
S4LanguageInstallStorm ==
    LET Burst(t) == Start({CatchingTask(<<t, i>>, {}) : i \in 1..Width})
                      \o Join({<<t, i>> : i \in 1..Width})
    IN  Agent \o Burst("create") \o Measure("created", {})
          \o When("created", Burst("link")) \o Judge({})

S5QueryScaling ==
    Agent \o Perspective
      \o Iterate(LAMBDA size : Measure("links", {}) \o Measure("queries", {})) \o Judge({})

\* (mutant) As if the clients were closed before their operations are awaited.
S6ClosesEarly ==
    Agent \o Perspective \o Measure("seed", {})
      \o Iterate(LAMBDA i : Dial(Client(i), {}) \o Keep({Client(i)}))
      \o Start({CatchingTask(<<"ops", i>>, {Client(i)}) : i \in 1..Width})
      \o Close(All("client")) \o Join({<<"ops", i>> : i \in 1..Width}) \o Judge({})
\* (mutant) As if only the first client were awaited.
S6AwaitsOne ==
    Agent \o Perspective \o Measure("seed", {})
      \o Iterate(LAMBDA i : Dial(Client(i), {}) \o Keep({Client(i)}))
      \o Start({CatchingTask(<<"ops", i>>, {Client(i)}) : i \in 1..Width})
      \o Join({<<"ops", 1>>}) \o Close(All("client")) \o Judge({})
\* Clients that connect one by one and then work side by side.
S6ApiConcurrency ==
    Agent \o Perspective \o Measure("seed", {})
      \o Iterate(LAMBDA i : Dial(Client(i), {}) \o Keep({Client(i)}))
      \o Start({CatchingTask(<<"ops", i>>, {Client(i)}) : i \in 1..Width})
      \o Join({<<"ops", i>> : i \in 1..Width})
      \o Close(All("client")) \o Judge({})

S7MemoryStability ==
    Agent \o Perspective
      \o Iterate(LAMBDA tick : Measure("links", {}) \o Measure("queries", {})
                                 \o Measure("next perspective", {}))
      \o Judge({})

\* Three kinds of links, through timed calls only.
S8SeedGraph == Measure("channels", {}) \o Measure("messages", {}) \o Measure("conversations", {})

\* Each query is timed in a try block of its own.
S8Benchmark == Iterate(LAMBDA query : Measure("query", {}))

\* A tier whose perspective cannot be made is left out.
S8SubjectClassQueries ==
    Agent \o Perspective \o Measure("sparql", {})
      \o Iterate(LAMBDA tier : Measure("tier", {}) \o When("tier", S8SeedGraph \o S8Benchmark))
      \o Judge({})

\* The socket is made first; the time limit on its opening does not close it.
S9OpenSubscriber ==
    TryCatch(Make(Subscriber(1)) \o Call({Subscriber(1)}) \o Keep({Subscriber(1)}), <<>>)

\* Only some modes have a link language, and any failure goes on without one.
S9Publish ==
    Observe("mode publishes")
      \o When("mode publishes",
           Note("source") \o Observe("centralized")
             \o When("centralized",
                  Forget("source") \o Observe("bundle") \o When("bundle", Measure("source", {})))
             \o When("source", Measure("templated", {})
                  \o When("templated", Measure("neighbourhood", {}))))

S9MemoryLeak ==
    Observe("pid") \o OrFail("pid") \o Agent \o Perspective
      \o S9Publish \o S9OpenSubscriber
      \o Measure("seed", {}) \o Measure("links", {}) \o Measure("queries", {})
      \o Close({Subscriber(1)}) \o Judge({})

\* Its time limit does not close the socket, which may open late.
CreateWSSubscriber(s) == Make(s) \o Call({s})

\* A tier that lacks a subscriber closes those it has and is left out.
S10Tier(tier) ==
    LET Sub(i) == Subscriber((tier - 1) * Width + i)
        Subs == {Sub(i) : i \in 1..Width}
    IN  Forget("tier")
          \o TryCatch(
               Iterate(LAMBDA i : CreateWSSubscriber(Sub(i)) \o Keep({Sub(i)})) \o Note("tier"),
               Close(Subs))
          \o When("tier", Measure("writes", {}) \o Close(Subs))

S10SubscriptionFanout ==
    Agent \o Perspective \o Iterate(S10Tier) \o Judge({})

\* startExecutorRaw; nothing stops the executor if it never gets healthy.
S12Boot(i) == Make(Executor(i)) \o Keep({Executor(i)}) \o Call({Executor(i)})

S12Seed ==
    S12Boot(1) \o Dial(Client(1), {Executor(1)}) \o Keep({Client(1)})
      \o Measure("agent", {Client(1)}) \o Measure("perspective", {Client(1)})
      \o Unless("perspective", Close({Executor(1)}) \o Return(FALSE))
      \o Measure("links", {Client(1)})
      \o Close({Client(1)}) \o Close({Executor(1)})

S12ColdQueries ==
    S12Boot(2) \o Dial(Client(2), {Executor(2)}) \o Keep({Client(2)})
      \o Measure("cold queries", {Client(2)}) \o Measure("warm queries", {Client(2)})
      \o Close({Client(2)}) \o Close({Executor(2)})

S12Persistence ==
    Observe("binary") \o OrFail("binary") \o Observe("init") \o OrFail("init")
      \o S12Seed \o S12ColdQueries \o Judge({})

\* Writers and readers share a flag; five seconds after it is cleared their
\* clients are closed, whether they have noticed or not.
S13ReadWriteMix ==
    LET Tasks == {<<k, i>> : k \in {"writer", "reader"}, i \in 1..Width}
    IN  Agent \o Perspective \o Measure("seed", {})
          \o Iterate(LAMBDA i : Dial(<<"writer", i>>, {}) \o Keep({<<"writer", i>>}))
          \o Iterate(LAMBDA i : Dial(<<"reader", i>>, {}) \o Keep({<<"reader", i>>}))
          \o Start({Loop(t, {t}) : t \in Tasks}) \o Stop(Tasks) \o Grace(Tasks)
          \o Close(Tasks) \o Measure("final query", {}) \o Judge({})

S14MultiPerspective ==
    Agent
      \o Iterate(LAMBDA i : Measure("perspective", {}) \o When("perspective", Note("some")))
      \o OrFail("some")
      \o Iterate(LAMBDA p : Measure("links", {}) \o Measure("queries", {}))
      \o Measure("isolation", {}) \o Judge({})

S15LeakAttribution ==
    Observe("pid") \o OrFail("pid") \o Agent \o Perspective
      \o Measure("seed", {}) \o Measure("links", {}) \o Measure("queries", {}) \o Judge({})
=============================================================================
