---------------------------- MODULE ScenariosSync ----------------------------
(***************************************************************************)
(* The scenarios on several executors, the convergence of two agents over  *)
(* a link language, and the ones that run scripts or a pod of their own.   *)
(***************************************************************************)
EXTENDS ScenariosLoad

Links(k) == Measure("links", {Client(k)})
StopExecutor(k) == Close({Executor(k)})

\* startExecutor, then waitForHealth; the variable refers to it in between.
Boot(k) == Make(Executor(k)) \o Keep({Executor(k)}) \o Call({Executor(k)})
\* A client the cleanup does not know of.
Connect(k) == Dial(Client(k), {Executor(k)})
\* (mutant) As if the client were left to itself.
DisconnectForgotten(k) == Keep({Client(k)})
Disconnect(k) == Keep({Client(k)}) \o Close({Client(k)})
Work(t, k) == CatchingTask(t, {Client(k)})

(***************************************************************************)
(* Independent baselines on several executors.                             *)
(***************************************************************************)
\* The second executor is the runner's; nothing is compared between the two.
M1NeighbourhoodSync ==
    Dial(Client(2), {}) \o Measure("health", {Client(2)}) \o OrFail("health")
      \o Agent \o Measure("agent", {Client(2)})
      \o Measure("perspective", {})
      \o Unless("perspective", Disconnect(2) \o Return(FALSE))
      \o Measure("links", {}) \o Measure("perspective", {Client(2)})
      \o When("perspective", Links(2)) \o Disconnect(2) \o Judge({})

\* An executor joins the two lists in two steps, with calls in between.
M2MultiExecutor ==
    Agent \o Perspective \o Measure("links", {}) \o Observe("binary") \o OrSkip("binary")
      \o Iterate(LAMBDA k :
           TryCatch(Make(Executor(k)) \o Call({Executor(k)}) \o Keep({Executor(k)})
                      \o Dial(Client(k), {Executor(k)}) \o Keep({Client(k)}), <<>>))
      \o AllOf({Work(<<"work", k>>, k) : k \in 1..Width})
      \o Close(All("client")) \o Close(All("executor")) \o Judge({})

\* Docker services, probed; the flag that the cleanup reads is set when all of
\* them are up.
M3LinkLanguages ==
    LET Docker == <<"docker", 1>>
    IN  TryFinally(
          Observe("docker") \o OrSkip("docker")
            \o TryCatch(Make(Docker) \o Call({}) \o Keep({Docker}), Return(FALSE))
            \o Measure("services", {}) \o Agent \o Measure("perspective", {})
            \o Measure("links", {}) \o Measure("queries", {}) \o Return(TRUE),
          Close({Docker}))

\* Whatever is thrown becomes a result of its own.
M4WriteLoad ==
    TryFinally(
        TryCatch(
          Boot(2) \o Connect(2) \o Agent \o Measure("agent", {Client(2)})
            \o Measure("perspectives", {Client(2)}) \o Demand("perspectives")
            \o Measure("links", {})
            \o AllOf({CatchingTask("writer 1", {}), Work("writer 2", 2)})
            \o AllOf({CatchingTask("pressure", {}), Work("probe", 2)})
            \o Disconnect(2) \o Return(TRUE),
          Return(FALSE)),
        StopExecutor(2))

M5ConcurrentNeighbourhoods ==
    LET Others == {2, 3}
        Phase(p) == AllOf({Work(<<p, k>>, k) : k \in Others} \cup {CatchingTask(<<p, 1>>, {})})
    IN  TryFinally(
          TryCatch(
            Boot(2) \o Boot(3) \o Connect(2) \o Connect(3)
              \o Measure("perspectives", {Client(2), Client(3)}) \o Demand("perspectives")
              \o Phase("single") \o Phase("several") \o Phase("pressure")
              \o Measure("queries", {Client(2), Client(3)})
              \o Disconnect(2) \o Disconnect(3) \o Return(TRUE),
            Return(FALSE)),
          StopExecutor(2) \o StopExecutor(3))

(***************************************************************************)
(* c1: two agents over the backend of a language.                          *)
(***************************************************************************)
\* keySet: the links that a query answers; a failed query has none.
C1Converge ==
    LET HasAll(answers, all, rs) ==
            Measure(answers, rs) \o Forget(all) \o When(answers, Observe(all))
    IN  Iterate(LAMBDA tick : Unless("converged",
          HasAll("A answers", "A has all", {}) \o HasAll("B answers", "B has all", {Client(2)})
            \o When("A has all", When("B has all", Note("converged")))))

C1Removal ==
    LET Lacks(answers, lacks, rs) ==
            Measure(answers, rs) \o Note(lacks) \o When(answers, Observe(lacks))
    IN  TryCatch(
          Measure("own link", {}) \o Demand("own link") \o Call({})
            \o Iterate(LAMBDA tick : Unless("removal converged",
                 Lacks("A answers", "A lacks", {}) \o Lacks("B answers", "B lacks", {Client(2)})
                   \o When("A lacks", When("B lacks", Note("removal converged"))))),
          <<>>)

\* convergence/provision.ts.  The homeserver asks for a second request with a
\* session, which only an open registration can answer.
ProvisionMatrix ==
    Measure("registered", {})
      \o Unless("registered", Expect("open registration") \o Call({}))
      \o Expect("access token") \o Call({}) \o Expect("room id")

ProvisionAtproto == Call({}) \o Expect("did")

\* What the language needs at its backend; without it c1 is passed over.
Provision ==
    Observe("matrix") \o Observe("atproto")
      \o TryCatch(When("matrix", ProvisionMatrix)
                    \o Unless("matrix", When("atproto", ProvisionAtproto)),
                  Return(TRUE))

C1Neighbourhood ==
    Measure("published", {}) \o OrFail("published")
      \o Provision
      \o Measure("templated", {}) \o OrFail("templated")
      \o Measure("perspective", {}) \o OrFail("perspective")
      \o Measure("neighbourhood", {}) \o OrFail("neighbourhood")
      \o TryCatch(Call({Client(2)}), Return(FALSE))

C1Convergence ==
    Observe("language") \o OrSkip("language") \o Observe("backend") \o OrSkip("backend")
      \o TryFinally(
        TryCatch(
          Boot(2) \o Make(Client(2)) \o Keep({Client(2)}) \o Dial(Client(2), {Executor(2)})
            \o Agent \o Measure("agent", {Client(2)})
            \o C1Neighbourhood
            \o Measure("links", {}) \o Links(2)
            \o C1Converge \o When("converged", C1Removal) \o Judge({"converged"}),
          Return(FALSE)),
        Close({Client(2)}) \o StopExecutor(2))

(***************************************************************************)
(* The a series, without an executor of the runner.                        *)
(***************************************************************************)
\* A script for each route passes, is passed over, or fails; one that passes
\* and none that fails is a pass.
SubRuns ==
    Note("none failed") \o Forget("some passed")
      \o Iterate(LAMBDA route :
           Observe("script") \o When("script",
             Observe("script passes")
               \o When("script passes", Note("some passed"))
               \o Unless("script passes",
                    Observe("script skips") \o Unless("script skips", Forget("none failed")))))
      \o Judge({"some passed", "none failed"})

A2ProvisionConnect == SubRuns
A4Waker == SubRuns
A5AvLoop == SubRuns

\* A pod, its tools called one after the other; the pod is stopped either way.
A3McpThroughput ==
    LET Pod == <<"pod", 1>>
    IN  Note("no errors") \o TryFinally(
          TryCatch(
            Make(Pod) \o Keep({Pod}) \o Call({Pod}) \o Call({Pod}) \o Call({Pod})
              \o Call({Pod}) \o Expect("uuid")
              \o Iterate(LAMBDA call : Measure("found", {Pod}) \o Unless("found", Forget("no errors")))
              \o Judge({"no errors"}),
            Return(FALSE)),
          Close({Pod}))
=============================================================================
